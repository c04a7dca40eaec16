----------------------------- MODULE MCSiblings -----------------------------
(***************************************************************************)
(* A wider interface: two methods (m1 with in-arg a1 and out-arg a2, m2   *)
(* with in-arg b1), a signal s1 (arg c1) and two properties p1, p2 (value *)
(* arguments v1, v2).  The trees vary what one member could leak into its *)
(* sibling: unnamed arguments in both methods, handle signatures with     *)
(* h_type_implies_unix_fd set per method, a since and a ForceGVariant on  *)
(* one sibling only, and an EmitsChangedSignal on one property only.      *)
(***************************************************************************)
EXTENDS Resolution

\* An annotation without nested annotations.
SAnn(k, v) == [key |-> k, value |-> v, anns |-> <<>>]

SibIface == "I"
SibMethodSeq == <<"m1", "m2">>
SibSignalSeq == <<"s1">>
SibPropertySeq == <<"p1", "p2">>
SibInArgs == [m1 |-> <<"a1">>, m2 |-> <<"b1">>]
SibOutArgs == [m1 |-> <<"a2">>, m2 |-> <<>>]
SibSignalArgs == [s1 |-> <<"c1">>]
SibValueArg == [p1 |-> "v1", p2 |-> "v2"]
SibMemberName == [m1 |-> "GetFoo", m2 |-> "SetFoo", s1 |-> "Changed",
                  p1 |-> "Type", p2 |-> "Count"]

SibEntity == {"I", "m1", "m2", "s1", "p1", "p2", "a1", "a2", "b1", "c1", "v1", "v2"}

SibAnns ==
    [I  : {<<>>, <<SAnn(SinceKey, "1.0")>>},
     m1 : {<<>>, <<SAnn(SinceKey, "2.0")>>},
     m2 : {<<>>}, s1 : {<<>>}, a1 : {<<>>}, a2 : {<<>>}, b1 : {<<>>},
     c1 : {<<>>}, v1 : {<<>>}, v2 : {<<>>},
     p1 : {<<>>, <<SAnn(ForceKey, "true"), SAnn(SinceKey, "3.0")>>},
     p2 : {<<>>, <<SAnn(EmitsKey, "false")>>}]

SiblingTrees ==
    [anns : SibAnns,
     sig : [a1 : {"h"}, a2 : {"s"}, b1 : {"h", "u"}, c1 : {"u"},
            v1 : {"ah"}, v2 : {"i"}],
     argName : [a1 : {None, "x"}, a2 : {None, "y"}, b1 : {None, "z"},
                c1 : {None}, v1 : {"value"}, v2 : {"value"}],
     since : {[e \in SibEntity |-> ""]},
     doc : {[e \in SibEntity |-> ""]},
     htype : [m1 : BOOLEAN, m2 : BOOLEAN],
     access : {[p1 |-> "read", p2 |-> "readwrite"]}]
=============================================================================
