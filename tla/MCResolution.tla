---------------------------- MODULE MCResolution ----------------------------
(***************************************************************************)
(* One interface I with a method m1 (in-args a1 a2, out-arg a3), a signal *)
(* s1 (arg a4) and a property p1 (value argument v1).  Trees ranges over  *)
(* the parsed trees whose contents vary where the properties can tell     *)
(* them apart: first-match and nested annotations, since strings the      *)
(* parser already set, unnamed arguments on both sides of a method, handle *)
(* signatures with and without h_type_implies_unix_fd, ForceGVariant on a *)
(* property, valid and invalid access strings.                            *)
(***************************************************************************)
EXTENDS Resolution

\* An annotation, and one carrying nested annotations.
Ann(k, v) == [key |-> k, value |-> v, anns |-> <<>>]
AnnN(k, v, nested) == [key |-> k, value |-> v, anns |-> nested]

MCIface == "I"
MCMethodSeq == <<"m1">>
MCSignalSeq == <<"s1">>
MCPropertySeq == <<"p1">>
MCInArgs == [m1 |-> <<"a1", "a2">>]
MCOutArgs == [m1 |-> <<"a3">>]
MCSignalArgs == [s1 |-> <<"a4">>]
MCValueArg == [p1 |-> "v1"]
MCMemberName == [m1 |-> "GetFoo", s1 |-> "Changed", p1 |-> "Type"]

Entity == {"I", "m1", "s1", "p1", "a1", "a2", "a3", "a4", "v1"}
NoDocs == [e \in Entity |-> ""]
NoSince == [e \in Entity |-> ""]

\* Trees varying what the since and doc inheritance depends on: first-match
\* and nested Since annotations at every level, since strings the parser
\* already set on the interface, the method and the property, and a
\* property whose own since differs from what its value argument resolves.
SinceAnns ==
    [I  : {<<>>,
           <<Ann(SinceKey, "1.0")>>,
           <<Ann(DocKey, "iface"), AnnN(DeprecatedKey, "true", <<Ann(SinceKey, "0.5")>>)>>},
     m1 : {<<>>,
           <<Ann(SinceKey, "2.0"), Ann(SinceKey, "9.9")>>,
           <<AnnN(DeprecatedKey, "true", <<Ann(SinceKey, "3.0")>>)>>},
     a1 : {<<>>, <<Ann(SinceKey, "2.1")>>},
     a2 : {<<>>}, a3 : {<<>>}, s1 : {<<>>}, a4 : {<<>>}, v1 : {<<>>},
     p1 : {<<>>,
           <<Ann(EmitsKey, "const")>>,
           <<Ann(SinceKey, "2.0"), AnnN(EmitsKey, "false", <<Ann(SinceKey, "4.0")>>)>>}]

SinceTrees ==
    [anns : SinceAnns,
     sig : {[a1 |-> "s", a2 |-> "ay", a3 |-> "as", a4 |-> "u", v1 |-> "b"]},
     argName : {[a1 |-> "x", a2 |-> "y", a3 |-> None, a4 |-> None, v1 |-> "value"]},
     since : {[NoSince EXCEPT !.I = i, !.m1 = m, !.p1 = p] :
                i \in {"", "0.9"}, m \in {"", "1.5"}, p \in {"", "1.5"}},
     doc : {NoDocs},
     htype : {[m1 |-> FALSE]}, access : {[p1 |-> "read"]}]

\* Trees varying what argument numbering, handle passing and bindings
\* depend on: unnamed arguments on both sides of the method, handle
\* signatures with h_type_implies_unix_fd on and off, a UnixFD annotation
\* whose value is "false", ForceGVariant on an argument and on a property,
\* valid and invalid access strings.
ArgAnns ==
    [I : {<<>>}, a1 : {<<>>}, a2 : {<<>>}, s1 : {<<>>}, a4 : {<<>>}, v1 : {<<>>},
     m1 : {<<>>, <<Ann(UnixFDKey, "false")>>},
     a3 : {<<>>, <<Ann(ForceKey, "false")>>},
     p1 : {<<>>, <<Ann(ForceKey, "true"), Ann(EmitsKey, "true")>>}]

ArgTrees ==
    [anns : ArgAnns,
     sig : [a1 : {"s", "h"}, a2 : {"ay"}, a3 : {"as", "ah"}, a4 : {"u"}, v1 : {"b"}],
     argName : [a1 : {None, "x"}, a2 : {"y"}, a3 : {None, "z", "unnamed_arg0"}, a4 : {None}, v1 : {"value"}],
     since : {NoSince}, doc : {NoDocs},
     htype : [m1 : BOOLEAN], access : [p1 : {"readwrite", "bogus"}]]
\* Both families of trees.
AllTrees == SinceTrees \cup ArgTrees
=============================================================================
