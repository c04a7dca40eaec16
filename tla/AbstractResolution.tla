------------------------- MODULE AbstractResolution -------------------------
(***************************************************************************)
(* What Interface.post_process promises, without the order it works in:   *)
(* one step takes the parsed tree to its resolved model, and every        *)
(* resolved attribute is a function of the tree alone, stated per entity  *)
(* as a fill-if-empty chain (explicit field, own annotations, parent).   *)
(* Resolution refines this specification: its pass of many small steps   *)
(* ends in exactly the model Resolved(tree).                               *)
(*                                                                         *)
(* The one place the chain is not the entity's own parent is a property's *)
(* annotation list: its value argument walks the list first, so those     *)
(* annotations inherit the argument's since before the property's.       *)
(***************************************************************************)
EXTENDS InterfaceTree, SignatureTable

VARIABLES tree, phase, model
avars == <<tree, phase, model>>

Unresolved == [pending |-> TRUE]

\* The property whose value an argument is, if any, and the annotation list
\* the argument reads (the property's, shared since Property.__init__).
IsValueArg(a) == \E p \in Properties : ValueArg[p] = a
ListOwner(a) == IF IsValueArg(a) THEN CHOOSE p \in Properties : ValueArg[p] = a ELSE a
ListOf(t, e) == t.anns[IF e \in Args THEN ListOwner(e) ELSE e]

\* An argument's position in its member's argument list, counted from 0
\* across the in- and then the out-arguments of a method.
ArgLists == {MethodArgs(m) : m \in Methods} \cup {SignalArgs[s] : s \in Signals}
            \cup {<<ValueArg[p]>> : p \in Properties}
ArgNumber(a) ==
    LET s == CHOOSE l \in ArgLists : \E k \in 1..Len(l) : l[k] = a
    IN (CHOOSE k \in 1..Len(s) : s[k] = a) - 1

\* since: the interface's own, a member's falling back to the interface's,
\* an argument's from its own list only.
IfaceSince(t) == FirstNonEmpty(<<t.since[Iface], LookupSince(t.anns[Iface])>>)
SinceOf(t, e) ==
    CASE e = Iface     -> IfaceSince(t)
      [] e \in Members -> FirstNonEmpty(<<t.since[e], LookupSince(t.anns[e]), IfaceSince(t)>>)
      [] OTHER         -> FirstNonEmpty(<<t.since[e], LookupSince(ListOf(t, e))>>)

\* The since the annotations of an owner's list fall back to.
OwnerSince(t, o) ==
    IF o \in Properties
    THEN FirstNonEmpty(<<SinceOf(t, ValueArg[o]), SinceOf(t, o)>>)
    ELSE SinceOf(t, o)

RECURSIVE AnnSinceOf(_, _)
AnnSinceOf(t, q) ==
    FirstNonEmpty(<<LookupSince(AnnIn(t.anns[q[1]], Tail(q)).anns),
                    IF Len(q) = 2 THEN OwnerSince(t, q[1]) ELSE AnnSinceOf(t, Front(q))>>)

\* The name forms of the interface and of a member.
NamesOf(t, e) ==
    LET over == LookupAnnotation(t.anns[e], NameKey) IN
    IF e = Iface
    THEN IfaceNamesFor[over]
    ELSE [nameLower |-> IF e \in Properties THEN PropertyLowerFor[e, over]
                                          ELSE MemberLowerFor[e, over],
          nameHyphen |-> HyphenFor[e, over]]

\* Property.__init__: the modes an access string grants; any other string
\* grants neither.
Readable(access) == access \in {"read", "readwrite"}
Writable(access) == access \in {"write", "readwrite"}

\* The resolved model of a parsed tree.
Resolved(t) ==
    [since      |-> [e \in Entities |-> SinceOf(t, e)],
     readable   |-> [p \in Properties |-> Readable(t.access[p])],
     writable   |-> [p \in Properties |-> Writable(t.access[p])],
     doc        |-> [e \in Entities |-> Fill(t.doc[e], LookupDocs(ListOf(t, e)))],
     docBrief   |-> LookupBriefDocs(t.anns[Iface]),
     argName    |-> [a \in Args |-> IF t.argName[a] = None
                                    THEN "unnamed_arg" \o ToString(ArgNumber(a))
                                    ELSE t.argName[a]],
     annSince   |-> [q \in AnnPathsOf(t.anns) |-> AnnSinceOf(t, q)],
     keyLower   |-> [q \in AnnPathsOf(t.anns) |-> KeyLowerFor[AnnIn(t.anns[q[1]], Tail(q))]],
     names      |-> [e \in {Iface} \cup Members |-> NamesOf(t, e)],
     deprecated |-> [e \in {Iface} \cup Members |->
                       LookupAnnotation(t.anns[e], DeprecatedKey) = "true"],
     unixFd     |-> [m \in Methods |->
                       \/ t.htype[m] /\ \E k \in 1..Len(MethodArgs(m)) :
                                         HasHandle(t.sig[MethodArgs(m)[k]])
                       \/ Truthy(LookupAnnotation(t.anns[m], UnixFDKey))],
     emitsChanged |-> [p \in Properties |->
                       LookupAnnotation(t.anns[p], EmitsKey) \notin {"false", "const"}],
     binding    |-> [a \in Args |->
                       Binding(t.sig[a], Truthy(LookupAnnotation(ListOf(t, a), ForceKey)))]]

\* The resolved model of every tree the pass may be given, computed once.
ResolvedFor == [t \in Trees |-> Resolved(t)]

Init ==
    /\ tree \in Trees
    /\ phase = "parsed"
    /\ model = Unresolved

\* Interface.post_process, as one step.
Resolve ==
    /\ phase = "parsed"
    /\ phase' = "resolved"
    /\ model' = ResolvedFor[tree]
    /\ UNCHANGED tree

\* The pass is a plain function call that returns: once started it runs to
\* the end.
Spec == Init /\ [][Resolve]_avars /\ WF_avars(Resolve)
=============================================================================
