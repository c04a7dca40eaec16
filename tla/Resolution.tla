----------------------------- MODULE Resolution -----------------------------
(***************************************************************************)
(* Interface.post_process of dbustypes.py: the single depth-first pass    *)
(* that resolves a parsed D-Bus interface tree.  The tree's shape (which  *)
(* methods, signals, properties and arguments exist) is fixed by          *)
(* constants; its contents (annotations, signatures, declared argument    *)
(* names, the since and doc strings the parser already set, the access    *)
(* strings, h_type_implies_unix_fd) are chosen in Init and never change.  *)
(*                                                                         *)
(* Each action is one stretch of a post_process method between two calls *)
(* into children.  Schedule lists the stretches in the order the nested   *)
(* for-loops of the code run them, so every behaviour is the one run of  *)
(* the pass on one tree.  An annotation list is an object  *)
(* named by its owner: the synthetic "value" argument of a property reads *)
(* the list of argAnns[arg], which Property.__init__ makes the property's *)
(* own list (self.arg.annotations = self.annotations).                    *)
(***************************************************************************)
EXTENDS InterfaceTree, SignatureTable, TLC

VARIABLES
    tree,         \* the parsed input: anns, sig, htype, access, since, doc, argName
    argAnns,      \* [Args -> Owners]: whose annotation list each argument reads
    argName,      \* [Args -> name or None]
    doc,          \* [Entities -> doc_string]
    docBrief,     \* the interface's doc_string_brief
    since,        \* [Entities -> since]
    annSince,     \* [annotation path -> since]
    keyLower,     \* [annotation path -> key_lower]
    names,        \* [{Iface} \cup Members -> resolved name forms]
    deprecated,   \* [{Iface} \cup Members -> BOOLEAN]
    unixFd,       \* [Methods -> BOOLEAN]
    readable,     \* [Properties -> BOOLEAN]
    writable,     \* [Properties -> BOOLEAN]
    emitsChanged, \* [Properties -> BOOLEAN]
    binding,      \* [Args -> descriptor]
    stack         \* the stretches of post_process still to run

vars == <<tree, argAnns, argName, doc, docBrief, since, annSince, keyLower,
          names, deprecated, unixFd, readable, writable, emitsChanged, binding, stack>>

-----------------------------------------------------------------------------
(***************************************************************************)
(* Annotations.  An annotation is [key, value, anns]; it is named by its  *)
(* path: the owner of the list it sits in, then its position in each      *)
(* enclosing list.                                                         *)
(***************************************************************************)

\* The annotation at a path, and the list at a location (an owner <<o>>
\* or an annotation path, whose nested list is meant).
AnnAt(path) == AnnIn(tree.anns[path[1]], Tail(path))
ListAt(loc) == IF Len(loc) = 1 THEN tree.anns[loc[1]] ELSE AnnAt(loc).anns

\* The container an annotation's post_process is handed: an entity or an
\* enclosing annotation.
EntityC(e) == [kind |-> "entity", ref |-> e]
AnnotationC(path) == [kind |-> "annotation", ref |-> path]
ContainerSince(c) == IF c.kind = "entity" THEN since[c.ref] ELSE annSince[c.ref]

-----------------------------------------------------------------------------
(***************************************************************************)
(* The calls of the pass.  stack holds the stretches still to run, the    *)
(* next one first; a stretch that calls into children pushes their        *)
(* stretches, followed by its own continuation, in the order its for-     *)
(* loops make the calls.                                                   *)
(***************************************************************************)

\* `for a in <list at loc>: a.post_process(..., container)`
AnnotationCalls(loc, container) ==
    [i \in 1..Len(ListAt(loc)) |->
        [kind |-> "annotation", path |-> loc \o <<i>>, container |-> container]]

\* Seeded fault: arguments numbered from 1.
ArgCallsFromOne(kind, owner, args) ==
    [k \in 1..Len(args) |-> [kind |-> kind, ent |-> owner, arg |-> args[k], number |-> k]]

\* Seeded fault: arg_count kept across the methods of the interface
\* instead of starting from 0 in each method.
ArgCallsPerInterface(kind, owner, args) ==
    LET earlier == IF owner \in Methods
                   THEN LET i == CHOOSE j \in 1..Len(MethodSeq) : MethodSeq[j] = owner
                        IN Len(FlattenSeq([j \in 1..i - 1 |-> MethodArgs(MethodSeq[j])]))
                   ELSE 0
    IN [k \in 1..Len(args) |->
          [kind |-> kind, ent |-> owner, arg |-> args[k], number |-> earlier + k - 1]]

\* `for a in args: a.post_process(..., arg_count); arg_count += 1`
ArgCalls(kind, owner, args) ==
    [k \in 1..Len(args) |-> [kind |-> kind, ent |-> owner, arg |-> args[k], number |-> k - 1]]

\* The three member loops of Interface.post_process, then its annotations.
InterfaceCalls ==
    [k \in 1..Len(MethodSeq) |-> [kind |-> "method", ent |-> MethodSeq[k]]]
    \o [k \in 1..Len(SignalSeq) |-> [kind |-> "signal", ent |-> SignalSeq[k]]]
    \o [k \in 1..Len(PropertySeq) |-> [kind |-> "property", ent |-> PropertySeq[k]]]
    \o AnnotationCalls(<<Iface>>, EntityC(Iface))

Done == stack = <<>>
Step == Head(stack)
\* Replace the running stretch by the calls it makes.
Call(calls) == stack' = calls \o Tail(stack)

-----------------------------------------------------------------------------
(***************************************************************************)
(* The stretches of post_process.                                          *)
(***************************************************************************)


\* The constructors: the fields each __init__ gives that the pass reads or
\* writes.  doc_string, since and name are left to the parser (tree).
\* Arg.__init__ gives every argument a list of its own; Property.__init__
\* builds the value argument and makes it read the property's list.
ArgNew(a) == [annList |-> IF \E p \in Properties : ValueArg[p] = a
                         THEN CHOOSE p \in Properties : ValueArg[p] = a
                         ELSE a]
MethodNew == [deprecated |-> FALSE, unixFd |-> FALSE]
SignalNew == [deprecated |-> FALSE]
\* An access string other than the three modes is reported by print_error
\* and construction goes on with both flags FALSE.
PropertyNew(access) ==
    [deprecated |-> FALSE, emitsChanged |-> TRUE,
     readable |-> AccessFlags(access).r, writable |-> AccessFlags(access).w]
InterfaceNew == [deprecated |-> FALSE, docBrief |-> ""]

\* The tree as the parser hands it over: every object built by its
\* constructor, with the fields the parser set.
Init ==
    /\ tree \in Trees
    /\ argAnns = [a \in Args |-> ArgNew(a).annList]
    /\ argName = tree.argName
    /\ doc = tree.doc
    /\ docBrief = InterfaceNew.docBrief
    /\ since = tree.since
    /\ annSince = [q \in AnnPathsOf(tree.anns) |-> ""]
    /\ keyLower = [q \in AnnPathsOf(tree.anns) |-> None]
    /\ names = [e \in {Iface} \cup Members |-> [pending |-> TRUE]]
    /\ deprecated = [e \in {Iface} \cup Members |->
                       CASE e = Iface       -> InterfaceNew.deprecated
                         [] e \in Methods    -> MethodNew.deprecated
                         [] e \in Signals    -> SignalNew.deprecated
                         [] e \in Properties -> PropertyNew(tree.access[e]).deprecated]
    /\ unixFd = [m \in Methods |-> MethodNew.unixFd]
    /\ readable = [p \in Properties |-> PropertyNew(tree.access[p]).readable]
    /\ writable = [p \in Properties |-> PropertyNew(tree.access[p]).writable]
    /\ emitsChanged = [p \in Properties |-> PropertyNew(tree.access[p]).emitsChanged]
    /\ binding = [a \in Args |-> [pending |-> TRUE]]
    /\ stack = <<[kind |-> "iface", ent |-> Iface]>>

\* Interface.post_process up to its first loop: docs, since, the C
\* namespace and name forms, deprecation.
IfacePostProcess ==
    /\ ~Done /\ Step.kind = "iface"
    /\ LET A == tree.anns[Iface] IN
       /\ doc' = [doc EXCEPT ![Iface] = Fill(@, LookupDocs(A))]
       /\ docBrief' = Fill(docBrief, LookupBriefDocs(A))
       /\ since' = [since EXCEPT ![Iface] = Fill(@, LookupSince(A))]
       /\ names' = [names EXCEPT ![Iface] = IfaceNamesFor[LookupAnnotation(A, NameKey)]]
       /\ deprecated' = [deprecated EXCEPT ![Iface] =
                            @ \/ LookupAnnotation(A, DeprecatedKey) = "true"]
    /\ Call(InterfaceCalls)
    /\ UNCHANGED <<tree, argAnns, argName, annSince, keyLower, unixFd, readable,
                   writable, emitsChanged, binding>>

\* Seeded fault: the member falls back to the interface's since as the
\* parser left it, not as the interface resolved it.
MemberHeadStaleIfaceSince(e, nameLower) ==
    LET A == tree.anns[e] IN
    /\ doc' = [doc EXCEPT ![e] = Fill(@, LookupDocs(A))]
    /\ since' = [since EXCEPT ![e] = Fill(@, Fill(LookupSince(A), tree.since[Iface]))]
    /\ names' = [names EXCEPT ![e] =
                    [nameLower |-> nameLower,
                     nameHyphen |-> HyphenFor[e, LookupAnnotation(A, NameKey)]]]

\* The head shared by Method/Signal/Property.post_process: docs, since
\* (falling back to the containing interface's), name_lower, name_hyphen.
MemberHead(e, nameLower) ==
    LET A == tree.anns[e] IN
    /\ doc' = [doc EXCEPT ![e] = Fill(@, LookupDocs(A))]
    /\ since' = [since EXCEPT ![e] = Fill(@, Fill(LookupSince(A), since[Iface]))]
    /\ names' = [names EXCEPT ![e] =
                    [nameLower |-> nameLower,
                     nameHyphen |-> HyphenFor[e, LookupAnnotation(A, NameKey)]]]

\* Seeded fault: arg_count reset between the in- and the out-arguments.
MethodPostProcessPerDirection(m) ==
    /\ ~Done /\ Step = [kind |-> "method", ent |-> m]
    /\ MemberHead(m, MemberLowerFor[m, LookupAnnotation(tree.anns[m], NameKey)])
    /\ Call(ArgCalls("methodArg", m, InArgs[m]) \o ArgCalls("methodArg", m, OutArgs[m])
            \o <<[kind |-> "methodFinish", ent |-> m]>>)
    /\ UNCHANGED <<tree, argAnns, argName, docBrief, annSince, keyLower, deprecated,
                   unixFd, readable, writable, emitsChanged, binding>>

MethodPostProcess(m) ==
    /\ ~Done /\ Step = [kind |-> "method", ent |-> m]
    /\ MemberHead(m, MemberLowerFor[m, LookupAnnotation(tree.anns[m], NameKey)])
    /\ Call(ArgCalls("methodArg", m, MethodArgs(m)) \o <<[kind |-> "methodFinish", ent |-> m]>>)
    /\ UNCHANGED <<tree, argAnns, argName, docBrief, annSince, keyLower, deprecated,
                   unixFd, readable, writable, emitsChanged, binding>>

SignalPostProcess(s) ==
    /\ ~Done /\ Step = [kind |-> "signal", ent |-> s]
    /\ MemberHead(s, MemberLowerFor[s, LookupAnnotation(tree.anns[s], NameKey)])
    /\ Call(ArgCalls("signalArg", s, SignalArgs[s]) \o <<[kind |-> "signalFinish", ent |-> s]>>)
    /\ UNCHANGED <<tree, argAnns, argName, docBrief, annSince, keyLower, deprecated,
                   unixFd, readable, writable, emitsChanged, binding>>

\* Property.post_process up to the value argument: the head, the "type"
\* rename, and `self.arg.annotations = self.annotations`.
PropertyPostProcess(p) ==
    /\ ~Done /\ Step = [kind |-> "property", ent |-> p]
    /\ MemberHead(p, PropertyLowerFor[p, LookupAnnotation(tree.anns[p], NameKey)])
    /\ argAnns' = [argAnns EXCEPT ![ValueArg[p]] = p]
    /\ Call(ArgCalls("propertyArg", p, <<ValueArg[p]>>) \o <<[kind |-> "propertyFinish", ent |-> p]>>)
    /\ UNCHANGED <<tree, argName, docBrief, annSince, keyLower, deprecated,
                   unixFd, readable, writable, emitsChanged, binding>>

\* Seeded fault: an argument without a declared name keeps None.
ArgResolveKeepsNone(a, number) ==
    LET A == tree.anns[argAnns[a]] IN
    /\ doc' = [doc EXCEPT ![a] = Fill(@, LookupDocs(A))]
    /\ since' = [since EXCEPT ![a] = Fill(@, LookupSince(A))]
    /\ argName' = argName
    /\ binding' = [binding EXCEPT ![a] =
                      Binding(tree.sig[a], Truthy(LookupAnnotation(A, ForceKey)))]

\* Seeded fault: the argument reads the list it was constructed with.
ArgResolveOwnList(a, number) ==
    LET A == tree.anns[a] IN
    /\ doc' = [doc EXCEPT ![a] = Fill(@, LookupDocs(A))]
    /\ since' = [since EXCEPT ![a] = Fill(@, LookupSince(A))]
    /\ argName' = [argName EXCEPT ![a] =
                      IF @ = None THEN "unnamed_arg" \o ToString(number) ELSE @]
    /\ binding' = [binding EXCEPT ![a] =
                      Binding(tree.sig[a], Truthy(LookupAnnotation(A, ForceKey)))]

\* Arg.post_process (before its annotation loop) for argument a, the
\* arg_number-th of its owner.
ArgResolve(a, number) ==
    LET A == tree.anns[argAnns[a]] IN
    /\ doc' = [doc EXCEPT ![a] = Fill(@, LookupDocs(A))]
    /\ since' = [since EXCEPT ![a] = Fill(@, LookupSince(A))]
    /\ argName' = [argName EXCEPT ![a] =
                      IF @ = None THEN "unnamed_arg" \o ToString(number) ELSE @]
    /\ binding' = [binding EXCEPT ![a] =
                      Binding(tree.sig[a], Truthy(LookupAnnotation(A, ForceKey)))]


\* One iteration of Method.post_process's argument loops: the argument,
\* then the h_type_implies_unix_fd check on its signature.
\* Seeded fault: h_type_implies_unix_fd not consulted.
MethodArgPostProcessIgnoreHtype(m, a, number) ==
    /\ ~Done /\ Step = [kind |-> "methodArg", ent |-> m, arg |-> a, number |-> number]
    /\ ArgResolve(a, number)
    /\ unixFd' = IF HasHandle(tree.sig[a]) THEN [unixFd EXCEPT ![m] = TRUE] ELSE unixFd
    /\ Call(AnnotationCalls(<<argAnns[a]>>, EntityC(a)))
    /\ UNCHANGED <<tree, argAnns, docBrief, annSince, keyLower, names, deprecated,
                   readable, writable, emitsChanged>>

MethodArgPostProcess(m, a, number) ==
    /\ ~Done /\ Step = [kind |-> "methodArg", ent |-> m, arg |-> a, number |-> number]
    /\ ArgResolve(a, number)
    /\ unixFd' = IF tree.htype[m] /\ HasHandle(tree.sig[a])
                 THEN [unixFd EXCEPT ![m] = TRUE] ELSE unixFd
    /\ Call(AnnotationCalls(<<argAnns[a]>>, EntityC(a)))
    /\ UNCHANGED <<tree, argAnns, docBrief, annSince, keyLower, names, deprecated,
                   readable, writable, emitsChanged>>

\* An argument of a signal, or the value argument of a property (number 0).
ArgPostProcess(e, a, number) ==
    /\ ~Done /\ Step \in {[kind |-> k, ent |-> e, arg |-> a, number |-> number] :
                           k \in {"signalArg", "propertyArg"}}
    /\ ArgResolve(a, number)
    /\ Call(AnnotationCalls(<<argAnns[a]>>, EntityC(a)))
    /\ UNCHANGED <<tree, argAnns, docBrief, annSince, keyLower, names, deprecated,
                   unixFd, readable, writable, emitsChanged>>

\* Method.post_process after its argument loops: deprecation, and the
\* UnixFD annotation, which forces unix_fd on whatever its value.
MethodFinish(m) ==
    /\ ~Done /\ Step = [kind |-> "methodFinish", ent |-> m]
    /\ deprecated' = [deprecated EXCEPT ![m] =
                         @ \/ LookupAnnotation(tree.anns[m], DeprecatedKey) = "true"]
    /\ unixFd' = [unixFd EXCEPT ![m] = @ \/ Truthy(LookupAnnotation(tree.anns[m], UnixFDKey))]
    /\ Call(AnnotationCalls(<<m>>, EntityC(m)))
    /\ UNCHANGED <<tree, argAnns, argName, doc, docBrief, since, annSince, keyLower,
                   names, readable, writable, emitsChanged, binding>>

\* Signal.post_process after its argument loop: deprecation, then its
\* annotations.
SignalFinish(e) ==
    /\ ~Done /\ Step = [kind |-> "signalFinish", ent |-> e]
    /\ deprecated' = [deprecated EXCEPT ![e] =
                         @ \/ LookupAnnotation(tree.anns[e], DeprecatedKey) = "true"]
    /\ Call(AnnotationCalls(<<e>>, EntityC(e)))
    /\ UNCHANGED <<tree, argAnns, argName, doc, docBrief, since, annSince, keyLower,
                   names, unixFd, readable, writable, emitsChanged, binding>>

\* Property.post_process after the value argument: deprecation, then its
\* annotations (walked a second time, now with the property as container),
\* then the EmitsChangedSignal check.
PropertyFinish(e) ==
    /\ ~Done /\ Step = [kind |-> "propertyFinish", ent |-> e]
    /\ deprecated' = [deprecated EXCEPT ![e] =
                         @ \/ LookupAnnotation(tree.anns[e], DeprecatedKey) = "true"]
    /\ Call(AnnotationCalls(<<e>>, EntityC(e)) \o <<[kind |-> "propertyEmits", ent |-> e]>>)
    /\ UNCHANGED <<tree, argAnns, argName, doc, docBrief, since, annSince, keyLower,
                   names, unixFd, readable, writable, emitsChanged, binding>>

\* Property.post_process after its annotation loop: only "false" and
\* "const" turn emits_changed_signal off.
PropertyEmitsChanged(p) ==
    /\ ~Done /\ Step = [kind |-> "propertyEmits", ent |-> p]
    /\ emitsChanged' = IF LookupAnnotation(tree.anns[p], EmitsKey) \in {"false", "const"}
                       THEN [emitsChanged EXCEPT ![p] = FALSE] ELSE emitsChanged
    /\ Call(<<>>)
    /\ UNCHANGED <<tree, argAnns, argName, doc, docBrief, since, annSince, keyLower,
                   names, deprecated, unixFd, readable, writable, binding>>

\* Seeded faults: a nested annotation inherits from the entity owning the
\* outermost list; the since is assigned, not filled.
AnnotationPostProcessOwnerSince(q, c) ==
    /\ ~Done /\ Step = [kind |-> "annotation", path |-> q, container |-> c]
    /\ LET a == AnnAt(q) IN
       /\ keyLower' = [keyLower EXCEPT ![q] = KeyLowerFor[a]]
       /\ annSince' = [annSince EXCEPT ![q] =
                         Fill(@, Fill(LookupSince(a.anns), since[q[1]]))]
    /\ Call(AnnotationCalls(q, AnnotationC(q)))
    /\ UNCHANGED <<tree, argAnns, argName, doc, docBrief, since, names, deprecated,
                   unixFd, readable, writable, emitsChanged, binding>>
AnnotationPostProcessOverwrite(q, c) ==
    /\ ~Done /\ Step = [kind |-> "annotation", path |-> q, container |-> c]
    /\ LET a == AnnAt(q) IN
       /\ keyLower' = [keyLower EXCEPT ![q] = KeyLowerFor[a]]
       /\ annSince' = [annSince EXCEPT ![q] = Fill(LookupSince(a.anns), ContainerSince(c))]
    /\ Call(AnnotationCalls(q, AnnotationC(q)))
    /\ UNCHANGED <<tree, argAnns, argName, doc, docBrief, since, names, deprecated,
                   unixFd, readable, writable, emitsChanged, binding>>

\* Annotation.post_process (before recursing into its own annotations):
\* key_lower, and since from its own annotations or else the container's.
AnnotationPostProcess(q, c) ==
    /\ ~Done /\ Step = [kind |-> "annotation", path |-> q, container |-> c]
    /\ LET a == AnnAt(q) IN
       /\ keyLower' = [keyLower EXCEPT ![q] = KeyLowerFor[a]]
       /\ annSince' = [annSince EXCEPT ![q] =
                         Fill(@, Fill(LookupSince(a.anns), ContainerSince(c)))]
    /\ Call(AnnotationCalls(q, AnnotationC(q)))
    /\ UNCHANGED <<tree, argAnns, argName, doc, docBrief, since, names, deprecated,
                   unixFd, readable, writable, emitsChanged, binding>>

\* The stretch on top of the stack runs next; the pass ends when it is empty.
Next ==
    /\ ~Done
    /\ LET st == Step IN
       \/ st.kind = "iface" /\ IfacePostProcess
       \/ st.kind = "method" /\ MethodPostProcess(st.ent)
       \/ st.kind = "methodArg" /\ MethodArgPostProcess(st.ent, st.arg, st.number)
       \/ st.kind = "methodFinish" /\ MethodFinish(st.ent)
       \/ st.kind = "signal" /\ SignalPostProcess(st.ent)
       \/ st.kind \in {"signalArg", "propertyArg"} /\ ArgPostProcess(st.ent, st.arg, st.number)
       \/ st.kind = "signalFinish" /\ SignalFinish(st.ent)
       \/ st.kind = "property" /\ PropertyPostProcess(st.ent)
       \/ st.kind = "propertyFinish" /\ PropertyFinish(st.ent)
       \/ st.kind = "propertyEmits" /\ PropertyEmitsChanged(st.ent)
       \/ st.kind = "annotation" /\ AnnotationPostProcess(st.path, st.container)

Spec == Init /\ [][Next]_vars
-----------------------------------------------------------------------------
(***************************************************************************)
(* Properties.                                                             *)
(***************************************************************************)

\* Every resolved attribute has its type, and an argument that has been
\* bound also has a name (a declared one or its unnamed_argN placeholder).
TypeOK ==
    /\ argAnns \in [Args -> Owners]
    /\ argName \in [Args -> STRING]
    /\ doc \in [Entities -> STRING] /\ docBrief \in STRING
    /\ since \in [Entities -> STRING]
    /\ annSince \in [AnnPathsOf(tree.anns) -> STRING]
    /\ keyLower \in [AnnPathsOf(tree.anns) -> STRING]
    /\ deprecated \in [{Iface} \cup Members -> BOOLEAN]
    /\ unixFd \in [Methods -> BOOLEAN]
    /\ readable \in [Properties -> BOOLEAN] /\ writable \in [Properties -> BOOLEAN]
    /\ emitsChanged \in [Properties -> BOOLEAN]
    /\ \A a \in Args : \/ binding[a] = [pending |-> TRUE]
                       \/ DOMAIN binding[a] = DOMAIN VariantDescriptor("") /\ argName[a] # None
    /\ \A i \in 1..Len(stack) :
          stack[i].kind \in {"iface", "method", "methodArg", "methodFinish", "signal",
                             "signalArg", "signalFinish", "property", "propertyArg",
                             "propertyFinish", "propertyEmits", "annotation"}

\* The parent an annotation's since is inherited from under spec 4.3: the
\* entity owning the list it sits in, or the annotation enclosing it.
ParentSince(q) == IF Len(q) = 2 THEN since[q[1]] ELSE annSince[Front(q)]


\* Interface.post_process resolves the interface's since before its member
\* loops, and each member falls back to it: once the pass is over, every
\* member's since is its parser-set since, else its own Since annotation
\* (the first one), else the interface's resolved since.
SinceInheritance ==
    Done =>
        /\ since[Iface] = FirstNonEmpty(<<tree.since[Iface], LookupSince(tree.anns[Iface])>>)
        /\ \A e \in Members :
              since[e] = FirstNonEmpty(<<tree.since[e], LookupSince(tree.anns[e]), since[Iface]>>)

\* Once set, a doc string or since string is never overwritten by a later
\* step of the pass, in particular not by the second walk Property.post_process
\* makes over the annotation list it shares with its value argument.
WriteOnce ==
    [][/\ \A e \in Entities : /\ (since[e] # "" => since'[e] = since[e])
                               /\ (doc[e] # "" => doc'[e] = doc[e])
       /\ \A q \in DOMAIN annSince : annSince[q] # "" => annSince'[q] = annSince[q]]_vars

\* Spec 4.3: an annotation without a Since annotation of its own inherits
\* the since of the nearest enclosing entity, for annotations in the lists
\* of the given owners.
AnnotationSinceFromOwner(owners) ==
    Done =>
        \A q \in DOMAIN annSince :
            q[1] \in owners =>
                annSince[q] = FirstNonEmpty(<<LookupSince(AnnAt(q).anns), ParentSince(q)>>)

\* Annotations of the interface, methods, signals and arguments get the
\* since of the entity or annotation that encloses them.
UnsharedAnnotationSince == AnnotationSinceFromOwner(Owners \ Properties)

\* The same for the annotations of a property, whose list its value
\* argument walks first.
PropertyAnnotationSince == AnnotationSinceFromOwner(Properties)

\* The two argument loops of Method.post_process share one arg_count, and a
\* signal numbers its arguments the same way, so the pass itself never
\* makes two arguments of a member share a name: when two resolved names
\* agree, the parser declared them equal, or one was declared with a name
\* of the unnamed_argN form that a placeholder can also take (line 74
\* does not look at the declared names).
IsPlaceholder(n) == \E k \in 0..Cardinality(Args) : n = "unnamed_arg" \o ToString(k)
MemberArgs == {MethodArgs(m) : m \in Methods} \cup {SignalArgs[s] : s \in Signals}
ArgNamesDistinct ==
    Done =>
        \A args \in MemberArgs : \A i, j \in 1..Len(args) :
            (i # j /\ argName[args[i]] = argName[args[j]]) =>
                \/ tree.argName[args[i]] # None /\ tree.argName[args[i]] = tree.argName[args[j]]
                \/ \E k \in {i, j} : tree.argName[args[k]] # None /\ IsPlaceholder(tree.argName[args[k]])

\* Spec 8, handle passing: a method passes Unix file descriptors exactly
\* when h_type_implies_unix_fd is on and one of its in- or out-arguments
\* has an "h" in its signature, or a UnixFD annotation with a non-empty
\* value forces it.
UnixFdAggregation ==
    Done =>
        \A m \in Methods :
            unixFd[m] = \/ tree.htype[m] /\ \E k \in 1..Len(MethodArgs(m)) :
                                             HasHandle(tree.sig[MethodArgs(m)[k]])
                       \/ Truthy(LookupAnnotation(tree.anns[m], UnixFDKey))

\* Spec 3, property: the value argument shares the property's annotation
\* list, so a ForceGVariant on the property decides the value's binding.
PropertyValueBinding ==
    Done =>
        \A p \in Properties :
            binding[ValueArg[p]] =
                Binding(tree.sig[ValueArg[p]], Truthy(LookupAnnotation(tree.anns[p], ForceKey)))

\* Spec 8, inheritance: a method with no doc string of its own (set by the
\* parser or by a DocString annotation) inherits the interface's.
MethodDocInherited ==
    Done =>
        \A m \in Methods :
            FirstNonEmpty(<<tree.doc[m], LookupDocs(tree.anns[m])>>) = "" => doc[m] = doc[Iface]

\* Spec 4.4, step 3: an argument with no since of its own takes the since
\* of the member it belongs to as fallback.
ArgSinceInherited ==
    Done =>
        \A m \in Methods : \A k \in 1..Len(MethodArgs(m)) :
            LET a == MethodArgs(m)[k] IN
            FirstNonEmpty(<<tree.since[a], LookupSince(tree.anns[a])>>) = "" => since[a] = since[m]

\* The resolved attributes, as the abstract specification names them.
ResolvedView ==
    [since |-> since, doc |-> doc, docBrief |-> docBrief, argName |-> argName,
     annSince |-> annSince, keyLower |-> keyLower, names |-> names,
     deprecated |-> deprecated, unixFd |-> unixFd, emitsChanged |-> emitsChanged,
     readable |-> readable, writable |-> writable, binding |-> binding]

Abstract == INSTANCE AbstractResolution
                WITH phase <- IF Done THEN "resolved" ELSE "parsed",
                     model <- IF Done THEN ResolvedView ELSE [pending |-> TRUE]

\* The pass of many stretches implements the one-step resolution: every
\* step but the last changes nothing the abstract model sees, and the
\* last leaves exactly the model the per-entity fill-if-empty chains of
\* AbstractResolution give, for every tree.
Refinement == Abstract!Init /\ [][Abstract!Resolve]_Abstract!avars
====
