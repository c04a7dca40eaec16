------------------------------ MODULE MCNaming ------------------------------
(***************************************************************************)
(* Bounded check of the naming resolver: every short name over a small    *)
(* alphabet is resolved once, as a member name (with and without a C.Name *)
(* override) or as an interface name (with prefix, override and C         *)
(* namespace), and the resolved forms are compared with reference         *)
(* definitions.                                                            *)
(***************************************************************************)
EXTENDS Naming, SequencesExt

CONSTANTS
    Alphabet,         \* characters names are built from
    MaxLen,           \* longest generated name
    ExtraNames,       \* hand-picked member names and overrides
    InterfaceNameSet, \* D-Bus interface names
    IfaceOverrides,   \* values of org.gtk.GDBus.C.Name on an interface
    InterfacePrefixes,         \* values of --interface-prefix
    Namespaces        \* values of --c-namespace

VARIABLES input, output
vars == <<input, output>>

\* The output before the name has been resolved.
Unresolved == [pending |-> TRUE]
Resolved == output # Unresolved

RECURSIVE StringsUpTo(_)
StringsUpTo(n) ==
    IF n = 0 THEN {""}
    ELSE StringsUpTo(n - 1) \cup {s \o c : s \in StringsUpTo(n - 1), c \in Alphabet}

Names == (StringsUpTo(MaxLen) \ {""}) \cup ExtraNames

MemberInputs ==
    [kind : {"member"}, name : Names, overridden : {None, ""} \cup ExtraNames]
    \cup [kind : {"member"}, name : ExtraNames, overridden : Names]

InterfaceInputs ==
    [kind : {"interface"}, name : InterfaceNameSet, overridden : IfaceOverrides,
     prefix : InterfacePrefixes, ns : Namespaces]

Init ==
    /\ input \in MemberInputs \cup InterfaceInputs
    /\ output = Unresolved

\* One name resolved as a method, signal or property name would be.
ResolveMember ==
    /\ output = Unresolved
    /\ input.kind = "member"
    /\ LET lower == MemberNameLower(input.name, input.overridden)
       IN output' = [uscore     |-> CamelCaseToUscore(input.name),
                     nameLower  |-> lower,
                     nameHyphen |-> NameHyphen(lower),
                     propLower  |-> PropertyNameLower(input.name, input.overridden)]
    /\ UNCHANGED input

\* One interface name resolved as Interface.post_process does.
ResolveInterface ==
    /\ output = Unresolved
    /\ input.kind = "interface"
    /\ output' = InterfaceNames(input.name, input.overridden, input.prefix, input.ns)
    /\ UNCHANGED input

Next == ResolveMember \/ ResolveInterface

Spec == Init /\ [][Next]_vars

-----------------------------------------------------------------------------
\* Every name form is a string, and all but the namespace macro prefix
\* (empty without --c-namespace) are non-empty: an empty C.Name override
\* counts as absent.
TypeOK ==
    /\ input \in MemberInputs \cup InterfaceInputs
    /\ \/ output = Unresolved
       \/ output \in [uscore : STRING, nameLower : STRING, nameHyphen : STRING,
                     propLower : STRING]
       \/ output \in [nameWithoutPrefix : STRING, camelName : STRING, nsUpper : STRING,
                     nameLower : STRING, nameUpper : STRING, nameHyphen : STRING]
    /\ \A f \in DOMAIN output \ {"nsUpper", "pending"} : output[f] # ""

\* Interface.post_process builds name_lower, ns_upper/name_upper and
\* name_hyphen along four paths (ugly or plain namespace, ugly or plain
\* override); on every path the C function prefix and the macro prefix name
\* the same identifier.
InterfaceFormsAgree ==
    Resolved /\ input.kind = "interface" =>
        ToUpper(output.nameLower) = output.nsUpper \o output.nameUpper
=============================================================================
