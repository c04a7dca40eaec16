--------------------------- MODULE InterfaceTree ---------------------------
(***************************************************************************)
(* The parsed D-Bus interface tree the resolution pass is handed, shared  *)
(* by the detailed and the abstract specification of the pass: its shape *)
(* (constants), the annotation keys the pass reads, utils.lookup_* and    *)
(* the small conversions several post_process methods share.             *)
(***************************************************************************)
EXTENDS Naming, SequencesExt

CONSTANTS
    Iface,            \* the interface
    MethodSeq,        \* its methods, signals and properties, in order
    SignalSeq,
    PropertySeq,
    InArgs,           \* [method -> Seq(arg)]
    OutArgs,          \* [method -> Seq(arg)]
    SignalArgs,       \* [signal -> Seq(arg)]
    ValueArg,         \* [property -> arg]: the synthetic "value" argument
    IfaceName,        \* the interface's D-Bus name
    InterfacePrefix,  \* --interface-prefix
    CNamespaceOpt,    \* --c-namespace
    MemberName,       \* [member -> D-Bus name]
    Trees             \* the parsed trees the pass may be given

Methods == ToSet(MethodSeq)
Signals == ToSet(SignalSeq)
Properties == ToSet(PropertySeq)
Members == Methods \cup Signals \cup Properties
MethodArgs(m) == InArgs[m] \o OutArgs[m]
DeclaredArgs == UNION {ToSet(MethodArgs(m)) : m \in Methods}
                \cup UNION {ToSet(SignalArgs[s]) : s \in Signals}
Args == DeclaredArgs \cup {ValueArg[p] : p \in Properties}
Entities == {Iface} \cup Members \cup Args
\* Entities owning an annotation list object of their own (a value
\* argument's is the empty list Arg.__init__ creates before
\* Property.__init__ replaces it).
Owners == {Iface} \cup Members \cup Args

\* Property.__init__ builds the value argument itself, with no annotations
\* of its own.
ASSUME \A t \in Trees : \A p \in Properties : t.anns[ValueArg[p]] = <<>>

\* The annotation keys post_process looks up.
NameKey       == "org.gtk.GDBus.C.Name"
ForceKey      == "org.gtk.GDBus.C.ForceGVariant"
UnixFDKey     == "org.gtk.GDBus.C.UnixFD"
DocKey        == "org.gtk.GDBus.DocString"
BriefKey      == "org.gtk.GDBus.DocString.Short"
SinceKey      == "org.gtk.GDBus.Since"
DeprecatedKey == "org.freedesktop.DBus.Deprecated"
EmitsKey      == "org.freedesktop.DBus.Property.EmitsChangedSignal"

(***************************************************************************)
(* Annotations.  An annotation is [key, value, anns]; it is named by its  *)
(* path: the owner of the list it sits in, then its position in each      *)
(* enclosing list.                                                         *)
(***************************************************************************)

\* utils.lookup_annotation: the value of the first annotation with the key.
LookupAnnotation(list, key) ==
    LET i == SelectInSeq(list, LAMBDA a : a.key = key)
    IN IF i = 0 THEN None ELSE list[i].value

\* utils.lookup_docs, lookup_brief_docs, lookup_since: "" when absent.
OrEmpty(v) == IF v = None THEN "" ELSE v
LookupDocs(list) == OrEmpty(LookupAnnotation(list, DocKey))
LookupBriefDocs(list) == OrEmpty(LookupAnnotation(list, BriefKey))
LookupSince(list) == OrEmpty(LookupAnnotation(list, SinceKey))

RECURSIVE AnnIn(_, _)
AnnIn(list, rest) ==
    IF Len(rest) = 1 THEN list[rest[1]] ELSE AnnIn(list[rest[1]].anns, Tail(rest))


RECURSIVE PathsIn(_, _)
PathsIn(loc, list) ==
    UNION {{loc \o <<i>>} \cup PathsIn(loc \o <<i>>, list[i].anns) : i \in 1..Len(list)}

AnnPathsOf(anns) == UNION {PathsIn(<<o>>, anns[o]) : o \in Owners}


(***************************************************************************)
(* The name conversions of Naming, tabulated once over every input the    *)
(* trees can give them (C.Name overrides, annotation keys), so that a     *)
(* step looks its names up instead of converting strings.  Each table     *)
(* entry is the operator applied to that input.                           *)
(***************************************************************************)
NameOverrides == {LookupAnnotation(t.anns[e], NameKey) : t \in Trees, e \in {Iface} \cup Members}
TreeAnnotations == UNION {{AnnIn(t.anns[q[1]], Tail(q)) : q \in AnnPathsOf(t.anns)} : t \in Trees}
IfaceNamesFor == [o \in NameOverrides |->
                    InterfaceNames(IfaceName, o, InterfacePrefix, CNamespaceOpt)]
MemberLowerFor == [e \in Members, o \in NameOverrides |-> MemberNameLower(MemberName[e], o)]
PropertyLowerFor == [p \in Properties, o \in NameOverrides |-> PropertyNameLower(MemberName[p], o)]
HyphenFor == [e \in Members, o \in NameOverrides |-> NameHyphen(MemberNameLower(MemberName[e], o))]
KeyLowerFor == [a \in TreeAnnotations |->
                  AnnotationKeyLower(a.key, LookupAnnotation(a.anns, NameKey))]

\* The first non-empty string of a fill-if-empty chain, "" if none.
FirstNonEmpty(chain) ==
    LET i == SelectInSeq(chain, LAMBDA x : x # "") IN IF i = 0 THEN "" ELSE chain[i]

\* Fill-if-empty: `if len(x) == 0: x = v`.
Fill(cur, v) == IF Len(cur) = 0 THEN v ELSE cur

\* Seeded fault: the "readwrite" branch sets readable only.
AccessFlagsReadwriteReadOnly(access) ==
    CASE access \in {"readwrite", "read"} -> [r |-> TRUE,  w |-> FALSE]
      [] access = "write"                 -> [r |-> FALSE, w |-> TRUE]
      [] OTHER                            -> [r |-> FALSE, w |-> FALSE]

\* Property.__init__ on an access string: readable and writable.
AccessFlags(access) ==
    CASE access = "readwrite" -> [r |-> TRUE,  w |-> TRUE]
      [] access = "read"      -> [r |-> TRUE,  w |-> FALSE]
      [] access = "write"     -> [r |-> FALSE, w |-> TRUE]
      [] OTHER                -> [r |-> FALSE, w |-> FALSE]

\* `"h" in a.signature`
HasHandle(sig) == \E i \in 1..Len(sig) : Char(sig, i) = "h"
=============================================================================
