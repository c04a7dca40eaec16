------------------------------- MODULE Naming -------------------------------
(***************************************************************************)
(* The naming resolver of the D-Bus code generator: how a declared D-Bus  *)
(* name, an optional org.gtk.GDBus.C.Name override and the C namespace    *)
(* become the lower-case, upper-case, hyphenated and CamelCase C names.   *)
(*                                                                         *)
(* Strings are TLA+ strings; a character is a string of length one taken  *)
(* with SubSeq.  The helpers of codegen/utils.py (is_ugly_case,           *)
(* camel_case_to_uscore, strip_dots) are not part of the sources at hand  *)
(* and are written from the specification; the name resolution of         *)
(* dbustypes.py is written from the code.                                  *)
(***************************************************************************)
EXTENDS Naturals, Sequences

\* The absent value: Python's None (no annotation, no declared name).
None == "<None>"

UpperChars == "ABCDEFGHIJKLMNOPQRSTUVWXYZ"
LowerChars == "abcdefghijklmnopqrstuvwxyz"
DigitChars == "0123456789"

Char(s, i) == SubSeq(s, i, i)
InStr(c, str) == \E i \in 1..Len(str) : Char(str, i) = c

IsUpper(c) == InStr(c, UpperChars)
IsLower(c) == InStr(c, LowerChars)
IsDigit(c) == InStr(c, DigitChars)

\* Python's str.lower() / str.upper() on one character and on a string.
LowerChar(c) ==
    IF IsUpper(c)
    THEN LET i == CHOOSE k \in 1..26 : Char(UpperChars, k) = c
         IN Char(LowerChars, i)
    ELSE c
UpperChar(c) ==
    IF IsLower(c)
    THEN LET i == CHOOSE k \in 1..26 : Char(LowerChars, k) = c
         IN Char(UpperChars, i)
    ELSE c

RECURSIVE MapChars(_, _)
MapChars(F(_), s) ==
    IF s = "" THEN "" ELSE F(Char(s, 1)) \o MapChars(F, SubSeq(s, 2, Len(s)))

ToLower(s) == MapChars(LowerChar, s)
ToUpper(s) == MapChars(UpperChar, s)

\* Python's s.replace(a, b) for single characters a and b.
ReplaceChar(s, a, b) == MapChars(LAMBDA c : IF c = a THEN b ELSE c, s)

\* Python's s.startswith(p) and len(s) > 0.
StartsWith(s, p) == Len(p) <= Len(s) /\ SubSeq(s, 1, Len(p)) = p

\* Python truthiness of an optional string: neither None nor "".
Truthy(v) == v # None /\ v # ""

(***************************************************************************)
(* utils.is_ugly_case (spec 4.2, 9): a name already written in the C      *)
(* convention, recognised by an underscore after its first character.     *)
(* None and "" are never ugly case.                                       *)
(***************************************************************************)
IsUglyCase(s) ==
    /\ s # None
    /\ \E i \in 2..Len(s) : Char(s, i) = "_"

(***************************************************************************)
(* utils.camel_case_to_uscore (spec 4.2): left to right, an underscore is *)
(* inserted before an upper-case letter that follows a lower-case letter  *)
(* or a digit, and every letter is lower-cased.  Runs of capitals get no  *)
(* underscore between them ("GetFoo42Bar" -> "get_foo42_bar").            *)
(***************************************************************************)
RECURSIVE UscoreFrom(_, _)
UscoreFrom(s, prevWasLower) ==
    IF s = "" THEN ""
    ELSE LET c == Char(s, 1)
             sep == IF IsUpper(c) /\ prevWasLower THEN "_" ELSE ""
         IN sep \o LowerChar(c)
                \o UscoreFrom(SubSeq(s, 2, Len(s)), IsLower(c) \/ IsDigit(c))

CamelCaseToUscore(s) == UscoreFrom(s, FALSE)

(***************************************************************************)
(* utils.strip_dots: the dots of a dotted name are removed and the        *)
(* character after each dot is upper-cased ("org.Foo" -> "orgFoo").      *)
(***************************************************************************)
RECURSIVE StripDotsFrom(_, _)
StripDotsFrom(s, forceUpper) ==
    IF s = "" THEN ""
    ELSE LET c == Char(s, 1)
             rest == SubSeq(s, 2, Len(s))
         IN IF c = "."
            THEN StripDotsFrom(rest, TRUE)
            ELSE (IF forceUpper THEN UpperChar(c) ELSE c) \o StripDotsFrom(rest, FALSE)

StripDots(s) == StripDotsFrom(s, FALSE)

-----------------------------------------------------------------------------
(***************************************************************************)
(* Name resolution of dbustypes.py.                                        *)
(***************************************************************************)

\* Seeded fault: an empty override tested with "is not None".
MemberNameLowerIsNotNone(name, overridden) ==
    IF IsUglyCase(overridden)
    THEN ToLower(overridden)
    ELSE LET n == IF overridden # None THEN overridden ELSE name
         IN ReplaceChar(ToLower(CamelCaseToUscore(n)), "-", "_")

\* Method/Signal/Property.post_process: name_lower from the declared name
\* and the C.Name override (an ugly-case override is only lower-cased).
MemberNameLower(name, overridden) ==
    IF IsUglyCase(overridden)
    THEN ToLower(overridden)
    ELSE LET n == IF Truthy(overridden) THEN overridden ELSE name
         IN ReplaceChar(ToLower(CamelCaseToUscore(n)), "-", "_")

NameHyphen(nameLower) == ReplaceChar(nameLower, "_", "-")

\* Property.post_process: a property called "type" would clash with the
\* generated foo_bar_get_type() accessor and is renamed "type_" (after the
\* hyphenated form has been taken).
PropertyNameLower(name, overridden) ==
    LET l == MemberNameLower(name, overridden)
    IN IF l = "type" THEN "type_" ELSE l

\* Annotation.post_process: key_lower also turns dots into underscores.
AnnotationKeyLower(key, overridden) ==
    IF IsUglyCase(overridden)
    THEN ToLower(overridden)
    ELSE LET k == IF Truthy(overridden) THEN overridden ELSE key
         IN ReplaceChar(ReplaceChar(ToLower(CamelCaseToUscore(k)), "-", "_"), ".", "_")

\* Seeded fault: the plain arm's lower form pasted from the ugly-case arm.
CNamespaceLowerUnsplit(cNamespace) ==
    IF Len(cNamespace) = 0 THEN [cns |-> "", upper |-> "", lower |-> ""]
    ELSE [cns   |-> IF IsUglyCase(cNamespace) THEN ReplaceChar(cNamespace, "_", "") ELSE cNamespace,
          upper |-> ToUpper(IF IsUglyCase(cNamespace) THEN cNamespace
                            ELSE CamelCaseToUscore(cNamespace)) \o "_",
          lower |-> ToLower(cNamespace) \o "_"]

\* Interface.post_process: the three forms of the C namespace.
CNamespace(cNamespace) ==
    IF Len(cNamespace) = 0
    THEN [cns |-> "", upper |-> "", lower |-> ""]
    ELSE IF IsUglyCase(cNamespace)
    THEN [cns   |-> ReplaceChar(cNamespace, "_", ""),
          upper |-> ToUpper(cNamespace) \o "_",
          lower |-> ToLower(cNamespace) \o "_"]
    ELSE [cns   |-> cNamespace,
          upper |-> ToUpper(CamelCaseToUscore(cNamespace)) \o "_",
          lower |-> ToLower(CamelCaseToUscore(cNamespace)) \o "_"]

\* Interface.post_process: every name form of the interface, from its
\* D-Bus name, the C.Name override, --interface-prefix and --c-namespace.
InterfaceNames(name, overridden, interfacePrefix, cNamespace) ==
    LET ns == CNamespace(cNamespace)
    IN IF IsUglyCase(overridden)
       THEN LET n == ReplaceChar(overridden, "_", "")
            IN [nameWithoutPrefix |-> n,
                camelName |-> ns.cns \o n,
                nsUpper   |-> ns.upper,
                nameLower |-> ns.lower \o ToLower(overridden),
                nameUpper |-> ToUpper(overridden),
                nameHyphen |-> ReplaceChar(ToLower(ToUpper(overridden)), "_", "-")]
       ELSE LET n0 == IF Truthy(overridden) THEN overridden
                      ELSE IF StartsWith(name, interfacePrefix)
                           THEN SubSeq(name, Len(interfacePrefix) + 1, Len(name))
                           ELSE name
                n == StripDots(n0)
                upper == ToUpper(CamelCaseToUscore(n))
            IN [nameWithoutPrefix |-> n0,
                camelName |-> StripDots(ns.cns \o "." \o n),
                nsUpper   |-> ns.upper,
                nameLower |-> ns.lower \o CamelCaseToUscore(n),
                nameUpper |-> upper,
                nameHyphen |-> ReplaceChar(ToLower(upper), "_", "-")]
=============================================================================
