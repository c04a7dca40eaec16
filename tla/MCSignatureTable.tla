-------------------------- MODULE MCSignatureTable --------------------------
(***************************************************************************)
(* Every recognised signature, and some the table does not know, is bound *)
(* once with each value of org.gtk.GDBus.C.ForceGVariant, as               *)
(* Arg.post_process binds an argument, and the descriptor is checked for  *)
(* internal consistency.                                                   *)
(***************************************************************************)
EXTENDS SignatureTable

CONSTANTS
    OtherSignatures, \* well-formed signatures outside the table
    ForceValues,     \* values of the ForceGVariant annotation (None: absent)
    None

VARIABLES input, descriptor
vars == <<input, descriptor>>

Unbound == [pending |-> TRUE]

Init ==
    /\ input \in [sig : DOMAIN Arms \cup OtherSignatures, force : ForceValues]
    /\ descriptor = Unbound

\* The typing part of Arg.post_process: `if not lookup_annotation(...)`
\* treats None and "" as absent.
BindArg ==
    /\ descriptor = Unbound
    /\ descriptor' = Binding(input.sig, input.force \notin {None, ""})
    /\ UNCHANGED input

Spec == Init /\ [][BindArg]_vars

-----------------------------------------------------------------------------
\* A bound argument has every attribute the emitter reads.
TypeOK ==
    descriptor = Unbound \/ DOMAIN descriptor = DOMAIN VariantDescriptor("")

\* The GValue accessor that reads a value of each GType.
GValueGetter ==
    [XTYPE_BOOLEAN |-> "xvalue_get_boolean", XTYPE_UCHAR |-> "xvalue_get_uchar",
     XTYPE_INT |-> "xvalue_get_int", XTYPE_UINT |-> "xvalue_get_uint",
     XTYPE_INT64 |-> "xvalue_get_int64", XTYPE_UINT64 |-> "xvalue_get_uint64",
     XTYPE_DOUBLE |-> "xvalue_get_double", XTYPE_STRING |-> "xvalue_get_string",
     XTYPE_STRV |-> "xvalue_get_boxed", XTYPE_VARIANT |-> "xvalue_get_variant"]

\* The release function owed by a value of each boxed GType; value types
\* own nothing.
FreeFor(gtype) ==
    CASE gtype = "XTYPE_STRING"  -> "g_free"
      [] gtype = "XTYPE_STRV"    -> "xstrfreev"
      [] gtype = "XTYPE_VARIANT" -> "xvariant_unref"
      [] OTHER                   -> NoFree

\* Every descriptor the if/elif chain can produce, or the defaults it falls
\* back to, is self-consistent: the out-parameter type points at the owned
\* type (the value type when nothing is freed), the free function and the
\* GValue accessor are the ones its GType needs, only string vectors carry
\* the zero-terminated annotation, and the format tag round-trips the
\* signature (plain, ^-converted, or @-wrapped in a variant).
DescriptorConsistent ==
    descriptor # Unbound =>
        LET d == descriptor
            sig == input.sig
        IN /\ d.ctypeOut = (IF d.freeFunc = NoFree THEN d.ctypeIn ELSE d.ctypeInDup) \o "*"
           /\ d.freeFunc = FreeFor(d.gtype)
           /\ d.gvalueGet = GValueGetter[d.gtype]
           /\ (d.arrayAnnotation # "") = (d.gtype = "XTYPE_STRV")
           /\ d.formatIn = d.formatOut
           /\ d.formatIn \in {sig, "^" \o sig, "@" \o sig}
           /\ (d.gtype = "XTYPE_VARIANT") = (d.formatIn = "@" \o sig)
=============================================================================
