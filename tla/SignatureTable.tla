--------------------------- MODULE SignatureTable ---------------------------
(***************************************************************************)
(* The binding-type descriptor Arg.post_process gives an argument: the    *)
(* xvariant_t defaults, then the fields set by the arm of the if/elif      *)
(* chain matching the argument's D-Bus signature, unless the argument's   *)
(* annotations carry org.gtk.GDBus.C.ForceGVariant.  A descriptor is a    *)
(* record with one field per attribute the code assigns; an arm only      *)
(* lists the fields it assigns, the others keep their default (@@).       *)
(***************************************************************************)
EXTENDS Naturals, Sequences, TLC

\* free_func = None in the scalar arms.
NoFree == "<None>"

\* Seeded fault: array_annotation never given its default.
VariantDescriptorNoArray(signature) ==
    [ctypeInG |-> "xvariant_t *", ctypeIn |-> "xvariant_t *",
     ctypeInDup |-> "xvariant_t *", ctypeOut |-> "xvariant_t **",
     gtype |-> "XTYPE_VARIANT", freeFunc |-> "xvariant_unref",
     formatIn |-> "@" \o signature, formatOut |-> "@" \o signature,
     gvariantGet |-> "XXX", gvalueGet |-> "xvalue_get_variant"]

\* The defaults assigned before the if/elif chain.
VariantDescriptor(signature) ==
    [ctypeInG |-> "xvariant_t *", ctypeIn |-> "xvariant_t *",
     ctypeInDup |-> "xvariant_t *", ctypeOut |-> "xvariant_t **",
     gtype |-> "XTYPE_VARIANT", freeFunc |-> "xvariant_unref",
     formatIn |-> "@" \o signature, formatOut |-> "@" \o signature,
     gvariantGet |-> "XXX", gvalueGet |-> "xvalue_get_variant",
     arrayAnnotation |-> ""]

\* The arms of the if/elif chain, each with exactly the fields it assigns.
\* The scalar arms (b y n q i u x t d) leave ctype_in_dup and
\* array_annotation at their defaults.
ScalarArms ==
    [b |-> [ctypeInG |-> "xboolean_t ", ctypeIn |-> "xboolean_t ", ctypeOut |-> "xboolean_t *",
             gtype |-> "XTYPE_BOOLEAN", freeFunc |-> NoFree, formatIn |-> "b",
             formatOut |-> "b", gvariantGet |-> "xvariant_get_boolean", gvalueGet |-> "xvalue_get_boolean"],
     y |-> [ctypeInG |-> "xuchar_t ", ctypeIn |-> "xuchar_t ", ctypeOut |-> "xuchar_t *",
             gtype |-> "XTYPE_UCHAR", freeFunc |-> NoFree, formatIn |-> "y",
             formatOut |-> "y", gvariantGet |-> "xvariant_get_byte", gvalueGet |-> "xvalue_get_uchar"],
     n |-> [ctypeInG |-> "xint_t ", ctypeIn |-> "gint16 ", ctypeOut |-> "gint16 *",
             gtype |-> "XTYPE_INT", freeFunc |-> NoFree, formatIn |-> "n",
             formatOut |-> "n", gvariantGet |-> "xvariant_get_int16", gvalueGet |-> "xvalue_get_int"],
     q |-> [ctypeInG |-> "xuint_t ", ctypeIn |-> "xuint16_t ", ctypeOut |-> "xuint16_t *",
             gtype |-> "XTYPE_UINT", freeFunc |-> NoFree, formatIn |-> "q",
             formatOut |-> "q", gvariantGet |-> "xvariant_get_uint16", gvalueGet |-> "xvalue_get_uint"],
     i |-> [ctypeInG |-> "xint_t ", ctypeIn |-> "xint_t ", ctypeOut |-> "xint_t *",
             gtype |-> "XTYPE_INT", freeFunc |-> NoFree, formatIn |-> "i",
             formatOut |-> "i", gvariantGet |-> "xvariant_get_int32", gvalueGet |-> "xvalue_get_int"],
     u |-> [ctypeInG |-> "xuint_t ", ctypeIn |-> "xuint_t ", ctypeOut |-> "xuint_t *",
             gtype |-> "XTYPE_UINT", freeFunc |-> NoFree, formatIn |-> "u",
             formatOut |-> "u", gvariantGet |-> "xvariant_get_uint32", gvalueGet |-> "xvalue_get_uint"],
     x |-> [ctypeInG |-> "sint64_t ", ctypeIn |-> "sint64_t ", ctypeOut |-> "sint64_t *",
             gtype |-> "XTYPE_INT64", freeFunc |-> NoFree, formatIn |-> "x",
             formatOut |-> "x", gvariantGet |-> "xvariant_get_int64", gvalueGet |-> "xvalue_get_int64"],
     t |-> [ctypeInG |-> "xuint64_t ", ctypeIn |-> "xuint64_t ", ctypeOut |-> "xuint64_t *",
             gtype |-> "XTYPE_UINT64", freeFunc |-> NoFree, formatIn |-> "t",
             formatOut |-> "t", gvariantGet |-> "xvariant_get_uint64", gvalueGet |-> "xvalue_get_uint64"],
     d |-> [ctypeInG |-> "xdouble_t ", ctypeIn |-> "xdouble_t ", ctypeOut |-> "xdouble_t *",
             gtype |-> "XTYPE_DOUBLE", freeFunc |-> NoFree, formatIn |-> "d",
             formatOut |-> "d", gvariantGet |-> "xvariant_get_double", gvalueGet |-> "xvalue_get_double"]]

\* The arms for s o g ay: one C string, freed with g_free.
StringArms ==
    [s |-> [ctypeInG |-> "const xchar_t *", ctypeIn |-> "const xchar_t *",
             ctypeInDup |-> "xchar_t *", ctypeOut |-> "xchar_t **", gtype |-> "XTYPE_STRING",
             freeFunc |-> "g_free", formatIn |-> "s", formatOut |-> "s",
             gvariantGet |-> "xvariant_get_string", gvalueGet |-> "xvalue_get_string"],
     o |-> [ctypeInG |-> "const xchar_t *", ctypeIn |-> "const xchar_t *",
             ctypeInDup |-> "xchar_t *", ctypeOut |-> "xchar_t **", gtype |-> "XTYPE_STRING",
             freeFunc |-> "g_free", formatIn |-> "o", formatOut |-> "o",
             gvariantGet |-> "xvariant_get_string", gvalueGet |-> "xvalue_get_string"],
     g |-> [ctypeInG |-> "const xchar_t *", ctypeIn |-> "const xchar_t *",
             ctypeInDup |-> "xchar_t *", ctypeOut |-> "xchar_t **", gtype |-> "XTYPE_STRING",
             freeFunc |-> "g_free", formatIn |-> "g", formatOut |-> "g",
             gvariantGet |-> "xvariant_get_string", gvalueGet |-> "xvalue_get_string"],
     ay |-> [ctypeInG |-> "const xchar_t *", ctypeIn |-> "const xchar_t *",
             ctypeInDup |-> "xchar_t *", ctypeOut |-> "xchar_t **", gtype |-> "XTYPE_STRING",
             freeFunc |-> "g_free", formatIn |-> "^ay", formatOut |-> "^ay",
             gvariantGet |-> "xvariant_get_bytestring", gvalueGet |-> "xvalue_get_string"]]

\* The arms for as ao aay: a NULL-terminated string vector, freed with
\* xstrfreev.
StrvArms ==
    [as |-> [ctypeInG |-> "const xchar_t *const *", ctypeIn |-> "const xchar_t *const *",
             ctypeInDup |-> "xchar_t **", ctypeOut |-> "xchar_t ***", gtype |-> "XTYPE_STRV",
             freeFunc |-> "xstrfreev", formatIn |-> "^as", formatOut |-> "^as",
             gvariantGet |-> "xvariant_get_strv", gvalueGet |-> "xvalue_get_boxed",
             arrayAnnotation |-> "(array zero-terminated=1)"],
     ao |-> [ctypeInG |-> "const xchar_t *const *", ctypeIn |-> "const xchar_t *const *",
             ctypeInDup |-> "xchar_t **", ctypeOut |-> "xchar_t ***", gtype |-> "XTYPE_STRV",
             freeFunc |-> "xstrfreev", formatIn |-> "^ao", formatOut |-> "^ao",
             gvariantGet |-> "xvariant_get_objv", gvalueGet |-> "xvalue_get_boxed",
             arrayAnnotation |-> "(array zero-terminated=1)"],
     aay |-> [ctypeInG |-> "const xchar_t *const *", ctypeIn |-> "const xchar_t *const *",
             ctypeInDup |-> "xchar_t **", ctypeOut |-> "xchar_t ***", gtype |-> "XTYPE_STRV",
             freeFunc |-> "xstrfreev", formatIn |-> "^aay", formatOut |-> "^aay",
             gvariantGet |-> "xvariant_get_bytestring_array", gvalueGet |-> "xvalue_get_boxed",
             arrayAnnotation |-> "(array zero-terminated=1)"]]

\* Seeded fault: the ao arm pasted from the s arm's accessor.
ArmsObjvGetterPasted ==
    [ScalarArms @@ StringArms @@ StrvArms EXCEPT !["ao"].gvalueGet = "xvalue_get_string"]

\* The whole if/elif chain: one arm per recognised signature.
Arms == ScalarArms @@ StringArms @@ StrvArms

\* The descriptor of an argument with D-Bus signature sig, where forced
\* is the truth of lookup_annotation(annotations, "...ForceGVariant").
Binding(sig, forced) ==
    IF ~forced /\ sig \in DOMAIN Arms
    THEN Arms[sig] @@ VariantDescriptor(sig)
    ELSE VariantDescriptor(sig)
=============================================================================
