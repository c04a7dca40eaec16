# TLA+ models of the D-Bus code generator's resolution pass

The modelled code is `src/gio/gdbus-2.0/codegen/dbustypes.py`.
`Interface.post_process` turns a parsed interface tree into the resolved
model that the C emitter consumes. It resolves three things:

- the C names;
- the inherited doc and since strings;
- one binding descriptor per argument.

`src/gobject/tests/genmarshal.py` is an unrelated test harness that runs a
subprocess. It is not modelled.

## The system's parts

| Part | Code | Module |
|---|---|---|
| Signature type table | `Arg.post_process`, lines 74-260 | `SignatureTable`, `MCSignatureTable` |
| Naming resolver | name blocks of every `post_process`: 34-48, 287-298, 406-420, 465-507 | `Naming`, `MCNaming` |
| Annotation resolver | `Annotation.post_process`, 33-58; `utils.lookup_*` | `InterfaceTree`, `Resolution`, `AbstractResolution` |
| Entity constructors | every `__init__`: 26-31, 59-66, 264-276, 326-334, 372-394, 445-455 | `Resolution` (`ArgNew` ... `InterfaceNew`, `Init`) |
| Entity post-processors | `Arg`, `Method`, `Signal`, `Property`, `Interface.post_process`; `Property.__init__` | `Resolution`, `AbstractResolution`, `MCResolution`, `MCSiblings` |
| Parser, emitter, `utils.py` | not under `src/` | only the `utils` helpers, written from the spec |

The parts interact in one single-threaded depth-first pass:

1. The interface resolves its own docs, since, namespace and names.
2. It calls each method, then each signal, then each property, then each of
   its own annotations.
3. A method resolves its head, then its in-arguments and its out-arguments
   under one running `arg_count`. It then sets `deprecated` and `unix_fd`,
   and finally resolves its annotations.
4. A property re-aliases its value argument's annotation list to its own
   (lines 379 and 423) and resolves that argument. The argument walks the
   property's annotations with itself as container. The property then walks
   the same annotations again, this time as container (line 432).
5. Every annotation recurses into its nested annotations.

Nothing runs concurrently and nothing is persisted. The hard part is
ordering: values read from a parent or from a shared list at the moment a
child runs.

## Modules

- **`Naming`** holds the name conversions as operators:
  - `MemberNameLower`, `NameHyphen`, `PropertyNameLower` (the `type`
    rename), `AnnotationKeyLower`, `CNamespace` and `InterfaceNames` are
    written from the code.
  - `IsUglyCase`, `CamelCaseToUscore` and `StripDots` come from `utils.py`,
    which is not in the sources. They are written from spec section 4.2 and
    marked `spec_modelled` in the map.
- **`MCNaming`** resolves one input per behaviour:
  - as a member name, either `ResolveMember` or `ResolveInterface`;
  - inputs are every string of length 3 or less over `a B 1 _`, plus
    hand-picked names and overrides;
  - an interface input is chosen from the interface names, the overrides,
    the prefixes and the namespaces.
- **`SignatureTable`** holds the binding descriptors:
  - `VariantDescriptor` is the default record;
  - one record per arm of the if/elif chain;
  - `Binding(sig, forced)` applies an arm over the default with `@@`;
  - an arm lists exactly the fields its code assigns.
- **`MCSignatureTable`** binds one argument (`BindArg`). The signature is
  any recognised one or some that the table does not know. The
  ForceGVariant value is chosen from None, "", "true" and "false".
- **`InterfaceTree`** holds what both specifications of the pass share:
  - the tree's shape as CONSTANTS;
  - the annotation keys and the `utils.lookup_*` helpers;
  - the annotation paths;
  - `FirstNonEmpty`, the fill-if-empty chain.

  It also tabulates the name conversions (`IfaceNamesFor`, `MemberLowerFor`,
  `PropertyLowerFor`, `HyphenFor`, `KeyLowerFor`) over the names and
  overrides that occur in `Trees`. These are constant-level, so TLC
  computes them once. Without them, the recursive string operators would
  be re-evaluated, exponentially, every time the refinement
  property evaluates an action.
- **`AbstractResolution`** states what `Interface.post_process` promises,
  with no order of work. One `Resolve` step takes the parsed tree to
  `Resolved(tree)`. `Resolved(tree)` gives every attribute per entity as a
  chain: explicit field, then own annotations, then parent. The one place
  the chain is not the parent's is a property's annotation list
  (`OwnerSince`). Its annotations fall back to the value argument's since
  before the property's, because the argument walks the shared list first
  (line 424). `Readable` and `Writable` state the access modes.
- **`Resolution`** models the whole pass. Its state is:
  - `tree`: the parsed input, chosen in `Init` and never changed. `Init`
    builds every object from its constructor operator (`ArgNew`,
    `MethodNew`, `SignalNew`, `PropertyNew`, `InterfaceNew`). The parser's
    own fields (names, signatures, doc and since strings, annotations) come
    from the tree. An invalid access string gives a property that is
    neither readable nor writable, and the pass goes on;
  - one variable per attribute the pass writes;
  - `argAnns`: whose annotation list each argument reads;
  - `stack`: the stretches of `post_process` still to run.

  Each action is one stretch of a `post_process` method up to its next
  loop of calls into children. The stretch pushes those calls and then its
  own continuation. `Next` runs the top of the stack, so a behaviour is
  exactly the code's one run on one tree. The actions are:
  - `IfacePostProcess`
  - `MethodPostProcess`, `SignalPostProcess`, `PropertyPostProcess`, which
    share `MemberHead`
  - `MethodArgPostProcess`, `ArgPostProcess`, which share `ArgResolve`
  - `MethodFinish`, `SignalFinish`, `PropertyFinish`
  - `PropertyEmitsChanged`
  - `AnnotationPostProcess`

  Annotations are named by their paths. A path is the owner of the list,
  then the position in each enclosing list.

  `MethodArgPostProcess` does the `h_type_implies_unix_fd` check in the
  same step as the argument. In the code the check comes after the
  argument's annotation loop, but that loop never reads or writes
  `unix_fd`.
- **`MCResolution`** fixes one tree shape:
  - interface `I`;
  - method `m1` with in-arguments `a1 a2` and out-argument `a3`;
  - signal `s1` with argument `a4`;
  - property `p1` with value argument `v1`.

  It gives two sets of trees:
  - `SinceTrees` varies since strings, first-match and nested Since
    annotations, Doc and Deprecated annotations.
  - `ArgTrees` varies unnamed arguments on both sides of the method, handle
    signatures, `h_type_implies_unix_fd`, UnixFD "false", ForceGVariant on
    an argument and on the property, and valid and invalid access strings.

- **`MCSiblings`** gives a wider interface:
  - methods `m1` (`a1`, out `a2`) and `m2` (`b1`);
  - signal `s1` (`c1`);
  - properties `p1` and `p2`.

  Its 1,024 trees vary unnamed arguments in both methods,
  `h_type_implies_unix_fd` per method, and a since, a ForceGVariant and an
  EmitsChangedSignal on one sibling only.

## Refinement

`Resolution` implements `AbstractResolution` under this mapping:

- `phase` is `"resolved"` once the stack is empty, and `"parsed"` before;
- `model` is the record of every resolved variable (`ResolvedView`) once
  the stack is empty, and `[pending |-> TRUE]` before.

So every step of the pass but the last is a stuttering step of the
abstract spec, and the last one is `Resolve`. `Refinement` is checked as a
`PROPERTY`: `Abstract!Init /\ [][Abstract!Resolve]_Abstract!avars`. The
abstract fairness is not part of it: no liveness property is checked (see below).

## Runs

| Run | Checks | Shows |
|---|---|---|
| `naming` | `TypeOK`, `InterfaceFormsAgree` | no resolved name form is empty, so an empty C.Name override counts as absent; all four interface-name paths (ugly or plain namespace, ugly or plain override) agree on the C function prefix and the macro prefix |
| `signature_table` | `DescriptorConsistent` | for every recognised signature, and for the fallback, the out type points at the owned type, the free function and GValue getter fit the GType, only strv types carry the array annotation, and the format tag round-trips |
| `resolution_since` | `SinceInheritance`, `UnsharedAnnotationSince`, `WriteOnce` | members inherit the interface's *resolved* since; annotations outside property lists inherit the nearest enclosing since; no since or doc string is ever overwritten, including by the second walk over a property's annotations |
| `resolution_args` | `ArgNamesDistinct`, `UnixFdAggregation`, `PropertyValueBinding` | placeholders are numbered across in- and out-arguments, so two arguments of a member share a name only when the parser declared them equal, or one was declared as `unnamed_argN` (line 73 does not check; the trees include `a3` declared `unnamed_arg0`); `unix_fd` is exactly (htype and some argument signature contains `h`) or a non-empty UnixFD annotation; a ForceGVariant on the property decides its value argument's descriptor |
| `resolution_refinement` | `Refinement` | over `SinceTrees` and `ArgTrees` together, the pass's final state is exactly `Resolved(tree)`, for every attribute of every entity and annotation, the constructor's access flags included |
| `sibling_refinement` | `Refinement` | with two methods and two properties, nothing leaks between siblings: `arg_count` restarts in each method, `unix_fd` and bindings stay per member |
| `method_doc_inherited` (violation) | `MethodDocInherited` | the code does not inherit a method's doc from the interface, although spec section 8 says it does |
| `arg_since_inherited` (violation) | `ArgSinceInherited` | arguments never take their member's since |
| `property_annotation_since` (violation) | `PropertyAnnotationSince` | a property with an explicit since and a Since annotation gives its annotations the value argument's since, not its own |

Each module has one `TypeOK`. The `naming`, `signature_table` and `resolution_since` runs check it; `resolution_args` does not repeat the same `TypeOK` on the other trees.

Every property of a passing run has a mutant in `PROJECT.json`. A mutant is
a seeded-fault operator placed just before the definition it replaces. Its
run must find the property violated. Examples:

- a member reads the interface's since as the parser left it;
- `arg_count` is reset between directions;
- the `h_type_implies_unix_fd` check is dropped;
- the value argument reads its own list;
- an annotation's since is assigned instead of filled;
- an arm has a pasted getter;
- placeholders are numbered from 1 (caught by `Refinement`);
- `arg_count` is carried from one method into the next (caught by
  `Refinement` on `MCSiblings`);
- the `readwrite` branch of `Property.__init__` sets only `readable`
  (caught by `Refinement`).

## Bounds

**Resolution.** One member of each kind is enough: members never interact,
except through the interface's since and the argument numbering within
one method. The method has arguments on both sides, which exercises the
shared `arg_count`. Annotation nesting goes to depth 2, which exercises
inheritance from an enclosing annotation. `SinceTrees` has 432 trees and
`ArgTrees` has 768. The since run explores 8,568 states and the args run 13,056, each in under 10
seconds. The refinement run, over both sets, explores 21,624 states.
`MCSiblings` adds a second method and a second property, the only way to
see per-member state leak into a sibling. It explores 24,576 states.

**Naming.** Every string of length 3 or less over upper case, lower case,
digit and underscore covers each transition of the uscore loop. The
hand-picked names cover the `type` spellings and an empty override.

## Fairness and termination

No liveness property is checked. The pass is a depth-first walk over a
finite tree with no cycles, so it ends by the shape of the model, and
`<>Done` would say nothing about the code. `Spec` therefore has no
fairness conjunct. The cfgs say `CHECK_DEADLOCK FALSE` because the final
state, with an empty stack, has no successor by design.

## Not modelled

- **The parser and the emitter.** They are out of scope by the spec and are
  not in the sources. The parsed tree is an input to the model.
- **`utils.py`.** It is not in the sources. Its helpers are written from the
  spec.
- **Logging from `print_error`.** It is left out. Only the access flags it
  accompanies are modelled.
- **`genmarshal.py`.** It is pure I/O.

## Plan for later work

- The C.Name override on members and annotations inside `Resolution` runs.
- Several interfaces resolved in sequence over a shared namespace.
