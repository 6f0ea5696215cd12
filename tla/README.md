# Formal model of safe-transmute-rs

TLA+ modules, TLC runs and TLAPS proofs for the checking logic of
`safe_transmute`. This library reinterprets a byte slice as a slice of
another type, and hands the storage of a `Vec<S>` to a `Vec<T>`. Its
sources here are `src/src/base.rs` (the unchecked primitives), `src/src/full.rs`
(the checked surface) and the tests under `src/tests/`. The guard, align,
trivial and error modules that these files import are not in this copy of the
repository. Their behaviour is taken from `spec.md`, and the definitions that
model them are marked `spec_modelled` in `PROJECT.json`. Where the
repository itself documents a behaviour, the model follows the repository.
This happens once: `PedanticGuard` on an empty slice. Spec 4.2 and 8 say
Pedantic accepts 0 bytes. The `too_short` test
(`tests/guarded_transmute_many_pedantic/mod.rs:7`) and the docs of
`transmute_many_pedantic` and `transmute_many_pedantic_mut`
(`full.rs:152`, `:236`) say that a slice without one whole `T` is refused
with NotEnoughBytes. The model refuses it.

## 1. Inventory

### Components

| Component | Code | State | Operations |
|---|---|---|---|
| Guard | `guard.rs` (absent; spec 4.2) | none (pure) | `G::check::<T>(bytes)` for Permissive, SingleValue, SingleMany, Pedantic |
| AlignmentCheck | `align.rs` (absent; spec 4.1) | none (pure) | `check_alignment`, `check_alignment_mut` |
| TypeCapability | `trivial.rs` (absent; spec 4.3) | compile-time only | the `TriviallyTransmutable` bound (it admits sized types only; `base.rs` has no bound); `transmute_trivial*` forward to base |
| CoreTransmute | `base.rs` | none, except that `transmute_vec` moves heap ownership | `from_bytes`, `from_bytes_pedantic`, `transmute_many`, `transmute_many_mut`, `transmute_many_permissive`, `transmute_vec` |
| SafeTransmute | `full.rs` | none, except that `transmute_vec` moves heap ownership | `transmute_one`, `transmute_one_pedantic`, `transmute_many`, `transmute_many_permissive`, `transmute_many_pedantic`, `transmute_many_mut`, `transmute_many_permissive_mut`, `transmute_many_pedantic_mut`, `transmute_vec` |
| Error | `error.rs` (absent; spec 6, 7) | value | `Error { reason, required, actual }`, `IncompatibleVecTargetError` (carries the vec back) |
| util, test helpers | `tests/util` | none | NaN designalising, aligned test vectors (not modelled) |

### How the components interact

The components call each other directly. Nothing in the library runs
concurrently, nothing waits, and nothing is shared between calls. A checked
slice call in `full.rs` runs `check_alignment`, then the guard through
`transmute_trivial*`, which calls `base::*`, and finally builds the view
with `slice::from_raw_parts`. The one exception is `transmute_one_pedantic`,
which runs the guard before the alignment check. `transmute_vec` reads the
`Vec`'s pointer, length and capacity, `forget`s the `Vec`, and rebuilds it with
`Vec::from_raw_parts`. The only state the system touches is the heap
ownership of that storage.

### What is hard

There is no concurrency. What is hard is at the boundaries:

- the integer edges of the guards (0 bytes, exactly one element, a trailing
  partial element) and the floor division that sizes the view;
- the order of the alignment check and the guard;
- the `expect` in the permissive wrapper;
- for `Vec`s, the ownership hand-over. It needs `forget` before
  `from_raw_parts`, the layout (capacity × size, alignment) must be what the
  allocator handed out, and the error path must give the vec back.

Those edges, and long sequences of create, transmute, refuse and drop over
reused allocator slots, are where a model checker reaches what unit tests
do not.

### What makes each component correct

- **Guard**: each policy refuses exactly the lengths its rule refuses, and
  reports the right reason.
- **Slices, base and full**: a view never reaches past the slice. A view
  from `full.rs` is always aligned. A call succeeds only on a length its
  policy admits. Every error is justified and carries `required`/`actual`.
  The permissive wrapper never panics.
- **Vec**: every live `Vec` owns a live allocation of its own layout. No
  two live `Vec`s share storage. No live storage is unowned. A transmute,
  refused or not, is a hand-over of the whole allocation and of the bytes
  in use to the new `Vec`, which is what the abstract `Storage` contract
  says.

## 2. Modules

| Module | Models | State / actions |
|---|---|---|
| `TypeLayout` | the static layout of the element types | CONSTANTS `Types`, `SizeOf`, `AlignOf`; `LayoutAssumption` (nonzero alignment, alignment divides size; size 0 allowed); `SizedTypes`, the types `full.rs` and the `Vec` model accept |
| `Policy` | the four length policies (spec 4.2, 8), the reference the guards are checked against | `Guards`, `PolicyAdmits` |
| `Guard` | the four guards (spec_modelled; Pedantic refuses an empty slice, as the repository documents) | `TooFewBytes`, `TooManyBytes`, `GuardCheck` |
| `Alignment` | `check_alignment` (spec_modelled) | `IsAligned`, `MisalignOffset` |
| `Transmute` | every slice function of `base.rs` and `full.rs` | variable `last`: the last call (function, address, length, type, guard, outcome). One action per entry point; inputs are drawn with `\E` from `Addrs`, `0..MaxLen`, `Types` and `Guards`. The entry points are operators that compose one another the way the Rust functions call one another |
| `VecTransmute` | `base::transmute_vec`, `full::transmute_vec` | `heap` (allocator slots: live, bytes, align), `vecs` (handles: alloc, type, len, cap), `outcome`. Actions: `NewVec` and `DropVec` (the caller and std), `BaseTransmuteVec`, `FullTransmuteVec` |
| `Storage` | the abstract storage contract of the `transmute_vec` functions (spec 4.4, 5) | `blocks` (allocated or free, bytes, alignment), `holds` (the block a handle holds and its bytes in use), `handed` (the two handles of the last hand-over, if the last step was one). Actions `Acquire`, `Release`, `Hand` (a whole block to an empty handle). No element types |
| `ViewContract` | the abstract caller contract of the slice functions (spec 4, 7, 8) | `answer` (the last request and its response). One action, `Answer(req, res)`: a request (checked or not, one value or many, address, length, sized type, policy) gets a view of exactly `Count(req)` elements when it is `Admissible`, and otherwise an error naming one failed check with the values it compared. No entry points, no guard objects, no order of checks |
| `MCTransmute`, `MCVecTransmute` | TLC instances | see below |
| `TransmuteProofs`, `VecTransmuteProofs`, `StorageProofs`, `ViewContractProofs` | TLAPS proofs | see section 4 |

How the model corresponds to the code:

- **Results.** `Result<_, Error>` is a record: `kind` is Ok, Err or Panic,
  plus `count`, `reason`, `required` and `actual`. A successful view is its
  element count. The bytes themselves are not modelled, because no check
  reads them.
- **The error path.** `full::transmute_vec`'s error path moves the vec into
  a new handle, the error that hands it back. Its success path forgets the
  old handle and installs the new one.
- **Documented precondition.** `base::transmute_vec` is `unsafe` and requires
  equal size and alignment, so the model guards it with that precondition.
  Under it, the rescaling `cap * size_of::<S>() / size_of::<T>()` is the
  identity. The model still computes it, and the proof shows it.
- **Zero-sized types.** `SliceView` is the division
  `len / size_of::<T>()` of `base.rs:140` and `:185`: for a zero-sized `T`
  it is a Panic outcome. The base entry points take every type; the
  `full.rs` ones take `SizedTypes`, because `TriviallyTransmutable` admits
  no zero-sized type.
- **Refinement mapping.** `VecTransmute` maps to `Storage` with
  `blocks <- heap`, `holds <- HoldsBar` and `handed <- HandedBar`. A live
  handle holds its slot and uses `len * size_of` bytes; a dead one holds
  nothing. `HandedBar` is the source and destination of the
  `transmute_vec` call recorded in `outcome`, or no hand-over after a
  creation or a drop. The element type, length and capacity disappear.
  A transmute that keeps the bytes is therefore a `Hand`, `NewVec` an
  `Acquire` and `DropVec` a `Release`. A `transmute_vec` call that freed
  the vec would record a hand-over that did not happen, so it is no
  abstract step.
- **Contract mapping.** `Transmute` maps to `ViewContract` with
  `answer <- AnswerBar`. A call becomes the request `RequestOf(fn, ...)`:
  it is checked when `fn` is a `full.rs` function, of shape "one" for
  `from_bytes`, `from_bytes_pedantic`, `transmute_one` and
  `transmute_one_pedantic`, and its policy is the guard the function uses.
  The outcome maps field for field (`ResponseOf`). A panic maps to a
  response the contract never allows.
- **Zero capacity.** A zero-capacity `Vec` is modelled as a slot of 0 bytes
  with its type's alignment. This is exactly what `from_raw_parts` requires
  of its dangling pointer.

## 3. Runs

| Run | cfg | Expect | Checks |
|---|---|---|---|
| `transmute_views` | `MCTransmute.cfg` | pass | `TypeOK`, `ViewInBounds`, `ViewAligned`, `PolicyRespected`, `NoSpuriousError`, `NoPanic`, `ContractRefinement` (the `ViewContract` spec as a PROPERTY) |
| `align_order` | `MCTransmuteAlignOrder.cfg` | violation | `AlignmentCheckedFirst` (spec 4.5) |
| `zero_sized` | `MCTransmuteZeroSized.cfg` | violation | `NoPanic` with the zero-sized `unit` among the types (spec 4.4, 7) |
| `vec_ownership` | `MCVecTransmute.cfg` | pass | `OwnedLayout`, `UniqueOwner`, `NoLeak`, `StorageRefinement` (the `Storage` spec as a PROPERTY) |

**Bounds.** The slice instance covers the following:

- **Types:** `u8`, `u16`, `u32`, and `[u8; 3]` (size 3, alignment 1).
  Together they produce remainders of 1 and 2 bytes.
- **Start addresses:** 8..11, every residue modulo the largest alignment.
- **Lengths:** 0..9, which is two `u32` plus one byte.

This reaches every branch of every guard: length 0, length below one element,
exactly one element, above one element, an exact multiple and a remainder.
It also reaches every aligned/misaligned combination. The checks are pure
arithmetic on these residues, so larger values repeat the same cases. The
state space is 4004 states; checking the refinement property makes the run
take about a minute and a half. The `zero_sized` run adds `unit` (size 0,
alignment 1) to the same instance.

The Vec instance covers the following:

- **Types:** `u8` and `i8` (the same layout), `u16`, and `[u8; 2]`. `[u8; 2]`
  has the size of `u16` but not its alignment, so both halves of
  `full::transmute_vec`'s compatibility test fail somewhere.
- **Handles and slots:** three handles (source, destination, bystander) and
  two slots, so slots are reused after a drop. Both are symmetric model
  values.
- **Capacity:** up to 2.

The state space is 1525 states.

**Fairness.** None is assumed. Every call is synchronous and returns, and
no property is a liveness property.

**Mutants.** Each property of the passing runs has a mutant in `PROJECT.json`.
The mutants are a dropped alignment check, a count rounded up, an off-by-one
count, the wrong guard in a wrapper, `<=` for `<` in a guard, a missing
`forget`, an error path that loses the vec, a size-only compatibility test,
a `transmute_one` that forwards to `transmute_trivial_many` instead of
`transmute_trivial` (it views every whole element instead of one, which
only `ContractRefinement` notices), and a `full::transmute_vec` whose error path drops the vec, freeing its
storage, instead of moving it into the error. That last one still passes
`NoLeak`, since the storage is gone with its owner. It breaks
`StorageRefinement`, because a refused call must be a hand-over. TLC
finds each one.

### Findings

1. **`align_order`.** `full::transmute_one_pedantic` (`full.rs:84`) runs
   `SingleValueGuard::check` before `check_alignment`. On a misaligned
   slice of the wrong length, it therefore reports NotEnoughBytes or
   InexactByteCount instead of Unaligned. This contradicts spec 4.5
   ("alignment is checked first"). Every other entry point of `full.rs`
   follows the spec. Memory safety is not affected: `ViewAligned` holds.
2. **`zero_sized`.** `base::transmute_many` and `transmute_many_mut`
   (`base.rs:140`, `:185`) put no bound on `T`. For a zero-sized `T` the
   call compiles and, once the guard passes (an empty slice under any
   guard), divides by `size_of::<T>() == 0` and panics. Spec 4.4 and 7 say
   a zero element size is rejected at compile time and that errors are
   returned, never raised. The checked `full.rs` functions are not
   exposed: their bound excludes zero-sized types.

## 4. Proofs (TLAPS)

**`TransmuteProofs`.** This module proves `TypeCorrect`,
`ViewInBoundsHolds`, `ViewAlignedHolds`, `PolicyRespectedHolds`,
`NoSpuriousErrorHolds` and `NoPanicHolds`: `Spec => []P` for each of the
slice run's properties. They hold for all `Types`, `SizeOf`, `AlignOf`,
`Addrs` and `MaxLen` that satisfy `LayoutAssumption` and
`BufferAssumption`. `NoPanicHolds` also assumes that no type is zero-sized;
the `zero_sized` run shows that this hypothesis cannot be dropped.

Every step replaces the whole record `last`, so no strengthening is needed:
the invariant `CallOK` says that the record is well typed and that its
outcome satisfies `OutcomeOK`. `OutcomeOK` is the conjunction of the slice
properties for one call: an Ok view is in bounds, aligned if it comes from
`full.rs`, and on a length the policy admits; an error is justified; a
panic happens only for a zero-sized type. The argument is a chain of
lemmas:

1. `DivBound`: `(len \div s) * s <= len`.
2. `GuardFacts`: what a passing or failing guard says of the length, per
   guard.
3. `GuardedViewOK`, `SliceViewOK`, `OneViewOK`, `AlignedOK`: each building
   block returns an `OutcomeOK` result.
4. `BaseEntryPointsOK` (every type) and `FullEntryPointsOK` (sized types):
   each of the 13 entry points does.
5. `NextCallOK`: one step per action preserves `CallOK`.

**`VecTransmuteProofs`.** This module proves `VecTypeCorrect`,
`OwnedLayoutHolds`, `UniqueOwnerHolds`, `NoLeakHolds`,
`RefinementHolds` (`Spec => StorageRefinement`) and
`VecStorageExclusive`. They hold for all types, handles, slots and
`MaxCap`.

The inductive invariant is `VecInv == TypeOK /\ OwnedLayout /\ UniqueOwner
/\ NoLeak`. No conjunct is inductive alone:

- A drop keeps `OwnedLayout` only because ownership is unique.
- A new `Vec` keeps `UniqueOwner` only because owned slots are live.

`MoveInv` proves once that moving a `Vec` between handles, with the same slot
and the same layout, preserves `VecInv`. Both `transmute_vec` functions and
the error path are instances of it. `ScaleSameSize` proves that
`(n * s) \div s = n`.

The refinement is proved step by step:

- `VecShape`: a handle holds either `NoVec` or a well-formed live `Vec`.
- `HoldsBarEmpty`: the mapped hold is empty exactly for a dead handle.
- `HandedBarNone`, `HandedBarCall`: the mapped hand-over is that of the recorded call, or none.
- `InitRefines` maps the initial state to `Storage`'s.
- `NewVecRefines`, `DropVecRefines`, `MoveRefines` and the two transmute
  lemmas map each action to `Acquire`, `Release` or `Hand`. They use
  `VecInv` (a dead handle has no slot, a live one has a live slot of enough
  bytes) and `MulMono` (`len * size <= cap * size`).
- `NextRefines` combines them, and the theorem follows by `PTL`.

`VecStorageExclusive` carries `StorageExclusive` (below) over to the Vec
model. It instantiates `StorageProofs` under the same mapping, shows that
the instance's specification is the refined one, and applies the abstract
theorem. This is what the abstract theorem says about the code: every live
`Vec`'s slot is live and large enough for its elements, held by no other
live `Vec`, and every live slot is held.

**`StorageProofs`.** `StorageExclusive` proves of the abstract contract
itself that held blocks are allocated, held once and large enough, and
that allocated blocks are held, from the inductive invariant
`TypeOK /\ Exclusive`, assuming only that `NoAlloc` is no block. On its
own it says nothing about the code; `VecStorageExclusive` is its
consequence for the Vec model.

**`ViewContractProofs`.** `ContractRefinementHolds` proves
`Spec => ContractRefinement`: the slice model implements `ViewContract` for
all constants that satisfy the two assumptions, when no type is
zero-sized (the `zero_sized` run shows a panic otherwise, which the
contract forbids). No invariant is needed, because the mapped answer is a
function of the last call alone. The argument:

1. `ContractNames`: the contract's `Guards`, `SizedTypes` and
   `PolicyAdmits` are the model's.
2. `RequestOfFacts`: the request of a call is in `Requests`, and its
   fields are those of the call.
3. `GuardRefusalMeets`, `AlignRefusalMeets`, `GrantMeets`: a guard
   refusal, an alignment refusal and a granted view each give an allowed
   response. `SliceMeets`, `OneMeets`, `CheckedMeets` and
   `PedanticOneMeets` lift this to the building blocks. The last one covers
   `transmute_one_pedantic`, whose length-first order (finding 1) is
   within the contract, since the contract lets any failed check be
   reported.
4. `BaseEntryPointsMeet` and `FullEntryPointsMeet`: each of the 13 entry
   points meets its request.
5. `CallRefines` turns a call that meets its request into a contract
   `Answer`. `NextRefines` has one case per action plus the stutter, and
   the theorem combines it with the initial states by `PTL`.

**Left to TLC.** Every property the passing runs check is also proved
for all constants, under the hypotheses stated above. TLC alone shows the
two violations of the findings. No property is a liveness property, so nothing needs `ENABLED`.

## 5. Not modelled

- **Vecs of zero-sized types.** Such a `Vec` never allocates and reports
  capacity `usize::MAX`; `base::transmute_vec` of two of them divides by
  zero at `base.rs:261`. The slot heap does not represent that, and the
  `Vec` model takes sized element types only. Listed as an uncovered
  hazard.
- **Callers that break `base::transmute_vec`'s precondition.** The function
  is `unsafe` and documents that undefined behaviour follows; the model
  guards it with the precondition instead of modelling the behaviour.
- **Liveness.** Every call is synchronous, runs no loop and returns or
  panics; there is nothing to wait for and no fairness to assume.
- **Trait enumeration.** The `TriviallyTransmutable` enumeration is a
  compile-time check.
- **Bytes and floats.** Byte contents and endianness are not modelled, and
  neither is NaN designalising.
- **Borrow lifetimes.** The Rust compiler enforces these.

## 6. Plan for later sittings

1. **Vecs of zero-sized types.** Give the heap a dangling, never-allocated
   slot and model the capacity `usize::MAX` to reach `base.rs:261`.
