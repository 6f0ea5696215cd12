----------------------------- MODULE Transmute -----------------------------
(***************************************************************************)
(* The slice entry points of safe_transmute: the unchecked primitives of   *)
(* src/base.rs (CoreTransmute) and the checked surface of src/full.rs      *)
(* (SafeTransmute) that composes the alignment check, a guard and a        *)
(* primitive.  Every call is pure, so the state is the record of the last  *)
(* call: which entry point, the buffer it was given (start address and     *)
(* length in bytes), the target type, the guard that decided its length    *)
(* and the outcome.  A successful outcome is a view of `count` elements of *)
(* the target type starting at the buffer's first byte.                    *)
(***************************************************************************)
EXTENDS Naturals, TypeLayout, Guard, Alignment

CONSTANTS
  Addrs,    \* start addresses a caller's byte slice may have
  MaxLen    \* the longest byte slice considered

ASSUME BufferAssumption ==
  /\ Addrs \subseteq Nat
  /\ MaxLen \in Nat

VARIABLE last

vars == <<last>>

Lens == 0 .. MaxLen

(***************************************************************************)
(* Outcomes.  Result<_, Error<u8, T>> with the error's reason, required    *)
(* and actual fields; the "Panic" outcome is an .expect() that fails.      *)
(***************************************************************************)
OkResult(n) ==
  [kind |-> "Ok", count |-> n, reason |-> NoError, required |-> 0, actual |-> 0]

ErrResult(r, req, act) ==
  [kind |-> "Err", count |-> 0, reason |-> r, required |-> req, actual |-> act]

PanicResult ==
  [kind |-> "Panic", count |-> 0, reason |-> NoError, required |-> 0, actual |-> 0]

NoResult ==
  [kind |-> "None", count |-> 0, reason |-> NoError, required |-> 0, actual |-> 0]

Reasons == GuardReasons \cup {"Unaligned", NoError}

\* `G::check::<T>(bytes)?` followed by the view `view`.
GuardedView(g, len, t, view) ==
  IF GuardCheck(g, len, SizeOf[t]) # NoError
  THEN ErrResult(GuardCheck(g, len, SizeOf[t]), SizeOf[t], len)
  ELSE view

\* Ok(slice::from_raw_parts(ptr, bytes.len() / size_of::<T>())) with the
\* quotient n: Rust's integer division panics for a zero-sized T.
SliceView(n, t) == IF SizeOf[t] = 0 THEN PanicResult ELSE OkResult(n)

\* `check_alignment::<_, T>(bytes)?`: Unaligned, reporting the alignment
\* required and the offset found.
UnalignedError(addr, t) ==
  ErrResult("Unaligned", AlignOf[t], MisalignOffset(addr, AlignOf[t]))

(***************************************************************************)
(* src/base.rs: the primitives.  None checks alignment.                    *)
(***************************************************************************)

\* base::from_bytes: SingleManyGuard, then read the first T.
FromBytes(len, t) == GuardedView("SingleMany", len, t, OkResult(1))

\* Fault model: from_bytes_pedantic checked with SingleManyGuard.
FromBytesPedanticLenient(len, t) == GuardedView("SingleMany", len, t, OkResult(1))

\* base::from_bytes_pedantic: SingleValueGuard, then read the first T.
FromBytesPedantic(len, t) == GuardedView("SingleValue", len, t, OkResult(1))

\* Fault model: one element too few, bytes.len() / size_of::<T>() - 1.
BaseTransmuteManyShort(len, t, g) ==
  GuardedView(g, len, t, SliceView(len \div SizeOf[t] - 1, t))

\* base::transmute_many::<T, G>: a view of bytes.len() / size_of::<T>()
\* elements once G passes.
BaseTransmuteMany(len, t, g) ==
  GuardedView(g, len, t, SliceView(len \div SizeOf[t], t))

\* Fault model: the element count rounded up instead of down.
BaseTransmuteManyMutRoundUp(len, t, g) ==
  GuardedView(g, len, t, SliceView((len + SizeOf[t] - 1) \div SizeOf[t], t))

\* base::transmute_many_mut::<T, G>: the same check and count over a
\* mutable slice.
BaseTransmuteManyMut(len, t, g) ==
  GuardedView(g, len, t, SliceView(len \div SizeOf[t], t))

\* Fault model: the permissive wrapper instantiated with SingleManyGuard.
BaseTransmuteManyPermissiveWrongGuard(len, t) ==
  LET r == BaseTransmuteMany(len, t, "SingleMany")
  IN  IF r.kind = "Err" THEN PanicResult ELSE r

\* base::transmute_many_permissive: transmute_many with PermissiveGuard,
\* unwrapped with .expect("permissive guard should never fail").
BaseTransmuteManyPermissive(len, t) ==
  LET r == BaseTransmuteMany(len, t, "Permissive")
  IN  IF r.kind = "Err" THEN PanicResult ELSE r

(***************************************************************************)
(* The trivial module (not among the sources given) forwards each of its   *)
(* unsafe helpers to the base primitive of the same shape.                 *)
(***************************************************************************)
TransmuteTrivial(len, t) == FromBytes(len, t)

TransmuteTrivialMany(len, t, g) == BaseTransmuteMany(len, t, g)

TransmuteTrivialManyMut(len, t, g) == BaseTransmuteManyMut(len, t, g)

(***************************************************************************)
(* src/full.rs: the checked surface.                                       *)
(***************************************************************************)

\* Fault model: transmute_one forwarding to transmute_trivial_many, handing
\* back every whole element instead of one.
TransmuteOneAsMany(addr, len, t) ==
  IF ~IsAligned(addr, AlignOf[t]) THEN UnalignedError(addr, t)
  ELSE TransmuteTrivialMany(len, t, "SingleMany")

\* full::transmute_one: alignment, then transmute_trivial.
TransmuteOne(addr, len, t) ==
  IF ~IsAligned(addr, AlignOf[t]) THEN UnalignedError(addr, t)
  ELSE TransmuteTrivial(len, t)

\* full::transmute_one_pedantic: SingleValueGuard FIRST, then alignment,
\* then transmute_trivial.
TransmuteOnePedantic(addr, len, t) ==
  IF GuardCheck("SingleValue", len, SizeOf[t]) # NoError
  THEN ErrResult(GuardCheck("SingleValue", len, SizeOf[t]), SizeOf[t], len)
  ELSE IF ~IsAligned(addr, AlignOf[t]) THEN UnalignedError(addr, t)
  ELSE TransmuteTrivial(len, t)

\* Fault model: full::transmute_many without its check_alignment.
TransmuteManyUnchecked(addr, len, t, g) == TransmuteTrivialMany(len, t, g)

\* full::transmute_many::<T, G>: alignment, then transmute_trivial_many.
TransmuteMany(addr, len, t, g) ==
  IF ~IsAligned(addr, AlignOf[t]) THEN UnalignedError(addr, t)
  ELSE TransmuteTrivialMany(len, t, g)

\* full::transmute_many_permissive
TransmuteManyPermissive(addr, len, t) == TransmuteMany(addr, len, t, "Permissive")

\* full::transmute_many_pedantic
TransmuteManyPedantic(addr, len, t) == TransmuteMany(addr, len, t, "Pedantic")

\* full::transmute_many_mut::<T, G>: check_alignment_mut, map_err, and_then
\* transmute_trivial_many_mut.
TransmuteManyMut(addr, len, t, g) ==
  IF ~IsAligned(addr, AlignOf[t]) THEN UnalignedError(addr, t)
  ELSE TransmuteTrivialManyMut(len, t, g)

\* full::transmute_many_permissive_mut
TransmuteManyPermissiveMut(addr, len, t) ==
  TransmuteManyMut(addr, len, t, "Permissive")

\* full::transmute_many_pedantic_mut
TransmuteManyPedanticMut(addr, len, t) ==
  TransmuteManyMut(addr, len, t, "Pedantic")

(***************************************************************************)
(* The state machine: each step is one call of one entry point on a        *)
(* buffer, a target type and (for the generic ones) a guard.  The          *)
(* primitives of base.rs take any type; the functions of full.rs only the  *)
(* TriviallyTransmutable ones, which are sized.                            *)
(***************************************************************************)
FullFns ==
  {"full::transmute_one", "full::transmute_one_pedantic",
   "full::transmute_many", "full::transmute_many_permissive",
   "full::transmute_many_pedantic", "full::transmute_many_mut",
   "full::transmute_many_permissive_mut", "full::transmute_many_pedantic_mut"}

BaseFns ==
  {"base::from_bytes", "base::from_bytes_pedantic", "base::transmute_many",
   "base::transmute_many_mut", "base::transmute_many_permissive"}

ResultRecords ==
  [kind: {"Ok", "Err", "Panic", "None"}, count: Nat, reason: Reasons,
   required: Nat, actual: Nat]

CallRecords ==
  [fn: FullFns \cup BaseFns \cup {"none"}, addr: Addrs \cup {0}, len: Lens,
   ty: Types, guard: Guards, res: ResultRecords]

Init ==
  \E t \in Types :
    last = [fn |-> "none", addr |-> 0, len |-> 0, ty |-> t,
            guard |-> "Permissive", res |-> NoResult]

\* One call: fn was given the slice [addr, addr + len) and target type t,
\* its length was decided by guard g, and it returned res.
Call(fn, addr, len, t, g, res) ==
  last' = [fn |-> fn, addr |-> addr, len |-> len, ty |-> t, guard |-> g, res |-> res]

FromBytesCall ==
  \E a \in Addrs, l \in Lens, t \in Types :
    Call("base::from_bytes", a, l, t, "SingleMany", FromBytes(l, t))

FromBytesPedanticCall ==
  \E a \in Addrs, l \in Lens, t \in Types :
    Call("base::from_bytes_pedantic", a, l, t, "SingleValue", FromBytesPedantic(l, t))

BaseTransmuteManyCall ==
  \E a \in Addrs, l \in Lens, t \in Types, g \in Guards :
    Call("base::transmute_many", a, l, t, g, BaseTransmuteMany(l, t, g))

BaseTransmuteManyMutCall ==
  \E a \in Addrs, l \in Lens, t \in Types, g \in Guards :
    Call("base::transmute_many_mut", a, l, t, g, BaseTransmuteManyMut(l, t, g))

BaseTransmuteManyPermissiveCall ==
  \E a \in Addrs, l \in Lens, t \in Types :
    Call("base::transmute_many_permissive", a, l, t, "Permissive",
         BaseTransmuteManyPermissive(l, t))

TransmuteOneCall ==
  \E a \in Addrs, l \in Lens, t \in SizedTypes :
    Call("full::transmute_one", a, l, t, "SingleMany", TransmuteOne(a, l, t))

TransmuteOnePedanticCall ==
  \E a \in Addrs, l \in Lens, t \in SizedTypes :
    Call("full::transmute_one_pedantic", a, l, t, "SingleValue",
         TransmuteOnePedantic(a, l, t))

TransmuteManyCall ==
  \E a \in Addrs, l \in Lens, t \in SizedTypes, g \in Guards :
    Call("full::transmute_many", a, l, t, g, TransmuteMany(a, l, t, g))

TransmuteManyPermissiveCall ==
  \E a \in Addrs, l \in Lens, t \in SizedTypes :
    Call("full::transmute_many_permissive", a, l, t, "Permissive",
         TransmuteManyPermissive(a, l, t))

TransmuteManyPedanticCall ==
  \E a \in Addrs, l \in Lens, t \in SizedTypes :
    Call("full::transmute_many_pedantic", a, l, t, "Pedantic",
         TransmuteManyPedantic(a, l, t))

TransmuteManyMutCall ==
  \E a \in Addrs, l \in Lens, t \in SizedTypes, g \in Guards :
    Call("full::transmute_many_mut", a, l, t, g, TransmuteManyMut(a, l, t, g))

TransmuteManyPermissiveMutCall ==
  \E a \in Addrs, l \in Lens, t \in SizedTypes :
    Call("full::transmute_many_permissive_mut", a, l, t, "Permissive",
         TransmuteManyPermissiveMut(a, l, t))

TransmuteManyPedanticMutCall ==
  \E a \in Addrs, l \in Lens, t \in SizedTypes :
    Call("full::transmute_many_pedantic_mut", a, l, t, "Pedantic",
         TransmuteManyPedanticMut(a, l, t))

Next ==
  \/ FromBytesCall
  \/ FromBytesPedanticCall
  \/ BaseTransmuteManyCall
  \/ BaseTransmuteManyMutCall
  \/ BaseTransmuteManyPermissiveCall
  \/ TransmuteOneCall
  \/ TransmuteOnePedanticCall
  \/ TransmuteManyCall
  \/ TransmuteManyPermissiveCall
  \/ TransmuteManyPedanticCall
  \/ TransmuteManyMutCall
  \/ TransmuteManyPermissiveMutCall
  \/ TransmuteManyPedanticMutCall

Spec == Init /\ [][Next]_vars

-----------------------------------------------------------------------------
(***************************************************************************)
(* Properties.                                                             *)
(***************************************************************************)

\* Type invariant: the last call is a well-formed record.
TypeOK == last \in CallRecords

\* Memory safety of every entry point, base and full: a view handed back
\* (a slice from slice::from_raw_parts or the T read through it) never
\* reaches past the end of the caller's byte slice.
ViewInBounds ==
  last.res.kind = "Ok" => last.res.count * SizeOf[last.ty] <= last.len

\* The checked surface of full.rs never hands back a view whose first
\* element is misaligned for T, whichever guard and entry point was used.
ViewAligned ==
  (last.res.kind = "Ok" /\ last.fn \in FullFns) =>
    last.addr % AlignOf[last.ty] = 0

\* A call succeeds only on a length its guard's policy admits (no trailing
\* bytes dropped under SingleValue or Pedantic, at least one element under
\* SingleValue and SingleMany).
PolicyRespected ==
  last.res.kind = "Ok" => PolicyAdmits(last.guard, last.len, SizeOf[last.ty])

\* Every error is justified and reports the right numbers: Unaligned only
\* from full.rs on a misaligned slice (required = align_of::<T>(), actual =
\* the offset), NotEnoughBytes and InexactByteCount only on a length the
\* policy refuses, too short and too long respectively (required =
\* size_of::<T>(), actual = bytes.len()).
NoSpuriousError ==
  LET size  == SizeOf[last.ty]
      align == AlignOf[last.ty]
      e     == last.res
  IN  e.kind = "Err" =>
        \/ /\ e.reason = "Unaligned" /\ last.fn \in FullFns
           /\ last.addr % align # 0
           /\ e.required = align /\ e.actual = last.addr % align
        \/ /\ e.reason = "NotEnoughBytes" /\ last.len < size
           /\ ~PolicyAdmits(last.guard, last.len, size)
           /\ e.required = size /\ e.actual = last.len
        \/ /\ e.reason = "InexactByteCount" /\ last.len > size
           /\ ~PolicyAdmits(last.guard, last.len, size)
           /\ e.required = size /\ e.actual = last.len

\* No entry point panics: base::transmute_many_permissive's .expect("permissive
\* guard should never fail") never fires, and no element count divides by
\* zero (specification, section 7: errors are returned, never raised, and a
\* zero element size is rejected at compile time).
NoPanic == last.res.kind # "Panic"

\* Specification, section 4.5: "Failure of AlignmentCheck always
\* short-circuits before Guard evaluation": a checked call on a misaligned
\* slice that fails reports Unaligned.
AlignmentCheckedFirst ==
  (last.fn \in FullFns /\ last.res.kind = "Err"
   /\ last.addr % AlignOf[last.ty] # 0) => last.res.reason = "Unaligned"

-----------------------------------------------------------------------------
(***************************************************************************)
(* Refinement mapping onto the caller's contract of module ViewContract: a *)
(* call becomes the request it makes (checked when it comes from full.rs,  *)
(* shape "one" for the functions that read a single T) and its outcome the *)
(* response, without the fields an outcome of that kind leaves unused.    *)
(***************************************************************************)
OneFns ==
  {"base::from_bytes", "base::from_bytes_pedantic",
   "full::transmute_one", "full::transmute_one_pedantic"}

RequestOf(fn, addr, len, t, g) ==
  [checked |-> fn \in FullFns, shape |-> IF fn \in OneFns THEN "one" ELSE "many",
   addr |-> addr, len |-> len, ty |-> t, guard |-> g]

ResponseOf(r) ==
  CASE r.kind = "Ok"  -> [kind |-> "Ok", count |-> r.count]
    [] r.kind = "Err" -> [kind |-> "Err", reason |-> r.reason,
                          required |-> r.required, actual |-> r.actual]
    [] OTHER          -> [kind |-> r.kind]

AnswerBar ==
  IF last.fn = "none"
  THEN [req |-> [shape |-> "none"], res |-> [kind |-> "None"]]
  ELSE [req |-> RequestOf(last.fn, last.addr, last.len, last.ty, last.guard),
        res |-> ResponseOf(last.res)]

Contract == INSTANCE ViewContract WITH answer <- AnswerBar

\* Every entry point, base and full, keeps the caller's contract: it hands
\* back a view exactly when the alignment (full.rs only) and the length
\* policy admit the buffer, with one element for the single-value
\* functions and every whole element for the slice functions; otherwise
\* it returns an error naming a failed check with the right values, and
\* it never panics.
ContractRefinement == Contract!Spec

=============================================================================
