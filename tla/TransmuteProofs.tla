-------------------------- MODULE TransmuteProofs --------------------------
(***************************************************************************)
(* Proofs about the slice entry points, for every set of types (zero-sized *)
(* ones included), layouts, addresses and lengths: the record of the last  *)
(* call is well-typed; no entry point hands back a view that reaches past  *)
(* the caller's slice, a misaligned view from full.rs, or a view on a      *)
(* length its policy refuses; every error is justified and reports the     *)
(* right numbers; and only a zero-sized target type makes a call panic.    *)
(* Each step replaces the whole record, so the invariants need no          *)
(* strengthening: what is proved is that every entry point's outcome, as a *)
(* function of its inputs, is correct.                                     *)
(***************************************************************************)
EXTENDS Transmute, TLAPS

USE LayoutAssumption, BufferAssumption

\* The outcome r of a call on the slice [addr, addr + len) with target type
\* t and length policy g is correct, `checked` when it comes from full.rs:
\* a view lies within the slice, is aligned when checked and has a length
\* the policy admits; an error is justified as NoSpuriousError states it;
\* a panic happens only for a zero-sized t.
OutcomeOK(r, addr, len, t, g, checked) ==
  /\ r \in ResultRecords
  /\ r.kind = "Ok" =>
       /\ r.count * SizeOf[t] <= len
       /\ checked => addr % AlignOf[t] = 0
       /\ PolicyAdmits(g, len, SizeOf[t])
  /\ r.kind = "Err" =>
       \/ /\ r.reason = "Unaligned" /\ checked
          /\ addr % AlignOf[t] # 0
          /\ r.required = AlignOf[t] /\ r.actual = addr % AlignOf[t]
       \/ /\ r.reason = "NotEnoughBytes" /\ len < SizeOf[t]
          /\ ~PolicyAdmits(g, len, SizeOf[t])
          /\ r.required = SizeOf[t] /\ r.actual = len
       \/ /\ r.reason = "InexactByteCount" /\ len > SizeOf[t]
          /\ ~PolicyAdmits(g, len, SizeOf[t])
          /\ r.required = SizeOf[t] /\ r.actual = len
  /\ r.kind = "Panic" => SizeOf[t] = 0

LEMMA DivBound ==
  ASSUME NEW len \in Nat, NEW s \in Nat \ {0}
  PROVE  /\ len \div s \in Nat
         /\ (len \div s) * s <= len
BY SMT

\* What each guard decides, against the reference definition PolicyAdmits.
LEMMA GuardFacts ==
  ASSUME NEW g \in Guards, NEW len \in Nat, NEW s \in Nat
  PROVE  /\ GuardCheck(g, len, s) \in GuardReasons \cup {NoError}
         /\ GuardCheck(g, len, s) = "NotEnoughBytes" =>
              len < s /\ ~PolicyAdmits(g, len, s)
         /\ GuardCheck(g, len, s) = "InexactByteCount" =>
              len > s /\ ~PolicyAdmits(g, len, s)
         /\ (GuardCheck(g, len, s) = NoError /\ (s # 0 \/ g # "Pedantic")) =>
              PolicyAdmits(g, len, s)
         /\ (GuardCheck(g, len, s) = NoError /\ g \in {"SingleValue", "SingleMany"}) =>
              s <= len
         /\ GuardCheck("Permissive", len, s) = NoError
<1>1. CASE g = "Permissive"
  BY <1>1 DEF GuardCheck, TooFewBytes, TooManyBytes, PolicyAdmits, GuardReasons, NoError
<1>2. CASE g = "SingleValue"
  BY <1>2 DEF GuardCheck, TooFewBytes, TooManyBytes, PolicyAdmits, GuardReasons, NoError
<1>3. CASE g = "SingleMany"
  BY <1>3 DEF GuardCheck, TooFewBytes, TooManyBytes, PolicyAdmits, GuardReasons, NoError
<1>4. CASE g = "Pedantic"
  <2>1. s # 0 /\ ~(len < s) /\ len % s # 0 => len > s
    BY SMT
  <2>. QED
    BY <1>4, <2>1
    DEF GuardCheck, TooFewBytes, TooManyBytes, PolicyAdmits, GuardReasons, NoError
<1>. QED  BY <1>1, <1>2, <1>3, <1>4 DEF Guards

\* A guard failure is a correct outcome, and so is whatever follows a
\* passing guard if it is correct whenever the guard passes.
LEMMA GuardedViewOK ==
  ASSUME NEW g \in Guards, NEW len \in Nat, NEW t \in Types, NEW addr \in Nat,
         NEW checked \in BOOLEAN, NEW view,
         GuardCheck(g, len, SizeOf[t]) = NoError => OutcomeOK(view, addr, len, t, g, checked)
  PROVE  OutcomeOK(GuardedView(g, len, t, view), addr, len, t, g, checked)
<1>1. SizeOf[t] \in Nat
  OBVIOUS
<1>2. CASE GuardCheck(g, len, SizeOf[t]) # NoError
  <2> DEFINE e == GuardCheck(g, len, SizeOf[t])
  <2>1. e \in {"NotEnoughBytes", "InexactByteCount"}
    BY <1>1, <1>2, GuardFacts DEF GuardReasons
  <2>2. ErrResult(e, SizeOf[t], len) \in ResultRecords
    BY <1>1, <2>1 DEF ErrResult, ResultRecords, Reasons, GuardReasons
  <2>3. e = "NotEnoughBytes" => len < SizeOf[t] /\ ~PolicyAdmits(g, len, SizeOf[t])
    BY <1>1, GuardFacts
  <2>4. e = "InexactByteCount" => len > SizeOf[t] /\ ~PolicyAdmits(g, len, SizeOf[t])
    BY <1>1, GuardFacts
  <2>. QED
    BY <1>2, <2>1, <2>2, <2>3, <2>4 DEF GuardedView, OutcomeOK, ErrResult
<1>3. CASE GuardCheck(g, len, SizeOf[t]) = NoError
  BY <1>3 DEF GuardedView
<1>. QED  BY <1>2, <1>3

\* The single-value primitives read one T once SingleValue or SingleMany
\* has passed.
LEMMA OneViewOK ==
  ASSUME NEW g \in {"SingleValue", "SingleMany"}, NEW len \in Nat, NEW t \in Types,
         NEW addr \in Nat
  PROVE  OutcomeOK(GuardedView(g, len, t, OkResult(1)), addr, len, t, g, FALSE)
<1>1. g \in Guards /\ SizeOf[t] \in Nat
  BY DEF Guards
<1>2. GuardCheck(g, len, SizeOf[t]) = NoError =>
        /\ SizeOf[t] <= len
        /\ PolicyAdmits(g, len, SizeOf[t])
  BY <1>1, GuardFacts
<1>3. GuardCheck(g, len, SizeOf[t]) = NoError => OutcomeOK(OkResult(1), addr, len, t, g, FALSE)
  BY <1>1, <1>2 DEF OutcomeOK, OkResult, ResultRecords, Reasons, NoError
<1>. QED  BY <1>1, <1>3, GuardedViewOK

\* The slice primitives view bytes.len() / size_of::<T>() elements once the
\* guard has passed, and panic on the division for a zero-sized T.
LEMMA SliceViewOK ==
  ASSUME NEW g \in Guards, NEW len \in Nat, NEW t \in Types, NEW addr \in Nat
  PROVE  OutcomeOK(GuardedView(g, len, t, SliceView(len \div SizeOf[t], t)),
                   addr, len, t, g, FALSE)
<1>1. SizeOf[t] \in Nat
  OBVIOUS
<1>2. CASE SizeOf[t] = 0
  <2>1. OutcomeOK(PanicResult, addr, len, t, g, FALSE)
    BY <1>2 DEF OutcomeOK, PanicResult, ResultRecords, Reasons, NoError
  <2>. QED  BY <1>2, <2>1, GuardedViewOK DEF SliceView
<1>3. CASE SizeOf[t] # 0
  <2>1. /\ len \div SizeOf[t] \in Nat
        /\ (len \div SizeOf[t]) * SizeOf[t] <= len
    BY <1>1, <1>3, DivBound
  <2>2. GuardCheck(g, len, SizeOf[t]) = NoError => PolicyAdmits(g, len, SizeOf[t])
    BY <1>1, <1>3, GuardFacts
  <2>3. GuardCheck(g, len, SizeOf[t]) = NoError =>
          OutcomeOK(OkResult(len \div SizeOf[t]), addr, len, t, g, FALSE)
    BY <2>1, <2>2 DEF OutcomeOK, OkResult, ResultRecords, Reasons, NoError
  <2>. QED  BY <1>3, <2>3, GuardedViewOK DEF SliceView
<1>. QED  BY <1>2, <1>3

\* check_alignment in front of a correct unchecked outcome gives a correct
\* checked one.
LEMMA AlignedOK ==
  ASSUME NEW addr \in Nat, NEW len \in Nat, NEW t \in Types, NEW g \in Guards,
         NEW r, OutcomeOK(r, addr, len, t, g, FALSE)
  PROVE  OutcomeOK(IF ~IsAligned(addr, AlignOf[t]) THEN UnalignedError(addr, t) ELSE r,
                   addr, len, t, g, TRUE)
<1>1. AlignOf[t] \in Nat \ {0}
  OBVIOUS
<1>2. addr % AlignOf[t] \in Nat
  BY <1>1
<1>3. CASE ~IsAligned(addr, AlignOf[t])
  BY <1>2, <1>3
  DEF OutcomeOK, UnalignedError, MisalignOffset, ErrResult, ResultRecords, Reasons,
      IsAligned
<1>4. CASE IsAligned(addr, AlignOf[t])
  BY <1>4 DEF OutcomeOK, IsAligned
<1>. QED  BY <1>3, <1>4

\* Every primitive of base.rs returns a correct unchecked outcome for any
\* type, zero-sized ones included.
LEMMA BaseEntryPointsOK ==
  ASSUME NEW a \in Nat, NEW l \in Nat, NEW t \in Types, NEW g \in Guards
  PROVE  /\ OutcomeOK(FromBytes(l, t), a, l, t, "SingleMany", FALSE)
         /\ OutcomeOK(FromBytesPedantic(l, t), a, l, t, "SingleValue", FALSE)
         /\ OutcomeOK(BaseTransmuteMany(l, t, g), a, l, t, g, FALSE)
         /\ OutcomeOK(BaseTransmuteManyMut(l, t, g), a, l, t, g, FALSE)
         /\ OutcomeOK(BaseTransmuteManyPermissive(l, t), a, l, t, "Permissive", FALSE)
<1>1. /\ OutcomeOK(FromBytes(l, t), a, l, t, "SingleMany", FALSE)
      /\ OutcomeOK(FromBytesPedantic(l, t), a, l, t, "SingleValue", FALSE)
  BY OneViewOK DEF FromBytes, FromBytesPedantic
<1>2. \A G \in Guards :
        /\ OutcomeOK(BaseTransmuteMany(l, t, G), a, l, t, G, FALSE)
        /\ OutcomeOK(BaseTransmuteManyMut(l, t, G), a, l, t, G, FALSE)
  BY SliceViewOK DEF BaseTransmuteMany, BaseTransmuteManyMut
<1>3. OutcomeOK(BaseTransmuteManyPermissive(l, t), a, l, t, "Permissive", FALSE)
  <2>1. "Permissive" \in Guards
    BY DEF Guards
  <2>2. GuardCheck("Permissive", l, SizeOf[t]) = NoError
    BY GuardFacts
  <2>3. BaseTransmuteMany(l, t, "Permissive") = SliceView(l \div SizeOf[t], t)
    BY <2>2 DEF BaseTransmuteMany, GuardedView
  <2>4. BaseTransmuteMany(l, t, "Permissive").kind # "Err"
    BY <2>3 DEF SliceView, PanicResult, OkResult
  <2>. QED  BY <1>2, <2>1, <2>4 DEF BaseTransmuteManyPermissive
<1>. QED  BY <1>1, <1>2, <1>3

\* Every function of full.rs returns a correct checked outcome for any
\* sized type.
LEMMA FullEntryPointsOK ==
  ASSUME NEW a \in Nat, NEW l \in Nat, NEW t \in SizedTypes, NEW g \in Guards
  PROVE  /\ OutcomeOK(TransmuteOne(a, l, t), a, l, t, "SingleMany", TRUE)
         /\ OutcomeOK(TransmuteOnePedantic(a, l, t), a, l, t, "SingleValue", TRUE)
         /\ OutcomeOK(TransmuteMany(a, l, t, g), a, l, t, g, TRUE)
         /\ OutcomeOK(TransmuteManyPermissive(a, l, t), a, l, t, "Permissive", TRUE)
         /\ OutcomeOK(TransmuteManyPedantic(a, l, t), a, l, t, "Pedantic", TRUE)
         /\ OutcomeOK(TransmuteManyMut(a, l, t, g), a, l, t, g, TRUE)
         /\ OutcomeOK(TransmuteManyPermissiveMut(a, l, t), a, l, t, "Permissive", TRUE)
         /\ OutcomeOK(TransmuteManyPedanticMut(a, l, t), a, l, t, "Pedantic", TRUE)
<1>0. t \in Types /\ {"SingleValue", "SingleMany", "Permissive", "Pedantic"} \subseteq Guards
  BY DEF SizedTypes, Guards
<1>1. OutcomeOK(TransmuteOne(a, l, t), a, l, t, "SingleMany", TRUE)
  BY <1>0, BaseEntryPointsOK, AlignedOK DEF TransmuteOne, TransmuteTrivial
<1>2. \A G \in Guards :
        /\ OutcomeOK(TransmuteMany(a, l, t, G), a, l, t, G, TRUE)
        /\ OutcomeOK(TransmuteManyMut(a, l, t, G), a, l, t, G, TRUE)
  BY <1>0, BaseEntryPointsOK, AlignedOK
  DEF TransmuteMany, TransmuteManyMut, TransmuteTrivialMany, TransmuteTrivialManyMut
<1>3. OutcomeOK(TransmuteOnePedantic(a, l, t), a, l, t, "SingleValue", TRUE)
  <2>1. SizeOf[t] \in Nat
    BY <1>0
  <2> DEFINE e == GuardCheck("SingleValue", l, SizeOf[t])
  <2>2. CASE e # NoError
    <3>1. OutcomeOK(GuardedView("SingleValue", l, t, OkResult(1)), a, l, t, "SingleValue", FALSE)
      BY <1>0, OneViewOK
    <3>2. GuardedView("SingleValue", l, t, OkResult(1)) = ErrResult(e, SizeOf[t], l)
      BY <2>2 DEF GuardedView
    <3>3. OutcomeOK(ErrResult(e, SizeOf[t], l), a, l, t, "SingleValue", TRUE)
      BY <3>1, <3>2 DEF OutcomeOK, ErrResult
    <3>. QED  BY <2>2, <3>3 DEF TransmuteOnePedantic
  <2>3. CASE e = NoError
    <3>1. SizeOf[t] # 0 /\ PolicyAdmits("SingleValue", l, SizeOf[t])
      BY <1>0, <2>1, <2>3, GuardFacts DEF SizedTypes
    <3>2. l = SizeOf[t]
      BY <3>1 DEF PolicyAdmits
    <3>3. GuardCheck("SingleMany", l, SizeOf[t]) = NoError
      BY <2>1, <3>2 DEF GuardCheck, TooFewBytes, TooManyBytes
    <3>4. TransmuteTrivial(l, t) = OkResult(1)
      BY <3>3 DEF TransmuteTrivial, FromBytes, GuardedView
    <3>5. OutcomeOK(OkResult(1), a, l, t, "SingleValue", FALSE)
      BY <2>1, <3>1, <3>2 DEF OutcomeOK, OkResult, ResultRecords, Reasons, NoError
    <3>. QED  BY <1>0, <2>3, <3>4, <3>5, AlignedOK DEF TransmuteOnePedantic
  <2>. QED  BY <2>2, <2>3
<1>. QED
  BY <1>0, <1>1, <1>2, <1>3
  DEF TransmuteManyPermissive, TransmuteManyPedantic, TransmuteManyPermissiveMut,
      TransmuteManyPedanticMut

-----------------------------------------------------------------------------
\* The invariant proved: the last call is well-formed and its outcome correct.
CallOK ==
  /\ TypeOK
  /\ OutcomeOK(last.res, last.addr, last.len, last.ty, last.guard, last.fn \in FullFns)

LEMMA InitCallOK == Init => CallOK
BY DEF Init, CallOK, TypeOK, CallRecords, OutcomeOK, NoResult, ResultRecords,
       Reasons, Guards, NoError, Lens

\* A call of any entry point with a correct outcome leaves a correct record.
LEMMA CallStepOK ==
  ASSUME NEW fn \in FullFns \cup BaseFns, NEW a \in Addrs, NEW l \in Lens,
         NEW t \in Types, NEW g \in Guards, NEW r,
         OutcomeOK(r, a, l, t, g, fn \in FullFns),
         Call(fn, a, l, t, g, r)
  PROVE  CallOK'
BY DEF Call, CallOK, TypeOK, CallRecords, OutcomeOK

LEMMA NextCallOK == CallOK /\ [Next]_vars => CallOK'
<1> SUFFICES ASSUME CallOK, [Next]_vars PROVE CallOK'
  OBVIOUS
<1>1. \A l \in Lens : l \in Nat
  BY DEF Lens
<1>2. \A a \in Addrs : a \in Nat
  OBVIOUS
<1>3. /\ {"SingleMany", "SingleValue", "Permissive", "Pedantic"} \subseteq Guards
      /\ SizedTypes \subseteq Types
  BY DEF Guards, SizedTypes
<1>4. CASE UNCHANGED vars
  BY <1>4 DEF vars, CallOK, TypeOK, OutcomeOK
<1>5. CASE FromBytesCall
  <2>1. PICK a \in Addrs, l \in Lens, t \in Types :
          Call("base::from_bytes", a, l, t, "SingleMany", FromBytes(l, t))
    BY <1>5 DEF FromBytesCall
  <2>2. "base::from_bytes" \notin FullFns /\ "base::from_bytes" \in FullFns \cup BaseFns
    BY DEF BaseFns, FullFns
  <2>3. OutcomeOK(FromBytes(l, t), a, l, t, "SingleMany", FALSE)
    BY <1>1, <1>2, <1>3, BaseEntryPointsOK
  <2>4. OutcomeOK(FromBytes(l, t), a, l, t, "SingleMany", "base::from_bytes" \in FullFns)
    BY <2>2, <2>3 DEF OutcomeOK
  <2>. QED  BY <1>3, <2>1, <2>2, <2>4, CallStepOK
<1>6. CASE FromBytesPedanticCall
  <2>1. PICK a \in Addrs, l \in Lens, t \in Types :
          Call("base::from_bytes_pedantic", a, l, t, "SingleValue", FromBytesPedantic(l, t))
    BY <1>6 DEF FromBytesPedanticCall
  <2>2. "base::from_bytes_pedantic" \notin FullFns /\ "base::from_bytes_pedantic" \in FullFns \cup BaseFns
    BY DEF BaseFns, FullFns
  <2>3. OutcomeOK(FromBytesPedantic(l, t), a, l, t, "SingleValue", FALSE)
    BY <1>1, <1>2, <1>3, BaseEntryPointsOK
  <2>4. OutcomeOK(FromBytesPedantic(l, t), a, l, t, "SingleValue", "base::from_bytes_pedantic" \in FullFns)
    BY <2>2, <2>3 DEF OutcomeOK
  <2>. QED  BY <1>3, <2>1, <2>2, <2>4, CallStepOK
<1>7. CASE BaseTransmuteManyCall
  <2>1. PICK a \in Addrs, l \in Lens, t \in Types, g \in Guards :
          Call("base::transmute_many", a, l, t, g, BaseTransmuteMany(l, t, g))
    BY <1>7 DEF BaseTransmuteManyCall
  <2>2. "base::transmute_many" \notin FullFns /\ "base::transmute_many" \in FullFns \cup BaseFns
    BY DEF BaseFns, FullFns
  <2>3. OutcomeOK(BaseTransmuteMany(l, t, g), a, l, t, g, FALSE)
    BY <1>1, <1>2, <1>3, BaseEntryPointsOK
  <2>4. OutcomeOK(BaseTransmuteMany(l, t, g), a, l, t, g, "base::transmute_many" \in FullFns)
    BY <2>2, <2>3 DEF OutcomeOK
  <2>. QED  BY <1>3, <2>1, <2>2, <2>4, CallStepOK
<1>8. CASE BaseTransmuteManyMutCall
  <2>1. PICK a \in Addrs, l \in Lens, t \in Types, g \in Guards :
          Call("base::transmute_many_mut", a, l, t, g, BaseTransmuteManyMut(l, t, g))
    BY <1>8 DEF BaseTransmuteManyMutCall
  <2>2. "base::transmute_many_mut" \notin FullFns /\ "base::transmute_many_mut" \in FullFns \cup BaseFns
    BY DEF BaseFns, FullFns
  <2>3. OutcomeOK(BaseTransmuteManyMut(l, t, g), a, l, t, g, FALSE)
    BY <1>1, <1>2, <1>3, BaseEntryPointsOK
  <2>4. OutcomeOK(BaseTransmuteManyMut(l, t, g), a, l, t, g, "base::transmute_many_mut" \in FullFns)
    BY <2>2, <2>3 DEF OutcomeOK
  <2>. QED  BY <1>3, <2>1, <2>2, <2>4, CallStepOK
<1>9. CASE BaseTransmuteManyPermissiveCall
  <2>1. PICK a \in Addrs, l \in Lens, t \in Types :
          Call("base::transmute_many_permissive", a, l, t, "Permissive", BaseTransmuteManyPermissive(l, t))
    BY <1>9 DEF BaseTransmuteManyPermissiveCall
  <2>2. "base::transmute_many_permissive" \notin FullFns /\ "base::transmute_many_permissive" \in FullFns \cup BaseFns
    BY DEF BaseFns, FullFns
  <2>3. OutcomeOK(BaseTransmuteManyPermissive(l, t), a, l, t, "Permissive", FALSE)
    BY <1>1, <1>2, <1>3, BaseEntryPointsOK
  <2>4. OutcomeOK(BaseTransmuteManyPermissive(l, t), a, l, t, "Permissive", "base::transmute_many_permissive" \in FullFns)
    BY <2>2, <2>3 DEF OutcomeOK
  <2>. QED  BY <1>3, <2>1, <2>2, <2>4, CallStepOK
<1>10. CASE TransmuteOneCall
  <2>1. PICK a \in Addrs, l \in Lens, t \in SizedTypes :
          Call("full::transmute_one", a, l, t, "SingleMany", TransmuteOne(a, l, t))
    BY <1>10 DEF TransmuteOneCall
  <2>2. "full::transmute_one" \in FullFns /\ "full::transmute_one" \in FullFns \cup BaseFns
    BY DEF BaseFns, FullFns
  <2>3. OutcomeOK(TransmuteOne(a, l, t), a, l, t, "SingleMany", TRUE)
    BY <1>1, <1>2, <1>3, FullEntryPointsOK
  <2>4. OutcomeOK(TransmuteOne(a, l, t), a, l, t, "SingleMany", "full::transmute_one" \in FullFns)
    BY <2>2, <2>3 DEF OutcomeOK
  <2>. QED  BY <1>3, <2>1, <2>2, <2>4, CallStepOK
<1>11. CASE TransmuteOnePedanticCall
  <2>1. PICK a \in Addrs, l \in Lens, t \in SizedTypes :
          Call("full::transmute_one_pedantic", a, l, t, "SingleValue", TransmuteOnePedantic(a, l, t))
    BY <1>11 DEF TransmuteOnePedanticCall
  <2>2. "full::transmute_one_pedantic" \in FullFns /\ "full::transmute_one_pedantic" \in FullFns \cup BaseFns
    BY DEF BaseFns, FullFns
  <2>3. OutcomeOK(TransmuteOnePedantic(a, l, t), a, l, t, "SingleValue", TRUE)
    BY <1>1, <1>2, <1>3, FullEntryPointsOK
  <2>4. OutcomeOK(TransmuteOnePedantic(a, l, t), a, l, t, "SingleValue", "full::transmute_one_pedantic" \in FullFns)
    BY <2>2, <2>3 DEF OutcomeOK
  <2>. QED  BY <1>3, <2>1, <2>2, <2>4, CallStepOK
<1>12. CASE TransmuteManyCall
  <2>1. PICK a \in Addrs, l \in Lens, t \in SizedTypes, g \in Guards :
          Call("full::transmute_many", a, l, t, g, TransmuteMany(a, l, t, g))
    BY <1>12 DEF TransmuteManyCall
  <2>2. "full::transmute_many" \in FullFns /\ "full::transmute_many" \in FullFns \cup BaseFns
    BY DEF BaseFns, FullFns
  <2>3. OutcomeOK(TransmuteMany(a, l, t, g), a, l, t, g, TRUE)
    BY <1>1, <1>2, <1>3, FullEntryPointsOK
  <2>4. OutcomeOK(TransmuteMany(a, l, t, g), a, l, t, g, "full::transmute_many" \in FullFns)
    BY <2>2, <2>3 DEF OutcomeOK
  <2>. QED  BY <1>3, <2>1, <2>2, <2>4, CallStepOK
<1>13. CASE TransmuteManyPermissiveCall
  <2>1. PICK a \in Addrs, l \in Lens, t \in SizedTypes :
          Call("full::transmute_many_permissive", a, l, t, "Permissive", TransmuteManyPermissive(a, l, t))
    BY <1>13 DEF TransmuteManyPermissiveCall
  <2>2. "full::transmute_many_permissive" \in FullFns /\ "full::transmute_many_permissive" \in FullFns \cup BaseFns
    BY DEF BaseFns, FullFns
  <2>3. OutcomeOK(TransmuteManyPermissive(a, l, t), a, l, t, "Permissive", TRUE)
    BY <1>1, <1>2, <1>3, FullEntryPointsOK
  <2>4. OutcomeOK(TransmuteManyPermissive(a, l, t), a, l, t, "Permissive", "full::transmute_many_permissive" \in FullFns)
    BY <2>2, <2>3 DEF OutcomeOK
  <2>. QED  BY <1>3, <2>1, <2>2, <2>4, CallStepOK
<1>14. CASE TransmuteManyPedanticCall
  <2>1. PICK a \in Addrs, l \in Lens, t \in SizedTypes :
          Call("full::transmute_many_pedantic", a, l, t, "Pedantic", TransmuteManyPedantic(a, l, t))
    BY <1>14 DEF TransmuteManyPedanticCall
  <2>2. "full::transmute_many_pedantic" \in FullFns /\ "full::transmute_many_pedantic" \in FullFns \cup BaseFns
    BY DEF BaseFns, FullFns
  <2>3. OutcomeOK(TransmuteManyPedantic(a, l, t), a, l, t, "Pedantic", TRUE)
    BY <1>1, <1>2, <1>3, FullEntryPointsOK
  <2>4. OutcomeOK(TransmuteManyPedantic(a, l, t), a, l, t, "Pedantic", "full::transmute_many_pedantic" \in FullFns)
    BY <2>2, <2>3 DEF OutcomeOK
  <2>. QED  BY <1>3, <2>1, <2>2, <2>4, CallStepOK
<1>15. CASE TransmuteManyMutCall
  <2>1. PICK a \in Addrs, l \in Lens, t \in SizedTypes, g \in Guards :
          Call("full::transmute_many_mut", a, l, t, g, TransmuteManyMut(a, l, t, g))
    BY <1>15 DEF TransmuteManyMutCall
  <2>2. "full::transmute_many_mut" \in FullFns /\ "full::transmute_many_mut" \in FullFns \cup BaseFns
    BY DEF BaseFns, FullFns
  <2>3. OutcomeOK(TransmuteManyMut(a, l, t, g), a, l, t, g, TRUE)
    BY <1>1, <1>2, <1>3, FullEntryPointsOK
  <2>4. OutcomeOK(TransmuteManyMut(a, l, t, g), a, l, t, g, "full::transmute_many_mut" \in FullFns)
    BY <2>2, <2>3 DEF OutcomeOK
  <2>. QED  BY <1>3, <2>1, <2>2, <2>4, CallStepOK
<1>16. CASE TransmuteManyPermissiveMutCall
  <2>1. PICK a \in Addrs, l \in Lens, t \in SizedTypes :
          Call("full::transmute_many_permissive_mut", a, l, t, "Permissive", TransmuteManyPermissiveMut(a, l, t))
    BY <1>16 DEF TransmuteManyPermissiveMutCall
  <2>2. "full::transmute_many_permissive_mut" \in FullFns /\ "full::transmute_many_permissive_mut" \in FullFns \cup BaseFns
    BY DEF BaseFns, FullFns
  <2>3. OutcomeOK(TransmuteManyPermissiveMut(a, l, t), a, l, t, "Permissive", TRUE)
    BY <1>1, <1>2, <1>3, FullEntryPointsOK
  <2>4. OutcomeOK(TransmuteManyPermissiveMut(a, l, t), a, l, t, "Permissive", "full::transmute_many_permissive_mut" \in FullFns)
    BY <2>2, <2>3 DEF OutcomeOK
  <2>. QED  BY <1>3, <2>1, <2>2, <2>4, CallStepOK
<1>17. CASE TransmuteManyPedanticMutCall
  <2>1. PICK a \in Addrs, l \in Lens, t \in SizedTypes :
          Call("full::transmute_many_pedantic_mut", a, l, t, "Pedantic", TransmuteManyPedanticMut(a, l, t))
    BY <1>17 DEF TransmuteManyPedanticMutCall
  <2>2. "full::transmute_many_pedantic_mut" \in FullFns /\ "full::transmute_many_pedantic_mut" \in FullFns \cup BaseFns
    BY DEF BaseFns, FullFns
  <2>3. OutcomeOK(TransmuteManyPedanticMut(a, l, t), a, l, t, "Pedantic", TRUE)
    BY <1>1, <1>2, <1>3, FullEntryPointsOK
  <2>4. OutcomeOK(TransmuteManyPedanticMut(a, l, t), a, l, t, "Pedantic", "full::transmute_many_pedantic_mut" \in FullFns)
    BY <2>2, <2>3 DEF OutcomeOK
  <2>. QED  BY <1>3, <2>1, <2>2, <2>4, CallStepOK
<1>. QED
  BY <1>4, <1>5, <1>6, <1>7, <1>8, <1>9, <1>10, <1>11, <1>12, <1>13, <1>14, <1>15, <1>16, <1>17 DEF Next

LEMMA AlwaysCallOK == Spec => []CallOK
BY InitCallOK, NextCallOK, PTL DEF Spec

\* Type correctness of the slice model.
THEOREM TypeCorrect == Spec => []TypeOK
<1>1. CallOK => TypeOK
  BY DEF CallOK
<1>. QED  BY <1>1, AlwaysCallOK, PTL

\* No entry point of base.rs or full.rs hands back a view reaching past the
\* end of the caller's slice, for any types, lengths and addresses.
THEOREM ViewInBoundsHolds == Spec => []ViewInBounds
<1>1. CallOK => ViewInBounds
  BY DEF CallOK, OutcomeOK, ViewInBounds
<1>. QED  BY <1>1, AlwaysCallOK, PTL

\* No entry point of full.rs hands back a misaligned view.
THEOREM ViewAlignedHolds == Spec => []ViewAligned
<1>1. CallOK => ViewAligned
  BY DEF CallOK, OutcomeOK, ViewAligned
<1>. QED  BY <1>1, AlwaysCallOK, PTL

\* No entry point succeeds on a length its guard's policy refuses: the four
\* guards agree with the policies' reference definition wherever a call
\* hands out a view.
THEOREM PolicyRespectedHolds == Spec => []PolicyRespected
<1>1. CallOK => PolicyRespected
  BY DEF CallOK, OutcomeOK, PolicyRespected
<1>. QED  BY <1>1, AlwaysCallOK, PTL

\* Every error an entry point returns is justified and reports the right
\* reason, required and actual values.
THEOREM NoSpuriousErrorHolds == Spec => []NoSpuriousError
<1>1. CallOK => NoSpuriousError
  BY DEF CallOK, OutcomeOK, NoSpuriousError
<1>. QED  BY <1>1, AlwaysCallOK, PTL

\* When no type is zero-sized, no entry point panics: the .expect of
\* base::transmute_many_permissive never fires, and no element count
\* divides by zero.  (With a zero-sized type base::transmute_many does
\* panic: see the run zero_sized.)
THEOREM NoPanicHolds ==
  ASSUME \A t \in Types : SizeOf[t] # 0
  PROVE  Spec => []NoPanic
<1>1. CallOK => NoPanic
  BY DEF CallOK, OutcomeOK, NoPanic, TypeOK, CallRecords
<1>. QED  BY <1>1, AlwaysCallOK, PTL

=============================================================================
