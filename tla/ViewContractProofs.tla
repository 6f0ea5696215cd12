------------------------- MODULE ViewContractProofs -------------------------
(***************************************************************************)
(* The slice entry points of base.rs and full.rs implement the caller's    *)
(* contract of module ViewContract, for every set of sized types, layouts, *)
(* addresses and lengths.  Each step of Transmute replaces the record of   *)
(* the last call, so the refinement needs no invariant: every step maps to *)
(* an Answer of the contract as soon as each entry point's outcome is one  *)
(* of the responses the contract allows to the request it makes.  That is *)
(* shown from the building blocks up: a refused guard, a refused           *)
(* alignment, a granted view, then the primitives and the checked          *)
(* functions that compose them.                                            *)
(***************************************************************************)
EXTENDS TransmuteProofs

USE LayoutAssumption, BufferAssumption

\* The outcome r of a call is a response the contract allows to req.
Meets(r, req) == ResponseOf(r) \in Contract!Allowed(req)

\* The contract is written with the same policies and sized types.
LEMMA ContractNames ==
  /\ Contract!Guards = Guards
  /\ Contract!SizedTypes = SizedTypes
  /\ \A g, l, s : Contract!PolicyAdmits(g, l, s) = PolicyAdmits(g, l, s)
BY DEF Contract!Guards, Guards, Contract!SizedTypes, SizedTypes,
       Contract!PolicyAdmits, PolicyAdmits

\* The fields of a request, as the entry points use them.
LEMMA RequestFields ==
  ASSUME NEW req \in Contract!Requests
  PROVE  /\ req.ty \in SizedTypes /\ req.guard \in Guards
         /\ req.addr \in Nat /\ req.len \in Nat /\ req.checked \in BOOLEAN
         /\ SizeOf[req.ty] \in Nat \ {0} /\ AlignOf[req.ty] \in Nat \ {0}
<1>1. req.ty \in SizedTypes /\ req.guard \in Guards
  BY ContractNames DEF Contract!Requests
<1>2. req.addr \in Nat /\ req.len \in Nat /\ req.checked \in BOOLEAN
  BY DEF Contract!Requests
<1>. QED  BY <1>1, <1>2 DEF SizedTypes

\* A length the guard refuses is answered with the contract's length
\* failure: the guard's reason is the one the contract names.
LEMMA GuardRefusalMeets ==
  ASSUME NEW req \in Contract!Requests,
         GuardCheck(req.guard, req.len, SizeOf[req.ty]) # NoError
  PROVE  Meets(ErrResult(GuardCheck(req.guard, req.len, SizeOf[req.ty]),
                         SizeOf[req.ty], req.len), req)
<1> DEFINE s == SizeOf[req.ty]
           l == req.len
           e == GuardCheck(req.guard, l, s)
<1>1. req.guard \in Guards /\ l \in Nat /\ s \in Nat
  BY RequestFields
<1>2. e \in {"NotEnoughBytes", "InexactByteCount"}
  BY <1>1, GuardFacts DEF GuardReasons
<1>3. ~PolicyAdmits(req.guard, l, s) /\ (e = "NotEnoughBytes" <=> l < s)
  <2>1. e = "NotEnoughBytes" => l < s /\ ~PolicyAdmits(req.guard, l, s)
    BY <1>1, GuardFacts
  <2>2. e = "InexactByteCount" => l > s /\ ~PolicyAdmits(req.guard, l, s)
    BY <1>1, GuardFacts
  <2>. QED  BY <1>1, <1>2, <2>1, <2>2
<1>4. Contract!Allowed(req) = Contract!AlignFailures(req) \cup
        {Contract!Failure(IF l < s THEN "NotEnoughBytes" ELSE "InexactByteCount", s, l)}
  BY <1>3, ContractNames
  DEF Contract!Allowed, Contract!Admissible, Contract!LengthFailures
<1>5. ResponseOf(ErrResult(e, s, l)) = Contract!Failure(e, s, l)
  BY DEF ResponseOf, ErrResult, Contract!Failure
<1>. QED  BY <1>2, <1>3, <1>4, <1>5 DEF Meets

\* A misaligned start of a checked request is answered with the
\* contract's alignment failure.
LEMMA AlignRefusalMeets ==
  ASSUME NEW req \in Contract!Requests, req.checked,
         req.addr % AlignOf[req.ty] # 0
  PROVE  Meets(UnalignedError(req.addr, req.ty), req)
<1>1. Contract!Allowed(req) = Contract!AlignFailures(req) \cup Contract!LengthFailures(req)
  BY DEF Contract!Allowed, Contract!Admissible
<1>2. Contract!Failure("Unaligned", AlignOf[req.ty], req.addr % AlignOf[req.ty])
        \in Contract!AlignFailures(req)
  BY DEF Contract!AlignFailures
<1>3. ResponseOf(UnalignedError(req.addr, req.ty))
        = Contract!Failure("Unaligned", AlignOf[req.ty], req.addr % AlignOf[req.ty])
  BY DEF ResponseOf, UnalignedError, ErrResult, MisalignOffset, Contract!Failure
<1>. QED  BY <1>1, <1>2, <1>3 DEF Meets

\* A request every check admits is answered with a view of the contract's
\* number of elements.
LEMMA GrantMeets ==
  ASSUME NEW req \in Contract!Requests, Contract!Admissible(req)
  PROVE  Meets(OkResult(Contract!Count(req)), req)
<1>1. Contract!Allowed(req) = {Contract!View(Contract!Count(req))}
  BY DEF Contract!Allowed
<1>2. ResponseOf(OkResult(Contract!Count(req))) = Contract!View(Contract!Count(req))
  BY DEF ResponseOf, OkResult, Contract!View
<1>. QED  BY <1>1, <1>2 DEF Meets

\* A guard that passes on a sized type means the policy admits the length,
\* so an aligned or unchecked request is admissible.
LEMMA PassAdmissible ==
  ASSUME NEW req \in Contract!Requests,
         GuardCheck(req.guard, req.len, SizeOf[req.ty]) = NoError,
         req.checked => req.addr % AlignOf[req.ty] = 0
  PROVE  Contract!Admissible(req)
<1>1. PolicyAdmits(req.guard, req.len, SizeOf[req.ty])
  BY RequestFields, GuardFacts
<1>. QED  BY <1>1, ContractNames DEF Contract!Admissible

\* The slice primitives answer a "many" request that is unchecked or
\* aligned: the guard's refusal, or a view of every whole element.
LEMMA SliceMeets ==
  ASSUME NEW req \in Contract!Requests, req.shape = "many",
         req.checked => req.addr % AlignOf[req.ty] = 0
  PROVE  /\ Meets(BaseTransmuteMany(req.len, req.ty, req.guard), req)
         /\ Meets(BaseTransmuteManyMut(req.len, req.ty, req.guard), req)
<1> DEFINE s == SizeOf[req.ty]
<1>1. CASE GuardCheck(req.guard, req.len, s) # NoError
  BY <1>1, GuardRefusalMeets DEF BaseTransmuteMany, BaseTransmuteManyMut, GuardedView
<1>2. CASE GuardCheck(req.guard, req.len, s) = NoError
  <2>1. Contract!Admissible(req)
    BY <1>2, PassAdmissible
  <2>2. s # 0 /\ Contract!Count(req) = req.len \div s
    BY RequestFields DEF Contract!Count
  <2>3. /\ BaseTransmuteMany(req.len, req.ty, req.guard) = OkResult(Contract!Count(req))
        /\ BaseTransmuteManyMut(req.len, req.ty, req.guard) = OkResult(Contract!Count(req))
    BY <1>2, <2>2 DEF BaseTransmuteMany, BaseTransmuteManyMut, GuardedView, SliceView
  <2>. QED  BY <2>1, <2>3, GrantMeets
<1>. QED  BY <1>1, <1>2

\* The single-value primitives answer a "one" request under SingleValue
\* or SingleMany that is unchecked or aligned: the guard's refusal, or one
\* element.
LEMMA OneMeets ==
  ASSUME NEW req \in Contract!Requests, req.shape = "one",
         req.checked => req.addr % AlignOf[req.ty] = 0
  PROVE  Meets(GuardedView(req.guard, req.len, req.ty, OkResult(1)), req)
<1>1. CASE GuardCheck(req.guard, req.len, SizeOf[req.ty]) # NoError
  BY <1>1, GuardRefusalMeets DEF GuardedView
<1>2. CASE GuardCheck(req.guard, req.len, SizeOf[req.ty]) = NoError
  <2>1. Contract!Admissible(req) /\ Contract!Count(req) = 1
    BY <1>2, PassAdmissible DEF Contract!Count
  <2>. QED  BY <1>2, <2>1, GrantMeets DEF GuardedView
<1>. QED  BY <1>1, <1>2

\* check_alignment in front of an outcome that meets an aligned checked
\* request gives an outcome that meets it whatever the start address.
LEMMA CheckedMeets ==
  ASSUME NEW req \in Contract!Requests, req.checked, NEW r,
         req.addr % AlignOf[req.ty] = 0 => Meets(r, req)
  PROVE  Meets(IF ~IsAligned(req.addr, AlignOf[req.ty])
               THEN UnalignedError(req.addr, req.ty) ELSE r, req)
<1>1. CASE req.addr % AlignOf[req.ty] # 0
  BY <1>1, AlignRefusalMeets DEF IsAligned
<1>2. CASE req.addr % AlignOf[req.ty] = 0
  BY <1>2 DEF IsAligned
<1>. QED  BY <1>1, <1>2

\* full::transmute_one_pedantic answers its checked "one" SingleValue
\* request, although it runs the guard before the alignment check.
LEMMA PedanticOneMeets ==
  ASSUME NEW req \in Contract!Requests, req.checked, req.shape = "one",
         req.guard = "SingleValue"
  PROVE  Meets(TransmuteOnePedantic(req.addr, req.len, req.ty), req)
<1> DEFINE s == SizeOf[req.ty]
           l == req.len
<1>0. s \in Nat \ {0} /\ l \in Nat
  BY RequestFields
<1>1. CASE GuardCheck("SingleValue", l, s) # NoError
  BY <1>1, GuardRefusalMeets DEF TransmuteOnePedantic
<1>2. CASE GuardCheck("SingleValue", l, s) = NoError
  <2>1. l = s
    <3>1. PolicyAdmits("SingleValue", l, s)
      BY <1>0, <1>2, GuardFacts DEF Guards
    <3>. QED  BY <3>1 DEF PolicyAdmits
  <2>2. TransmuteTrivial(l, req.ty) = OkResult(1)
    <3>1. GuardCheck("SingleMany", l, s) = NoError
      BY <1>0, <2>1 DEF GuardCheck, TooFewBytes, TooManyBytes
    <3>. QED  BY <3>1 DEF TransmuteTrivial, FromBytes, GuardedView
  <2>3. req.addr % AlignOf[req.ty] = 0 => Meets(OkResult(1), req)
    <3>1. req.addr % AlignOf[req.ty] = 0 => Contract!Admissible(req)
      BY <1>2, PassAdmissible
    <3>2. Contract!Count(req) = 1
      BY DEF Contract!Count
    <3>. QED  BY <3>1, <3>2, GrantMeets
  <2>4. Meets(IF ~IsAligned(req.addr, AlignOf[req.ty])
              THEN UnalignedError(req.addr, req.ty) ELSE OkResult(1), req)
    BY <2>3, CheckedMeets
  <2>. QED  BY <1>2, <2>2, <2>4 DEF TransmuteOnePedantic
<1>. QED  BY <1>1, <1>2

\* A request record with fields of the right kinds is a request.
LEMMA RequestIn ==
  ASSUME NEW c \in BOOLEAN, NEW sh \in {"one", "many"}, NEW a \in Nat, NEW l \in Nat,
         NEW t \in SizedTypes, NEW g \in Guards
  PROVE  [checked |-> c, shape |-> sh, addr |-> a, len |-> l, ty |-> t, guard |-> g]
           \in Contract!Requests
BY ContractNames DEF Contract!Requests

\* The request an entry point fn makes, field by field.
LEMMA RequestOfFacts ==
  ASSUME NEW fn, NEW a \in Nat, NEW l \in Nat, NEW t \in SizedTypes, NEW g \in Guards
  PROVE  /\ RequestOf(fn, a, l, t, g) \in Contract!Requests
         /\ RequestOf(fn, a, l, t, g).checked <=> fn \in FullFns
         /\ RequestOf(fn, a, l, t, g).shape = IF fn \in OneFns THEN "one" ELSE "many"
         /\ RequestOf(fn, a, l, t, g).addr = a
         /\ RequestOf(fn, a, l, t, g).len = l
         /\ RequestOf(fn, a, l, t, g).ty = t
         /\ RequestOf(fn, a, l, t, g).guard = g
<1>1. (IF fn \in OneFns THEN "one" ELSE "many") \in {"one", "many"}
  OBVIOUS
<1>2. (fn \in FullFns) \in BOOLEAN
  OBVIOUS
<1>3. RequestOf(fn, a, l, t, g) \in Contract!Requests
  BY <1>1, <1>2, RequestIn DEF RequestOf
<1>. QED  BY <1>3 DEF RequestOf

\* Every primitive of base.rs meets the unchecked request it makes.
LEMMA BaseEntryPointsMeet ==
  ASSUME NEW a \in Nat, NEW l \in Nat, NEW t \in SizedTypes, NEW g \in Guards
  PROVE  /\ Meets(FromBytes(l, t), RequestOf("base::from_bytes", a, l, t, "SingleMany"))
         /\ Meets(FromBytesPedantic(l, t),
                  RequestOf("base::from_bytes_pedantic", a, l, t, "SingleValue"))
         /\ Meets(BaseTransmuteMany(l, t, g), RequestOf("base::transmute_many", a, l, t, g))
         /\ Meets(BaseTransmuteManyMut(l, t, g),
                  RequestOf("base::transmute_many_mut", a, l, t, g))
         /\ Meets(BaseTransmuteManyPermissive(l, t),
                  RequestOf("base::transmute_many_permissive", a, l, t, "Permissive"))
<1>0. /\ {"SingleMany", "SingleValue", "Permissive"} \subseteq Guards
      /\ BaseFns \cap FullFns = {}
      /\ {"base::from_bytes", "base::from_bytes_pedantic"} \subseteq OneFns
      /\ {"base::transmute_many", "base::transmute_many_mut",
          "base::transmute_many_permissive"} \cap OneFns = {}
  BY DEF Guards, BaseFns, FullFns, OneFns
<1>1. ASSUME NEW fn \in {"base::from_bytes", "base::from_bytes_pedantic"},
             NEW G \in {"SingleMany", "SingleValue"}
      PROVE  Meets(GuardedView(G, l, t, OkResult(1)), RequestOf(fn, a, l, t, G))
  <2> DEFINE req == RequestOf(fn, a, l, t, G)
  <2>1. fn \in BaseFns
    BY DEF BaseFns
  <2>2. /\ req \in Contract!Requests /\ ~req.checked /\ req.shape = "one"
        /\ req.len = l /\ req.ty = t /\ req.guard = G
    BY <1>0, <2>1, RequestOfFacts
  <2>. QED  BY <2>2, OneMeets
<1>2. ASSUME NEW fn \in {"base::transmute_many", "base::transmute_many_mut",
                         "base::transmute_many_permissive"},
             NEW G \in Guards
      PROVE  /\ Meets(BaseTransmuteMany(l, t, G), RequestOf(fn, a, l, t, G))
             /\ Meets(BaseTransmuteManyMut(l, t, G), RequestOf(fn, a, l, t, G))
  <2> DEFINE req == RequestOf(fn, a, l, t, G)
  <2>1. fn \notin FullFns /\ fn \notin OneFns
    BY DEF FullFns, OneFns
  <2>2. /\ req \in Contract!Requests /\ ~req.checked /\ req.shape = "many"
        /\ req.len = l /\ req.ty = t /\ req.guard = G
    BY <2>1, RequestOfFacts
  <2>. QED  BY <2>2, SliceMeets
<1>3. BaseTransmuteManyPermissive(l, t) = BaseTransmuteMany(l, t, "Permissive")
  <2>1. GuardCheck("Permissive", l, SizeOf[t]) = NoError
    BY GuardFacts DEF SizedTypes
  <2>2. SizeOf[t] # 0
    BY DEF SizedTypes
  <2>3. BaseTransmuteMany(l, t, "Permissive").kind # "Err"
    BY <2>1, <2>2 DEF BaseTransmuteMany, GuardedView, SliceView, OkResult
  <2>. QED  BY <2>3 DEF BaseTransmuteManyPermissive
<1>. QED  BY <1>0, <1>1, <1>2, <1>3 DEF FromBytes, FromBytesPedantic

\* Every function of full.rs meets the checked request it makes.
LEMMA FullEntryPointsMeet ==
  ASSUME NEW a \in Nat, NEW l \in Nat, NEW t \in SizedTypes, NEW g \in Guards
  PROVE  /\ Meets(TransmuteOne(a, l, t), RequestOf("full::transmute_one", a, l, t, "SingleMany"))
         /\ Meets(TransmuteOnePedantic(a, l, t),
                  RequestOf("full::transmute_one_pedantic", a, l, t, "SingleValue"))
         /\ Meets(TransmuteMany(a, l, t, g), RequestOf("full::transmute_many", a, l, t, g))
         /\ Meets(TransmuteManyPermissive(a, l, t),
                  RequestOf("full::transmute_many_permissive", a, l, t, "Permissive"))
         /\ Meets(TransmuteManyPedantic(a, l, t),
                  RequestOf("full::transmute_many_pedantic", a, l, t, "Pedantic"))
         /\ Meets(TransmuteManyMut(a, l, t, g),
                  RequestOf("full::transmute_many_mut", a, l, t, g))
         /\ Meets(TransmuteManyPermissiveMut(a, l, t),
                  RequestOf("full::transmute_many_permissive_mut", a, l, t, "Permissive"))
         /\ Meets(TransmuteManyPedanticMut(a, l, t),
                  RequestOf("full::transmute_many_pedantic_mut", a, l, t, "Pedantic"))
<1>0. /\ {"SingleMany", "SingleValue", "Permissive", "Pedantic"} \subseteq Guards
      /\ {"full::transmute_one", "full::transmute_one_pedantic"} \subseteq OneFns
  BY DEF Guards, OneFns
<1>1. Meets(TransmuteOne(a, l, t), RequestOf("full::transmute_one", a, l, t, "SingleMany"))
  <2> DEFINE req == RequestOf("full::transmute_one", a, l, t, "SingleMany")
  <2>1. "full::transmute_one" \in FullFns
    BY DEF FullFns
  <2>2. /\ req \in Contract!Requests /\ req.checked /\ req.shape = "one"
        /\ req.addr = a /\ req.len = l /\ req.ty = t /\ req.guard = "SingleMany"
    BY <1>0, <2>1, RequestOfFacts
  <2>3. req.addr % AlignOf[req.ty] = 0 => Meets(TransmuteTrivial(l, t), req)
    BY <2>2, OneMeets DEF TransmuteTrivial, FromBytes
  <2>4. Meets(IF ~IsAligned(req.addr, AlignOf[req.ty])
              THEN UnalignedError(req.addr, req.ty) ELSE TransmuteTrivial(l, t), req)
    BY <2>2, <2>3, CheckedMeets
  <2>. QED  BY <2>2, <2>4 DEF TransmuteOne
<1>2. Meets(TransmuteOnePedantic(a, l, t),
            RequestOf("full::transmute_one_pedantic", a, l, t, "SingleValue"))
  <2> DEFINE req == RequestOf("full::transmute_one_pedantic", a, l, t, "SingleValue")
  <2>1. "full::transmute_one_pedantic" \in FullFns
    BY DEF FullFns
  <2>2. /\ req \in Contract!Requests /\ req.checked /\ req.shape = "one"
        /\ req.addr = a /\ req.len = l /\ req.ty = t /\ req.guard = "SingleValue"
    BY <1>0, <2>1, RequestOfFacts
  <2>3. Meets(TransmuteOnePedantic(req.addr, req.len, req.ty), req)
    BY <2>2, PedanticOneMeets
  <2>. QED  BY <2>2, <2>3
<1>3. ASSUME NEW fn \in {"full::transmute_many", "full::transmute_many_permissive",
                         "full::transmute_many_pedantic", "full::transmute_many_mut",
                         "full::transmute_many_permissive_mut",
                         "full::transmute_many_pedantic_mut"},
             NEW G \in Guards
      PROVE  /\ Meets(TransmuteMany(a, l, t, G), RequestOf(fn, a, l, t, G))
             /\ Meets(TransmuteManyMut(a, l, t, G), RequestOf(fn, a, l, t, G))
  <2> DEFINE req == RequestOf(fn, a, l, t, G)
  <2>1. fn \in FullFns /\ fn \notin OneFns
    BY DEF FullFns, OneFns
  <2>2. /\ req \in Contract!Requests /\ req.checked /\ req.shape = "many"
        /\ req.addr = a /\ req.len = l /\ req.ty = t /\ req.guard = G
    BY <2>1, RequestOfFacts
  <2>3. req.addr % AlignOf[req.ty] = 0 =>
          /\ Meets(TransmuteTrivialMany(l, t, G), req)
          /\ Meets(TransmuteTrivialManyMut(l, t, G), req)
    BY <2>2, SliceMeets DEF TransmuteTrivialMany, TransmuteTrivialManyMut
  <2>4. Meets(IF ~IsAligned(req.addr, AlignOf[req.ty])
              THEN UnalignedError(req.addr, req.ty) ELSE TransmuteTrivialMany(l, t, G), req)
    BY <2>2, <2>3, CheckedMeets
  <2>5. Meets(IF ~IsAligned(req.addr, AlignOf[req.ty])
              THEN UnalignedError(req.addr, req.ty) ELSE TransmuteTrivialManyMut(l, t, G), req)
    BY <2>2, <2>3, CheckedMeets
  <2>. QED  BY <2>2, <2>4, <2>5 DEF TransmuteMany, TransmuteManyMut
<1>. QED
  BY <1>0, <1>1, <1>2, <1>3
  DEF TransmuteManyPermissive, TransmuteManyPedantic, TransmuteManyPermissiveMut,
      TransmuteManyPedanticMut

-----------------------------------------------------------------------------
\* A call whose outcome meets its request is an Answer of the contract.
LEMMA CallRefines ==
  ASSUME NEW fn \in FullFns \cup BaseFns, NEW a \in Nat, NEW l \in Nat,
         NEW t \in SizedTypes, NEW g \in Guards, NEW r,
         Meets(r, RequestOf(fn, a, l, t, g)),
         Call(fn, a, l, t, g, r)
  PROVE  Contract!Next
<1>1. fn # "none"
  BY DEF FullFns, BaseFns
<1>2. AnswerBar' = [req |-> RequestOf(fn, a, l, t, g), res |-> ResponseOf(r)]
  BY <1>1 DEF AnswerBar, Call
<1>3. RequestOf(fn, a, l, t, g) \in Contract!Requests
  BY RequestOfFacts
<1>4. Contract!Answer(RequestOf(fn, a, l, t, g), ResponseOf(r))
  BY <1>2, <1>3 DEF Contract!Answer, Meets
<1>. QED  BY <1>2, <1>4 DEF Contract!Next

\* With no zero-sized type, every step of the slice model is an Answer of
\* the contract or leaves the mapped answer unchanged.
LEMMA NextRefines ==
  ASSUME \A t \in Types : SizeOf[t] # 0
  PROVE  [Next]_vars => [Contract!Next]_AnswerBar
<1> SUFFICES ASSUME [Next]_vars PROVE [Contract!Next]_AnswerBar
  OBVIOUS
<1>0. /\ Types = SizedTypes
      /\ \A a \in Addrs : a \in Nat
      /\ \A l \in Lens : l \in Nat
      /\ {"SingleMany", "SingleValue", "Permissive", "Pedantic"} \subseteq Guards
  BY DEF SizedTypes, Lens, Guards
<1>1. CASE UNCHANGED vars
  BY <1>1 DEF vars, AnswerBar
<1>2. CASE FromBytesCall
  <2>1. PICK a \in Addrs, l \in Lens, t \in Types :
          Call("base::from_bytes", a, l, t, "SingleMany", FromBytes(l, t))
    BY <1>2 DEF FromBytesCall
  <2>2. a \in Nat /\ l \in Nat /\ t \in SizedTypes /\ "base::from_bytes" \in FullFns \cup BaseFns
    BY <1>0 DEF BaseFns
  <2>3. Meets(FromBytes(l, t), RequestOf("base::from_bytes", a, l, t, "SingleMany"))
    BY <1>0, <2>2, BaseEntryPointsMeet
  <2>. QED  BY <1>0, <2>1, <2>2, <2>3, CallRefines
<1>3. CASE FromBytesPedanticCall
  <2>1. PICK a \in Addrs, l \in Lens, t \in Types :
          Call("base::from_bytes_pedantic", a, l, t, "SingleValue", FromBytesPedantic(l, t))
    BY <1>3 DEF FromBytesPedanticCall
  <2>2. a \in Nat /\ l \in Nat /\ t \in SizedTypes /\ "base::from_bytes_pedantic" \in FullFns \cup BaseFns
    BY <1>0 DEF BaseFns
  <2>3. Meets(FromBytesPedantic(l, t), RequestOf("base::from_bytes_pedantic", a, l, t, "SingleValue"))
    BY <1>0, <2>2, BaseEntryPointsMeet
  <2>. QED  BY <1>0, <2>1, <2>2, <2>3, CallRefines
<1>4. CASE BaseTransmuteManyCall
  <2>1. PICK a \in Addrs, l \in Lens, t \in Types, g \in Guards :
          Call("base::transmute_many", a, l, t, g, BaseTransmuteMany(l, t, g))
    BY <1>4 DEF BaseTransmuteManyCall
  <2>2. a \in Nat /\ l \in Nat /\ t \in SizedTypes /\ "base::transmute_many" \in FullFns \cup BaseFns
    BY <1>0 DEF BaseFns
  <2>3. Meets(BaseTransmuteMany(l, t, g), RequestOf("base::transmute_many", a, l, t, g))
    BY <1>0, <2>2, BaseEntryPointsMeet
  <2>. QED  BY <1>0, <2>1, <2>2, <2>3, CallRefines
<1>5. CASE BaseTransmuteManyMutCall
  <2>1. PICK a \in Addrs, l \in Lens, t \in Types, g \in Guards :
          Call("base::transmute_many_mut", a, l, t, g, BaseTransmuteManyMut(l, t, g))
    BY <1>5 DEF BaseTransmuteManyMutCall
  <2>2. a \in Nat /\ l \in Nat /\ t \in SizedTypes /\ "base::transmute_many_mut" \in FullFns \cup BaseFns
    BY <1>0 DEF BaseFns
  <2>3. Meets(BaseTransmuteManyMut(l, t, g), RequestOf("base::transmute_many_mut", a, l, t, g))
    BY <1>0, <2>2, BaseEntryPointsMeet
  <2>. QED  BY <1>0, <2>1, <2>2, <2>3, CallRefines
<1>6. CASE BaseTransmuteManyPermissiveCall
  <2>1. PICK a \in Addrs, l \in Lens, t \in Types :
          Call("base::transmute_many_permissive", a, l, t, "Permissive", BaseTransmuteManyPermissive(l, t))
    BY <1>6 DEF BaseTransmuteManyPermissiveCall
  <2>2. a \in Nat /\ l \in Nat /\ t \in SizedTypes /\ "base::transmute_many_permissive" \in FullFns \cup BaseFns
    BY <1>0 DEF BaseFns
  <2>3. Meets(BaseTransmuteManyPermissive(l, t), RequestOf("base::transmute_many_permissive", a, l, t, "Permissive"))
    BY <1>0, <2>2, BaseEntryPointsMeet
  <2>. QED  BY <1>0, <2>1, <2>2, <2>3, CallRefines
<1>7. CASE TransmuteOneCall
  <2>1. PICK a \in Addrs, l \in Lens, t \in SizedTypes :
          Call("full::transmute_one", a, l, t, "SingleMany", TransmuteOne(a, l, t))
    BY <1>7 DEF TransmuteOneCall
  <2>2. a \in Nat /\ l \in Nat /\ t \in SizedTypes /\ "full::transmute_one" \in FullFns \cup BaseFns
    BY <1>0 DEF FullFns
  <2>3. Meets(TransmuteOne(a, l, t), RequestOf("full::transmute_one", a, l, t, "SingleMany"))
    BY <1>0, <2>2, FullEntryPointsMeet
  <2>. QED  BY <1>0, <2>1, <2>2, <2>3, CallRefines
<1>8. CASE TransmuteOnePedanticCall
  <2>1. PICK a \in Addrs, l \in Lens, t \in SizedTypes :
          Call("full::transmute_one_pedantic", a, l, t, "SingleValue", TransmuteOnePedantic(a, l, t))
    BY <1>8 DEF TransmuteOnePedanticCall
  <2>2. a \in Nat /\ l \in Nat /\ t \in SizedTypes /\ "full::transmute_one_pedantic" \in FullFns \cup BaseFns
    BY <1>0 DEF FullFns
  <2>3. Meets(TransmuteOnePedantic(a, l, t), RequestOf("full::transmute_one_pedantic", a, l, t, "SingleValue"))
    BY <1>0, <2>2, FullEntryPointsMeet
  <2>. QED  BY <1>0, <2>1, <2>2, <2>3, CallRefines
<1>9. CASE TransmuteManyCall
  <2>1. PICK a \in Addrs, l \in Lens, t \in SizedTypes, g \in Guards :
          Call("full::transmute_many", a, l, t, g, TransmuteMany(a, l, t, g))
    BY <1>9 DEF TransmuteManyCall
  <2>2. a \in Nat /\ l \in Nat /\ t \in SizedTypes /\ "full::transmute_many" \in FullFns \cup BaseFns
    BY <1>0 DEF FullFns
  <2>3. Meets(TransmuteMany(a, l, t, g), RequestOf("full::transmute_many", a, l, t, g))
    BY <1>0, <2>2, FullEntryPointsMeet
  <2>. QED  BY <1>0, <2>1, <2>2, <2>3, CallRefines
<1>10. CASE TransmuteManyPermissiveCall
  <2>1. PICK a \in Addrs, l \in Lens, t \in SizedTypes :
          Call("full::transmute_many_permissive", a, l, t, "Permissive", TransmuteManyPermissive(a, l, t))
    BY <1>10 DEF TransmuteManyPermissiveCall
  <2>2. a \in Nat /\ l \in Nat /\ t \in SizedTypes /\ "full::transmute_many_permissive" \in FullFns \cup BaseFns
    BY <1>0 DEF FullFns
  <2>3. Meets(TransmuteManyPermissive(a, l, t), RequestOf("full::transmute_many_permissive", a, l, t, "Permissive"))
    BY <1>0, <2>2, FullEntryPointsMeet
  <2>. QED  BY <1>0, <2>1, <2>2, <2>3, CallRefines
<1>11. CASE TransmuteManyPedanticCall
  <2>1. PICK a \in Addrs, l \in Lens, t \in SizedTypes :
          Call("full::transmute_many_pedantic", a, l, t, "Pedantic", TransmuteManyPedantic(a, l, t))
    BY <1>11 DEF TransmuteManyPedanticCall
  <2>2. a \in Nat /\ l \in Nat /\ t \in SizedTypes /\ "full::transmute_many_pedantic" \in FullFns \cup BaseFns
    BY <1>0 DEF FullFns
  <2>3. Meets(TransmuteManyPedantic(a, l, t), RequestOf("full::transmute_many_pedantic", a, l, t, "Pedantic"))
    BY <1>0, <2>2, FullEntryPointsMeet
  <2>. QED  BY <1>0, <2>1, <2>2, <2>3, CallRefines
<1>12. CASE TransmuteManyMutCall
  <2>1. PICK a \in Addrs, l \in Lens, t \in SizedTypes, g \in Guards :
          Call("full::transmute_many_mut", a, l, t, g, TransmuteManyMut(a, l, t, g))
    BY <1>12 DEF TransmuteManyMutCall
  <2>2. a \in Nat /\ l \in Nat /\ t \in SizedTypes /\ "full::transmute_many_mut" \in FullFns \cup BaseFns
    BY <1>0 DEF FullFns
  <2>3. Meets(TransmuteManyMut(a, l, t, g), RequestOf("full::transmute_many_mut", a, l, t, g))
    BY <1>0, <2>2, FullEntryPointsMeet
  <2>. QED  BY <1>0, <2>1, <2>2, <2>3, CallRefines
<1>13. CASE TransmuteManyPermissiveMutCall
  <2>1. PICK a \in Addrs, l \in Lens, t \in SizedTypes :
          Call("full::transmute_many_permissive_mut", a, l, t, "Permissive", TransmuteManyPermissiveMut(a, l, t))
    BY <1>13 DEF TransmuteManyPermissiveMutCall
  <2>2. a \in Nat /\ l \in Nat /\ t \in SizedTypes /\ "full::transmute_many_permissive_mut" \in FullFns \cup BaseFns
    BY <1>0 DEF FullFns
  <2>3. Meets(TransmuteManyPermissiveMut(a, l, t), RequestOf("full::transmute_many_permissive_mut", a, l, t, "Permissive"))
    BY <1>0, <2>2, FullEntryPointsMeet
  <2>. QED  BY <1>0, <2>1, <2>2, <2>3, CallRefines
<1>14. CASE TransmuteManyPedanticMutCall
  <2>1. PICK a \in Addrs, l \in Lens, t \in SizedTypes :
          Call("full::transmute_many_pedantic_mut", a, l, t, "Pedantic", TransmuteManyPedanticMut(a, l, t))
    BY <1>14 DEF TransmuteManyPedanticMutCall
  <2>2. a \in Nat /\ l \in Nat /\ t \in SizedTypes /\ "full::transmute_many_pedantic_mut" \in FullFns \cup BaseFns
    BY <1>0 DEF FullFns
  <2>3. Meets(TransmuteManyPedanticMut(a, l, t), RequestOf("full::transmute_many_pedantic_mut", a, l, t, "Pedantic"))
    BY <1>0, <2>2, FullEntryPointsMeet
  <2>. QED  BY <1>0, <2>1, <2>2, <2>3, CallRefines
<1>. QED
  BY <1>1, <1>2, <1>3, <1>4, <1>5, <1>6, <1>7, <1>8, <1>9, <1>10, <1>11, <1>12, <1>13, <1>14 DEF Next

\* The slice entry points of base.rs and full.rs implement the caller's
\* contract of ViewContract whenever no type is zero-sized: a view exactly
\* when the checks admit the buffer, of one element or of every whole
\* element, and otherwise an error naming a failed check.  (With a
\* zero-sized type base::transmute_many panics: see the run zero_sized.)
THEOREM ContractRefinementHolds ==
  ASSUME \A t \in Types : SizeOf[t] # 0
  PROVE  Spec => ContractRefinement
<1>1. Init => Contract!Init
  BY DEF Init, AnswerBar, Contract!Init, Contract!NoAnswer
<1>2. [Next]_vars => [Contract!Next]_AnswerBar
  BY NextRefines
<1>. QED  BY <1>1, <1>2, PTL DEF Spec, ContractRefinement, Contract!Spec

=============================================================================
