------------------------- MODULE VecTransmuteProofs -------------------------
(***************************************************************************)
(* Proofs about transmute_vec for every set of types, handles, slots and   *)
(* capacities.  The ownership invariant VecInv (every live Vec owns a live *)
(* slot allocated with its own layout, no two live Vecs share a slot, no   *)
(* live slot is unowned) is inductive together with the type invariant:    *)
(* each conjunct needs the others to survive a step (a dropped Vec frees a *)
(* slot no other Vec owns only because ownership is unique; a new Vec      *)
(* takes a slot no live Vec owns only because owned slots are live).       *)
(***************************************************************************)
EXTENDS VecTransmute, TLAPS

USE LayoutAssumption, VecAssumption

VecInv == TypeOK /\ OwnedLayout /\ UniqueOwner /\ NoLeak

\* Rescaling by size_of::<S>() / size_of::<T>() is the identity when the
\* two sizes are equal.
LEMMA ScaleSameSize ==
  ASSUME NEW n \in Nat, NEW s \in Nat \ {0}
  PROVE  (n * s) \div s = n
BY SMT

LEMMA InitVecInv == Init => VecInv
BY DEF Init, VecInv, TypeOK, OwnedLayout, UniqueOwner, NoLeak, FreeSlot, NoVec,
       NoOutcome

LEMMA NewVecInv ==
  ASSUME VecInv, NEW h \in Handles, NEW t \in SizedTypes, NEW cap \in 0 .. MaxCap,
         NEW len \in 0 .. MaxCap, NewVec(h, t, cap, len)
  PROVE  VecInv'
<1>1. PICK a \in Allocs :
        /\ ~heap[a].live
        /\ heap' = [heap EXCEPT ![a] = [live |-> TRUE, bytes |-> cap * SizeOf[t],
                                        align |-> AlignOf[t]]]
        /\ vecs' = [vecs EXCEPT ![h] = [live |-> TRUE, alloc |-> a, ty |-> t,
                                        len |-> len, cap |-> cap]]
  BY DEF NewVec
<1>0. ~vecs[h].live /\ outcome' = NoOutcome
  BY DEF NewVec
<1>2. \A h1 \in Handles : vecs[h1].live => vecs[h1].alloc # a
  BY <1>1 DEF VecInv, OwnedLayout
<1>3. TypeOK'
  <2>1. cap * SizeOf[t] \in Nat /\ AlignOf[t] \in Nat \ {0} /\ cap \in Nat /\ len \in Nat
    BY DEF SizedTypes
  <2>2. heap' \in [Allocs -> [live: BOOLEAN, bytes: Nat, align: Nat \ {0}]]
    BY <1>1, <2>1 DEF VecInv, TypeOK
  <2>3. vecs' \in [Handles -> {NoVec} \cup
                     [live: {TRUE}, alloc: Allocs, ty: SizedTypes, len: Nat, cap: Nat]]
    BY <1>1, <2>1 DEF VecInv, TypeOK
  <2>4. outcome' \in {NoOutcome} \cup [kind: {"Ok", "Err"}, src: Handles, dst: Handles]
    BY <1>0
  <2>. QED  BY <2>2, <2>3, <2>4 DEF TypeOK
<1>4. OwnedLayout'
  BY <1>1, <1>2 DEF VecInv, TypeOK, OwnedLayout
<1>5. UniqueOwner'
  BY <1>1, <1>2 DEF VecInv, TypeOK, UniqueOwner
<1>6. NoLeak'
  BY <1>0, <1>1 DEF VecInv, TypeOK, NoLeak
<1>. QED  BY <1>3, <1>4, <1>5, <1>6 DEF VecInv

LEMMA DropVecInv ==
  ASSUME VecInv, NEW h \in Handles, DropVec(h)
  PROVE  VecInv'
<1> DEFINE a == vecs[h].alloc
<1>0. vecs[h].live
  BY DEF DropVec
<1>1. a \in Allocs
  <2>1. vecs[h] # NoVec
    BY <1>0 DEF NoVec
  <2>2. vecs[h] \in [live: {TRUE}, alloc: Allocs, ty: SizedTypes, len: Nat, cap: Nat]
    BY <2>1 DEF VecInv, TypeOK
  <2>. QED  BY <2>2
<1>2. \A h1 \in Handles : vecs[h1].live /\ h1 # h => vecs[h1].alloc # a
  BY <1>0 DEF VecInv, UniqueOwner
<1>3. TypeOK'
  <2>1. heap' \in [Allocs -> [live: BOOLEAN, bytes: Nat, align: Nat \ {0}]]
    BY <1>1 DEF DropVec, VecInv, TypeOK, FreeSlot
  <2>2. vecs' \in [Handles -> {NoVec} \cup
                     [live: {TRUE}, alloc: Allocs, ty: SizedTypes, len: Nat, cap: Nat]]
    BY DEF DropVec, VecInv, TypeOK
  <2>3. outcome' \in {NoOutcome} \cup [kind: {"Ok", "Err"}, src: Handles, dst: Handles]
    BY DEF DropVec
  <2>. QED  BY <2>1, <2>2, <2>3 DEF TypeOK
<1>4. OwnedLayout'
  BY <1>1, <1>2 DEF DropVec, VecInv, TypeOK, OwnedLayout, NoVec
<1>5. UniqueOwner'
  BY <1>1 DEF DropVec, VecInv, TypeOK, UniqueOwner, NoVec
<1>6. NoLeak'
  BY <1>1 DEF DropVec, VecInv, TypeOK, NoLeak, NoVec, FreeSlot
<1>. QED  BY <1>3, <1>4, <1>5, <1>6 DEF VecInv

\* Both transmute_vec functions move a live Vec from handle h to the empty
\* handle h2 as a Vec w over the same slot with the same allocated layout,
\* leaving the heap alone.  Such a move keeps the invariant.
LEMMA MoveInv ==
  ASSUME VecInv, NEW h \in Handles, NEW h2 \in Handles, NEW w,
         vecs[h].live, ~vecs[h2].live,
         w \in [live: {TRUE}, alloc: Allocs, ty: SizedTypes, len: Nat, cap: Nat],
         w.alloc = vecs[h].alloc,
         w.cap * SizeOf[w.ty] = vecs[h].cap * SizeOf[vecs[h].ty],
         AlignOf[w.ty] = AlignOf[vecs[h].ty],
         vecs' = [vecs EXCEPT ![h] = NoVec, ![h2] = w],
         heap' = heap,
         outcome' \in [kind: {"Ok", "Err"}, src: Handles, dst: Handles]
  PROVE  VecInv'
<1>1. h # h2
  OBVIOUS
<1>2. vecs[h] \in [live: {TRUE}, alloc: Allocs, ty: SizedTypes, len: Nat, cap: Nat]
  BY DEF VecInv, TypeOK, NoVec
<1>3. TypeOK'
  BY DEF VecInv, TypeOK
<1>4. OwnedLayout'
  <2> SUFFICES ASSUME NEW h1 \in Handles, vecs'[h1].live
               PROVE  /\ heap'[vecs'[h1].alloc].live
                      /\ heap'[vecs'[h1].alloc].bytes = vecs'[h1].cap * SizeOf[vecs'[h1].ty]
                      /\ heap'[vecs'[h1].alloc].align = AlignOf[vecs'[h1].ty]
    BY DEF OwnedLayout
  <2>1. CASE h1 = h2
    <3>1. vecs'[h1] = w
      BY <2>1 DEF VecInv, TypeOK
    <3>. QED  BY <1>2, <3>1 DEF VecInv, OwnedLayout
  <2>2. CASE h1 # h2
    <3>1. h1 # h
      BY <2>2 DEF VecInv, TypeOK, NoVec
    <3>2. vecs'[h1] = vecs[h1]
      BY <2>2, <3>1 DEF VecInv, TypeOK
    <3>. QED  BY <3>2 DEF VecInv, OwnedLayout
  <2>. QED  BY <2>1, <2>2
<1>5. UniqueOwner'
  <2>1. \A h1 \in Handles : vecs[h1].live /\ h1 # h => vecs[h1].alloc # w.alloc
    BY DEF VecInv, UniqueOwner
  <2>. QED  BY <1>1, <2>1 DEF VecInv, TypeOK, UniqueOwner, NoVec
<1>6. NoLeak'
  <2> SUFFICES ASSUME NEW b \in Allocs, heap'[b].live
               PROVE  \E h1 \in Handles : vecs'[h1].live /\ vecs'[h1].alloc = b
    BY DEF NoLeak
  <2>1. PICK h1 \in Handles : vecs[h1].live /\ vecs[h1].alloc = b
    BY DEF VecInv, NoLeak
  <2>2. CASE h1 = h
    <3>1. vecs'[h2] = w
      BY DEF VecInv, TypeOK
    <3>. QED  BY <2>1, <2>2, <3>1
  <2>3. CASE h1 # h
    <3>1. h1 # h2
      BY <2>1
    <3>2. vecs'[h1] = vecs[h1]
      BY <2>3, <3>1 DEF VecInv, TypeOK
    <3>. QED  BY <2>1, <3>2
  <2>. QED  BY <2>2, <2>3
<1>. QED  BY <1>3, <1>4, <1>5, <1>6 DEF VecInv

LEMMA BaseTransmuteVecInv ==
  ASSUME VecInv, NEW h \in Handles, NEW t \in SizedTypes, NEW h2 \in Handles,
         BaseTransmuteVec(h, t, h2)
  PROVE  VecInv'
<1> DEFINE v == vecs[h]
           s == v.ty
           w == Moved(v, t, (v.len * SizeOf[s]) \div SizeOf[t],
                      (v.cap * SizeOf[s]) \div SizeOf[t])
<1>1. v.live /\ ~vecs[h2].live /\ SizeOf[s] = SizeOf[t] /\ AlignOf[s] = AlignOf[t]
  BY DEF BaseTransmuteVec
<1>2. v \in [live: {TRUE}, alloc: Allocs, ty: SizedTypes, len: Nat, cap: Nat]
  BY <1>1 DEF VecInv, TypeOK, NoVec
<1>3. SizeOf[t] \in Nat \ {0}
  BY DEF SizedTypes
<1>4. /\ (v.len * SizeOf[s]) \div SizeOf[t] = v.len
      /\ (v.cap * SizeOf[s]) \div SizeOf[t] = v.cap
  BY <1>1, <1>2, <1>3, ScaleSameSize
<1>5. w = [live |-> TRUE, alloc |-> v.alloc, ty |-> t, len |-> v.len, cap |-> v.cap]
  BY <1>4 DEF Moved
<1>6. w \in [live: {TRUE}, alloc: Allocs, ty: SizedTypes, len: Nat, cap: Nat]
  BY <1>2, <1>4 DEF w, Moved
<1>7. /\ vecs' = [vecs EXCEPT ![h] = NoVec, ![h2] = w]
      /\ heap' = heap
      /\ outcome' \in [kind: {"Ok", "Err"}, src: Handles, dst: Handles]
  BY DEF BaseTransmuteVec
<1>. QED  BY <1>1, <1>5, <1>6, <1>7, MoveInv

LEMMA FullTransmuteVecInv ==
  ASSUME VecInv, NEW h \in Handles, NEW t \in SizedTypes, NEW h2 \in Handles,
         FullTransmuteVec(h, t, h2)
  PROVE  VecInv'
<1> DEFINE v == vecs[h]
           s == v.ty
<1>1. v.live /\ ~vecs[h2].live /\ heap' = heap
  BY DEF FullTransmuteVec
<1>2. v \in [live: {TRUE}, alloc: Allocs, ty: SizedTypes, len: Nat, cap: Nat]
  BY <1>1 DEF VecInv, TypeOK, NoVec
<1>3. CASE AlignOf[s] # AlignOf[t] \/ SizeOf[s] # SizeOf[t]
  <2>1. /\ vecs' = [vecs EXCEPT ![h] = NoVec, ![h2] = v]
        /\ outcome' \in [kind: {"Ok", "Err"}, src: Handles, dst: Handles]
    BY <1>3 DEF FullTransmuteVec
  <2>. QED  BY <1>1, <1>2, <2>1, MoveInv
<1>4. CASE ~(AlignOf[s] # AlignOf[t] \/ SizeOf[s] # SizeOf[t])
  <2> DEFINE w == Moved(v, t, v.len, v.cap)
  <2>1. /\ vecs' = [vecs EXCEPT ![h] = NoVec, ![h2] = w]
        /\ outcome' \in [kind: {"Ok", "Err"}, src: Handles, dst: Handles]
    BY <1>4 DEF FullTransmuteVec
  <2>2. w \in [live: {TRUE}, alloc: Allocs, ty: SizedTypes, len: Nat, cap: Nat]
    BY <1>2 DEF Moved
  <2>3. w.alloc = v.alloc /\ w.ty = t /\ w.cap = v.cap
    BY DEF Moved
  <2>. QED  BY <1>1, <1>4, <2>1, <2>2, <2>3, MoveInv
<1>. QED  BY <1>3, <1>4

LEMMA NextVecInv == VecInv /\ [Next]_vars => VecInv'
<1> SUFFICES ASSUME VecInv, [Next]_vars PROVE VecInv'
  OBVIOUS
<1>1. CASE \E h \in Handles, t \in SizedTypes, cap \in 0 .. MaxCap, len \in 0 .. MaxCap :
             NewVec(h, t, cap, len)
  BY <1>1, NewVecInv
<1>2. CASE \E h \in Handles : DropVec(h)
  BY <1>2, DropVecInv
<1>3. CASE \E h, h2 \in Handles, t \in SizedTypes : BaseTransmuteVec(h, t, h2)
  BY <1>3, BaseTransmuteVecInv
<1>4. CASE \E h, h2 \in Handles, t \in SizedTypes : FullTransmuteVec(h, t, h2)
  BY <1>4, FullTransmuteVecInv
<1>5. CASE UNCHANGED vars
  BY <1>5 DEF vars, VecInv, TypeOK, OwnedLayout, UniqueOwner, NoLeak
<1>. QED  BY <1>1, <1>2, <1>3, <1>4, <1>5 DEF Next

LEMMA AlwaysVecInv == Spec => []VecInv
BY InitVecInv, NextVecInv, PTL DEF Spec

\* Type correctness of the Vec model.
THEOREM VecTypeCorrect == Spec => []TypeOK
BY AlwaysVecInv, PTL DEF VecInv

\* Every live Vec, before and after any sequence of transmute_vec calls,
\* owns a live slot allocated with exactly its own layout, so dropping it
\* deallocates with the layout it was allocated with.
THEOREM OwnedLayoutHolds == Spec => []OwnedLayout
BY AlwaysVecInv, PTL DEF VecInv

\* No two live Vecs ever share storage: transmute_vec never creates a second
\* owner, so no storage is released twice.
THEOREM UniqueOwnerHolds == Spec => []UniqueOwner
BY AlwaysVecInv, PTL DEF VecInv

\* No live storage is ever without an owner: a failed full::transmute_vec
\* hands its vec back.
THEOREM NoLeakHolds == Spec => []NoLeak
BY AlwaysVecInv, PTL DEF VecInv

-----------------------------------------------------------------------------
(***************************************************************************)
(* Refinement: the Vec model implements the storage contract of module     *)
(* Storage under the mapping HoldsBar.  A new Vec is an acquisition, a     *)
(* drop a release, and every transmute_vec call, refused or not, a         *)
(* hand-over of the whole allocation.  The step proof needs VecInv: that   *)
(* the slot a new Vec takes is free in the abstract view and that a live   *)
(* Vec's hold is not the empty one both rest on it.                        *)
(***************************************************************************)
\* len elements of a type never take more bytes than cap elements.
LEMMA MulMono ==
  ASSUME NEW len \in Nat, NEW cap \in Nat, NEW s \in Nat, len <= cap
  PROVE  len * s \in 0 .. cap * s
BY SMT

LiveVecs == [live: {TRUE}, alloc: Allocs, ty: SizedTypes, len: Nat, cap: Nat]

\* A handle holds either no Vec or a live one.
LEMMA VecShape ==
  ASSUME TypeOK, NEW h \in Handles
  PROVE  /\ vecs[h].live => vecs[h] \in LiveVecs
         /\ ~vecs[h].live => vecs[h] = NoVec
<1>1. vecs[h] \in {NoVec} \cup LiveVecs
  BY DEF TypeOK, LiveVecs
<1>2. ~NoVec.live
  BY DEF NoVec
<1>3. \A v \in LiveVecs : v.live
  BY Zenon DEF LiveVecs
<1>. QED  BY <1>1, <1>2, <1>3, Zenon

\* The abstract hold of a handle is empty exactly when it holds no Vec.
LEMMA HoldsBarEmpty ==
  ASSUME TypeOK, NEW h \in Handles
  PROVE  /\ ~vecs[h].live => HoldsBar[h] = Abstract!NoHold
         /\ vecs[h].live =>
              /\ HoldsBar[h] = [alloc |-> vecs[h].alloc,
                                used |-> vecs[h].len * SizeOf[vecs[h].ty]]
              /\ vecs[h].alloc \in Allocs
              /\ HoldsBar[h] # Abstract!NoHold
<1>1. ~vecs[h].live => HoldsBar[h] = Abstract!NoHold
  BY DEF HoldsBar, Abstract!NoHold
<1>2. vecs[h].live => HoldsBar[h] = [alloc |-> vecs[h].alloc,
                                     used |-> vecs[h].len * SizeOf[vecs[h].ty]]
  BY DEF HoldsBar
<1>3. vecs[h].live => vecs[h].alloc \in Allocs
  BY VecShape DEF LiveVecs
<1>. QED  BY <1>1, <1>2, <1>3 DEF Abstract!NoHold

\* A step that records no transmute_vec call is no hand-over.
LEMMA HandedBarNone ==
  outcome' = NoOutcome => HandedBar' = Abstract!NoHand
BY DEF HandedBar, Abstract!NoHand

\* A step that records a transmute_vec call from h to h2 is the hand-over
\* from h to h2.
LEMMA HandedBarCall ==
  ASSUME NEW k \in {"Ok", "Err"}, NEW h, NEW h2,
         outcome' = [kind |-> k, src |-> h, dst |-> h2]
  PROVE  HandedBar' = [from |-> h, to |-> h2]
<1>1. outcome' # NoOutcome
  BY DEF NoOutcome
<1>. QED  BY <1>1 DEF HandedBar

LEMMA InitRefines == Init => Abstract!Init
BY DEF Init, Abstract!Init, HoldsBar, HandedBar, NoVec, FreeSlot, Abstract!FreeBlock,
       Abstract!NoHold, Abstract!NoHand

LEMMA NewVecRefines ==
  ASSUME VecInv, NEW h \in Handles, NEW t \in SizedTypes, NEW cap \in 0 .. MaxCap,
         NEW len \in 0 .. MaxCap, NewVec(h, t, cap, len)
  PROVE  Abstract!Next
<1>1. PICK a \in Allocs :
        /\ ~heap[a].live
        /\ heap' = [heap EXCEPT ![a] = [live |-> TRUE, bytes |-> cap * SizeOf[t],
                                        align |-> AlignOf[t]]]
        /\ vecs' = [vecs EXCEPT ![h] = [live |-> TRUE, alloc |-> a, ty |-> t,
                                        len |-> len, cap |-> cap]]
  BY DEF NewVec
<1>2. ~vecs[h].live /\ len <= cap /\ outcome' = NoOutcome
  BY DEF NewVec
<1>3. HoldsBar[h] = Abstract!NoHold
  BY <1>2, HoldsBarEmpty DEF VecInv
<1>4. heap'[a] \in Abstract!LiveBlocks
  <2>1. cap * SizeOf[t] \in Nat /\ AlignOf[t] \in Nat \ {0}
    BY DEF SizedTypes
  <2>. QED  BY <1>1, <2>1 DEF VecInv, TypeOK, Abstract!LiveBlocks
<1>5. HoldsBar'[h] = [alloc |-> a, used |-> len * SizeOf[t]]
  <2>1. vecs'[h] = [live |-> TRUE, alloc |-> a, ty |-> t, len |-> len, cap |-> cap]
    BY <1>1 DEF VecInv, TypeOK
  <2>2. vecs'[h].live
    BY <2>1
  <2>. QED  BY <2>1, <2>2 DEF HoldsBar
<1>6. len * SizeOf[t] \in 0 .. heap'[a].bytes
  <2>1. heap'[a].bytes = cap * SizeOf[t]
    BY <1>1 DEF VecInv, TypeOK
  <2>2. SizeOf[t] \in Nat
    BY DEF SizedTypes
  <2>. QED  BY <1>2, <2>1, <2>2, MulMono
<1>7. heap' = [heap EXCEPT ![a] = heap'[a]]
  BY <1>1 DEF VecInv, TypeOK
<1>8. HoldsBar' = [HoldsBar EXCEPT ![h] = [alloc |-> a, used |-> HoldsBar'[h].used]]
  <2>1. \A h1 \in Handles \ {h} : vecs'[h1] = vecs[h1]
    BY <1>1 DEF VecInv, TypeOK
  <2>. QED  BY <1>5, <2>1 DEF HoldsBar
<1>9. HandedBar' = Abstract!NoHand
  BY <1>2, HandedBarNone
<1>10. Abstract!Acquire(h, a, heap'[a], HoldsBar'[h].used)
  BY <1>1, <1>3, <1>4, <1>5, <1>6, <1>7, <1>8, <1>9 DEF Abstract!Acquire
<1>. QED  BY <1>10 DEF Abstract!Next

LEMMA DropVecRefines ==
  ASSUME VecInv, NEW h \in Handles, DropVec(h)
  PROVE  Abstract!Next
<1>1. vecs[h].live /\ outcome' = NoOutcome
  BY DEF DropVec
<1>2. /\ HoldsBar[h] # Abstract!NoHold
      /\ HoldsBar[h].alloc = vecs[h].alloc
  <2>1. TypeOK
    BY DEF VecInv
  <2>2. vecs[h].live
    BY <1>1
  <2>3. /\ HoldsBar[h] = [alloc |-> vecs[h].alloc,
                          used |-> vecs[h].len * SizeOf[vecs[h].ty]]
        /\ HoldsBar[h] # Abstract!NoHold
    BY <2>1, <2>2, HoldsBarEmpty
  <2>. QED  BY <2>3
<1>3. heap' = [heap EXCEPT ![HoldsBar[h].alloc] = Abstract!FreeBlock]
  BY <1>2 DEF DropVec, FreeSlot, Abstract!FreeBlock
<1>4. HoldsBar' = [HoldsBar EXCEPT ![h] = Abstract!NoHold]
  <2>1. \A h1 \in Handles \ {h} : vecs'[h1] = vecs[h1]
    BY DEF DropVec, VecInv, TypeOK
  <2>2. ~vecs'[h].live
    BY DEF DropVec, VecInv, TypeOK, NoVec
  <2>. QED  BY <2>1, <2>2 DEF HoldsBar, Abstract!NoHold
<1>5. HandedBar' = Abstract!NoHand
  BY <1>1, HandedBarNone
<1>6. Abstract!Release(h)
  BY <1>2, <1>3, <1>4, <1>5 DEF Abstract!Release
<1>. QED  BY <1>6 DEF Abstract!Next

\* Moving a live Vec from h to the empty h2 as a Vec w over the same slot
\* using as many bytes, with the heap unchanged and the call recorded, is
\* an abstract hand-over.
LEMMA MoveRefines ==
  ASSUME VecInv, NEW h \in Handles, NEW h2 \in Handles, NEW w, NEW k \in {"Ok", "Err"},
         vecs[h].live, ~vecs[h2].live,
         w \in LiveVecs,
         w.alloc = vecs[h].alloc,
         w.len * SizeOf[w.ty] = vecs[h].len * SizeOf[vecs[h].ty],
         vecs' = [vecs EXCEPT ![h] = NoVec, ![h2] = w],
         heap' = heap,
         outcome' = [kind |-> k, src |-> h, dst |-> h2]
  PROVE  Abstract!Next
<1>1. h # h2
  OBVIOUS
<1>2. HoldsBar[h] # Abstract!NoHold /\ HoldsBar[h2] = Abstract!NoHold
  BY HoldsBarEmpty DEF VecInv
<1>3. HoldsBar' = [HoldsBar EXCEPT ![h] = Abstract!NoHold, ![h2] = HoldsBar[h]]
  <2>1. w.live
    BY Zenon DEF LiveVecs
  <2>2. HoldsBar'[h2] = HoldsBar[h]
    BY <1>1, <2>1 DEF HoldsBar, VecInv, TypeOK
  <2>3. HoldsBar'[h] = Abstract!NoHold
    BY <1>1 DEF HoldsBar, VecInv, TypeOK, NoVec, Abstract!NoHold
  <2>4. \A h1 \in Handles \ {h, h2} : HoldsBar'[h1] = HoldsBar[h1]
    BY DEF HoldsBar, VecInv, TypeOK
  <2>5. /\ HoldsBar = [h1 \in Handles |-> HoldsBar[h1]]
        /\ HoldsBar' = [h1 \in Handles |-> HoldsBar'[h1]]
    BY DEF HoldsBar
  <2>. QED  BY <1>1, <2>2, <2>3, <2>4, <2>5
<1>4. HandedBar' = [from |-> h, to |-> h2]
  BY HandedBarCall
<1>5. Abstract!Hand(h, h2)
  BY <1>2, <1>3, <1>4 DEF Abstract!Hand
<1>. QED  BY <1>5 DEF Abstract!Next

LEMMA BaseTransmuteVecRefines ==
  ASSUME VecInv, NEW h \in Handles, NEW t \in SizedTypes, NEW h2 \in Handles,
         BaseTransmuteVec(h, t, h2)
  PROVE  Abstract!Next
<1> DEFINE v == vecs[h]
           s == v.ty
           w == Moved(v, t, (v.len * SizeOf[s]) \div SizeOf[t],
                      (v.cap * SizeOf[s]) \div SizeOf[t])
<1>1. v.live /\ ~vecs[h2].live /\ SizeOf[s] = SizeOf[t]
  BY DEF BaseTransmuteVec
<1>2. v \in LiveVecs
  BY <1>1, VecShape DEF VecInv
<1>3. /\ (v.len * SizeOf[s]) \div SizeOf[t] = v.len
      /\ (v.cap * SizeOf[s]) \div SizeOf[t] = v.cap
  <2>1. SizeOf[t] \in Nat \ {0}
    BY DEF SizedTypes
  <2>. QED  BY <1>1, <1>2, <2>1, ScaleSameSize DEF LiveVecs
<1>4. w = [live |-> TRUE, alloc |-> v.alloc, ty |-> t, len |-> v.len, cap |-> v.cap]
  BY <1>3 DEF Moved
<1>5. w \in LiveVecs /\ w.alloc = v.alloc /\ w.len * SizeOf[w.ty] = v.len * SizeOf[s]
  <2>1. w \in LiveVecs
    BY <1>2, <1>3 DEF Moved, LiveVecs
  <2>2. w.alloc = v.alloc /\ w.len * SizeOf[w.ty] = v.len * SizeOf[s]
    BY <1>1, <1>4
  <2>. QED  BY <2>1, <2>2
<1>6. /\ vecs' = [vecs EXCEPT ![h] = NoVec, ![h2] = w]
      /\ heap' = heap
      /\ outcome' = [kind |-> "Ok", src |-> h, dst |-> h2]
  BY DEF BaseTransmuteVec
<1>. QED  BY <1>1, <1>4, <1>5, <1>6, MoveRefines

LEMMA FullTransmuteVecRefines ==
  ASSUME VecInv, NEW h \in Handles, NEW t \in SizedTypes, NEW h2 \in Handles,
         FullTransmuteVec(h, t, h2)
  PROVE  Abstract!Next
<1> DEFINE v == vecs[h]
           s == v.ty
<1>1. v.live /\ ~vecs[h2].live /\ heap' = heap
  BY DEF FullTransmuteVec
<1>2. v \in LiveVecs
  BY <1>1, VecShape DEF VecInv
<1>3. CASE AlignOf[s] # AlignOf[t] \/ SizeOf[s] # SizeOf[t]
  <2>1. /\ vecs' = [vecs EXCEPT ![h] = NoVec, ![h2] = v]
        /\ outcome' = [kind |-> "Err", src |-> h, dst |-> h2]
    BY <1>3 DEF FullTransmuteVec
  <2>. QED  BY <1>1, <1>2, <2>1, MoveRefines
<1>4. CASE ~(AlignOf[s] # AlignOf[t] \/ SizeOf[s] # SizeOf[t])
  <2> DEFINE w == Moved(v, t, v.len, v.cap)
  <2>1. /\ vecs' = [vecs EXCEPT ![h] = NoVec, ![h2] = w]
        /\ outcome' = [kind |-> "Ok", src |-> h, dst |-> h2]
    BY <1>4 DEF FullTransmuteVec
  <2>2. w \in LiveVecs /\ w.alloc = v.alloc /\ w.len * SizeOf[w.ty] = v.len * SizeOf[s]
    BY <1>2, <1>4 DEF Moved, LiveVecs
  <2>. QED  BY <1>1, <2>1, <2>2, MoveRefines
<1>. QED  BY <1>3, <1>4

LEMMA NextRefines == VecInv /\ [Next]_vars => [Abstract!Next]_<<heap, HoldsBar, HandedBar>>
<1> SUFFICES ASSUME VecInv, [Next]_vars PROVE [Abstract!Next]_<<heap, HoldsBar, HandedBar>>
  OBVIOUS
<1>1. CASE \E h \in Handles, t \in SizedTypes, cap \in 0 .. MaxCap, len \in 0 .. MaxCap :
             NewVec(h, t, cap, len)
  BY <1>1, NewVecRefines
<1>2. CASE \E h \in Handles : DropVec(h)
  BY <1>2, DropVecRefines
<1>3. CASE \E h, h2 \in Handles, t \in SizedTypes : BaseTransmuteVec(h, t, h2)
  BY <1>3, BaseTransmuteVecRefines
<1>4. CASE \E h, h2 \in Handles, t \in SizedTypes : FullTransmuteVec(h, t, h2)
  BY <1>4, FullTransmuteVecRefines
<1>5. CASE UNCHANGED vars
  BY <1>5 DEF vars, HoldsBar, HandedBar
<1>. QED  BY <1>1, <1>2, <1>3, <1>4, <1>5 DEF Next

\* base::transmute_vec and full::transmute_vec, with the Vecs the caller
\* creates and drops around them, implement the storage contract: for every
\* set of types, handles, slots and capacities.
THEOREM RefinementHolds == Spec => StorageRefinement
BY InitRefines, NextRefines, AlwaysVecInv, PTL
DEF Spec, StorageRefinement, Abstract!Spec


\* The exclusive-ownership guarantee of the storage contract, carried over
\* to the Vec model along the refinement: after any sequence of Vec
\* creations, drops and transmute_vec calls, every live Vec's slot is live
\* and holds the Vec's len elements, no other live Vec has that slot, and
\* every live slot belongs to a live Vec.
AbstractProofs == INSTANCE StorageProofs
                    WITH blocks <- heap, holds <- HoldsBar, handed <- HandedBar

THEOREM VecStorageExclusive == Spec => []Abstract!Exclusive
<1>1. Spec => AbstractProofs!Spec
  <2>1. Abstract!Init <=> AbstractProofs!Init
    BY DEF Abstract!Init, AbstractProofs!Init, Abstract!FreeBlock, AbstractProofs!FreeBlock,
           Abstract!NoHold, AbstractProofs!NoHold, Abstract!NoHand, AbstractProofs!NoHand
  <2>2. Abstract!Next <=> AbstractProofs!Next
    BY DEF Abstract!Next, AbstractProofs!Next, Abstract!Acquire, AbstractProofs!Acquire,
           Abstract!Release, AbstractProofs!Release, Abstract!Hand, AbstractProofs!Hand,
           Abstract!FreeBlock, AbstractProofs!FreeBlock, Abstract!NoHold,
           AbstractProofs!NoHold, Abstract!NoHand, AbstractProofs!NoHand,
           Abstract!LiveBlocks, AbstractProofs!LiveBlocks
  <2>. QED  BY RefinementHolds, <2>1, <2>2, PTL
            DEF StorageRefinement, Abstract!Spec, AbstractProofs!Spec
<1>2. AbstractProofs!Spec => []AbstractProofs!Exclusive
  BY AbstractProofs!StorageExclusive
<1>3. AbstractProofs!Exclusive <=> Abstract!Exclusive
  BY DEF AbstractProofs!Exclusive, Abstract!Exclusive, AbstractProofs!NoHold,
         Abstract!NoHold
<1>. QED  BY <1>1, <1>2, <1>3, PTL

=============
