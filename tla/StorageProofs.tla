--------------------------- MODULE StorageProofs ---------------------------
(***************************************************************************)
(* The storage contract guarantees exclusive ownership: every held block   *)
(* is allocated, held by one handle only and large enough for the bytes in *)
(* use, and every allocated block is held.  Together with the theorem      *)
(* RefinementHolds of VecTransmuteProofs this is what the transmute_vec    *)
(* functions promise their callers, stated without element types.          *)
(***************************************************************************)
EXTENDS Storage, TLAPS

StorageInv == TypeOK /\ Exclusive

LEMMA InitStorageInv ==
  ASSUME NoAlloc \notin Allocs
  PROVE  Init => StorageInv
BY DEF Init, StorageInv, TypeOK, Exclusive, FreeBlock, NoHold

LEMMA AcquireInv ==
  ASSUME NoAlloc \notin Allocs, StorageInv, NEW h \in Handles, NEW a \in Allocs,
         NEW blk, NEW used, Acquire(h, a, blk, used)
  PROVE  StorageInv'
<1>1. blk \in LiveBlocks /\ used \in 0 .. blk.bytes /\ ~blocks[a].live
  BY DEF Acquire
<1>2. \A h1 \in Handles : holds[h1].alloc # a
  <2>1. \A h1 \in Handles : holds[h1] # NoHold => holds[h1].alloc # a
    BY <1>1 DEF StorageInv, Exclusive
  <2>2. \A h1 \in Handles : holds[h1] = NoHold => holds[h1].alloc # a
    BY DEF NoHold
  <2>. QED  BY <2>1, <2>2
<1>3. used \in Nat /\ blk.bytes \in Nat
  BY <1>1 DEF LiveBlocks
<1>4. /\ blocks' = [blocks EXCEPT ![a] = blk]
      /\ holds' = [holds EXCEPT ![h] = [alloc |-> a, used |-> used]]
      /\ holds[h] = NoHold
  BY DEF Acquire
<1>5. TypeOK'
  BY <1>1, <1>3, <1>4 DEF StorageInv, TypeOK
<1>6. ASSUME NEW h1 \in Handles, holds'[h1] # NoHold
      PROVE  /\ blocks'[holds'[h1].alloc].live
             /\ holds'[h1].used <= blocks'[holds'[h1].alloc].bytes
             /\ \A h2 \in Handles \ {h1} : holds'[h2].alloc # holds'[h1].alloc
  <2>1. CASE h1 = h
    <3>1. holds'[h1] = [alloc |-> a, used |-> used] /\ blocks'[a] = blk
      BY <2>1, <1>4 DEF StorageInv, TypeOK
    <3>2. \A h2 \in Handles \ {h1} : holds'[h2] = holds[h2]
      BY <2>1, <1>4 DEF StorageInv, TypeOK
    <3>3. blk.live /\ used <= blk.bytes
      <4>1. blk.live
        BY <1>1, Zenon DEF LiveBlocks
      <4>2. used <= blk.bytes
        BY <1>1, <1>3
      <4>. QED  BY <4>1, <4>2
    <3>4. \A h2 \in Handles \ {h1} : holds'[h2].alloc # a
      BY <1>2, <3>2
    <3>. QED  BY <2>1, <3>1, <3>3, <3>4
  <2>2. CASE h1 # h
    <3>1. holds'[h1] = holds[h1] /\ holds[h1] # NoHold
      BY <2>2, <1>4, <1>6 DEF StorageInv, TypeOK
    <3>2. holds[h1].alloc # a
      BY <1>2
    <3>3. blocks'[holds[h1].alloc] = blocks[holds[h1].alloc]
      BY <3>1, <3>2, <1>4 DEF StorageInv, TypeOK, NoHold
    <3>4. holds'[h].alloc # holds[h1].alloc
      BY <3>2, <1>4 DEF StorageInv, TypeOK
    <3>5. \A h2 \in Handles \ {h1, h} : holds'[h2] = holds[h2]
      BY <1>4 DEF StorageInv, TypeOK
    <3>. QED  BY <3>1, <3>3, <3>4, <3>5 DEF StorageInv, Exclusive
  <2>. QED  BY <2>1, <2>2
<1>7. ASSUME NEW b \in Allocs, blocks'[b].live
      PROVE  \E h1 \in Handles : holds'[h1].alloc = b
  <2>1. CASE b = a
    BY <2>1, <1>4 DEF StorageInv, TypeOK
  <2>2. CASE b # a
    <3>1. blocks[b].live
      BY <2>2, <1>4, <1>7 DEF StorageInv, TypeOK
    <3>2. PICK h1 \in Handles : holds[h1].alloc = b
      BY <3>1 DEF StorageInv, Exclusive
    <3>3. h1 # h
      BY <3>2, <1>4, <2>2 DEF StorageInv, TypeOK, NoHold
    <3>. QED  BY <3>2, <3>3, <1>4 DEF StorageInv, TypeOK
  <2>. QED  BY <2>1, <2>2
<1>. QED  BY <1>5, <1>6, <1>7 DEF StorageInv, Exclusive

LEMMA ReleaseInv ==
  ASSUME NoAlloc \notin Allocs, StorageInv, NEW h \in Handles, Release(h)
  PROVE  StorageInv'
<1> DEFINE a == holds[h].alloc
<1>1. holds[h] # NoHold /\ a \in Allocs
  BY DEF Release, StorageInv, TypeOK
<1>2. \A h1 \in Handles \ {h} : holds[h1].alloc # a
  BY <1>1 DEF StorageInv, Exclusive
<1>3. TypeOK'
  BY <1>1 DEF Release, StorageInv, TypeOK
<1>4. Exclusive'
  BY <1>1, <1>2 DEF Release, StorageInv, TypeOK, Exclusive, NoHold, FreeBlock
<1>. QED  BY <1>3, <1>4 DEF StorageInv

LEMMA HandInv ==
  ASSUME NoAlloc \notin Allocs, StorageInv, NEW h \in Handles, NEW h2 \in Handles,
         Hand(h, h2)
  PROVE  StorageInv'
<1>1. holds[h] # NoHold /\ holds[h2] = NoHold /\ h # h2
  BY DEF Hand
<1>2. \A h1 \in Handles \ {h} : holds[h1].alloc # holds[h].alloc
  BY <1>1 DEF StorageInv, Exclusive
<1>3. TypeOK'
  BY <1>1 DEF Hand, StorageInv, TypeOK
<1>4. Exclusive'
  BY <1>1, <1>2 DEF Hand, StorageInv, TypeOK, Exclusive, NoHold
<1>. QED  BY <1>3, <1>4 DEF StorageInv

LEMMA NextStorageInv ==
  ASSUME NoAlloc \notin Allocs
  PROVE  StorageInv /\ [Next]_<<blocks, holds, handed>> => StorageInv'
<1> SUFFICES ASSUME StorageInv, [Next]_<<blocks, holds, handed>> PROVE StorageInv'
  OBVIOUS
<1>1. CASE \E h \in Handles, a \in Allocs : Acquire(h, a, blocks'[a], holds'[h].used)
  BY <1>1, AcquireInv
<1>2. CASE \E h \in Handles : Release(h)
  BY <1>2, ReleaseInv
<1>3. CASE \E h, h2 \in Handles : Hand(h, h2)
  BY <1>3, HandInv
<1>4. CASE UNCHANGED <<blocks, holds, handed>>
  BY <1>4 DEF StorageInv, TypeOK, Exclusive
<1>. QED  BY <1>1, <1>2, <1>3, <1>4 DEF Next

\* Under the storage contract no block is ever held by two handles or held
\* while free, and no allocated block is ever without a holder, whenever
\* the empty hold is distinct from every block.
THEOREM StorageExclusive ==
  ASSUME NoAlloc \notin Allocs
  PROVE  Spec => []Exclusive
<1>1. Spec => []StorageInv
  BY InitStorageInv, NextStorageInv, PTL DEF Spec
<1>. QED  BY <1>1, PTL DEF StorageInv

=============================================================================
