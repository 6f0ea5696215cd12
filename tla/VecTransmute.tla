---------------------------- MODULE VecTransmute ----------------------------
(***************************************************************************)
(* Growable-buffer transmutation: base::transmute_vec (src/base.rs) and    *)
(* full::transmute_vec (src/full.rs) hand the storage of a Vec<S> to a new *)
(* Vec<T> with Vec::from_raw_parts after forget()-ting the old handle.     *)
(*                                                                         *)
(* The heap is a set of allocation slots, each free or live with the byte  *)
(* size and alignment it was allocated with.  A handle is an owning Vec    *)
(* variable: its element type, length and capacity and the allocation its  *)
(* pointer designates.  Dropping a live handle releases its allocation     *)
(* with the layout of cap elements of its type (RawVec's deallocation);    *)
(* that is sound only if this layout is the one the slot was allocated     *)
(* with and no other live handle owns the slot.  A zero-capacity Vec owns  *)
(* no memory; its dangling pointer is modelled as a slot of 0 bytes whose  *)
(* alignment is that of its type, which is what from_raw_parts asks of it. *)
(* Element types are sized: a Vec of a zero-sized type never allocates.    *)
(***************************************************************************)
EXTENDS Naturals, TypeLayout

CONSTANTS
  Handles,  \* owning Vec variables of the caller
  Allocs,   \* allocation slots of the global allocator
  NoAlloc,  \* the allocation of a handle that owns nothing
  MaxCap    \* the largest capacity a Vec is created with

ASSUME VecAssumption ==
  /\ NoAlloc \notin Allocs
  /\ MaxCap \in Nat

VARIABLES
  heap,     \* heap[a]: is slot a live, and the layout it was allocated with
  vecs,     \* vecs[h]: the Vec held by handle h
  outcome   \* the last transmute_vec call: its result and the handles involved

vars == <<heap, vecs, outcome>>

FreeSlot == [live |-> FALSE, bytes |-> 0, align |-> 1]

NoVec == [live |-> FALSE, alloc |-> NoAlloc, ty |-> NoAlloc, len |-> 0, cap |-> 0]

NoOutcome == [kind |-> "None", src |-> NoAlloc, dst |-> NoAlloc]

\* The Vec held by handle h, moved to a fresh handle as element type t with
\* length len and capacity cap (Vec::from_raw_parts(ptr, len, capacity)).
Moved(v, t, len, cap) ==
  [live |-> TRUE, alloc |-> v.alloc, ty |-> t, len |-> len, cap |-> cap]

Init ==
  /\ heap = [a \in Allocs |-> FreeSlot]
  /\ vecs = [h \in Handles |-> NoVec]
  /\ outcome = NoOutcome

(***************************************************************************)
(* The caller: a Vec<t> with capacity cap and len elements is created in   *)
(* an empty handle (Vec::with_capacity and pushes; std, not this crate),   *)
(* and a live Vec is dropped.                                              *)
(***************************************************************************)
NewVec(h, t, cap, len) ==
  /\ ~vecs[h].live
  /\ len <= cap
  /\ \E a \in Allocs :
       /\ ~heap[a].live
       /\ heap' = [heap EXCEPT ![a] = [live |-> TRUE, bytes |-> cap * SizeOf[t],
                                       align |-> AlignOf[t]]]
       /\ vecs' = [vecs EXCEPT ![h] = [live |-> TRUE, alloc |-> a, ty |-> t,
                                       len |-> len, cap |-> cap]]
  /\ outcome' = NoOutcome

DropVec(h) ==
  /\ vecs[h].live
  /\ heap' = [heap EXCEPT ![vecs[h].alloc] = FreeSlot]
  /\ vecs' = [vecs EXCEPT ![h] = NoVec]
  /\ outcome' = NoOutcome

\* Fault model: the old Vec is not forgotten and stays live.
BaseTransmuteVecNoForget(h, t, h2) ==
  LET v == vecs[h]
      s == v.ty
  IN  /\ v.live /\ ~vecs[h2].live
      /\ SizeOf[s] = SizeOf[t] /\ AlignOf[s] = AlignOf[t]
      /\ vecs' = [vecs EXCEPT ![h2] = Moved(v, t, v.len, v.cap)]
      /\ outcome' = [kind |-> "Ok", src |-> h, dst |-> h2]
      /\ UNCHANGED heap

(***************************************************************************)
(* base::transmute_vec::<S, T>(vec): unsafe; its documentation requires T  *)
(* to have the size and alignment of S, which the caller guarantees here.  *)
(* Capacity and length are rescaled by size_of::<S>() / size_of::<T>(),    *)
(* the old handle is forgotten and the storage moves to the new one.       *)
(***************************************************************************)
BaseTransmuteVec(h, t, h2) ==
  LET v == vecs[h]
      s == v.ty
  IN  /\ v.live /\ ~vecs[h2].live
      /\ SizeOf[s] = SizeOf[t] /\ AlignOf[s] = AlignOf[t]
      /\ vecs' = [vecs EXCEPT ![h] = NoVec,
                    ![h2] = Moved(v, t, (v.len * SizeOf[s]) \div SizeOf[t],
                                  (v.cap * SizeOf[s]) \div SizeOf[t])]
      /\ outcome' = [kind |-> "Ok", src |-> h, dst |-> h2]
      /\ UNCHANGED heap

\* Fault model: only the sizes are compared, not the alignments.
FullTransmuteVecSizeOnly(h, t, h2) ==
  LET v == vecs[h]
      s == v.ty
  IN  /\ v.live /\ ~vecs[h2].live
      /\ IF SizeOf[s] # SizeOf[t]
         THEN /\ vecs' = [vecs EXCEPT ![h] = NoVec, ![h2] = v]
              /\ outcome' = [kind |-> "Err", src |-> h, dst |-> h2]
         ELSE /\ vecs' = [vecs EXCEPT ![h] = NoVec, ![h2] = Moved(v, t, v.len, v.cap)]
              /\ outcome' = [kind |-> "Ok", src |-> h, dst |-> h2]
      /\ UNCHANGED heap

\* Fault model: the error path consumes the vec instead of returning it.
FullTransmuteVecLosesOnError(h, t, h2) ==
  LET v == vecs[h]
      s == v.ty
  IN  /\ v.live /\ ~vecs[h2].live
      /\ IF AlignOf[s] # AlignOf[t] \/ SizeOf[s] # SizeOf[t]
         THEN /\ vecs' = [vecs EXCEPT ![h] = NoVec]
              /\ outcome' = [kind |-> "Err", src |-> h, dst |-> h2]
         ELSE /\ vecs' = [vecs EXCEPT ![h] = NoVec, ![h2] = Moved(v, t, v.len, v.cap)]
              /\ outcome' = [kind |-> "Ok", src |-> h, dst |-> h2]
      /\ UNCHANGED heap

\* Fault model: the error path drops the vec, freeing its storage, instead
\* of moving it into the error.
FullTransmuteVecFreesOnError(h, t, h2) ==
  LET v == vecs[h]
      s == v.ty
  IN  /\ v.live /\ ~vecs[h2].live
      /\ IF AlignOf[s] # AlignOf[t] \/ SizeOf[s] # SizeOf[t]
         THEN /\ vecs' = [vecs EXCEPT ![h] = NoVec]
              /\ heap' = [heap EXCEPT ![v.alloc] = FreeSlot]
              /\ outcome' = [kind |-> "Err", src |-> h, dst |-> h2]
         ELSE /\ vecs' = [vecs EXCEPT ![h] = NoVec, ![h2] = Moved(v, t, v.len, v.cap)]
              /\ outcome' = [kind |-> "Ok", src |-> h, dst |-> h2]
              /\ UNCHANGED heap

(***************************************************************************)
(* full::transmute_vec::<S, T>(vec): if the alignments or the sizes differ *)
(* the vec is moved into an IncompatibleVecTargetError, which hands it     *)
(* back to the caller; otherwise capacity and length are kept, the old     *)
(* handle is forgotten and the storage moves to the new Vec<T>.            *)
(***************************************************************************)
FullTransmuteVec(h, t, h2) ==
  LET v == vecs[h]
      s == v.ty
  IN  /\ v.live /\ ~vecs[h2].live
      /\ IF AlignOf[s] # AlignOf[t] \/ SizeOf[s] # SizeOf[t]
         THEN /\ vecs' = [vecs EXCEPT ![h] = NoVec, ![h2] = v]
              /\ outcome' = [kind |-> "Err", src |-> h, dst |-> h2]
         ELSE /\ vecs' = [vecs EXCEPT ![h] = NoVec,
                            ![h2] = Moved(v, t, v.len, v.cap)]
              /\ outcome' = [kind |-> "Ok", src |-> h, dst |-> h2]
      /\ UNCHANGED heap

Next ==
  \/ \E h \in Handles, t \in SizedTypes, cap \in 0 .. MaxCap, len \in 0 .. MaxCap :
       NewVec(h, t, cap, len)
  \/ \E h \in Handles : DropVec(h)
  \/ \E h, h2 \in Handles, t \in SizedTypes : BaseTransmuteVec(h, t, h2)
  \/ \E h, h2 \in Handles, t \in SizedTypes : FullTransmuteVec(h, t, h2)

Spec == Init /\ [][Next]_vars

-----------------------------------------------------------------------------
(***************************************************************************)
(* Properties.                                                             *)
(***************************************************************************)

\* Type invariant.
TypeOK ==
  /\ heap \in [Allocs -> [live: BOOLEAN, bytes: Nat, align: Nat \ {0}]]
  /\ vecs \in [Handles -> {NoVec} \cup
                 [live: {TRUE}, alloc: Allocs, ty: SizedTypes, len: Nat, cap: Nat]]
  /\ outcome \in {NoOutcome} \cup
                 [kind: {"Ok", "Err"}, src: Handles, dst: Handles]

\* Dropping any live Vec<T> is sound: its slot is live and was allocated
\* with exactly the layout of cap elements of T, so RawVec's dealloc gets
\* the layout the allocator handed out (Vec::from_raw_parts' contract).
OwnedLayout ==
  \A h \in Handles : vecs[h].live =>
    LET v == vecs[h] IN
      /\ heap[v.alloc].live
      /\ heap[v.alloc].bytes = v.cap * SizeOf[v.ty]
      /\ heap[v.alloc].align = AlignOf[v.ty]

\* No two live Vecs own the same storage: after transmute_vec the storage
\* is released once, never twice (the forget(vec) before from_raw_parts).
UniqueOwner ==
  \A h1, h2 \in Handles :
    (vecs[h1].live /\ vecs[h2].live /\ h1 # h2) => vecs[h1].alloc # vecs[h2].alloc

\* No storage is lost: every live slot is owned by some live Vec, also after
\* a failed full::transmute_vec (the error returns the vec).
NoLeak ==
  \A a \in Allocs : heap[a].live => \E h \in Handles : vecs[h].live /\ vecs[h].alloc = a

(***************************************************************************)
(* Refinement mapping onto the storage contract of module Storage: the     *)
(* heap is the abstract storage, and a live Vec<T> holds its allocation    *)
(* and uses len * size_of::<T>() of its bytes.  A transmute_vec call is   *)
(* the hand-over between its source and its destination handle.          *)
(***************************************************************************)
HoldsBar ==
  [h \in Handles |->
     IF vecs[h].live
     THEN [alloc |-> vecs[h].alloc, used |-> vecs[h].len * SizeOf[vecs[h].ty]]
     ELSE [alloc |-> NoAlloc, used |-> 0]]

\* The last transmute_vec call handed its vec from src to dst.
HandedBar ==
  IF outcome = NoOutcome THEN [from |-> NoAlloc, to |-> NoAlloc]
  ELSE [from |-> outcome.src, to |-> outcome.dst]

Abstract == INSTANCE Storage WITH blocks <- heap, holds <- HoldsBar, handed <- HandedBar

\* Both transmute_vec functions implement the storage contract: every call,
\* successful or refused (the vec moved into IncompatibleVecTargetError),
\* hands the whole allocation from the old handle to the new one with its
\* layout and the bytes in use unchanged (neither frees nor rebuilds it),
\* and storage is only allocated into and released by the handle that
\* holds it.
StorageRefinement == Abstract!Spec

=============================================================================
