------------------------------ MODULE Storage ------------------------------
(***************************************************************************)
(* What the growable-buffer transmutation promises about storage, with the *)
(* element types abstracted away (specification, sections 4.4 and 5).      *)
(* Storage is a set of blocks, each free or allocated with a byte size and *)
(* an alignment.  A handle holds at most one block and uses a number of    *)
(* its bytes.  Blocks are allocated into an empty handle and released by   *)
(* the handle that holds them; in between, ownership can only be handed    *)
(* whole from one handle to an empty one, with the block, its layout and   *)
(* the bytes in use unchanged.  A transmutation of a Vec, whether it       *)
(* succeeds or hands the vec back in its error, is such a hand-over, and   *)
(* `handed` records which handles the last step handed a block between.    *)
(***************************************************************************)
EXTENDS Naturals

CONSTANTS
  Handles,  \* owning handles
  Allocs,   \* storage blocks
  NoAlloc   \* the block of a handle that holds none

VARIABLES
  blocks,   \* blocks[a]: is block a allocated, and with which layout
  holds,    \* holds[h]: the block handle h holds and the bytes it uses
  handed    \* the handles the last step handed a block between, if any

FreeBlock == [live |-> FALSE, bytes |-> 0, align |-> 1]

NoHold == [alloc |-> NoAlloc, used |-> 0]

NoHand == [from |-> NoAlloc, to |-> NoAlloc]

LiveBlocks == [live: {TRUE}, bytes: Nat, align: Nat \ {0}]

Init ==
  /\ blocks = [a \in Allocs |-> FreeBlock]
  /\ holds = [h \in Handles |-> NoHold]
  /\ handed = NoHand

\* Block a is allocated with layout blk and handed to the empty handle h,
\* which uses `used` of its bytes.
Acquire(h, a, blk, used) ==
  /\ holds[h] = NoHold
  /\ ~blocks[a].live
  /\ blk \in LiveBlocks
  /\ used \in 0 .. blk.bytes
  /\ blocks' = [blocks EXCEPT ![a] = blk]
  /\ holds' = [holds EXCEPT ![h] = [alloc |-> a, used |-> used]]
  /\ handed' = NoHand

\* The handle h releases the block it holds.
Release(h) ==
  /\ holds[h] # NoHold
  /\ blocks' = [blocks EXCEPT ![holds[h].alloc] = FreeBlock]
  /\ holds' = [holds EXCEPT ![h] = NoHold]
  /\ handed' = NoHand

\* The handle h hands its block, with the bytes in use, to the empty h2.
Hand(h, h2) ==
  /\ holds[h] # NoHold
  /\ holds[h2] = NoHold
  /\ holds' = [holds EXCEPT ![h] = NoHold, ![h2] = holds[h]]
  /\ handed' = [from |-> h, to |-> h2]
  /\ UNCHANGED blocks

\* The layout and the bytes in use of an acquisition are those of the state
\* it leads to.
Next ==
  \/ \E h \in Handles, a \in Allocs : Acquire(h, a, blocks'[a], holds'[h].used)
  \/ \E h \in Handles : Release(h)
  \/ \E h, h2 \in Handles : Hand(h, h2)

Spec == Init /\ [][Next]_<<blocks, holds, handed>>

-----------------------------------------------------------------------------
\* Type invariant.
TypeOK ==
  /\ blocks \in [Allocs -> {FreeBlock} \cup LiveBlocks]
  /\ holds \in [Handles -> {NoHold} \cup [alloc: Allocs, used: Nat]]

\* Every held block is allocated, no other handle holds it, and the bytes
\* in use fit in it; every allocated block is held by some handle.
Exclusive ==
  /\ \A h \in Handles : holds[h] # NoHold =>
       /\ blocks[holds[h].alloc].live
       /\ holds[h].used <= blocks[holds[h].alloc].bytes
       /\ \A h2 \in Handles \ {h} : holds[h2].alloc # holds[h].alloc
  /\ \A a \in Allocs : blocks[a].live => \E h \in Handles : holds[h].alloc = a

=============================================================================
