--------------------------- MODULE MCVecTransmute ---------------------------
(***************************************************************************)
(* A small instance of VecTransmute: u8 and i8 (same layout), u16, and     *)
(* [u8; 2] (the size of u16 with alignment 1), so that every branch of     *)
(* full::transmute_vec's compatibility test is taken; three handles (a     *)
(* source, a destination and a bystander) and two slots.                   *)
(***************************************************************************)
EXTENDS VecTransmute, TLC

MCTypes == {"u8", "i8", "u16", "arr2"}
MCSizeOf == [t \in MCTypes |-> IF t \in {"u8", "i8"} THEN 1 ELSE 2]
MCAlignOf == [t \in MCTypes |-> IF t = "u16" THEN 2 ELSE 1]

Symmetry == Permutations(Handles) \cup Permutations(Allocs)

=============================================================================
