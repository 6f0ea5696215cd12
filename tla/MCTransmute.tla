---------------------------- MODULE MCTransmute ----------------------------
(***************************************************************************)
(* A small instance of Transmute: u8, u16, u32 and [u8; 3] (size 3,        *)
(* alignment 1, so that lengths leave remainders of 1 and 2 bytes), slices *)
(* starting at every residue modulo the largest alignment, and lengths up  *)
(* to two u32 plus one byte.                                               *)
(***************************************************************************)
EXTENDS Transmute

MCTypes == {"u8", "u16", "u32", "arr3"}
MCSizeOf == [t \in MCTypes |-> CASE t = "u8" -> 1 [] t = "u16" -> 2
                                 [] t = "u32" -> 4 [] t = "arr3" -> 3]
MCAlignOf == [t \in MCTypes |-> CASE t = "u8" -> 1 [] t = "u16" -> 2
                                  [] t = "u32" -> 4 [] t = "arr3" -> 1]
\* The same types and the zero-sized unit type (), which base.rs accepts.
MCZstTypes == MCTypes \cup {"unit"}
MCZstSizeOf == [t \in MCZstTypes |-> IF t = "unit" THEN 0 ELSE MCSizeOf[t]]
MCZstAlignOf == [t \in MCZstTypes |-> IF t = "unit" THEN 1 ELSE MCAlignOf[t]]

MCAddrs == 8 .. 11
MCMaxLen == 9

=============================================================================
