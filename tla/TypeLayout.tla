----------------------------- MODULE TypeLayout -----------------------------
(***************************************************************************)
(* The element types a byte buffer may be viewed as, with the two static   *)
(* properties the checks of safe_transmute read: size_of::<T>() and        *)
(* align_of::<T>().  A type is an opaque name; only its layout matters.    *)
(* Every type of the TriviallyTransmutable set has a nonzero size, and in  *)
(* Rust the size of a type is always a multiple of its alignment.          *)
(***************************************************************************)
EXTENDS Naturals

CONSTANTS
  Types,    \* the element types under consideration
  SizeOf,   \* SizeOf[t] = size_of::<t>()
  AlignOf   \* AlignOf[t] = align_of::<t>()

ASSUME LayoutAssumption ==
  /\ SizeOf \in [Types -> Nat]
  /\ AlignOf \in [Types -> Nat \ {0}]
  /\ \A t \in Types : SizeOf[t] % AlignOf[t] = 0

\* The types with a nonzero size: the TriviallyTransmutable types that the
\* checked functions of full.rs accept are among them (specification,
\* sections 4.3 and 7), and so are the element types of the Vecs modelled.
SizedTypes == {t \in Types : SizeOf[t] # 0}

=============================================================================
