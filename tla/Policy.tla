------------------------------- MODULE Policy -------------------------------
(***************************************************************************)
(* The four length policies of safe_transmute, by the names of the guards  *)
(* that implement them, and the rule each policy states (specification,    *)
(* sections 4.2 and 8; for Pedantic on an empty slice, the repository's    *)
(* too_short test and full.rs docs).  This is the reference the guards are *)
(* checked against and the abstract contract is written in, so it is       *)
(* defined here independently of how a guard tests a length.               *)
(***************************************************************************)
EXTENDS Naturals

Guards == {"Permissive", "SingleValue", "SingleMany", "Pedantic"}

\* Policy g admits a buffer of len bytes for elements of size bytes:
\* Permissive anything, SingleValue exactly one element, SingleMany at
\* least one, Pedantic at least one and a whole number of elements.
PolicyAdmits(g, len, size) ==
  \/ g = "Permissive"
  \/ (g = "SingleValue" /\ len = size)
  \/ (g = "SingleMany" /\ len >= size)
  \/ (g = "Pedantic" /\ len >= size /\ len % size = 0)

=============================================================================
