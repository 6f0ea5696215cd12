----------------------------- MODULE Alignment -----------------------------
(***************************************************************************)
(* check_alignment::<S, T>(data) and check_alignment_mut: the start        *)
(* address of the slice must be a multiple of align_of::<T>().  The align  *)
(* module is not among the sources given; the rule is the specification's, *)
(* section 4.1.  Mutable and immutable slices are checked alike.           *)
(***************************************************************************)
EXTENDS Naturals

\* The address addr satisfies alignment align.
IsAligned(addr, align) == addr % align = 0

\* The offset an UnalignedError reports: how far addr is past the last
\* aligned address.
MisalignOffset(addr, align) == addr % align

=============================================================================
