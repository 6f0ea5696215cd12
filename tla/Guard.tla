------------------------------- MODULE Guard -------------------------------
(***************************************************************************)
(* The length guards of safe_transmute (PermissiveGuard, SingleValueGuard, *)
(* SingleManyGuard, PedanticGuard).  G::check::<T>(bytes) looks only at    *)
(* bytes.len() and size_of::<T>() and either passes or names the reason    *)
(* the length is refused.  The guard module is not among the sources       *)
(* given; its rules are taken from the specification, section 4.2, except  *)
(* that PedanticGuard refuses an empty slice as the repository documents   *)
(* it: the too_short test (tests/guarded_transmute_many_pedantic) and the  *)
(* docs of transmute_many_pedantic and transmute_many_pedantic_mut         *)
(* (full.rs:152, 236) require enough bytes for a single value.            *)
(***************************************************************************)
EXTENDS Naturals, Policy

\* The value of a check that passes.
NoError == "none"

\* The ErrorReason variants a guard can report.
GuardReasons == {"NotEnoughBytes", "InexactByteCount"}

\* Fault model: the "at least one element" test written with <=, refusing
\* a buffer of exactly one element.
TooFewBytesInclusive(g, len, size) ==
  /\ g # "Permissive"
  /\ len <= size

\* The buffer is too short for the policy: every policy but Permissive
\* needs at least one element.
TooFewBytes(g, len, size) ==
  /\ g # "Permissive"
  /\ len < size

\* The buffer has bytes the policy does not allow: more than one element
\* for SingleValue, a trailing partial element for Pedantic.  For a
\* zero-sized T the remainder divides by zero and panics; every caller of
\* a Pedantic check divides by size_of::<T>() next (base.rs:140, 185), so
\* the check is taken to pass and the call panics there.
TooManyBytes(g, len, size) ==
  \/ (g = "SingleValue" /\ len > size)
  \/ (g = "Pedantic" /\ size # 0 /\ len % size # 0)

\* G::check::<T>(bytes): too few bytes is reported before too many.
GuardCheck(g, len, size) ==
  IF TooFewBytes(g, len, size) THEN "NotEnoughBytes"
  ELSE IF TooManyBytes(g, len, size) THEN "InexactByteCount"
  ELSE NoError

=============================================================================
