---------------------------- MODULE ViewContract ----------------------------
(***************************************************************************)
(* What viewing a byte slice as elements of a type promises its caller     *)
(* (specification, sections 4, 7 and 8), with the entry points, the guards *)
(* and the order of the checks abstracted away.  A request asks for the    *)
(* bytes [addr, addr + len) as one value (shape "one") or as a slice       *)
(* ("many") of a sized type, under a length policy, and `checked` when the *)
(* start address must be aligned for the type.  The answer is a view       *)
(* exactly when every check the request is subject to passes: one element, *)
(* or every whole element of the buffer.  Otherwise it is an error naming  *)
(* a check that failed, with the values that check compared.  Nothing     *)
(* panics.  When several checks fail, any of them may be reported.         *)
(***************************************************************************)
EXTENDS Naturals, TypeLayout, Policy

VARIABLE answer   \* the last request and the response it got

\* No request has been made yet.
NoAnswer == [req |-> [shape |-> "none"], res |-> [kind |-> "None"]]

Requests ==
  [checked: BOOLEAN, shape: {"one", "many"}, addr: Nat, len: Nat,
   ty: SizedTypes, guard: Guards]

View(n) == [kind |-> "Ok", count |-> n]

Failure(reason, required, actual) ==
  [kind |-> "Err", reason |-> reason, required |-> required, actual |-> actual]

\* The number of elements a granted request views.
Count(req) ==
  IF req.shape = "one" THEN 1 ELSE req.len \div SizeOf[req.ty]

\* Every check the request is subject to passes.
Admissible(req) ==
  /\ req.checked => req.addr % AlignOf[req.ty] = 0
  /\ PolicyAdmits(req.guard, req.len, SizeOf[req.ty])

\* The misaligned start, reported with the alignment required and the
\* offset found.
AlignFailures(req) ==
  IF req.checked /\ req.addr % AlignOf[req.ty] # 0
  THEN {Failure("Unaligned", AlignOf[req.ty], req.addr % AlignOf[req.ty])}
  ELSE {}

\* The refused length, reported as too short or too long with the element
\* size required and the length found.
LengthFailures(req) ==
  IF PolicyAdmits(req.guard, req.len, SizeOf[req.ty])
  THEN {}
  ELSE {Failure(IF req.len < SizeOf[req.ty] THEN "NotEnoughBytes"
                ELSE "InexactByteCount", SizeOf[req.ty], req.len)}

\* The responses the contract allows to a request.
Allowed(req) ==
  IF Admissible(req) THEN {View(Count(req))}
  ELSE AlignFailures(req) \cup LengthFailures(req)

Init == answer = NoAnswer

\* The request req is answered with res.
Answer(req, res) ==
  /\ req \in Requests
  /\ res \in Allowed(req)
  /\ answer' = [req |-> req, res |-> res]

\* Some request is answered: the request and the response are those of the
\* state the step leads to.
Next == \E a \in {answer'} : Answer(a.req, a.res)

Spec == Init /\ [][Next]_answer

=============================================================================
