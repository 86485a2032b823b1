----------------------------- MODULE SessionJob -----------------------------
(***************************************************************************)
(* A session as the worker and the worker pool see it: operations in the   *)
(* ring, a handler that is called once for each that completes, and a slot *)
(* that is given back by the call after which none is left, and by no      *)
(* other.  Server is built on this view.                                   *)
(***************************************************************************)
EXTENDS Integers

VARIABLES
  state,    \* "new", "open", "closed" (the slot is given back) or "failed"
  inring    \* operations of the session in the ring

jobVars == <<state, inring>>

Init == state = "new" /\ inring = 0

\* A handler returns: closed if and only if the ring is empty.
Returns == state' = (IF inring' = 0 THEN "closed" ELSE "open") /\ inring' \in Nat

\* EVENT_START is not one of the operations that are counted.
Start == state = "new" /\ Returns

\* One operation completes and its handler may submit more.
Complete == state = "open" /\ Returns /\ inring' >= inring - 1

\* The server dies.
Fail == state \in {"new", "open"} /\ state' = "failed"

Next == Start \/ Complete \/ Fail

Spec == Init /\ [][Next]_jobVars
=============================================================================
