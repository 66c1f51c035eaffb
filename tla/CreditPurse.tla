---------------------------- MODULE CreditPurse ----------------------------
(***************************************************************************)
(* What the credit side of the meter promises a customer, whatever the     *)
(* number of requests, grants and windows: tokens enter by purchase only,  *)
(* are free, on hold or spent, and once spent stay spent.                  *)
(***************************************************************************)
EXTENDS Integers

VARIABLES
  free,   \* tokens a request may still take
  held,   \* tokens on hold for requests under way
  spent   \* tokens billed to finished requests

Init == free = 0 /\ held = 0 /\ spent = 0

Conserved ==
  /\ free' \in Nat /\ held' \in Nat /\ spent' \in Nat
  /\ free' + held' + spent' = free + held + spent

Buy == free' \in Nat /\ free' > free /\ UNCHANGED <<held, spent>>

Hold == Conserved /\ held' > held /\ UNCHANGED spent

\* A request ends: its hold is spent, returned, or topped up from the free tokens.
Close == Conserved /\ held' <= held /\ spent' >= spent

Next == Buy \/ Hold \/ Close

Spec == Init /\ [][Next]_<<free, held, spent>>
=============================================================================
