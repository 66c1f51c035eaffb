--------------------------- MODULE ApprovedWrite ---------------------------
(***************************************************************************)
(* What McpApproval promises the human who decides and whoever reads the   *)
(* record afterwards, with no word of workers, leases or clocks: a write   *)
(* is sent once at most, after an approval and never after a denial by the *)
(* human; the record says "executed" only of a write that was sent and     *)
(* "denied" only of one that was not; and once it says something it says   *)
(* that until it is purged, unless somebody who read it while it was open  *)
(* opens it again: each of these does that once at most.                   *)
(***************************************************************************)
EXTENDS Naturals

CONSTANT Reader  \* those who may be told to carry the write out

VARIABLES
  verdict,  \* what the human said: "none", "approve" or "deny"
  calls,    \* how often the write was sent
  record,   \* "open", or what the record says became of it
  readers   \* who read it as approved and has not acted on that

Init == verdict = "none" /\ calls = 0 /\ record = "open" /\ readers = {}

Approve ==
  /\ verdict = "none" /\ record = "open"
  /\ verdict' = "approve"
  /\ UNCHANGED <<calls, record, readers>>

Deny ==
  /\ verdict = "none" /\ record = "open"
  /\ verdict' = "deny" /\ record' = "denied"
  /\ UNCHANGED <<calls, readers>>

Read(r) ==
  /\ verdict = "approve" /\ record = "open"
  /\ readers' = readers \union {r}
  /\ UNCHANGED <<verdict, calls, record>>

Forget(r) ==
  /\ readers' = readers \ {r}
  /\ UNCHANGED <<verdict, calls, record>>

\* Whoever acts on a record that was closed since it was read opens it again, or
\* lets it expire.
Reopen(r) ==
  /\ r \in readers /\ record \notin {"open", "purged"}
  /\ record' \in {"open", "expired"}
  /\ readers' = readers \ {r}
  /\ UNCHANGED <<verdict, calls>>

\* The one call.  It may come after the record was given up on, but not after
\* a word that the write is done, or will not be.
Send ==
  /\ verdict = "approve" /\ calls = 0
  /\ record \notin {"executed", "denied"}
  /\ calls' = 1
  /\ UNCHANGED <<verdict, record, readers>>

\* What an approval ends as is decided by whether the write was sent; nobody
\* denies for the human.
Confirm == calls = 1 /\ record' = "executed"
Cancel  == calls = 0 /\ verdict = "approve" /\ record' = "denied"
Lose    == record' \in {"expired", "outcome_unknown"}

Close ==
  /\ record = "open"
  /\ Confirm \/ Cancel \/ Lose
  /\ readers' \subseteq readers
  /\ UNCHANGED <<verdict, calls>>

Purge ==
  /\ record # "open" /\ record' = "purged"
  /\ UNCHANGED <<verdict, calls, readers>>

Next ==
  \/ Approve \/ Deny \/ Send \/ Close \/ Purge
  \/ \E r \in Reader : Read(r) \/ Forget(r) \/ Reopen(r)

Spec == Init /\ [][Next]_<<verdict, calls, record, readers>>
=============================================================================
