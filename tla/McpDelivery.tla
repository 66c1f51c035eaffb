--------------------------- MODULE McpDelivery ---------------------------
(***************************************************************************)
(* The outbox that carries an answer to a WhatsApp chat, one row for every *)
(* segment: McpSurfaceOutboxService (enqueue, claim, mark, recover, purge, *)
(* reconcile) and McpWhatsAppDeliveryService.deliver, which claims a row   *)
(* in one transaction, sends with no transaction open, and marks the row   *)
(* in another one.                                                         *)
(*                                                                         *)
(* The rows are those of one conversation, in the order of its sequence    *)
(* and segment numbers.  A worker may die or be slow at any point, a task  *)
(* may be lost or delivered again, the provider may take a segment and the *)
(* answer be lost; an operator settles what stays unknown.                 *)
(***************************************************************************)
EXTENDS Naturals, Sequences, FiniteSets

CONSTANTS
  Processes,   \* Celery processes that run deliver_mcp_surface_segment
  MaxRows,     \* bound: segments ever written
  MaxAttempts, \* max_attempts of claim and release (3 in the code)
  Ttl,         \* life of a segment, in ticks (900 s)
  Lease,       \* life of a claim (60 s)
  Limit,       \* rows a sweep enqueues (100)
  MaxFaults,   \* bound: dead workers, lost and repeated tasks
  Garbled      \* TRUE: the provider may take a message and answer no JSON, or a
               \* status below 500 that errors.py does not list

ASSUME SizeAssumption ==
  Processes \in Nat /\ MaxRows \in Nat /\ Limit \in Nat \ {0} /\ MaxFaults \in Nat
ASSUME LifeAssumption ==
  Ttl \in Nat \ {0} /\ Lease \in Nat \ {0} /\ MaxAttempts \in Nat \ {0}
ASSUME GarbledAssumption == Garbled \in BOOLEAN

VARIABLES
  rows,      \* the delivery rows, oldest first
  tasks,     \* rows for which a task waits in the queue
  calls,     \* deliveries under way in the processes, each one a claimed row
  channel,   \* what a claim finds: access to the app, and the approved source
  open,      \* FALSE once the conversation has been removed
  accepted,  \* history: what the provider took, in its order
  faults

vars == <<rows, tasks, calls, channel, open, accepted, faults>>

Statuses == {"pending", "dispatching", "sent", "delivery_unknown", "cancelled",
             "expired", "gone"}

\* left and lease are what remains of the deadline and of the claim's lease;
\* reconciled says that an operator wrote the status.
New == [status |-> "pending", attempts |-> 0, left |-> Ttl, lease |-> 0,
        reconciled |-> FALSE]
Gone == [status |-> "gone", attempts |-> 0, left |-> 0, lease |-> 0,
         reconciled |-> FALSE]

Outcomes == {"mark_sent", "mark_unknown", "release"}

\* A fault of the environment, of which there are finitely many.
Fault == faults < MaxFaults /\ faults' = faults + 1

-----------------------------------------------------------------------------
\* What the transactions write into a row.  The operators with an underscore
\* are variants of the one after them, with a defect a change could introduce.
Claimed(row) == [row EXCEPT !.status = "dispatching", !.lease = Lease, !.attempts = @ + 1]

Cancelled_Sent(row) ==
  IF row.status \in {"pending", "dispatching", "sent"}
  THEN [row EXCEPT !.status = "cancelled", !.lease = 0]
  ELSE row
Cancelled(row) ==
  IF row.status \in {"pending", "dispatching"}
  THEN [row EXCEPT !.status = "cancelled", !.lease = 0]
  ELSE row

\* Only a row that is still dispatching is marked.
Marked_Leased(row, status) ==
  IF row.status = "dispatching" THEN [row EXCEPT !.status = status] ELSE row
Marked(row, status) ==
  IF row.status = "dispatching" THEN [row EXCEPT !.status = status, !.lease = 0] ELSE row

Released(row) ==
  Marked(row, IF row.attempts >= MaxAttempts THEN "cancelled" ELSE "pending")

\* A claim whose lease is over may have reached the provider.
Lost(row) == IF row.lease = 0 THEN Marked(row, "delivery_unknown") ELSE row

\* A connection that is torn down leaves no live row behind.
Terminal(row) ==
  IF row.status = "dispatching" THEN Marked(row, "delivery_unknown") ELSE Cancelled(row)

Purged(row) ==
  IF row.status \in {"sent", "cancelled", "expired"} /\ row.left = 0 THEN Gone ELSE row

\* Order within a conversation: a segment waits for all that come before it.
Blocking == {"pending", "dispatching", "delivery_unknown"}
Waits_Sent(i) == \E j \in 1 .. i - 1 : rows[j].status = "pending"
Waits(i) == \E j \in 1 .. i - 1 : rows[j].status \in Blocking

Write(i, row) == rows' = [rows EXCEPT ![i] = row]
PendingRows == {i \in DOMAIN rows : rows[i].status = "pending"}

\* The ids a sweep enqueues: the first ones in the order of the conversation.
FirstPending_All == PendingRows \ {Len(rows)}
FirstPending ==
  {i \in PendingRows : Cardinality({j \in PendingRows : j < i}) < Limit}

-----------------------------------------------------------------------------
Init ==
  /\ rows = <<>>
  /\ tasks = {}
  /\ calls = {}
  /\ channel = "ready"
  /\ open = TRUE
  /\ accepted = <<>>
  /\ faults = 0

\* An answer of n segments; the tasks are sent after the commit, and if one
\* cannot be sent the rest are not tried.
Enqueue(n) ==
  /\ open
  /\ Len(rows) + n <= MaxRows
  /\ rows' = rows \o [k \in 1 .. n |-> New]
  /\ \E k \in 0 .. n : tasks' = tasks \union (Len(rows) + 1 .. Len(rows) + k)
  /\ UNCHANGED <<calls, channel, open, accepted, faults>>

(***************************************************************************)
(* deliver: a process takes the task of row i.  The transaction checks the *)
(* access first, then the row, then the rows before it, then the source.   *)
(***************************************************************************)
Take(i) ==
  /\ Cardinality(calls) < Processes
  /\ i \in tasks
  /\ tasks' = tasks \ {i}
  /\ UNCHANGED <<channel, open, accepted, faults>>

Claimable(i) == channel # "denied" /\ rows[i].status = "pending"

\* No access: the row is cancelled, also one that another process is sending.
Deny(i) ==
  /\ Take(i)
  /\ channel = "denied"
  /\ Write(i, Cancelled(rows[i]))
  /\ UNCHANGED calls

\* The deadline has passed, or there are no attempts left.
Overdue(row) == row.left = 0 \/ row.attempts >= MaxAttempts

Expire(i) ==
  /\ Take(i)
  /\ Claimable(i) /\ Overdue(rows[i])
  /\ Write(i, IF rows[i].left = 0 THEN [rows[i] EXCEPT !.status = "expired"]
                                  ELSE Cancelled(rows[i]))
  /\ UNCHANGED calls

\* Not pending any more, or not its turn: the task has nothing to do.
Skip(i) ==
  /\ Take(i)
  /\ channel # "denied"
  /\ ~Claimable(i) \/ (~Overdue(rows[i]) /\ Waits(i))
  /\ UNCHANGED <<rows, calls>>

\* The source has changed since the approval: claimed and cancelled at once.
Withdraw(i) ==
  /\ Take(i)
  /\ Claimable(i) /\ ~Overdue(rows[i]) /\ ~Waits(i)
  /\ channel # "ready"
  /\ Write(i, Cancelled(Claimed(rows[i])))
  /\ UNCHANGED calls

Claim(i) ==
  /\ Take(i)
  /\ Claimable(i) /\ ~Overdue(rows[i]) /\ ~Waits(i)
  /\ channel = "ready"
  /\ Write(i, Claimed(rows[i]))
  /\ calls' = calls \union {[row |-> i, attempt |-> rows[i].attempts + 1, pc |-> "send"]}

\* The call of the provider.  A status that says the request was refused is a
\* definite failure; no answer, or any other error, may hide an acceptance.
Send(call, taken, outcome) ==
  /\ call.pc = "send"
  /\ calls' = (calls \ {call}) \union {[call EXCEPT !.pc = outcome]}
  /\ IF taken
     THEN /\ outcome = "release" => Garbled
          /\ accepted' = Append(accepted, call.row)
     ELSE /\ outcome # "mark_sent"
          /\ UNCHANGED accepted
  /\ UNCHANGED <<rows, tasks, channel, open, faults>>

Result_Resend(row, outcome) ==
  IF outcome = "mark_sent" THEN Marked(row, "sent") ELSE Released(row)
Result(row, outcome) ==
  CASE outcome = "mark_sent" -> Marked(row, "sent")
    [] outcome = "mark_unknown" -> Marked(row, "delivery_unknown")
    [] outcome = "release" -> Released(row)

\* The transaction after the call; a row that has been purged is not found.
Mark(call) ==
  /\ call.pc \in Outcomes
  /\ Write(call.row, Result(rows[call.row], call.pc))
  /\ calls' = calls \ {call}
  /\ UNCHANGED <<tasks, channel, open, accepted, faults>>

\* The process dies, or its last transaction fails; a task that was not
\* acknowledged comes again.
Die(call) ==
  /\ Fault
  /\ calls' = calls \ {call}
  /\ tasks' \in {tasks, tasks \union {call.row}}
  /\ UNCHANGED <<rows, channel, open, accepted>>

\* A task is delivered again although its process lives, or it is lost: by
\* the broker, or because the access could not be looked up.
Redeliver(i) ==
  /\ i \notin tasks /\ Fault
  /\ tasks' = tasks \union {i}
  /\ UNCHANGED <<rows, calls, channel, open, accepted>>

Lose(i) ==
  /\ i \in tasks /\ Fault
  /\ tasks' = tasks \ {i}
  /\ UNCHANGED <<rows, calls, channel, open, accepted>>

\* recover_mcp_surface_deliveries, which Celery beat runs.
Sweep ==
  /\ rows' = [i \in DOMAIN rows |-> Purged(Lost(rows[i]))]
  /\ tasks' = tasks \union FirstPending
  /\ UNCHANGED <<calls, channel, open, accepted, faults>>

\* An operator says what became of an unknown delivery.
Reconcile(i, status) ==
  /\ rows[i].status = "delivery_unknown"
  /\ Write(i, [rows[i] EXCEPT !.status = status, !.reconciled = TRUE])
  /\ UNCHANGED <<tasks, calls, channel, open, accepted, faults>>

\* The subscription ends, or the channel is changed; either may be undone.
Alter(now) ==
  /\ channel # "revoked" /\ channel # now
  /\ channel' = now
  /\ UNCHANGED <<rows, tasks, calls, open, accepted, faults>>

TearDown ==
  /\ channel # "revoked"
  /\ channel' = "revoked"
  /\ rows' = [i \in DOMAIN rows |-> Terminal(rows[i])]
  /\ UNCHANGED <<tasks, calls, open, accepted, faults>>

\* Retention removes the conversation with its rows.
Retire ==
  /\ open
  /\ open' = FALSE
  /\ rows' = [i \in DOMAIN rows |-> Gone]
  /\ UNCHANGED <<tasks, calls, channel, accepted, faults>>

Older(n) == IF n > 0 THEN n - 1 ELSE 0

Tick ==
  /\ rows' = [i \in DOMAIN rows |->
                [rows[i] EXCEPT !.left = Older(@), !.lease = Older(@)]]
  /\ rows' # rows
  /\ UNCHANGED <<tasks, calls, channel, open, accepted, faults>>

Serve(i) == Deny(i) \/ Expire(i) \/ Skip(i) \/ Withdraw(i) \/ Claim(i)

Finish(call) ==
  \/ \E taken \in BOOLEAN, outcome \in Outcomes : Send(call, taken, outcome)
  \/ Mark(call)

Next ==
  \/ \E n \in 1 .. MaxRows : Enqueue(n)
  \/ \E i \in DOMAIN rows : Serve(i) \/ Redeliver(i) \/ Lose(i)
  \/ \E call \in calls : Finish(call) \/ Die(call)
  \/ Sweep
  \/ \E i \in DOMAIN rows, status \in {"sent", "cancelled"} : Reconcile(i, status)
  \/ \E now \in {"ready", "denied", "changed"} : Alter(now)
  \/ TearDown \/ Retire
  \/ Tick

\* Time passes, beat sweeps, calls of the provider have timeouts, and the
\* queue does not pass a task over for ever.
Fairness ==
  /\ WF_vars(Tick) /\ WF_vars(Sweep)
  /\ \A i \in 1 .. MaxRows : SF_vars(Serve(i))
  /\ \A i \in 1 .. MaxRows : WF_vars(\E call \in calls : call.row = i /\ Finish(call))

Spec == Init /\ [][Next]_vars /\ Fairness

-----------------------------------------------------------------------------
\* The variables have their types; a claim is leased, and within its attempts.
TypeOK ==
  /\ rows \in Seq([status : Statuses, attempts : 0 .. MaxAttempts, left : 0 .. Ttl,
                   lease : 0 .. Lease, reconciled : BOOLEAN])
  /\ Len(rows) <= MaxRows
  /\ tasks \subseteq DOMAIN rows
  /\ \A i \in DOMAIN rows : rows[i].lease > 0 => rows[i].status = "dispatching"
  /\ calls \subseteq [row : DOMAIN rows, attempt : 1 .. MaxAttempts,
                      pc : {"send"} \union Outcomes]
  /\ channel \in {"ready", "denied", "changed", "revoked"} /\ open \in BOOLEAN
  /\ accepted \in Seq(DOMAIN rows)
  /\ faults \in 0 .. MaxFaults

Took(i) == \E k \in DOMAIN accepted : accepted[k] = i

\* The provider is given no segment twice, whatever dies, is lost, is repeated
\* or comes late (delivery.py: an ambiguous failure is never sent again).
SentOnce ==
  \A j, k \in DOMAIN accepted : accepted[j] = accepted[k] => j = k

\* As long as its claim stands, a segment does not come after a later one of
\* the conversation (surfaces.py: claim looks for earlier segments).
InOrder ==
  [][\A i \in DOMAIN rows :
       accepted' = Append(accepted, i) /\ rows[i].status = "dispatching" =>
         \A k \in DOMAIN accepted : accepted[k] < i]_vars

\* What a row says of its segment: nothing as long as it may still be sent, and
\* that an operator decided once one has.
Word(row) ==
  IF row.reconciled THEN "decided"
  ELSE IF row.status \in {"pending", "dispatching"} THEN "open" ELSE row.status

Told == [i \in DOMAIN rows |-> Word(rows[i])]

Promise == INSTANCE AnswerOutbox
             WITH Lengths <- 1 .. MaxRows, words <- Told, chat <- accepted

\* The rows, the tasks and the sweep together implement AnswerOutbox: each
\* transaction of surfaces.py closes rows for good, truthfully, or changes
\* nothing that a reader could tell, and each call that delivery.py makes is
\* the first of its segment and in its turn.
ImplementsOutbox == Promise!Spec

\* No segment stays pending or dispatching for ever: it is sent, cancelled,
\* expired, or left to an operator, who need not hurry for the others.
Live(i) == i \in DOMAIN rows /\ rows[i].status \in {"pending", "dispatching"}
Settles == \A i \in 1 .. MaxRows : Live(i) ~> ~Live(i)
=============================================================================
