---------------------------- MODULE McpApproval ----------------------------
(***************************************************************************)
(* One write of a tool that waits for a human: the approval row, the       *)
(* decision, the resume tasks that carry an approved write out, and the    *)
(* recovery sweep (app/mcp/approvals.py, app/mcp/resume.py and the tasks   *)
(* resume_mcp_pending_tool_call and recover_mcp_approval_state).           *)
(*                                                                         *)
(* A resume task may be delivered any number of times and at any moment,   *)
(* may be arbitrarily slow and may die between any two commits.  What must *)
(* not happen is that the write reaches the remote server twice, and what  *)
(* must happen is that the row, and the message that waits for it, come to *)
(* an end that says what was done.                                         *)
(*                                                                         *)
(* The task reads the row before it asks for the generation lock, and its  *)
(* claim decides on what it read: SELECT ... FOR UPDATE waits for the row  *)
(* but does not refresh an object that the session has loaded.             *)
(*                                                                         *)
(* The row starts as the turn that paused left it: pending, its message    *)
(* pending, the generation lock of the conversation free.                  *)
(***************************************************************************)
EXTENDS Naturals, FiniteSets

CONSTANTS
  Worker,    \* the Celery workers that may run the resume task
  Expires,   \* expires_at, counted from the pause
  Lease,     \* lease_seconds of a claim
  TurnLife,  \* mcp_total_turn_timeout_seconds
  LockLife,  \* time to live of the conversation's generation lock
  Retain,    \* the hour a finished row is kept
  MaxTime,   \* bound: the clock stops here
  MaxCrash   \* bound: workers that die, commits that are lost

ASSUME LifeAssumption ==
  /\ Expires \in Nat \ {0} /\ Lease \in Nat \ {0} /\ TurnLife \in Nat \ {0}
  /\ LockLife \in Nat \ {0} /\ Retain \in Nat
ASSUME BoundAssumption == MaxTime \in Nat /\ MaxCrash \in Nat

VARIABLES
  now,      \* the clock
  row,      \* the row of mcp_pending_tool_calls; its field "late" is history:
            \* it was claimed after it had ended
  decision, \* history: what the human said, "none" while nothing
  message,  \* what the waiting assistant message shows
  hold,     \* the usage hold "mcp-resume:<id>"
  admitted, \* the quota admission of the call exists
  sent,     \* calls of the gateway so far
  key,      \* when the key of the generation lock expires, 0 when it is free
  task,     \* what each worker is doing
  sweep,    \* where the recovery task is
  api,      \* where the request of the deciding human is
  crashes   \* crashes so far

vars == <<now, row, decision, message, hold, admitted, sent, key, task,
          sweep, api, crashes>>
outside == <<now, decision, admitted, sent, sweep, api, crashes>>

Never == MaxTime + 1

Live == {"pending", "approved", "executing"}
Terminal == {"denied", "expired", "executed", "outcome_unknown"}
Refused == {"denied", "expired", "outcome_unknown"}

Stopped == [pc |-> "idle", unknown |-> FALSE]

\* The operators with an underscore in their name are variants of the one after
\* them, each with a defect a change of this code could introduce.
Early_Later(s, t) == IF s > t THEN s ELSE t
Early(s, t) == IF s < t THEN s ELSE t

(***************************************************************************)
(* The row.  Ending it scrubs it: the lease and the deadline go, and it    *)
(* need not be kept for longer than an hour.                               *)
(***************************************************************************)
End(status) ==
  [row EXCEPT !.status = status, !.lease = Never, !.deadline = Never,
              !.purge = Early(@, now + Retain)]

\* finish_execution and cancel_before_dispatch are refused or have no effect
\* unless the row is executing.
MayFinish_Marked == row.status = "executing" \/ row.marker # Never
MayFinish == row.status = "executing"

MayCancel_Executing == row.status = "executing"
MayCancel == row.status = "executing" /\ row.marker = Never

\* mark_gateway_dispatch_started: the last gate before the gateway.
MayDispatch ==
  /\ row.status = "executing" /\ row.marker = Never
  /\ now < row.deadline /\ now < Expires

\* claim_resume takes rows that were approved when they were read.
MayClaim == row.status = "approved"

Stale_Unmarked == row.status = "executing" /\ row.lease < now /\ row.marker = Never
Stale == row.status = "executing" /\ row.lease < now

\* recover_stale_claims: expired rows expire, claims that never reached the
\* gateway are approved again, the outcome of the others is unknown.
Recovered ==
  IF now >= Expires THEN End("expired")
  ELSE IF row.marker = Never
       THEN [row EXCEPT !.status = "approved", !.lease = Never, !.deadline = Never]
       ELSE End("outcome_unknown")

\* The rows finalize_terminal tells the user about.
ToFinalize_Denied == row.status = "denied"
ToFinalize == row.status \in Refused

Goto(w, pc) == task' = [task EXCEPT ![w].pc = pc]
At(w, pc) == task[w].pc = pc
Fail_Unpaid(w, unknown) ==
  task' = [task EXCEPT ![w] = [pc |-> "terminate", unknown |-> unknown]]
Fail(w, unknown) ==
  task' = [task EXCEPT ![w] = [pc |-> "refund", unknown |-> unknown]]

-----------------------------------------------------------------------------
Init ==
  /\ now = 0
  /\ row = [status |-> "pending", marker |-> Never, lease |-> Never,
            deadline |-> Never, purge |-> 2 * Expires, late |-> FALSE]
  /\ decision = "none" /\ message = "pending" /\ hold = "none"
  /\ admitted = FALSE /\ sent = 0 /\ key = 0
  /\ task = [w \in Worker |-> Stopped]
  /\ sweep = "rest" /\ api = "rest" /\ crashes = 0

(***************************************************************************)
(* The human.  A denial is followed by a transaction that writes the       *)
(* message; an approval by the publication of the resume task.             *)
(***************************************************************************)
Decide(verdict) ==
  /\ row.status = "pending" /\ now < Expires
  /\ row' = IF verdict = "approve" THEN [row EXCEPT !.status = "approved"]
                                   ELSE End("denied")
  /\ api' = IF verdict = "approve" THEN "rest" ELSE "finalize"
  /\ decision' = verdict
  /\ UNCHANGED <<now, message, hold, admitted, sent, key, task, sweep, crashes>>

\* finalize_terminal: the message says what became of the request.
Finalize ==
  message' = IF ToFinalize THEN row.status ELSE message

AnswerDecision ==
  /\ api = "finalize"
  /\ Finalize
  /\ api' = "rest"
  /\ UNCHANGED <<now, row, decision, hold, admitted, sent, key, task, sweep, crashes>>

(***************************************************************************)
(* The resume task.  The order of its commits: claim, reserve, admit, mark *)
(* the dispatch, call the gateway, finish, settle, answer.                 *)
(***************************************************************************)
\* Any delivery of the task, early, late or repeated, reads the row.
Load(w) ==
  /\ At(w, "idle")
  /\ decision = "approve" /\ row.status # "purged"
  /\ Goto(w, IF MayClaim THEN "lock" ELSE "pass")
  /\ UNCHANGED <<row, message, hold, key>> /\ UNCHANGED outside

\* Then it takes the lock of the conversation, or leaves the row to the next
\* sweep.  One that read of another status than approved claims nothing.
Lock(w) ==
  /\ At(w, "lock") \/ At(w, "pass")
  /\ IF key <= now
     THEN /\ key' = now + LockLife
          /\ Goto(w, IF At(w, "lock") THEN "claim" ELSE "unlock")
     ELSE Goto(w, "idle") /\ UNCHANGED key
  /\ UNCHANGED <<row, message, hold>> /\ UNCHANGED outside

\* The claim sets the columns it knows to be different, over whatever the row
\* says by now, if there still is one.
Claim(w) ==
  /\ At(w, "claim")
  /\ IF row.status # "purged" /\ now < Expires
     THEN /\ row' = [row EXCEPT !.status = "executing", !.lease = now + Lease,
                                !.deadline = Early(Expires, now + TurnLife),
                                !.late = @ \/ row.status \in Terminal]
          /\ Goto(w, "check")
     ELSE /\ row' = IF row.status = "purged" THEN row
                    ELSE [row EXCEPT !.status = "expired",
                                     !.late = @ \/ row.status \in Terminal,
                                     !.purge = IF now + Retain < 2 * Expires
                                               THEN now + Retain ELSE @]
          /\ Goto(w, "unlock")
  /\ UNCHANGED <<message, hold, key>> /\ UNCHANGED outside

\* The actor lost the right to decide, the grant, the tool or the conversation
\* changed: cancel before anything is sent.
Recheck(w) ==
  /\ At(w, "check")
  /\ \/ Goto(w, "reserve") /\ UNCHANGED row
     \/ /\ row' = IF MayCancel THEN End("denied") ELSE row
        /\ Goto(w, IF MayCancel \/ row.status \in Terminal THEN "unlock" ELSE "escape")
     \/ Goto(w, "escape") /\ UNCHANGED row
  /\ UNCHANGED <<message, hold, key>> /\ UNCHANGED outside

\* Reserving again what this approval reserved before finds the old hold,
\* whatever its status is.
Reserve(w) ==
  /\ At(w, "reserve")
  /\ \/ /\ hold' = IF hold = "none" THEN "reserved" ELSE hold
        /\ Goto(w, "admit")
     \/ Fail(w, FALSE) /\ UNCHANGED hold
  /\ UNCHANGED <<row, message, key>> /\ UNCHANGED outside

\* A call that was admitted before is never dispatched by a later admission.
Admit(w) ==
  /\ At(w, "admit")
  /\ \/ /\ ~admitted
        /\ admitted' = TRUE
        /\ Goto(w, "mark")
     \/ admitted /\ Fail(w, TRUE) /\ UNCHANGED admitted
     \/ Fail(w, FALSE) /\ UNCHANGED admitted
  /\ UNCHANGED <<now, row, decision, message, hold, sent, key, sweep, api, crashes>>

MarkDispatch(w) ==
  /\ At(w, "mark")
  /\ IF MayDispatch
     THEN row' = [row EXCEPT !.marker = now] /\ Goto(w, "gateway")
     ELSE Fail(w, TRUE) /\ UNCHANGED row
  /\ UNCHANGED <<message, hold, key>> /\ UNCHANGED outside

CallGateway_Retried(w) ==
  /\ At(w, "gateway")
  /\ sent' = sent + 1
  /\ Goto(w, "finish") \/ UNCHANGED task
  /\ UNCHANGED <<now, row, decision, message, hold, admitted, key, sweep, api, crashes>>

\* One call, with an answer, with an error, or with no word of its outcome.
CallGateway(w) ==
  /\ At(w, "gateway")
  /\ sent' = sent + 1
  /\ \/ Goto(w, "finish")
     \/ \E unknown \in BOOLEAN : Fail(w, unknown)
  /\ UNCHANGED <<now, row, decision, message, hold, admitted, key, sweep, api, crashes>>

\* The outcome is known: finish_execution, in a session of its own.
Finish(w) ==
  /\ At(w, "finish")
  /\ row' = IF MayFinish THEN End("executed") ELSE row
  /\ IF MayFinish \/ row.status \in Terminal THEN Goto(w, "settle") ELSE Fail(w, FALSE)
  /\ UNCHANGED <<message, hold, key>> /\ UNCHANGED outside

\* The last model call, then its settlement; or no answer can be made.
Settle(w) ==
  /\ At(w, "settle")
  /\ hold' = IF hold = "reserved" THEN "closed" ELSE hold
  /\ \E pc \in {"answer", "apologise"} : Goto(w, pc)
  /\ UNCHANGED <<row, message, key>> /\ UNCHANGED outside

Answer(w) ==
  /\ At(w, "answer")
  /\ message' = "completed"
  /\ Goto(w, "unlock")
  /\ UNCHANGED <<row, hold, key>> /\ UNCHANGED outside

\* The write is done and the answer is not: _confirmed_dispatch_synthesis_failure.
Apologise(w) ==
  /\ At(w, "apologise")
  /\ message' = IF row.status = "executed" THEN "unanswered" ELSE message
  /\ Goto(w, "unlock")
  /\ UNCHANGED <<row, hold, key>> /\ UNCHANGED outside

(***************************************************************************)
(* A resume that fails: give the hold back, end the row if it may be       *)
(* ended, then write the message.  Three commits.                          *)
(***************************************************************************)
Refund(w) ==
  /\ At(w, "refund")
  /\ hold' = IF hold = "reserved" THEN "closed" ELSE hold
  /\ Goto(w, "terminate")
  /\ UNCHANGED <<row, message, key>> /\ UNCHANGED outside

Terminate(w) ==
  /\ At(w, "terminate")
  /\ LET unknown == \/ task[w].unknown
                    \/ row.marker # Never /\ row.status # "purged"
     IN  /\ row' = IF unknown
                   THEN IF MayFinish THEN End("outcome_unknown") ELSE row
                   ELSE IF MayCancel THEN End("denied") ELSE row
         /\ task' = [task EXCEPT ![w] = [pc |-> "report", unknown |-> unknown]]
  /\ UNCHANGED <<message, hold, key>> /\ UNCHANGED outside

Report(w) ==
  /\ At(w, "report")
  /\ message' = IF task[w].unknown THEN "outcome_unknown" ELSE "failed"
  /\ task' = [task EXCEPT ![w] = [Stopped EXCEPT !.pc = "unlock"]]
  /\ UNCHANGED <<row, hold, key>> /\ UNCHANGED outside

\* Releasing the lock deletes the key, whoever set it.
Unlock(w) ==
  /\ At(w, "unlock")
  /\ key' = 0
  /\ Goto(w, "idle")
  /\ UNCHANGED <<row, message, hold>> /\ UNCHANGED outside

\* An error before the main handler: the lock goes first, then fail_unhandled
\* ends the row if it is executing, and writes the message.
Escape(w) ==
  /\ At(w, "escape")
  /\ key' = 0
  /\ Goto(w, "unhandled")
  /\ UNCHANGED <<row, message, hold>> /\ UNCHANGED outside

FailUnhandled(w) ==
  /\ At(w, "unhandled")
  /\ IF row.status = "executing"
     THEN /\ row' = End(IF row.marker = Never THEN "denied" ELSE "outcome_unknown")
          /\ task' = [task EXCEPT ![w] = [pc |-> "apology",
                                          unknown |-> row.marker # Never]]
     ELSE Goto(w, "idle") /\ UNCHANGED row
  /\ UNCHANGED <<message, hold, key>> /\ UNCHANGED outside

ReportUnhandled(w) ==
  /\ At(w, "apology")
  /\ message' = IF task[w].unknown THEN "outcome_unknown" ELSE "failed"
  /\ task' = [task EXCEPT ![w] = Stopped]
  /\ UNCHANGED <<row, hold, key>> /\ UNCHANGED outside

Crash(w) ==
  /\ ~At(w, "idle")
  /\ crashes < MaxCrash
  /\ crashes' = crashes + 1
  /\ task' = [task EXCEPT ![w] = Stopped]
  /\ UNCHANGED <<now, row, decision, message, hold, admitted, sent, key, sweep, api>>

(***************************************************************************)
(* The recovery task: one transaction recovers and expires, then the rows  *)
(* it listed as refused are finalized, and only then old rows are purged.  *)
(***************************************************************************)
SweepRow ==
  /\ sweep = "rest"
  /\ row' = IF Stale THEN Recovered
            ELSE IF row.status \in {"pending", "approved"} /\ now >= Expires
                 THEN End("expired")
                 ELSE row
  /\ sweep' = IF row'.status \in Refused THEN "finalize" ELSE "purge"
  /\ UNCHANGED <<now, decision, message, hold, admitted, sent, key, task, api, crashes>>

SweepFinalize ==
  /\ sweep = "finalize"
  /\ Finalize
  /\ sweep' = "purge_finalized"
  /\ UNCHANGED <<now, row, decision, hold, admitted, sent, key, task, api, crashes>>

SweepPurge ==
  /\ sweep \in {"purge", "purge_finalized"}
  /\ row' = IF /\ \/ row.status = "executed"
                  \/ row.status \in Refused /\ sweep = "purge_finalized"
               /\ row.purge <= now
            THEN [row EXCEPT !.status = "purged"]
            ELSE row
  /\ sweep' = "rest"
  /\ UNCHANGED <<now, decision, message, hold, admitted, sent, key, task, api, crashes>>

\* A later turn of the same conversation takes a message that has waited for
\* longer than the lock lives for abandoned (ChatTurn!Heal).
HealedByChat ==
  /\ key <= now /\ now > LockLife
  /\ message = "pending"
  /\ message' = "cancelled"
  /\ UNCHANGED <<row, hold, key, task>> /\ UNCHANGED outside

\* Redis deletes a key when its time is over.
Tick ==
  /\ now < MaxTime
  /\ now' = now + 1
  /\ key' = IF key <= now' THEN 0 ELSE key
  /\ UNCHANGED <<row, decision, message, hold, admitted, sent, task,
                 sweep, api, crashes>>

Proceed(w) ==
  \/ Lock(w) \/ Claim(w) \/ Recheck(w) \/ Reserve(w) \/ Admit(w) \/ MarkDispatch(w)
  \/ CallGateway(w) \/ Finish(w) \/ Settle(w) \/ Answer(w) \/ Apologise(w)
  \/ Refund(w) \/ Terminate(w) \/ Report(w) \/ Unlock(w)
  \/ Escape(w) \/ FailUnhandled(w) \/ ReportUnhandled(w)

Sweep == SweepRow \/ SweepFinalize \/ SweepPurge

Next ==
  \/ \E verdict \in {"approve", "deny"} : Decide(verdict)
  \/ AnswerDecision
  \/ \E w \in Worker : Load(w) \/ Proceed(w) \/ Crash(w)
  \/ Sweep
  \/ HealedByChat
  \/ Tick

Spec ==
  /\ Init /\ [][Next]_vars
  /\ WF_vars(Tick) /\ WF_vars(Sweep)
  /\ \A w \in Worker : WF_vars(Proceed(w))

-----------------------------------------------------------------------------
(* Properties.                                                             *)

Steps == {"idle", "lock", "pass", "claim", "check", "reserve", "admit", "mark", "gateway",
          "finish", "settle", "answer", "apologise", "refund", "terminate",
          "report", "unlock", "escape", "unhandled", "apology"}

\* The type invariant: an executing row has a lease, and a deadline that is not
\* later than the expiry; no other row has either, except one that a claim let
\* expire while another worker was executing it (approvals.py: claim_resume).
TypeOK ==
  /\ now \in 0 .. MaxTime
  /\ row \in [status : Live \union Terminal \union {"purged"},
              marker : 0 .. Never, lease : Nat, deadline : Nat, purge : Nat,
              late : BOOLEAN]
  /\ row.status = "executing" => row.lease # Never /\ row.deadline <= Expires
  /\ row.lease # Never \/ row.deadline # Never =>
       row.status \in {"executing", "expired", "purged"}
  /\ decision \in {"none", "approve", "deny"}
  /\ message \in {"pending", "completed", "unanswered", "failed", "cancelled"}
                   \union Refused
  /\ hold \in {"none", "reserved", "closed"}
  /\ admitted \in BOOLEAN /\ sent \in Nat /\ key \in Nat
  /\ task \in [Worker -> [pc : Steps, unknown : BOOLEAN]]
  /\ sweep \in {"rest", "finalize", "purge", "purge_finalized"}
  /\ api \in {"rest", "finalize"}
  /\ crashes \in 0 .. MaxCrash

\* The write reaches the gateway at most once, however often the task is
\* delivered and whoever dies: "Never automatically retry after dispatch".
AtMostOnce == sent <= 1

\* What reaches the gateway was approved by the human, and the dispatch was
\* recorded before the approval expired.
SentWasApproved ==
  sent > 0 => decision = "approve" /\ row.marker < Expires

\* A row that says denied stands for a write that was not sent, whether a human
\* or a failed recheck denied it.
DeniedNeverSent == row.status = "denied" => sent = 0

\* What the row says, before and after it ends, is what became of the write:
\* nothing is sent but what was approved in time, and what was sent is never
\* reported as denied (approvals.py: mark_gateway_dispatch_started, and
\* resume.py: the handler that cancels a failed attempt).
DecisionHolds == SentWasApproved /\ DeniedNeverSent

\* As long as no worker dies no hold is left behind by a resume.
HoldIsClosed ==
  crashes = 0 /\ hold = "reserved" =>
    \E w \in Worker : task[w].pc \in {"admit", "mark", "gateway", "finish",
                                      "settle", "refund"}

\* What the row says of the write: nothing as long as it is open.
Record == IF row.status \in Live THEN "open" ELSE row.status

\* The resumes that read the row as approved and have not decided on it.
Reading == {"lock", "claim"}
Readers == {w \in Worker : task[w].pc \in Reading}

Gate == INSTANCE ApprovedWrite
          WITH Reader <- Worker, verdict <- decision, calls <- sent,
               record <- Record, readers <- Readers

\* The row, the resume tasks and the sweep together implement ApprovedWrite:
\* whatever is delivered twice, comes late or dies, each commit of
\* approvals.py and resume.py decides, reads, sends, closes or purges, or
\* changes nothing that a human or a reader of the record could tell; and only
\* a resume that read the row before it was closed opens it again.
ImplementsApprovedWrite == Gate!Spec

\* Every approval comes to an end for good, though the task that executes it may
\* die at any moment and another may open it again.
Resolved == <>[](row.status \notin Live)

\* The message of a request that was refused, expired or lost does not wait for
\* ever, even if the process that ended the row dies before it writes it, and the
\* row is not purged before that, unless a late resume opened it again.
Shown == message # "pending" \/ row.late
RefusalIsShown ==
  /\ [][row.status \in Refused /\ row'.status = "purged" => Shown]_vars
  /\ <>[](row.status \in Refused => Shown)

\* What the handlers of a failed resume are written for (resume.py:774: "never
\* overwrite that monotonic state"): a row that has ended says the same until
\* it is purged.
OutcomeStands ==
  [][row.status \in Terminal => row'.status \in {row.status, "purged"}]_vars

\* What the plan and the docstring of recover_stale_claims say: a claim that was
\* lost at or after the dispatch marker ends as outcome_unknown, so that a row
\* that says "expired before approval" stands for a write that was not sent.
ExpiredNeverSent == row.status = "expired" => sent = 0
=============================================================================
