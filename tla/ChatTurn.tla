----------------------------- MODULE ChatTurn -----------------------------
(***************************************************************************)
(* One conversation of the workspace chat and the workers that answer in   *)
(* it: ChatOrchestrator.stream_turn and stream_retry, the resume of a tool *)
(* call a human approved (McpPendingResumeService.resume), the Redis lock  *)
(* with a time to live that is meant to keep their generations apart, the  *)
(* assistant rows they write and the usage hold of each row.               *)
(*                                                                         *)
(* Nothing renews the lock, so a turn may outlive it and run beside the    *)
(* next one.  The history variables overrun and exposed record when that   *)
(* happens and which rows were being written then: the properties say what *)
(* the code guarantees outside such a stretch, and that it guarantees it   *)
(* again as soon as the stretch is over.                                   *)
(*                                                                         *)
(* A generation is driven by the client that reads it, so it may stop at   *)
(* any yield; a worker may die between any two of its commits.  Nothing    *)
(* but the next turn cleans up after it: every turn first cancels the rows *)
(* that look abandoned and gives their holds back.                         *)
(*                                                                         *)
(* What a hold is, and that closing one twice changes nothing, is the      *)
(* subject of AiUsage; here a hold is "reserved", "settled" or "released". *)
(* How an approval is decided, claimed, sent and expired is the subject of *)
(* McpApproval; here it is open until a resume answers its row or it is    *)
(* given up, which may be at any time: its life is a setting of its own,   *)
(* by default three times that of the lock.                                *)
(***************************************************************************)
EXTENDS Naturals, Sequences, SequencesExt, FiniteSets

CONSTANTS
  Worker,      \* the web workers that serve this conversation
  TTL,         \* life of the lock and age at which a row is stale, in ticks
  MaxMessage,  \* bound: assistant rows ever written
  MaxFault     \* bound: crashes and swallowed errors

ASSUME LifeAssumption == TTL \in Nat \ {0}
ASSUME BoundAssumption == MaxMessage \in Nat /\ MaxFault \in Nat

VARIABLES
  key,     \* remaining life of the Redis key, 0 when there is none
  turn,    \* what each worker is doing
  msgs,    \* the assistant rows of the conversation, oldest first
  faults,  \* crashes and swallowed errors so far
  lost,    \* history: the rows whose hold was to be closed when one of these hit
  overrun, \* history: a turn has outlived the key since all workers were last idle
  exposed  \* history: the rows that were being generated during an overrun

vars == <<key, turn, msgs, faults, lost, overrun, exposed>>

Statuses == {"streaming", "pending", "completed", "failed", "cancelled"}

Idle == [pc |-> "idle", msg |-> 0, heal |-> {}, question |-> 0,
         verdict |-> "failed"]

Active == {"streaming", "pending"}

\* The operators with an underscore in their name are variants of the one after
\* them, each with a defect a change of this code could introduce.
Retryable_Any == Statuses
Retryable == {"failed", "cancelled"}

(***************************************************************************)
(* The lock.  Redis deletes the key when its life is over; releasing it    *)
(* deletes whatever key is there.                                          *)
(***************************************************************************)
LockFree_Always == key >= 0
LockFree == key = 0
Fade_Never(life) == life
Fade(life) == IF life > 0 THEN life - 1 ELSE 0

(***************************************************************************)
(* The rows.                                                               *)
(***************************************************************************)
Stale_Later == {m \in DOMAIN msgs : msgs[m].status \in Active /\ msgs[m].age > TTL + 1}
Stale == {m \in DOMAIN msgs : msgs[m].status \in Active /\ msgs[m].age > TTL}

HasActive == \E m \in DOMAIN msgs : msgs[m].status \in Active

Settled_Lost(usage) == usage
Settled(usage) == IF usage = "reserved" THEN "settled" ELSE usage
Released(usage) == IF usage = "reserved" THEN "released" ELSE usage

\* A row is written over whatever it says, with a fresh updated_at.
Write(m, status, usage, approval) ==
  msgs' = [msgs EXCEPT ![m].status = status, ![m].age = 0,
                       ![m].usage = usage, ![m].approval = approval]

\* The rows whose holds a turn must give back after it cancelled them.
ToRelease_Pending(stale) == {m \in stale : msgs[m].status = "pending"}
ToRelease(stale) == stale

\* Which question a turn answers: its own, or the one of the row it retries.
QuestionOf_Retried(w) == turn[w].question
QuestionOf(w) ==
  IF turn[w].question = 0 THEN Len(msgs) + 1 ELSE turn[w].question

Goto(w, pc) == turn' = [turn EXCEPT ![w].pc = pc]
Leave(w) == turn' = [turn EXCEPT ![w] = [Idle EXCEPT !.pc = "unlock"]]
At(w, pc) == turn[w].pc = pc

Generating(w) == turn[w].pc \in {"stream", "close", "mark"}
SameExposure == UNCHANGED <<overrun, exposed>>

NoFault == UNCHANGED <<faults, lost>>
Fault(losing) ==
  /\ faults < MaxFault
  /\ faults' = faults + 1
  /\ lost' = lost \union losing

-----------------------------------------------------------------------------
Init ==
  /\ key = 0
  /\ turn = [w \in Worker |-> Idle]
  /\ msgs = <<>>
  /\ faults = 0
  /\ lost = {}
  /\ overrun = FALSE
  /\ exposed = {}

\* SET NX EX; a turn that does not get the key is refused and changes nothing.
Acquire(w, t) ==
  /\ At(w, "idle")
  /\ LockFree
  /\ key' = TTL
  /\ turn' = [turn EXCEPT ![w] = t]
  /\ UNCHANGED msgs /\ NoFault /\ SameExposure

Begin(w) == Acquire(w, [Idle EXCEPT !.pc = "heal"])

\* An approved tool call is resumed under the lock of its conversation.
Resume(w, m) ==
  /\ msgs[m].approval = "open"
  /\ Acquire(w, [Idle EXCEPT !.pc = "resume", !.msg = m])

\* Cancel the abandoned rows and commit; their holds come one by one after it.
Heal(w) ==
  /\ At(w, "heal")
  /\ turn' = [turn EXCEPT ![w].pc = IF Stale = {} THEN "check" ELSE "release",
                          ![w].heal = ToRelease(Stale)]
  /\ msgs' = [m \in DOMAIN msgs |->
                IF m \in Stale
                THEN [msgs[m] EXCEPT !.status = "cancelled", !.age = 0]
                ELSE msgs[m]]
  /\ UNCHANGED key /\ NoFault /\ SameExposure

\* One release per cancelled row, each in a transaction of its own; an error
\* is logged and the next row is tried.
ReleaseHealed(w) ==
  /\ At(w, "release")
  /\ \E m \in turn[w].heal :
       /\ turn' = [turn EXCEPT ![w].heal = @ \ {m}]
       /\ \/ /\ msgs' = [msgs EXCEPT ![m].usage = Released(@)]
             /\ NoFault
          \/ /\ Fault({m})
             /\ UNCHANGED msgs
  /\ UNCHANGED key /\ SameExposure

Healed(w) ==
  /\ At(w, "release")
  /\ turn[w].heal = {}
  /\ Goto(w, "check")
  /\ UNCHANGED <<key, msgs>> /\ NoFault /\ SameExposure

\* Refuse while another answer is being generated; otherwise this is a new
\* question, or a retry of the latest row if that one failed.
Check(w) ==
  /\ At(w, "check")
  /\ IF HasActive
     THEN Leave(w)
     ELSE \/ Goto(w, "open")
          \/ /\ msgs # <<>>
             /\ Last(msgs).status \in Retryable
             /\ turn' = [turn EXCEPT ![w].pc = "open",
                                     ![w].question = Last(msgs).question]
  /\ UNCHANGED <<key, msgs>> /\ NoFault /\ SameExposure

\* Insert the row, reserve its usage, commit.
Open(w) ==
  /\ At(w, "open")
  /\ Len(msgs) < MaxMessage
  /\ msgs' = Append(msgs, [status |-> "streaming", age |-> 0,
                           usage |-> "reserved", approval |-> "none",
                           question |-> QuestionOf(w)])
  /\ turn' = [turn EXCEPT ![w].pc = "stream", ![w].msg = Len(msgs) + 1]
  /\ exposed' = IF overrun THEN exposed \union {Len(msgs) + 1} ELSE exposed
  /\ UNCHANGED <<key, overrun>> /\ NoFault

\* No access to the expert, nothing left to spend, a retry that is not allowed:
\* roll back.
Refuse(w) ==
  /\ At(w, "open")
  /\ Leave(w)
  /\ UNCHANGED <<key, msgs>> /\ NoFault /\ SameExposure

\* The answer is written over whatever the row says by now, and the hold is
\* settled in the same commit; settling a closed hold changes nothing.
Complete(w) ==
  /\ At(w, "stream")
  /\ LET m == turn[w].msg
     IN  Write(m, "completed", Settled(msgs[m].usage), msgs[m].approval)
  /\ Leave(w)
  /\ UNCHANGED key /\ NoFault /\ SameExposure

\* A tool call needs a human: the row waits, the tokens so far are settled.
AwaitApproval(w) ==
  /\ At(w, "stream")
  /\ LET m == turn[w].msg IN Write(m, "pending", Settled(msgs[m].usage), "open")
  /\ Leave(w)
  /\ UNCHANGED key /\ NoFault /\ SameExposure

\* The approved write was sent and answered: the row is completed, whatever it
\* says by now, and also if the sweep has given its approval up meanwhile.  What
\* this cost is on a hold of its own (McpApproval).
Answer(w) ==
  /\ At(w, "resume")
  /\ LET m == turn[w].msg IN Write(m, "completed", msgs[m].usage, "used")
  /\ Leave(w)
  /\ UNCHANGED key /\ NoFault /\ SameExposure

\* The resume finds that it may not or need not send, or fails: the row is
\* marked failed, or left to the refusal of the approval or to the next resume.
\* The approval is over, unless another worker has sent its write meanwhile.
GiveUp(w) ==
  /\ At(w, "resume")
  /\ LET m == turn[w].msg
     IN  \/ UNCHANGED msgs
         \/ \E approval \in {msgs[m].approval, "used"} :
              Write(m, "failed", msgs[m].usage, approval)
  /\ Leave(w)
  /\ UNCHANGED key /\ NoFault /\ SameExposure

\* The approval is denied, expires, or its outcome is declared unknown: the row is
\* marked failed, without the lock, and also after a slow resume has answered it.
Decline(m) ==
  /\ msgs[m].approval # "none"
  /\ Write(m, "failed", msgs[m].usage, "used")
  /\ UNCHANGED <<key, turn>> /\ NoFault /\ SameExposure

\* Where a turn goes when its generation breaks off.
AfterBreak_Failed(verdict) == IF verdict = "failed" THEN "close" ELSE "mark"
AfterBreak(verdict) == "close"

\* The generation failed, or the client went away.
Break(w, verdict) ==
  /\ At(w, "stream")
  /\ turn' = [turn EXCEPT ![w].pc = AfterBreak(verdict), ![w].verdict = verdict]
  /\ UNCHANGED <<key, msgs>> /\ NoFault /\ SameExposure

\* An error where no handler closes the turn: only the lock is released.
Escape(w) ==
  /\ At(w, "stream")
  /\ Fault({})
  /\ Leave(w)
  /\ UNCHANGED <<key, msgs>> /\ SameExposure

\* Settle the tokens that are billed all the same, or give the hold back if there
\* are none or if that fails; a release that fails is only logged.
CloseUsage(w) ==
  /\ At(w, "close")
  /\ LET m == turn[w].msg
     IN  \/ /\ \E usage \in {Settled(msgs[m].usage), Released(msgs[m].usage)} :
                 msgs' = [msgs EXCEPT ![m].usage = usage]
            /\ NoFault
         \/ UNCHANGED msgs /\ Fault({m})
  /\ Goto(w, "mark")
  /\ UNCHANGED key /\ SameExposure

\* Mark the row failed or cancelled; an error at this commit is only logged.
Mark(w) ==
  /\ At(w, "mark")
  /\ LET m == turn[w].msg
     IN  \/ Write(m, turn[w].verdict, msgs[m].usage, msgs[m].approval) /\ NoFault
         \/ UNCHANGED msgs /\ Fault({})
  /\ Leave(w)
  /\ UNCHANGED key /\ SameExposure

\* An overrun is over when the last of the turns that met in it is.
End(w) ==
  /\ turn' = [turn EXCEPT ![w] = Idle]
  /\ overrun' = (overrun /\ \E v \in Worker \ {w} : ~At(v, "idle"))
  /\ UNCHANGED exposed

\* DEL, whoever set the key; an error of Redis leaves it to its time to live.
Unlock(w) ==
  /\ At(w, "unlock")
  /\ \/ key' = 0 /\ NoFault
     \/ key' = key /\ Fault({})
  /\ End(w)
  /\ UNCHANGED msgs

\* The worker process dies.
Crash(w) ==
  /\ ~At(w, "idle")
  /\ Fault(turn[w].heal)
  /\ End(w)
  /\ UNCHANGED <<key, msgs>>

\* Time passes, and may take the key from under a turn.  The age of an active
\* row matters, up to the first stale one.
Overruns == key = 1 /\ \E w \in Worker : ~At(w, "idle")

Tick ==
  /\ key' = Fade(key)
  /\ overrun' = (overrun \/ Overruns)
  /\ exposed' = IF Overruns
                THEN exposed \union {turn[w].msg : w \in {v \in Worker : Generating(v)}}
                ELSE exposed
  /\ msgs' = [m \in DOMAIN msgs |->
                IF msgs[m].status \in Active /\ msgs[m].age <= TTL
                THEN [msgs[m] EXCEPT !.age = @ + 1]
                ELSE msgs[m]]
  /\ UNCHANGED turn /\ NoFault

\* What a worker does of its own accord once a turn has begun.
Proceed(w) ==
  \/ Heal(w) \/ ReleaseHealed(w) \/ Healed(w) \/ Check(w)
  \/ Open(w) \/ Refuse(w) \/ Complete(w) \/ AwaitApproval(w)
  \/ Answer(w) \/ GiveUp(w)
  \/ \E verdict \in Retryable : Break(w, verdict)
  \/ CloseUsage(w) \/ Mark(w) \/ Unlock(w)

Next ==
  \/ \E w \in Worker : Begin(w) \/ Proceed(w) \/ Escape(w) \/ Crash(w)
  \/ \E w \in Worker, m \in DOMAIN msgs : Resume(w, m)
  \/ \E m \in DOMAIN msgs : Decline(m)
  \/ Tick

Spec ==
  /\ Init /\ [][Next]_vars
  /\ WF_vars(Tick)
  /\ \A w \in Worker : WF_vars(Proceed(w))

-----------------------------------------------------------------------------
(* Properties.                                                             *)

Message == [status : Statuses, age : 0 .. TTL + 1,
            usage : {"reserved", "settled", "released"},
            approval : {"none", "open", "used"}, question : 1 .. MaxMessage]

Turn == [pc : {"idle", "heal", "release", "check", "open", "stream", "close",
               "mark", "resume", "unlock"},
         msg : Nat, heal : SUBSET (1 .. MaxMessage), question : 0 .. MaxMessage,
         verdict : Retryable]

\* The type invariant: every row belongs to a question that was asked, a worker
\* that is past its insert or resumes an approval has a row, and the rows to
\* release exist.
TypeOK ==
  /\ key \in 0 .. TTL
  /\ turn \in [Worker -> Turn]
  /\ msgs \in Seq(Message) /\ Len(msgs) <= MaxMessage
  /\ faults \in 0 .. MaxFault
  /\ lost \subseteq DOMAIN msgs
  /\ overrun \in BOOLEAN
  /\ exposed \subseteq DOMAIN msgs
  /\ \A w \in Worker :
       /\ Generating(w) \/ At(w, "resume") => turn[w].msg \in DOMAIN msgs
       /\ turn[w].heal \subseteq DOMAIN msgs

\* No two workers are in a turn of this conversation at the same time.
OneTurn == \A v, w \in Worker : ~At(v, "idle") /\ ~At(w, "idle") => v = w

\* While a worker generates an answer nobody cancels its row or takes its hold,
\* and no other row of the conversation is active: the answer was not begun
\* beside one that is still to come.
LiveTurnKept ==
  \A w \in Worker :
    At(w, "stream") =>
      /\ msgs[turn[w].msg].status = "streaming"
      /\ msgs[turn[w].msg].usage = "reserved"
      /\ \A m \in DOMAIN msgs : msgs[m].status \in Active => m = turn[w].msg

\* What the lock and the checks under it achieve.  Only one thing lets turns
\* meet, or lets one turn heal the row of another that is alive: a turn that
\* outlives the fixed life of the key (locks.py:84).  Nothing else does, neither
\* a crash, an error of Redis, a client that goes away, a retry or the resume of
\* an approval, nor a turn that deletes the key of another one; and when the
\* turns that met are over, the next ones are alone again.
TurnsStandAlone == overrun \/ (OneTurn /\ LiveTurnKept)

\* An answer the user sees as completed has been charged (_complete_and_settle
\* writes both in one commit), unless it was being generated while turns
\* overlapped: then another turn may have taken the row for abandoned and given
\* its hold back before it was completed.
CompletedIsCharged ==
  \A m \in DOMAIN msgs :
    msgs[m].status = "completed" => msgs[m].usage = "settled" \/ m \in exposed

\* When a question has two completed answers, however often it was retried, the
\* earlier one was completed late: by the resume of its approval, after the row
\* that waited for it was cancelled as stale or failed and the question was
\* asked again, or by a turn that went on beside others.
OneAnswer ==
  \A m, n \in DOMAIN msgs :
    /\ msgs[m].status = "completed" /\ msgs[n].status = "completed"
    /\ msgs[m].question = msgs[n].question
    /\ m < n
    => msgs[m].approval = "used" \/ m \in exposed

\* No hold is forgotten: if a row is over and its hold is not, then a worker is
\* about to give it back, or the very transaction that would have closed it was
\* lost.  Nothing else in the code ever looks at such a hold again.
NoForgottenHold ==
  \A m \in DOMAIN msgs :
    msgs[m].usage = "reserved" /\ msgs[m].status \notin {"streaming", "pending"}
      => m \in lost \/ \E w \in Worker : m \in turn[w].heal

Working(w, m) == turn[w].msg = m /\ (Generating(w) \/ At(w, "resume"))

\* As long as nothing goes wrong every hold is closed in the end, with no need
\* for another turn to clean up: when no more rows are written, none is held.
HoldsClosed ==
  <>[](faults > 0 \/ \A m \in DOMAIN msgs : msgs[m].usage # "reserved")

\* The lock never blocks the conversation for good, whoever dies holding it.
LockComesFree == []<>(key = 0)

\* If users keep sending messages, rows whose worker is gone, or whose approval
\* nobody decides, do not block the conversation for good (repository.py:149).
AbandonedIsHealed ==
  ([]<><<\E w \in Worker : Begin(w)>>_vars) =>
    []<>(\A m \in DOMAIN msgs :
           msgs[m].status \in Active => \E w \in Worker : Working(w, m))
=============================================================================
