------------------------- MODULE McpApprovalProofs -------------------------
(***************************************************************************)
(* Proofs about McpApproval for every number of workers, every length of   *)
(* lives and leases, and every bound: the write is sent at most once, only *)
(* after an approval, never if the row says denied, and the protocol       *)
(* implements ApprovedWrite.                                               *)
(*                                                                         *)
(* The argument rests on the dispatch marker alone: it is set once, by the *)
(* one worker that then calls the gateway, and never taken back.           *)
(***************************************************************************)
EXTENDS McpApproval, TLAPS

\* What the proofs need to know of the types.
Typed ==
  /\ now \in 0 .. MaxTime
  /\ row.marker \in Nat
  /\ row.status \in Live \union Terminal \union {"purged"}
  /\ sent \in Nat
  /\ task \in [Worker -> [pc : Steps, unknown : BOOLEAN]]
  /\ DOMAIN row = {"status", "marker", "lease", "deadline", "purge", "late"}

\* Who may call the gateway: the worker that set the marker, once.
OneCaller ==
  /\ row.marker = Never => sent = 0
  /\ sent <= 1
  /\ \A w \in Worker : At(w, "gateway") => row.marker # Never /\ sent = 0
  /\ \A v, w \in Worker : At(v, "gateway") /\ At(w, "gateway") => v = w

\* Who may say that the write was executed: the worker that sent it.
Confirmed ==
  /\ \A w \in Worker : At(w, "finish") => sent = 1
  /\ row.status = "executed" => sent = 1

\* The marker is set for an approved, unexpired row that nobody denied.
MarkerJustified ==
  /\ row.status = "pending" => row.marker = Never /\ decision = "none"
  /\ row.status = "denied" => row.marker = Never
  /\ row.marker # Never => decision = "approve" /\ row.marker < Expires
  /\ row.status \in {"approved", "executing"} => decision = "approve"
  /\ \A w \in Worker : task[w].pc \in Reading => decision = "approve"

Inv == Typed /\ OneCaller /\ Confirmed /\ MarkerJustified

-----------------------------------------------------------------------------
\* Ending a row changes its status and leaves the marker alone.
LEMMA EndRow ==
  ASSUME Typed, NEW status \in Terminal
  PROVE  /\ End(status).status = status
         /\ End(status).marker = row.marker
         /\ DOMAIN End(status) = DOMAIN row
  BY DEF End, Typed

\* What a step may do to the row if it is not a dispatch: the marker stays, the
\* row does not become denied once it is marked or before it was approved, nor
\* pending, nor open again before it was approved, nor executed if nothing was
\* sent.
RowKept ==
  /\ row'.marker = row.marker
  /\ row'.status \in Live \union Terminal \union {"purged"}
  /\ DOMAIN row' = DOMAIN row
  /\ row'.status = "pending" => row.status = "pending"
  /\ row'.status \in {"approved", "executing"} => decision = "approve"
  /\ row'.status = "denied" =>
       row.status = "denied" \/ (row.marker = Never /\ decision = "approve")
  /\ row'.status = "executed" => row.status = "executed" \/ sent = 1

\* Every step but a late claim and a purge leaves what has ended as it is.
RowStands ==
  \/ row.status \in Live /\ row'.status \in Live \union Terminal
  \/ row'.status = row.status

Others == decision' = decision /\ now' = now /\ sent' = sent

Quiet ==
  /\ sent' = sent
  /\ \A w \in Worker : /\ At(w, "gateway")' => At(w, "gateway")
                       /\ At(w, "finish")' => At(w, "finish")
                       /\ task'[w].pc \in Reading =>
                            task[w].pc \in Reading \/ decision = "approve"

\* Such a step preserves the invariant if nobody enters the gateway or comes
\* from it and the decision stands.
LEMMA QuietStep ==
  ASSUME Inv, RowKept, Quiet, decision' = decision, now' \in 0 .. MaxTime,
         task' \in [Worker -> [pc : Steps, unknown : BOOLEAN]]
  PROVE  Inv'
<1>1. Typed'
  BY DEF Inv, Typed, RowKept, Quiet
<1>2. OneCaller'
  BY DEF Inv, OneCaller, RowKept, Quiet, Never
<1>3. MarkerJustified'
  BY DEF Inv, MarkerJustified, RowKept, Quiet, Never
<1>4. Confirmed'
  BY DEF Inv, Confirmed, RowKept, Quiet
<1> QED BY <1>1, <1>2, <1>3, <1>4 DEF Inv

\* A row that nobody decided about satisfies it.
LEMMA InitInv ==
  ASSUME LifeAssumption, BoundAssumption, Init
  PROVE  Inv
<1>1. Typed
  BY DEF Init, BoundAssumption, Typed, Never, Live, Stopped, Steps
<1>2. OneCaller /\ Confirmed /\ MarkerJustified
  BY DEF Init, OneCaller, Confirmed, MarkerJustified, At, Stopped, Reading
<1> QED BY <1>1, <1>2 DEF Inv

\* The two steps that concern the gateway.
LEMMA MarkDispatchStep ==
  ASSUME BoundAssumption, Inv, NEW w \in Worker, MarkDispatch(w)
  PROVE  /\ Inv' /\ Others /\ Readers' = Readers
         /\ (RowKept /\ RowStands) \/ Record' = Record
<1> USE DEF Inv
<1>0. Readers' = Readers
  BY DEF MarkDispatch, Goto, Fail, At, Typed, Readers, Reading
<1>1. CASE MayDispatch
  <2>1. /\ row' = [row EXCEPT !.marker = now]
        /\ task' = [task EXCEPT ![w].pc = "gateway"]
        /\ sent' = sent /\ decision' = decision /\ now' = now
    BY <1>1 DEF MarkDispatch, Goto, outside
  <2>2. /\ row.status = "executing" /\ row.marker = Never /\ now < Expires
        /\ now \in Nat /\ now # Never
    BY <1>1 DEF MayDispatch, Typed, Never, BoundAssumption
  <2>3. row'.marker = now /\ row'.status = "executing" /\ DOMAIN row' = DOMAIN row
    BY <2>1, <2>2 DEF Typed
  <2>4. Typed'
    BY <2>1, <2>2, <2>3 DEF Typed, Steps, Live
  <2>5. \A v \in Worker : At(v, "gateway")' => v = w
    BY <2>1, <2>2 DEF OneCaller, At, Typed
  <2>6. OneCaller'
    BY <2>1, <2>2, <2>3, <2>5 DEF OneCaller, Never
  <2>7. decision = "approve"
    BY <2>2 DEF MarkerJustified
  <2>8. MarkerJustified'
    BY <2>1, <2>2, <2>3, <2>7 DEF MarkerJustified, Never
  <2>9. Confirmed'
    BY <2>1, <2>3 DEF Confirmed, At, Typed
  <2> QED BY <1>0, <2>1, <2>2, <2>3, <2>4, <2>6, <2>8, <2>9 DEF Record, Live, Others
<1>2. CASE ~MayDispatch
  <2>1. row' = row /\ decision' = decision /\ now' = now /\ sent' = sent
    BY <1>2 DEF MarkDispatch, outside
  <2>2. task' = [task EXCEPT ![w] = [pc |-> "refund", unknown |-> TRUE]]
    BY <1>2 DEF MarkDispatch, Fail
  <2>3. RowKept /\ RowStands
    BY <2>1 DEF RowKept, RowStands, Typed, MarkerJustified
  <2>4. Quiet
    BY <2>1, <2>2 DEF Quiet, At, Typed, Reading
  <2>5. task' \in [Worker -> [pc : Steps, unknown : BOOLEAN]]
    BY <2>2 DEF Typed, Steps
  <2>6. Inv'
    BY <2>1, <2>3, <2>4, <2>5, QuietStep DEF Typed
  <2> QED BY <1>0, <2>1, <2>3, <2>6 DEF Others
<1> QED BY <1>1, <1>2

\* The call: the caller is alone, so the write was not sent before, and whoever
\* comes back from it knows that it was.
LEMMA CallGatewayStep ==
  ASSUME Inv, NEW w \in Worker, CallGateway(w)
  PROVE  /\ Inv' /\ row' = row /\ decision' = decision /\ Readers' = Readers
         /\ sent = 0 /\ sent' = 1 /\ row.marker # Never
<1> USE DEF Inv
<1>1. /\ At(w, "gateway") /\ row' = row /\ decision' = decision /\ now' = now
      /\ sent = 0 /\ sent' = 1 /\ row.marker # Never
  BY DEF CallGateway, OneCaller
<1>2. /\ task' \in [Worker -> [pc : Steps, unknown : BOOLEAN]]
      /\ task'[w].pc \in {"finish", "refund"}
      /\ \A v \in Worker : v # w => task'[v] = task[v]
  BY DEF CallGateway, Goto, Fail, Typed, Steps
<1>3. Typed'
  BY <1>1, <1>2 DEF Typed
<1>4. \A v \in Worker : ~At(v, "gateway")'
  BY <1>1, <1>2 DEF OneCaller, At
<1>5. OneCaller'
  BY <1>1, <1>4 DEF OneCaller, Typed, Never
<1>6. Readers' = Readers
  BY <1>1, <1>2 DEF Readers, Reading, At
<1>7. MarkerJustified'
  BY <1>1, <1>2 DEF MarkerJustified, Reading, Never
<1>8. Confirmed'
  BY <1>1 DEF Confirmed
<1> QED BY <1>1, <1>3, <1>5, <1>6, <1>7, <1>8

\* The human: the row is pending, so it is not marked.
LEMMA DecideStep ==
  ASSUME Inv, NEW verdict \in {"approve", "deny"}, Decide(verdict)
  PROVE  /\ Inv' /\ row.status = "pending" /\ sent' = sent /\ decision' = verdict
         /\ Readers' = Readers
         /\ row'.status = IF verdict = "approve" THEN "approved" ELSE "denied"
<1> USE DEF Inv
<1>1. row.status = "pending" /\ row.marker = Never
  BY DEF Decide, MarkerJustified
<1>2. /\ row'.marker = Never /\ DOMAIN row' = DOMAIN row
      /\ row'.status = IF verdict = "approve" THEN "approved" ELSE "denied"
  BY <1>1, EndRow DEF Decide, Typed, Terminal
<1>3. sent' = sent /\ task' = task /\ now' = now /\ decision' = verdict
  BY DEF Decide
<1>4. Typed'
  BY <1>1, <1>2, <1>3 DEF Typed, Live, Terminal
<1>5. OneCaller'
  BY <1>1, <1>2, <1>3 DEF OneCaller, At, Never
<1>6. MarkerJustified'
  BY <1>1, <1>2, <1>3 DEF MarkerJustified, Never
<1>7. Confirmed'
  BY <1>2, <1>3 DEF Confirmed, At
<1>8. Readers' = Readers
  BY <1>3 DEF Readers
<1> QED BY <1>1, <1>2, <1>3, <1>4, <1>5, <1>6, <1>7, <1>8

-----------------------------------------------------------------------------
(* Every other step is quiet and keeps the row.                            *)

\* An open row may be ended, as denied if it is approved and not marked, as
\* executed if the write was sent.
LEMMA EndKept ==
  ASSUME Typed, NEW status \in Terminal, row' = End(status),
         row.status \in Live,
         status = "denied" => row.marker = Never /\ decision = "approve",
         status = "executed" => sent = 1
  PROVE  RowKept /\ RowStands
  BY EndRow DEF RowKept, RowStands, Terminal, Live

\* A step that leaves the row alone keeps it.
LEMMA SameRow ==
  ASSUME Inv, row' = row
  PROVE  RowKept /\ RowStands
  BY DEF Inv, RowKept, RowStands, Typed, MarkerJustified

\* A worker that moves on, but neither into the gateway nor from it, and not to
\* where it has only read the row.
Busy == Steps \ {"gateway", "finish", "lock", "claim"}
Moves(w) ==
  /\ task' \in [Worker -> [pc : Steps, unknown : BOOLEAN]]
  /\ task'[w].pc \in Busy
  /\ \A v \in Worker : v # w => task'[v] = task[v]

\* Its step is quiet if it sends nothing.
LEMMA MovesQuiet ==
  ASSUME NEW w \in Worker, Moves(w), sent' = sent
  PROVE  Quiet /\ Readers' = Readers \ {w}
  BY DEF Moves, Quiet, At, Readers, Reading, Busy

\* Goto and the other assignments to a worker's task are such moves.
LEMMA GotoMoves ==
  ASSUME Typed, NEW w \in Worker, NEW pc \in Busy, Goto(w, pc)
  PROVE  Moves(w)
<1> DEFINE t == [task[w] EXCEPT !.pc = pc]
<1>1. task' = [task EXCEPT ![w] = t]
  BY DEF Goto
<1>2. t \in [pc : Steps, unknown : BOOLEAN] /\ t.pc = pc
  BY DEF Typed, Busy
<1> HIDE DEF t
<1> QED BY <1>1, <1>2 DEF Moves, Typed, Busy

\* And so is a new record of the task.
LEMMA ReplaceMoves ==
  ASSUME Typed, NEW w \in Worker, NEW pc \in Busy,
         NEW unknown \in BOOLEAN,
         task' = [task EXCEPT ![w] = [pc |-> pc, unknown |-> unknown]]
  PROVE  Moves(w)
  BY DEF Moves, Typed, Busy

\* The task reads an approved row, so that the human has approved.
LEMMA LoadStep ==
  ASSUME Inv, NEW w \in Worker, Load(w)
  PROVE  /\ Quiet /\ Others /\ row' = row
         /\ task' \in [Worker -> [pc : Steps, unknown : BOOLEAN]]
         /\ \/ Readers' = Readers
            \/ Readers' = Readers \union {w} /\ row.status = "approved"
<1> DEFINE pc == IF MayClaim THEN "lock" ELSE "pass"
           next == [task[w] EXCEPT !.pc = pc]
<1>1. /\ Others /\ row' = row /\ decision = "approve" /\ task[w].pc = "idle"
      /\ task' = [task EXCEPT ![w] = next]
  BY DEF Load, Goto, At, outside, Others
<1>2. /\ task \in [Worker -> [pc : Steps, unknown : BOOLEAN]]
      /\ pc \in {"lock", "pass"} /\ (pc = "lock" => row.status = "approved")
  BY DEF Inv, Typed, MayClaim
<1>3. next \in [pc : Steps, unknown : BOOLEAN] /\ next.pc = pc
  BY <1>2 DEF Steps
<1> HIDE DEF pc, next
<1>4. /\ task' \in [Worker -> [pc : Steps, unknown : BOOLEAN]] /\ task'[w].pc = pc
      /\ \A v \in Worker : v # w => task'[v] = task[v]
  BY <1>1, <1>2, <1>3
<1> QED BY <1>1, <1>2, <1>4 DEF Quiet, Others, At, Readers, Reading

\* It keeps what it has read while it takes the lock, or gives up.
LEMMA LockStep ==
  ASSUME Inv, NEW w \in Worker, Lock(w)
  PROVE  /\ Quiet /\ Others /\ row' = row
         /\ task' \in [Worker -> [pc : Steps, unknown : BOOLEAN]]
         /\ Readers' = Readers \/ Readers' = Readers \ {w}
<1>1. PICK pc \in {"claim", "unlock", "idle"} :
        Goto(w, pc) /\ (pc = "claim" => task[w].pc = "lock")
  BY DEF Lock, At
<1>2. Others /\ row' = row
  BY DEF Lock, outside, Others
<1> DEFINE next == [task[w] EXCEPT !.pc = pc]
<1>3. task' = [task EXCEPT ![w] = next]
  BY <1>1 DEF Goto
<1>4. /\ task \in [Worker -> [pc : Steps, unknown : BOOLEAN]]
      /\ next \in [pc : Steps, unknown : BOOLEAN] /\ next.pc = pc
  BY DEF Inv, Typed, Steps
<1> HIDE DEF next
<1>5. /\ task' \in [Worker -> [pc : Steps, unknown : BOOLEAN]] /\ task'[w].pc = pc
      /\ \A v \in Worker : v # w => task'[v] = task[v]
  BY <1>3, <1>4
<1> QED BY <1>1, <1>2, <1>5 DEF Quiet, Others, At, Readers, Reading

\* The steps of the resume task that write the row.  The claim may open a row
\* that has ended, or end it again, but only one that was approved.
LEMMA ClaimStep ==
  ASSUME Inv, NEW w \in Worker, Claim(w)
  PROVE  /\ RowKept /\ Moves(w) /\ Others /\ w \in Readers
         /\ IF row.status = "purged" THEN row' = row
            ELSE row'.status \in {"executing", "expired"}
<1> USE DEF Inv
<1>1. Moves(w)
  BY GotoMoves DEF Claim, Busy, Steps
<1>2. Others
  BY DEF Claim, outside, Others
<1>3. w \in Readers /\ decision = "approve"
  BY DEF Claim, At, Readers, Reading, MarkerJustified
<1>4. CASE row.status = "purged"
  BY <1>1, <1>2, <1>3, <1>4, SameRow DEF Claim
<1>5. CASE row.status # "purged"
  <2>1. /\ row'.status \in {"executing", "expired"} /\ row'.marker = row.marker
        /\ DOMAIN row' = DOMAIN row
    BY <1>5 DEF Claim, Typed
  <2> QED BY <1>1, <1>2, <1>3, <1>5, <2>1 DEF RowKept, Live, Terminal
<1> QED BY <1>4, <1>5

\* The re-check cancels what is approved and not marked.
LEMMA RecheckStep ==
  ASSUME Inv, NEW w \in Worker, Recheck(w)
  PROVE  /\ RowKept /\ RowStands /\ Moves(w) /\ Others
         /\ task[w].pc \notin Reading
<1> USE DEF Inv
<1>0. task[w].pc \notin Reading
  BY DEF Recheck, At, Reading
<1>1. Moves(w)
  BY GotoMoves DEF Recheck, Busy, Steps
<1>2. Others
  BY DEF Recheck, outside, Others
<1>3. row' = row \/ (MayCancel /\ row' = End("denied"))
  BY DEF Recheck
<1>4. RowKept /\ RowStands
  BY <1>3, SameRow, EndKept DEF MayCancel, MarkerJustified, Terminal, Live
<1> QED BY <1>0, <1>1, <1>2, <1>4

\* finish_execution: who finishes has sent.
LEMMA FinishStep ==
  ASSUME Inv, NEW w \in Worker, Finish(w)
  PROVE  /\ RowKept /\ RowStands /\ Moves(w) /\ Others
         /\ task[w].pc \notin Reading
<1> USE DEF Inv
<1>0. task[w].pc \notin Reading
  BY DEF Finish, At, Reading
<1>1. Moves(w)
  BY GotoMoves, ReplaceMoves DEF Finish, Fail, Busy, Steps
<1>2. Others
  BY DEF Finish, outside, Others
<1>3. row' = row \/ (MayFinish /\ row' = End("executed"))
  BY DEF Finish
<1>4. RowKept /\ RowStands
  <2>1. sent = 1
    BY DEF Finish, Confirmed
  <2> QED BY <1>3, <2>1, SameRow, EndKept DEF MayFinish, Terminal, Live
<1> QED BY <1>0, <1>1, <1>2, <1>4

\* The end of a failed resume: unknown if it was marked, else denied.
LEMMA TerminateStep ==
  ASSUME Inv, NEW w \in Worker, Terminate(w)
  PROVE  /\ RowKept /\ RowStands /\ Moves(w) /\ Others
         /\ task[w].pc \notin Reading
<1> USE DEF Inv
<1>0. task[w].pc \notin Reading
  BY DEF Terminate, At, Reading
<1>1. Moves(w)
  <2> DEFINE unknown == task[w].unknown \/ (row.marker # Never /\ row.status # "purged")
  <2>1. task' = [task EXCEPT ![w] = [pc |-> "report", unknown |-> unknown]]
    BY DEF Terminate
  <2>2. unknown \in BOOLEAN
    BY DEF Typed
  <2> HIDE DEF unknown
  <2> QED BY <2>1, <2>2, ReplaceMoves DEF Busy, Steps
<1>2. Others
  BY DEF Terminate, outside, Others
<1>3. \/ row' = row
      \/ MayFinish /\ row' = End("outcome_unknown")
      \/ MayCancel /\ row' = End("denied")
  BY DEF Terminate
<1>4. RowKept /\ RowStands
  BY <1>3, SameRow, EndKept DEF MayFinish, MayCancel, MarkerJustified, Terminal, Live
<1> QED BY <1>0, <1>1, <1>2, <1>4

\* The same after an error that no handler expects.
LEMMA FailUnhandledStep ==
  ASSUME Inv, NEW w \in Worker, FailUnhandled(w)
  PROVE  /\ RowKept /\ RowStands /\ Moves(w) /\ Others
         /\ task[w].pc \notin Reading
<1> USE DEF Inv
<1>0. task[w].pc \notin Reading
  BY DEF FailUnhandled, At, Reading
<1>1. Moves(w)
  <2> DEFINE unknown == row.marker # Never
  <2>1. \/ task' = [task EXCEPT ![w] = [pc |-> "apology", unknown |-> unknown]]
        \/ Goto(w, "idle")
    BY DEF FailUnhandled
  <2>2. unknown \in BOOLEAN
    OBVIOUS
  <2> HIDE DEF unknown
  <2> QED BY <2>1, <2>2, GotoMoves, ReplaceMoves DEF Busy, Steps
<1>2. Others
  BY DEF FailUnhandled, outside, Others
<1>3. ASSUME row.status = "executing" PROVE RowKept /\ RowStands
  <2> DEFINE status == IF row.marker = Never THEN "denied" ELSE "outcome_unknown"
  <2>1. row' = End(status)
    BY <1>3 DEF FailUnhandled
  <2>2. /\ status \in Terminal /\ row.status \in Live /\ status # "executed"
        /\ status = "denied" => row.marker = Never /\ decision = "approve"
    BY <1>3 DEF Terminal, Live, MarkerJustified
  <2> HIDE DEF status
  <2>3. RowKept /\ RowStands
    BY <2>1, <2>2, EndKept
  <2> QED BY <2>3
<1>4. ASSUME row.status # "executing" PROVE RowKept /\ RowStands
  <2>1. row' = row
    BY <1>4 DEF FailUnhandled
  <2> QED BY <2>1, SameRow
<1> QED BY <1>0, <1>1, <1>2, <1>3, <1>4

\* The other steps of the resume task leave the row alone.
LEMMA PlainStep ==
  ASSUME Inv, NEW w \in Worker,
         \/ Reserve(w) \/ Admit(w) \/ Settle(w) \/ Answer(w) \/ Apologise(w)
         \/ Refund(w) \/ Report(w) \/ Unlock(w) \/ Escape(w)
         \/ ReportUnhandled(w) \/ Crash(w)
  PROVE  RowKept /\ RowStands /\ Moves(w) /\ Others
<1> USE DEF Inv
<1>1. row' = row /\ Others
  BY DEF Reserve, Admit, Settle, Answer, Apologise, Refund, Report, Unlock,
         Escape, ReportUnhandled, Crash, outside, Others
<1>2. CASE Reserve(w) \/ Admit(w) \/ Settle(w)
  <2>1. \/ Goto(w, "admit") \/ Goto(w, "mark")
        \/ Goto(w, "answer") \/ Goto(w, "apologise")
        \/ Fail(w, FALSE) \/ Fail(w, TRUE)
    BY <1>2 DEF Reserve, Admit, Settle
  <2>2. Moves(w)
    BY <2>1, GotoMoves, ReplaceMoves DEF Fail, Busy, Steps
  <2> QED BY <1>1, <2>2, SameRow
<1>3. CASE Answer(w) \/ Apologise(w) \/ Refund(w) \/ Unlock(w) \/ Escape(w)
  <2>1. \/ Goto(w, "unlock") \/ Goto(w, "terminate") \/ Goto(w, "idle")
        \/ Goto(w, "unhandled")
    BY <1>3 DEF Answer, Apologise, Refund, Unlock, Escape
  <2>2. Moves(w)
    BY <2>1, GotoMoves DEF Busy, Steps
  <2> QED BY <1>1, <2>2, SameRow
<1>4. CASE Report(w) \/ ReportUnhandled(w) \/ Crash(w)
  <2>1. \E pc \in {"idle", "unlock"} :
          task' = [task EXCEPT ![w] = [pc |-> pc, unknown |-> FALSE]]
    BY <1>4 DEF Report, ReportUnhandled, Crash, Stopped
  <2>2. Moves(w)
    BY <2>1, ReplaceMoves DEF Busy, Steps
  <2> QED BY <1>1, <2>2, SameRow
<1> QED BY <1>2, <1>3, <1>4

\* The sweep: what is recovered or expired was not finished, and what is purged
\* was.
LEMMA SweepStep ==
  ASSUME Inv, Sweep
  PROVE  /\ RowKept /\ task' = task /\ Others
         /\ RowStands \/ (row.status \in Terminal /\ row'.status = "purged")
<1> USE DEF Inv
<1>1. task' = task /\ Others
  BY DEF Sweep, SweepRow, SweepFinalize, SweepPurge, Others
<1>2. ASSUME SweepRow, Stale
      PROVE  RowKept /\ RowStands
  <2>1. row' = Recovered /\ row.status = "executing"
    BY <1>2 DEF SweepRow, Stale
  <2>2. CASE row' = End("expired") \/ row' = End("outcome_unknown")
    BY <2>1, <2>2, EndKept DEF Terminal, Live
  <2>3. CASE row' = [row EXCEPT !.status = "approved", !.lease = Never,
                                !.deadline = Never]
    BY <2>1, <2>3 DEF RowKept, RowStands, Typed, MarkerJustified, Live
  <2> QED BY <2>1, <2>2, <2>3 DEF Recovered
<1>3. ASSUME SweepRow, ~Stale
      PROVE  RowKept /\ RowStands
  <2>1. \/ row' = row
        \/ row.status \in {"pending", "approved"} /\ row' = End("expired")
    BY <1>3 DEF SweepRow
  <2> QED BY <2>1, SameRow, EndKept DEF Terminal, Live
<1>4. ASSUME SweepFinalize
      PROVE  RowKept /\ RowStands
  BY <1>4, SameRow DEF SweepFinalize
<1>5. ASSUME SweepPurge
      PROVE  /\ RowKept
             /\ RowStands \/ (row.status \in Terminal /\ row'.status = "purged")
  <2>1. \/ row' = row
        \/ row.status \in Terminal /\ row' = [row EXCEPT !.status = "purged"]
    BY <1>5 DEF SweepPurge, Refused, Terminal
  <2> QED BY <2>1, SameRow DEF RowKept, Typed, Live, Terminal
<1> QED BY <1>1, <1>2, <1>3, <1>4, <1>5 DEF Sweep

-----------------------------------------------------------------------------
\* What a step may be for the human and for a reader of the record.
Outcome == [Gate!Next]_<<decision, sent, Record, Readers>>

\* A step that sends nothing, keeps the row and leaves ended rows alone closes
\* the record, makes somebody forget what was read, or is not to be seen.
LEMMA KeptOutcome ==
  ASSUME Inv, RowKept, RowStands, decision' = decision, sent' = sent,
         Readers' = Readers \/ \E w \in Worker : Readers' = Readers \ {w}
  PROVE  Outcome
<1> USE DEF Inv
<1>1. CASE Record' = Record
  <2>1. UNCHANGED <<decision, sent, Record, Readers>> \/ \E w \in Worker : Gate!Forget(w)
    BY <1>1 DEF Gate!Forget
  <2> QED BY <2>1 DEF Outcome, Gate!Next
<1>2. CASE Record' # Record
  <2>1. row.status \in Live /\ Record = "open" /\ Record' = row'.status /\ row'.status \in Terminal
    BY <1>2 DEF Record, RowStands, Live, Terminal
  <2>2. /\ Record' = "executed" => sent = 1
        /\ Record' = "denied" => sent = 0 /\ decision = "approve"
    BY <2>1 DEF RowKept, OneCaller, Live
  <2>3. Readers' \subseteq Readers
    OBVIOUS
  <2>4. Gate!Close
    BY <2>1, <2>2, <2>3 DEF Gate!Close, Gate!Confirm, Gate!Cancel, Gate!Lose, Terminal
  <2> QED BY <2>4 DEF Outcome, Gate!Next
<1> QED BY <1>1, <1>2

\* A claim decides on what was read: it opens or closes the record, whatever it
\* says by now.
LEMMA ClaimOutcome ==
  ASSUME Inv, NEW w \in Worker, Claim(w)
  PROVE  Outcome
<1>1. /\ RowKept /\ w \in Readers /\ Readers' = Readers \ {w}
      /\ decision' = decision /\ sent' = sent
      /\ IF row.status = "purged" THEN row' = row
         ELSE row'.status \in {"executing", "expired"}
  BY ClaimStep, MovesQuiet DEF Others
<1>2. CASE RowStands
  BY <1>1, <1>2, KeptOutcome
<1>3. CASE ~RowStands
  <2>1. /\ row.status \in Terminal
        /\ Record = row.status /\ Record' \in {"open", "expired"}
    BY <1>1, <1>3 DEF RowStands, Record, Inv, Typed, Live, Terminal
  <2>2. Gate!Reopen(w)
    BY <1>1, <2>1 DEF Gate!Reopen, Terminal
  <2> QED BY <2>2 DEF Outcome, Gate!Next
<1> QED BY <1>2, <1>3

\* Every step preserves the invariant and is a step of ApprovedWrite.
LEMMA NextStep ==
  ASSUME LifeAssumption, BoundAssumption, Inv, Next
  PROVE  Inv' /\ Outcome
<1>1. ASSUME NEW verdict \in {"approve", "deny"}, Decide(verdict)
      PROVE  Inv' /\ Outcome
  <2>1. /\ Inv' /\ row.status = "pending" /\ sent' = sent /\ decision' = verdict
        /\ Readers' = Readers
        /\ row'.status = IF verdict = "approve" THEN "approved" ELSE "denied"
    BY <1>1, DecideStep
  <2>2. decision = "none"
    BY <2>1 DEF Inv, MarkerJustified
  <2>3. /\ Record = "open"
        /\ Record' = IF verdict = "approve" THEN "open" ELSE "denied"
    BY <2>1 DEF Record, Live
  <2>4. Gate!Approve \/ Gate!Deny
    BY <2>1, <2>2, <2>3 DEF Gate!Approve, Gate!Deny
  <2> QED BY <2>1, <2>4 DEF Outcome, Gate!Next
<1>2. ASSUME NEW w \in Worker, MarkDispatch(w)
      PROVE  Inv' /\ Outcome
  <2>1. /\ Inv' /\ Others /\ Readers' = Readers
        /\ (RowKept /\ RowStands) \/ Record' = Record
    BY <1>2, MarkDispatchStep
  <2>2. CASE RowKept /\ RowStands
    BY <2>1, <2>2, KeptOutcome DEF Others
  <2> QED BY <2>1, <2>2 DEF Outcome, Others
<1>3. ASSUME NEW w \in Worker, CallGateway(w)
      PROVE  Inv' /\ Outcome
  <2>1. /\ Inv' /\ row' = row /\ decision' = decision /\ Readers' = Readers
        /\ sent = 0 /\ sent' = 1 /\ row.marker # Never
    BY <1>3, CallGatewayStep
  <2>2. /\ decision = "approve" /\ Record' = Record
        /\ Record \notin {"executed", "denied"}
    BY <2>1 DEF Inv, MarkerJustified, Confirmed, Record, Live
  <2>3. Gate!Send
    BY <2>1, <2>2 DEF Gate!Send
  <2> QED BY <2>1, <2>3 DEF Outcome, Gate!Next
<1>4. ASSUME NEW w \in Worker, Load(w)
      PROVE  Inv' /\ Outcome
  <2>1. /\ Quiet /\ Others /\ row' = row
        /\ task' \in [Worker -> [pc : Steps, unknown : BOOLEAN]]
        /\ \/ Readers' = Readers
           \/ Readers' = Readers \union {w} /\ row.status = "approved"
    BY <1>4, LoadStep
  <2>2. RowKept /\ RowStands /\ Record' = Record
    BY <2>1, SameRow DEF Record
  <2>3. Inv'
    BY <2>1, <2>2, QuietStep DEF Others, Inv, Typed
  <2>4. CASE Readers' = Readers
    BY <2>1, <2>2, <2>3, <2>4 DEF Outcome, Others
  <2>5. CASE Readers' = Readers \union {w} /\ row.status = "approved"
    <3>1. Record = "open" /\ decision = "approve"
      BY <2>5 DEF Record, Live, Inv, MarkerJustified
    <3>2. Gate!Read(w)
      BY <2>1, <2>2, <2>5, <3>1 DEF Gate!Read, Others
    <3> QED BY <2>3, <3>2 DEF Outcome, Gate!Next
  <2> QED BY <2>1, <2>3, <2>4, <2>5
<1>5. ASSUME NEW w \in Worker, Lock(w)
      PROVE  Inv' /\ Outcome
  <2>1. /\ Quiet /\ Others /\ row' = row
        /\ task' \in [Worker -> [pc : Steps, unknown : BOOLEAN]]
        /\ Readers' = Readers \/ Readers' = Readers \ {w}
    BY <1>5, LockStep
  <2>2. RowKept /\ RowStands
    BY <2>1, SameRow
  <2>3. Inv'
    BY <2>1, <2>2, QuietStep DEF Others, Inv, Typed
  <2> QED BY <2>1, <2>2, <2>3, KeptOutcome DEF Others
<1>6. ASSUME NEW w \in Worker, RowKept, Moves(w), Others
      PROVE  Inv' /\ Readers' = Readers \ {w}
  <2>1. Quiet /\ Readers' = Readers \ {w}
    BY <1>6, MovesQuiet DEF Others
  <2>2. now' \in 0 .. MaxTime /\ decision' = decision
    BY <1>6 DEF Others, Inv, Typed
  <2>3. task' \in [Worker -> [pc : Steps, unknown : BOOLEAN]]
    BY <1>6 DEF Moves
  <2> QED BY <2>1, <2>2, <2>3, <1>6, QuietStep
<1>7. ASSUME NEW w \in Worker, Proceed(w) \/ Crash(w),
             ~Lock(w), ~Claim(w), ~MarkDispatch(w), ~CallGateway(w)
      PROVE  Inv' /\ Outcome
  <2>1. RowKept /\ RowStands /\ Moves(w) /\ Others
    BY <1>7, RecheckStep, FinishStep, TerminateStep, FailUnhandledStep, PlainStep
       DEF Proceed
  <2> QED BY <2>1, <1>6, KeptOutcome DEF Others
<1>8. ASSUME NEW w \in Worker, Claim(w)
      PROVE  Inv' /\ Outcome
  BY <1>6, <1>8, ClaimStep, ClaimOutcome
<1>9. ASSUME RowKept, task' = task, sent' = sent, now' \in 0 .. MaxTime,
             decision' = decision
      PROVE  Inv' /\ Readers' = Readers
  <2>1. Quiet /\ Readers' = Readers
    BY <1>9 DEF Quiet, At, Readers
  <2>2. task' \in [Worker -> [pc : Steps, unknown : BOOLEAN]]
    BY <1>9 DEF Inv, Typed
  <2> QED BY <2>1, <2>2, <1>9, QuietStep
<1>10. CASE Sweep
  <2>1. /\ RowKept /\ task' = task /\ Others
        /\ RowStands \/ (row.status \in Terminal /\ row'.status = "purged")
    BY <1>10, SweepStep
  <2>2. Inv' /\ Readers' = Readers
    BY <2>1, <1>9 DEF Others, Inv, Typed
  <2>3. CASE RowStands
    BY <2>1, <2>2, <2>3, KeptOutcome DEF Others
  <2>4. CASE row.status \in Terminal /\ row'.status = "purged"
    <3>1. Record # "open" /\ Record' = "purged"
      BY <2>4 DEF Record, Live, Terminal
    <3>2. Gate!Purge
      BY <2>1, <2>2, <3>1 DEF Gate!Purge, Others
    <3> QED BY <2>2, <3>2 DEF Outcome, Gate!Next
  <2> QED BY <2>1, <2>3, <2>4, <2>2
<1>11. CASE AnswerDecision \/ HealedByChat \/ Tick
  <2>1. row' = row /\ task' = task /\ sent' = sent /\ decision' = decision
    BY <1>11 DEF AnswerDecision, HealedByChat, Tick, outside
  <2>2. now' \in 0 .. MaxTime
    BY <1>11, BoundAssumption DEF AnswerDecision, HealedByChat, Tick, outside, Inv, Typed
  <2>3. RowKept /\ RowStands
    BY <2>1, SameRow
  <2> QED BY <2>1, <2>2, <2>3, <1>9, KeptOutcome
<1>12. ASSUME NEW w \in Worker, Load(w) \/ Proceed(w) \/ Crash(w)
       PROVE  Inv' /\ Outcome
  BY <1>2, <1>3, <1>4, <1>5, <1>7, <1>8, <1>12
<1> QED BY <1>1, <1>10, <1>11, <1>12 DEF Next

\* So does a step of something else.
LEMMA StutterStep ==
  ASSUME Inv, UNCHANGED vars
  PROVE  Inv' /\ Outcome
<1>1. /\ row' = row /\ task' = task /\ sent' = sent /\ decision' = decision
      /\ now' = now
  BY DEF vars
<1>2. Typed'
  BY <1>1 DEF Inv, Typed
<1>3. OneCaller'
  BY <1>1 DEF Inv, OneCaller, At, Never
<1>4. MarkerJustified'
  BY <1>1 DEF Inv, MarkerJustified, Never
<1>5. Confirmed'
  BY <1>1 DEF Inv, Confirmed, At
<1>6. Outcome
  BY <1>1 DEF Outcome, Record, Readers
<1> QED BY <1>2, <1>3, <1>4, <1>5, <1>6 DEF Inv

\* The inductive invariant holds in every reachable state.
THEOREM Invariance == Spec => []Inv
<1>1. Init => Inv
  BY InitInv, LifeAssumption, BoundAssumption
<1>2. Inv /\ [Next]_vars => Inv'
  BY NextStep, StutterStep, LifeAssumption, BoundAssumption
<1> QED BY <1>1, <1>2, PTL DEF Spec

\* The write reaches the gateway at most once (mark_gateway_dispatch_started
\* accepts a row once, and only its caller goes on to call).
THEOREM SentOnce == Spec => []AtMostOnce
<1>1. Inv => AtMostOnce
  BY DEF Inv, OneCaller, AtMostOnce
<1> QED BY <1>1, Invariance, PTL

\* What was sent was approved, and marked before the approval expired.
THEOREM SentOnlyIfApproved == Spec => []SentWasApproved
<1>1. Inv => SentWasApproved
  BY DEF Inv, Typed, OneCaller, MarkerJustified, SentWasApproved
<1> QED BY <1>1, Invariance, PTL

\* A denied write was never sent.
THEOREM DenialIsSafe == Spec => []DeniedNeverSent
<1>1. Inv => DeniedNeverSent
  BY DEF Inv, OneCaller, MarkerJustified, DeniedNeverSent
<1> QED BY <1>1, Invariance, PTL

\* Together: the human's decision holds, for any number of workers and crashes.
THEOREM DecisionsHold == Spec => []DecisionHolds
<1>1. SentWasApproved /\ DeniedNeverSent => DecisionHolds
  BY DEF DecisionHolds
<1> QED BY <1>1, SentOnlyIfApproved, DenialIsSafe, PTL

\* The refinement: the approval, its resume tasks and its sweep implement
\* ApprovedWrite, for any number of workers, deliveries and crashes and any
\* lifetimes (approvals.py, resume.py).
THEOREM Implements == Spec => ImplementsApprovedWrite
<1>1. Init => Gate!Init
  BY DEF Init, Gate!Init, Record, Live, Readers, Reading, Stopped
<1>2. Inv /\ [Next]_vars => [Gate!Next]_<<decision, sent, Record, Readers>>
  BY NextStep, StutterStep, LifeAssumption, BoundAssumption DEF Outcome
<1> QED BY <1>1, <1>2, Invariance, PTL DEF Spec, ImplementsApprovedWrite, Gate!Spec

-----------------------------------------------------------------------------
\* Where a worker still has a hold to close.
Holding == {"admit", "mark", "gateway", "finish", "settle", "refund"}
HoldInv ==
  /\ HoldIsClosed /\ crashes \in Nat /\ DOMAIN task = Worker
  /\ \A w \in Worker : DOMAIN task[w] = {"pc", "unknown"}

\* A step of worker w that keeps the hold does not leave these places, if it
\* was in one of them.
LEMMA HoldStep ==
  ASSUME HoldInv, NEW w \in Worker, NEW next,
         task' = [task EXCEPT ![w] = next], DOMAIN next = {"pc", "unknown"},
         crashes' = crashes,
         \/ hold' = hold /\ (task[w].pc \in Holding => next.pc \in Holding)
         \/ hold' = "closed"
         \/ next.pc \in Holding
  PROVE  HoldInv'
<1>1. /\ DOMAIN task' = Worker /\ task'[w] = next
      /\ \A v \in Worker : v # w => task'[v] = task[v]
  BY DEF HoldInv
<1>2. HoldIsClosed'
  BY <1>1 DEF HoldInv, HoldIsClosed, Holding
<1> QED BY <1>1, <1>2 DEF HoldInv

LEMMA HoldGoto ==
  ASSUME HoldInv, NEW w \in Worker, NEW pc, Goto(w, pc), crashes' = crashes,
         \/ hold' = hold /\ (task[w].pc \in Holding => pc \in Holding)
         \/ hold' = "closed"
         \/ pc \in Holding
  PROVE  HoldInv'
<1> DEFINE next == [task[w] EXCEPT !.pc = pc]
<1>1. task' = [task EXCEPT ![w] = next]
  BY DEF Goto
<1>2. DOMAIN next = {"pc", "unknown"} /\ next.pc = pc
  BY DEF HoldInv
<1> HIDE DEF next
<1> QED BY <1>1, <1>2, HoldStep

LEMMA HoldFail ==
  ASSUME HoldInv, NEW w \in Worker, NEW unknown, Fail(w, unknown), crashes' = crashes
  PROVE  HoldInv'
<1> DEFINE next == [pc |-> "refund", unknown |-> unknown]
<1>1. task' = [task EXCEPT ![w] = next]
  BY DEF Fail
<1>2. DOMAIN next = {"pc", "unknown"} /\ next.pc \in Holding
  BY DEF Holding
<1> HIDE DEF next
<1> QED BY <1>1, <1>2, HoldStep

LEMMA HoldProceed ==
  ASSUME HoldInv, NEW w \in Worker, Load(w) \/ Proceed(w)
  PROVE  HoldInv'
<1> USE DEF Holding, At
<1>1. CASE Load(w)
  BY <1>1, HoldGoto DEF Load, outside
<1>19. CASE Lock(w)
  BY <1>19, HoldGoto DEF Lock, outside
<1>2. CASE Claim(w)
  BY <1>2, HoldGoto DEF Claim, outside
<1>3. CASE Recheck(w)
  BY <1>3, HoldGoto DEF Recheck, outside
<1>4. CASE Reserve(w)
  BY <1>4, HoldGoto, HoldFail DEF Reserve, outside
<1>5. CASE Admit(w)
  BY <1>5, HoldGoto, HoldFail DEF Admit
<1>6. CASE MarkDispatch(w)
  BY <1>6, HoldGoto, HoldFail DEF MarkDispatch, outside
<1>7. CASE CallGateway(w)
  BY <1>7, HoldGoto, HoldFail DEF CallGateway
<1>8. CASE Finish(w)
  BY <1>8, HoldGoto, HoldFail DEF Finish, outside
<1>9. CASE Settle(w)
  <2>1. PICK pc \in {"answer", "apologise"} : Goto(w, pc)
    BY <1>9 DEF Settle
  <2>2. hold' = "closed" \/ (hold' = hold /\ hold # "reserved")
    BY <1>9 DEF Settle
  <2>3. CASE hold' = "closed"
    BY <1>9, <2>1, <2>3, HoldGoto DEF Settle, outside
  <2>4. CASE hold' = hold /\ hold # "reserved"
    <3>1. HoldIsClosed' /\ crashes' = crashes
      BY <1>9, <2>4 DEF HoldIsClosed, Settle, outside
    <3> QED BY <2>1, <3>1 DEF Goto, HoldInv
  <2> QED BY <2>2, <2>3, <2>4
<1>10. CASE Answer(w)
  BY <1>10, HoldGoto DEF Answer, outside
<1>11. CASE Apologise(w)
  BY <1>11, HoldGoto DEF Apologise, outside
<1>12. CASE Refund(w)
  <2>1. Goto(w, "terminate") /\ crashes' = crashes
    BY <1>12 DEF Refund, outside
  <2>2. hold' = "closed" \/ (hold' = hold /\ hold # "reserved")
    BY <1>12 DEF Refund
  <2>3. CASE hold' = "closed"
    BY <2>1, <2>3, HoldGoto
  <2>4. CASE hold' = hold /\ hold # "reserved"
    <3>1. HoldIsClosed'
      BY <2>4 DEF HoldIsClosed
    <3> QED BY <2>1, <3>1 DEF Goto, HoldInv
  <2> QED BY <2>2, <2>3, <2>4
<1>13. CASE Terminate(w)
  <2>1. PICK unknown : task' = [task EXCEPT ![w] = [pc |-> "report", unknown |-> unknown]]
    BY <1>13 DEF Terminate
  <2>2. task[w].pc = "terminate" /\ hold' = hold /\ crashes' = crashes
    BY <1>13 DEF Terminate, outside
  <2> QED BY <2>1, <2>2, HoldStep
<1>14. CASE Report(w)
  <2> DEFINE next == [Stopped EXCEPT !.pc = "unlock"]
  <2>1. task' = [task EXCEPT ![w] = next] /\ DOMAIN next = {"pc", "unknown"}
        /\ task[w].pc = "report" /\ hold' = hold /\ crashes' = crashes
    BY <1>14 DEF Report, outside, Stopped
  <2> HIDE DEF next
  <2> QED BY <2>1, HoldStep
<1>15. CASE Unlock(w)
  BY <1>15, HoldGoto DEF Unlock, outside
<1>16. CASE Escape(w)
  BY <1>16, HoldGoto DEF Escape, outside
<1>17. CASE FailUnhandled(w)
  <2>1. task[w].pc = "unhandled" /\ hold' = hold /\ crashes' = crashes
    BY <1>17 DEF FailUnhandled, outside
  <2>2. CASE row.status = "executing"
    <3> DEFINE next == [pc |-> "apology", unknown |-> row.marker # Never]
    <3>1. task' = [task EXCEPT ![w] = next] /\ DOMAIN next = {"pc", "unknown"}
      BY <1>17, <2>2 DEF FailUnhandled
    <3> HIDE DEF next
    <3> QED BY <2>1, <3>1, HoldStep
  <2>3. CASE row.status # "executing"
    BY <1>17, <2>1, <2>3, HoldGoto DEF FailUnhandled
  <2> QED BY <2>2, <2>3
<1>18. CASE ReportUnhandled(w)
  <2>1. task' = [task EXCEPT ![w] = Stopped] /\ DOMAIN Stopped = {"pc", "unknown"}
        /\ task[w].pc = "apology" /\ hold' = hold /\ crashes' = crashes
    BY <1>18 DEF ReportUnhandled, outside, Stopped
  <2> QED BY <2>1, HoldStep
<1> QED BY <1>1, <1>2, <1>3, <1>4, <1>5, <1>6, <1>7, <1>8, <1>9, <1>10, <1>11, <1>12,
           <1>13, <1>14, <1>15, <1>16, <1>17, <1>18, <1>19 DEF Proceed

\* No resume that runs to its end leaves its hold behind, whoever overlaps with
\* it and however its row ends (resume.py: the handlers of resume).
THEOREM HoldsAreClosed == Spec => []HoldIsClosed
<1>1. Init => HoldInv
  BY DEF Init, HoldInv, HoldIsClosed, Stopped
<1>2. ASSUME HoldInv, [Next]_vars PROVE HoldInv'
  <2>1. ASSUME NEW w \in Worker, Load(w) \/ Proceed(w) PROVE HoldInv'
    BY <1>2, <2>1, HoldProceed
  <2>2. ASSUME NEW w \in Worker, Crash(w) PROVE HoldInv'
    <3>1. crashes' \in Nat /\ crashes' # 0
      BY <1>2, <2>2 DEF Crash, HoldInv
    <3>2. DOMAIN Stopped = {"pc", "unknown"}
      BY DEF Stopped
    <3> QED BY <1>2, <2>2, <3>1, <3>2 DEF Crash, HoldInv, HoldIsClosed
  <2>3. CASE UNCHANGED <<hold, task, crashes>>
    BY <1>2, <2>3 DEF HoldInv, HoldIsClosed
  <2>4. CASE \/ \E verdict \in {"approve", "deny"} : Decide(verdict)
             \/ AnswerDecision \/ Sweep \/ HealedByChat \/ Tick \/ UNCHANGED vars
    BY <2>3, <2>4 DEF Decide, AnswerDecision, Sweep, SweepRow, SweepFinalize, SweepPurge,
                      HealedByChat, Tick, vars, outside
  <2> QED BY <1>2, <2>1, <2>2, <2>4 DEF Next
<1>3. HoldInv => HoldIsClosed
  BY DEF HoldInv
<1> QED BY <1>1, <1>2, <1>3, PTL DEF Spec

-----------------------------------------------------------------------------
\* The type.  That a lease is told from no lease needs room for the last one
\* before the bound of the clock.
RowType == [status : Live \union Terminal \union {"purged"}, marker : 0 .. Never,
            lease : Nat, deadline : Nat, purge : Nat, late : BOOLEAN]
RowOK ==
  /\ row \in RowType
  /\ row.status = "executing" => row.lease # Never /\ row.deadline <= Expires
  /\ row.lease # Never \/ row.deadline # Never =>
       row.status \in {"executing", "expired", "purged"}

Rest ==
  /\ decision \in {"none", "approve", "deny"}
  /\ message \in {"pending", "completed", "unanswered", "failed", "cancelled"}
                   \union Refused
  /\ hold \in {"none", "reserved", "closed"}
  /\ admitted \in BOOLEAN /\ key \in Nat
  /\ sweep \in {"rest", "finalize", "purge", "purge_finalized"}
  /\ api \in {"rest", "finalize"}
  /\ crashes \in 0 .. MaxCrash

\* What a step may make of the row.
Written ==
  \/ row' = row
  \/ \E status \in Terminal : row' = End(status)
  \/ row.status = "pending" /\ row' = [row EXCEPT !.status = "approved"]
  \/ row.status \in Terminal /\ row' = [row EXCEPT !.status = "purged"]
  \/ row' = [row EXCEPT !.status = "approved", !.lease = Never, !.deadline = Never]
  \/ \E late \in BOOLEAN :
       \/ now < Expires /\ row' = [row EXCEPT !.status = "executing", !.lease = now + Lease,
                                              !.deadline = Early(Expires, now + TurnLife),
                                              !.late = late]
       \/ \E purge \in {row.purge, now + Retain} :
            row' = [row EXCEPT !.status = "expired", !.late = late, !.purge = purge]
  \/ row.status = "executing" /\ row' = [row EXCEPT !.marker = now]

LEMMA StepWrites ==
  ASSUME Inv, RowOK, [Next]_vars
  PROVE  Written
<1> USE DEF Written, outside
<1>1. ASSUME NEW verdict \in {"approve", "deny"}, Decide(verdict) PROVE Written
  BY <1>1 DEF Decide, Terminal
<1>2. CASE Sweep
  BY <1>2 DEF Sweep, SweepRow, SweepFinalize, SweepPurge, Recovered, Terminal, Refused
<1>3. ASSUME NEW w \in Worker, Claim(w), Inv, RowOK PROVE Written
  <2> DEFINE late == row.late \/ row.status \in Terminal
  <2>1. late \in BOOLEAN
    BY <1>3 DEF RowOK, RowType
  <2>2. CASE row.status = "purged"
    BY <1>3, <2>2 DEF Claim
  <2>3. CASE row.status # "purged" /\ now < Expires
    <3>1. row' = [row EXCEPT !.status = "executing", !.lease = now + Lease,
                             !.deadline = Early(Expires, now + TurnLife), !.late = late]
      BY <1>3, <2>3 DEF Claim
    <3> QED BY <2>1, <2>3, <3>1
  <2>4. CASE row.status # "purged" /\ ~(now < Expires)
    <3>1. \E purge \in {row.purge, now + Retain} :
            row' = [row EXCEPT !.status = "expired", !.late = late, !.purge = purge]
      BY <1>3, <2>4 DEF Claim
    <3> QED BY <2>1, <3>1
  <2> QED BY <2>2, <2>3, <2>4
<1>4. ASSUME NEW w \in Worker,
             Recheck(w) \/ MarkDispatch(w) \/ Finish(w) \/ Terminate(w) \/ FailUnhandled(w)
      PROVE  Written
  BY <1>4 DEF Recheck, MarkDispatch, MayDispatch, Finish, Terminate, FailUnhandled, Terminal
<1>5. ASSUME NEW w \in Worker,
             \/ Load(w) \/ Lock(w) \/ Reserve(w) \/ Admit(w) \/ CallGateway(w)
             \/ Settle(w) \/ Answer(w) \/ Apologise(w) \/ Refund(w) \/ Report(w) \/ Unlock(w)
             \/ Escape(w) \/ ReportUnhandled(w) \/ Crash(w)
      PROVE  Written
  BY <1>5 DEF Load, Lock, Reserve, Admit, CallGateway, Settle, Answer, Apologise, Refund,
              Report, Unlock, Escape, ReportUnhandled, Crash
<1>6. CASE AnswerDecision \/ HealedByChat \/ Tick \/ UNCHANGED vars
  BY <1>6 DEF AnswerDecision, HealedByChat, Tick, vars
<1> QED BY <1>1, <1>2, <1>3, <1>4, <1>5, <1>6 DEF Next, Proceed

LEMMA RowStep ==
  ASSUME LifeAssumption, BoundAssumption, Expires + Lease <= MaxTime, Inv, RowOK, Written
  PROVE  RowOK'
<1> USE DEF LifeAssumption, BoundAssumption
<1>0. now \in 0 .. MaxTime /\ row \in RowType /\ Never \in Nat /\ now + Retain \in Nat
  BY DEF Inv, Typed, RowOK, Never
<1>1. CASE row' = row
  BY <1>1 DEF RowOK
<1>2. ASSUME NEW status \in Terminal, row' = End(status) PROVE RowOK'
  <2>1. Early(row.purge, now + Retain) \in Nat
    BY <1>0 DEF Early, RowType
  <2>2. row' \in RowType /\ row'.status # "executing"
    BY <1>0, <1>2, <2>1 DEF End, RowType, Terminal
  <2>3. row'.lease = Never /\ row'.deadline = Never
    BY <1>0, <1>2 DEF End, RowType
  <2> QED BY <2>2, <2>3 DEF RowOK, Never
<1>3. CASE \/ row.status = "pending" /\ row' = [row EXCEPT !.status = "approved"]
           \/ row.status \in Terminal /\ row' = [row EXCEPT !.status = "purged"]
  BY <1>0, <1>3 DEF RowOK, RowType, Live, Terminal, Never
<1>4. CASE row' = [row EXCEPT !.status = "approved", !.lease = Never, !.deadline = Never]
  BY <1>0, <1>4 DEF RowOK, RowType, Live, Never
<1>5. ASSUME NEW late \in BOOLEAN, now < Expires,
             row' = [row EXCEPT !.status = "executing", !.lease = now + Lease,
                                !.deadline = Early(Expires, now + TurnLife), !.late = late]
      PROVE  RowOK'
  <2>1. /\ Early(Expires, now + TurnLife) \in Nat
        /\ Early(Expires, now + TurnLife) <= Expires
    BY <1>0 DEF Early
  <2>2. now + Lease \in Nat /\ now + Lease # Never
    BY <1>0, <1>5 DEF Never
  <2> QED BY <1>0, <1>5, <2>1, <2>2 DEF RowOK, RowType, Live, Never
<1>7. ASSUME NEW late \in BOOLEAN, NEW purge \in {row.purge, now + Retain},
             row' = [row EXCEPT !.status = "expired", !.late = late, !.purge = purge]
      PROVE  RowOK'
  <2>1. purge \in Nat
    BY <1>0 DEF RowType
  <2> QED BY <1>0, <1>7, <2>1 DEF RowOK, RowType, Terminal, Never
<1>6. CASE row.status = "executing" /\ row' = [row EXCEPT !.marker = now]
  <2>1. now \in 0 .. Never
    BY <1>0 DEF Never
  <2> QED BY <1>0, <1>6, <2>1 DEF RowOK, RowType, Never
<1> QED BY <1>1, <1>2, <1>3, <1>4, <1>5, <1>6, <1>7 DEF Written

LEMMA RestStep ==
  ASSUME LifeAssumption, BoundAssumption, Inv, Rest, [Next]_vars
  PROVE  Rest'
<1>0. now \in Nat
  BY BoundAssumption DEF Inv, Typed
<1> USE DEF Rest, outside
<1>1. ASSUME NEW verdict \in {"approve", "deny"}, Decide(verdict) PROVE Rest'
  BY <1>1 DEF Decide
<1>2. CASE Sweep \/ AnswerDecision
  BY <1>2 DEF Sweep, SweepRow, SweepFinalize, SweepPurge, AnswerDecision, Finalize,
              ToFinalize
<1>3. ASSUME NEW w \in Worker, Load(w) \/ Lock(w) PROVE Rest'
  BY <1>0, <1>3, LifeAssumption DEF Load, Lock
<1>4. ASSUME NEW w \in Worker,
             \/ Claim(w) \/ Recheck(w) \/ MarkDispatch(w) \/ Finish(w) \/ Terminate(w)
             \/ FailUnhandled(w)
      PROVE  Rest'
  <2>1. UNCHANGED <<message, hold, key>> /\ UNCHANGED outside
    BY <1>4 DEF Claim, Recheck, MarkDispatch, Finish, Terminate, FailUnhandled
  <2> QED BY <2>1
<1>5. ASSUME NEW w \in Worker, CallGateway(w) \/ Admit(w) \/ Escape(w) \/ Unlock(w)
      PROVE  Rest'
  <2>1. /\ UNCHANGED <<decision, message, hold, sweep, api, crashes>>
        /\ key' = key \/ key' = 0
        /\ admitted' = admitted \/ admitted' = TRUE
    BY <1>5 DEF CallGateway, Admit, Escape, Unlock
  <2>2. admitted' \in BOOLEAN
    BY <2>1, Zenon
  <2>3. key' \in Nat
    BY <2>1
  <2> QED BY <2>1, <2>2, <2>3, Zenon
<1>8. ASSUME NEW w \in Worker,
             \/ Reserve(w) \/ Settle(w) \/ Refund(w) \/ Answer(w) \/ Apologise(w)
             \/ Report(w) \/ ReportUnhandled(w)
      PROVE  Rest'
  <2>1. UNCHANGED key /\ UNCHANGED outside
    BY <1>8 DEF Reserve, Settle, Refund, Answer, Apologise, Report, ReportUnhandled
  <2>2. hold' \in {hold, "reserved", "closed"}
    BY <1>8 DEF Reserve, Settle, Refund, Answer, Apologise, Report, ReportUnhandled
  <2>3. message' \in {message, "completed", "unanswered", "failed", "outcome_unknown"}
    BY <1>8 DEF Reserve, Settle, Refund, Answer, Apologise, Report, ReportUnhandled
  <2> QED BY <2>1, <2>2, <2>3 DEF Refused
<1>6. ASSUME NEW w \in Worker, Crash(w) PROVE Rest'
  BY <1>6, BoundAssumption DEF Crash
<1>7. CASE HealedByChat \/ Tick \/ UNCHANGED vars
  <2>1. key' \in Nat
    BY <1>7 DEF HealedByChat, Tick, vars
  <2>2. /\ UNCHANGED <<decision, hold, admitted, sweep, api, crashes>>
        /\ message' = message \/ message' = "cancelled"
    BY <1>7 DEF HealedByChat, Tick, vars
  <2> QED BY <2>1, <2>2, Zenon
<1> QED BY <1>1, <1>2, <1>3, <1>4, <1>5, <1>6, <1>7, <1>8 DEF Next, Proceed

\* Every variable has its type; an executing row has a lease, and a deadline not
\* later than the expiry, and no other row has either, unless a claim let it
\* expire while another worker was executing it (approvals.py: claim_resume, and
\* every statement that ends or reopens a row).
THEOREM TypeCorrect ==
  ASSUME Expires + Lease <= MaxTime
  PROVE  Spec => []TypeOK
<1>1. ASSUME Init PROVE RowOK /\ Rest
  <2>1. Never \in Nat /\ 2 * Expires \in Nat
    BY LifeAssumption, BoundAssumption DEF Never
  <2>2. RowOK
    BY <1>1, <2>1 DEF Init, RowOK, RowType, Live, Never
  <2>3. Rest
    <3>1. crashes \in 0 .. MaxCrash /\ key \in Nat
      BY <1>1, BoundAssumption DEF Init
    <3>2. admitted \in BOOLEAN
      BY <1>1, Zenon DEF Init
    <3> QED BY <1>1, <3>1, <3>2, Zenon DEF Init, Rest
  <2> QED BY <2>2, <2>3
<1>2. Inv /\ RowOK /\ Rest /\ [Next]_vars => RowOK' /\ Rest'
  BY StepWrites, RowStep, RestStep, LifeAssumption, BoundAssumption
<1>3. Inv /\ RowOK /\ Rest => TypeOK
  BY DEF Inv, Typed, RowOK, RowType, Rest, TypeOK
<1> QED BY <1>1, <1>2, <1>3, Invariance, PTL DEF Spec
=============================================================================
