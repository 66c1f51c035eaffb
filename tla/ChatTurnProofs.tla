--------------------------- MODULE ChatTurnProofs ---------------------------
(***************************************************************************)
(* Proofs about ChatTurn for every number of workers, rows and faults and  *)
(* every time to live, however long turns last and whatever becomes of     *)
(* approvals.  Where the code guarantees something only while no turn has  *)
(* outlived its lock, the theorem says so through the history variables    *)
(* overrun and exposed.                                                    *)
(***************************************************************************)
EXTENDS ChatTurn, SequenceTheorems, TLAPS

-----------------------------------------------------------------------------
(* Sequences of rows.                                                      *)

\* Replacing one row.
LEMMA ReplaceRow ==
  ASSUME NEW s \in Seq(Message), NEW m \in DOMAIN s, NEW r \in Message
  PROVE  LET t == [s EXCEPT ![m] = r]
         IN  /\ t \in Seq(Message) /\ Len(t) = Len(s) /\ DOMAIN t = DOMAIN s
             /\ t[m] = r
             /\ \A n \in DOMAIN s : n # m => t[n] = s[n]
  OBVIOUS

\* A function on the same indices is a sequence of the same length.
LEMMA MapRows ==
  ASSUME NEW s \in Seq(Message), NEW t, t \in [DOMAIN s -> Message]
  PROVE  t \in Seq(Message) /\ Len(t) = Len(s) /\ DOMAIN t = DOMAIN s
<1>1. Len(s) \in Nat /\ DOMAIN s = 1 .. Len(s)
  OBVIOUS
<1>2. t \in Seq(Message)
  BY <1>1, SeqDef
<1> QED BY <1>1, <1>2

\* Appending one row.
LEMMA AppendRow ==
  ASSUME NEW s \in Seq(Message), NEW r \in Message
  PROVE  LET t == Append(s, r)
         IN  /\ t \in Seq(Message) /\ Len(t) = Len(s) + 1
             /\ DOMAIN t = 1 .. Len(s) + 1 /\ DOMAIN s = 1 .. Len(s)
             /\ t[Len(s) + 1] = r
             /\ \A n \in DOMAIN s : t[n] = s[n]
  OBVIOUS

-----------------------------------------------------------------------------
(* Type correctness.                                                       *)

\* Where a turn works on a row.
OnRow == {"stream", "close", "mark", "resume"}

\* The frame of every step of one worker: what must be shown of its new record
\* and of the rows.
LEMMA TypeFrame ==
  ASSUME TypeOK, NEW w \in Worker, NEW t \in Turn,
         turn' = [turn EXCEPT ![w] = t],
         t.heal \subseteq DOMAIN msgs', t.pc \in OnRow => t.msg \in DOMAIN msgs',
         msgs' \in Seq(Message), Len(msgs') <= MaxMessage,
         DOMAIN msgs \subseteq DOMAIN msgs',
         key' \in 0 .. TTL, faults' \in 0 .. MaxFault, lost' \subseteq DOMAIN msgs',
         overrun' \in BOOLEAN, exposed' \subseteq DOMAIN msgs'
  PROVE  TypeOK'
<1>1. turn' \in [Worker -> Turn]
  BY DEF TypeOK
<1>2. ASSUME NEW v \in Worker
      PROVE  /\ turn'[v].pc \in OnRow => turn'[v].msg \in DOMAIN msgs'
             /\ turn'[v].heal \subseteq DOMAIN msgs'
  <2>1. CASE v = w
    BY <2>1 DEF TypeOK
  <2>2. CASE v # w
    <3>1. turn'[v] = turn[v]
      BY <2>2 DEF TypeOK
    <3> QED BY <3>1 DEF TypeOK, OnRow, Generating, At
  <2> QED BY <2>1, <2>2
<1>3. \A v \in Worker : (Generating(v) \/ At(v, "resume"))' <=> turn'[v].pc \in OnRow
  BY DEF Generating, At, OnRow
<1> QED BY <1>1, <1>2, <1>3 DEF TypeOK

\* Faults stay within their bound and lose rows that exist.
LEMMA FaultType ==
  ASSUME TypeOK, BoundAssumption, DOMAIN msgs \subseteq DOMAIN msgs',
         NEW lose, lose \subseteq DOMAIN msgs, NoFault \/ Fault(lose)
  PROVE  faults' \in 0 .. MaxFault /\ lost' \subseteq DOMAIN msgs'
  BY DEF TypeOK, NoFault, Fault, BoundAssumption

\* Steps that leave the rows alone.
LEMMA SameRowsType ==
  ASSUME TypeOK, BoundAssumption, NEW w \in Worker, NEW t \in Turn,
         turn' = [turn EXCEPT ![w] = t],
         t.heal \subseteq DOMAIN msgs, t.pc \in OnRow => t.msg \in DOMAIN msgs,
         msgs' = msgs, key' \in 0 .. TTL,
         NEW lose, lose \subseteq DOMAIN msgs, NoFault \/ Fault(lose),
         overrun' \in BOOLEAN, exposed' = exposed
  PROVE  TypeOK'
<1>1. faults' \in 0 .. MaxFault /\ lost' \subseteq DOMAIN msgs'
  BY FaultType
<1>2. msgs' \in Seq(Message) /\ Len(msgs') <= MaxMessage /\ DOMAIN msgs' = DOMAIN msgs
      /\ exposed' \subseteq DOMAIN msgs'
  BY DEF TypeOK
<1> QED BY <1>1, <1>2, TypeFrame

\* Steps that replace one row.
LEMMA NewRowType ==
  ASSUME TypeOK, BoundAssumption, NEW w \in Worker, NEW t \in Turn,
         turn' = [turn EXCEPT ![w] = t],
         t.heal \subseteq DOMAIN msgs, t.pc \in OnRow => t.msg \in DOMAIN msgs,
         NEW m \in DOMAIN msgs, NEW r \in Message, msgs' = [msgs EXCEPT ![m] = r],
         key' = key,
         NEW lose, lose \subseteq DOMAIN msgs, NoFault \/ Fault(lose),
         overrun' \in BOOLEAN, exposed' = exposed
  PROVE  TypeOK'
<1>1. msgs' \in Seq(Message) /\ Len(msgs') = Len(msgs) /\ DOMAIN msgs' = DOMAIN msgs
  BY ReplaceRow DEF TypeOK
<1>2. faults' \in 0 .. MaxFault /\ lost' \subseteq DOMAIN msgs'
  BY <1>1, FaultType
<1>3. key' \in 0 .. TTL /\ Len(msgs') <= MaxMessage /\ exposed' \subseteq DOMAIN msgs'
  BY <1>1 DEF TypeOK
<1> QED BY <1>1, <1>2, <1>3, TypeFrame

\* Most steps change nothing of the history of overruns, the end of a turn may
\* end one.
LEMMA ExposureType ==
  ASSUME TypeOK, SameExposure \/ \E w \in Worker : End(w)
  PROVE  overrun' \in BOOLEAN /\ exposed' = exposed
<1>1. CASE SameExposure
  BY <1>1 DEF SameExposure, TypeOK
<1>2. ASSUME NEW w \in Worker, End(w)
      PROVE  overrun' \in BOOLEAN /\ exposed' = exposed
  BY <1>2 DEF End, TypeOK
<1> QED BY <1>1, <1>2

\* Worker records.
LEMMA IdleType ==
  ASSUME BoundAssumption
  PROVE  /\ Idle \in Turn /\ Idle.heal = {} /\ Idle.pc = "idle"
         /\ \A pc \in {"heal", "unlock"} :
              LET t == [Idle EXCEPT !.pc = pc]
              IN  t \in Turn /\ t.heal = {} /\ t.pc = pc
<1>1. 0 \in 0 .. MaxMessage
  BY DEF BoundAssumption
<1> QED BY <1>1 DEF Idle, Turn, Retryable

LEMMA UsedRowType ==
  ASSUME TypeOK, NEW m \in DOMAIN msgs,
         NEW usage \in {"reserved", "settled", "released"}
  PROVE  [msgs[m] EXCEPT !.usage = usage] \in Message
<1>1. msgs[m] \in Message
  BY DEF TypeOK
<1> QED BY <1>1 DEF Message

LEMMA RowType ==
  ASSUME TypeOK, LifeAssumption, NEW m \in DOMAIN msgs,
         NEW status \in Statuses, NEW usage \in {"reserved", "settled", "released"},
         NEW approval \in {"none", "open", "used"}
  PROVE  /\ msgs[m] \in Message
         /\ [msgs[m] EXCEPT !.status = status, !.age = 0, !.usage = usage,
                            !.approval = approval] \in Message
<1>1. msgs[m] \in Message
  BY DEF TypeOK
<1>2. 0 \in 0 .. TTL + 1
  BY DEF LifeAssumption
<1> QED BY <1>1, <1>2 DEF Message

LEMMA UsageType ==
  ASSUME TypeOK, NEW m \in DOMAIN msgs
  PROVE  /\ msgs[m].usage \in {"reserved", "settled", "released"}
         /\ Settled(msgs[m].usage) \in {"reserved", "settled", "released"}
         /\ Released(msgs[m].usage) \in {"reserved", "settled", "released"}
<1>1. msgs[m] \in Message
  BY DEF TypeOK
<1> QED BY <1>1 DEF Message, Settled, Released

\* A worker that leaves its turn, or ends it, keeps nothing.
LEMMA LeaveType ==
  ASSUME TypeOK, BoundAssumption, NEW w \in Worker,
         Leave(w) \/ turn' = [turn EXCEPT ![w] = Idle],
         msgs' = msgs, key' \in 0 .. TTL,
         NEW lose, lose \subseteq DOMAIN msgs, NoFault \/ Fault(lose),
         overrun' \in BOOLEAN, exposed' = exposed
  PROVE  TypeOK'
<1>1. CASE Leave(w)
  <2> DEFINE t == [Idle EXCEPT !.pc = "unlock"]
  <2>1. t \in Turn /\ t.heal = {} /\ t.pc = "unlock" /\ turn' = [turn EXCEPT ![w] = t]
    BY <1>1, IdleType DEF Leave
  <2> HIDE DEF t
  <2>2. t.heal \subseteq DOMAIN msgs /\ (t.pc \in OnRow => t.msg \in DOMAIN msgs)
    BY <2>1 DEF OnRow
  <2> QED BY <2>1, <2>2, SameRowsType
<1>2. CASE turn' = [turn EXCEPT ![w] = Idle]
  <2>1. Idle \in Turn /\ Idle.heal \subseteq DOMAIN msgs
        /\ (Idle.pc \in OnRow => Idle.msg \in DOMAIN msgs)
    BY IdleType DEF OnRow
  <2> QED BY <1>2, <2>1, SameRowsType
<1> QED BY <1>1, <1>2

\* A worker that moves to another place of its turn keeps its row and its list.
LEMMA GotoType ==
  ASSUME TypeOK, NEW w \in Worker,
         NEW pc \in {"check", "open", "mark"}, pc = "mark" => turn[w].pc \in OnRow
  PROVE  LET t == [turn[w] EXCEPT !.pc = pc]
         IN  /\ t \in Turn
             /\ t.heal \subseteq DOMAIN msgs
             /\ t.pc \in OnRow => t.msg \in DOMAIN msgs
             /\ Goto(w, pc) => turn' = [turn EXCEPT ![w] = t]
<1>1. turn[w] \in Turn /\ turn[w].heal \subseteq DOMAIN msgs
      /\ (turn[w].pc \in OnRow => turn[w].msg \in DOMAIN msgs)
  BY DEF TypeOK, OnRow, Generating, At
<1> QED BY <1>1 DEF Turn, Goto, OnRow

LEMMA AcquireType ==
  ASSUME TypeOK, LifeAssumption, BoundAssumption, NEW w \in Worker, NEW t \in Turn,
         t.heal = {}, t.pc \in OnRow => t.msg \in DOMAIN msgs, Acquire(w, t)
  PROVE  TypeOK'
<1>1. turn' = [turn EXCEPT ![w] = t] /\ msgs' = msgs /\ NoFault /\ key' \in 0 .. TTL
      /\ overrun' \in BOOLEAN /\ exposed' = exposed
  BY LifeAssumption, ExposureType DEF Acquire
<1>2. {} \subseteq DOMAIN msgs
  OBVIOUS
<1> QED BY <1>1, <1>2, SameRowsType

LEMMA BeginType ==
  ASSUME TypeOK, LifeAssumption, BoundAssumption, NEW w \in Worker,
         Begin(w) \/ \E m \in DOMAIN msgs : Resume(w, m)
  PROVE  TypeOK'
<1>1. CASE Begin(w)
  <2> DEFINE t == [Idle EXCEPT !.pc = "heal"]
  <2>1. t \in Turn /\ t.heal = {} /\ t.pc = "heal" /\ Acquire(w, t)
    BY <1>1, IdleType DEF Begin
  <2> HIDE DEF t
  <2> QED BY <2>1, AcquireType DEF OnRow
<1>2. ASSUME NEW m \in DOMAIN msgs, Resume(w, m)
      PROVE  TypeOK'
  <2> DEFINE t == [Idle EXCEPT !.pc = "resume", !.msg = m]
  <2>1. m \in Nat
    BY DEF TypeOK
  <2>2. t \in Turn /\ t.heal = {} /\ t.msg = m
    <3>1. Idle \in Turn /\ Idle.heal = {}
      BY IdleType
    <3> QED BY <2>1, <3>1 DEF Turn
  <2>3. Acquire(w, t)
    BY <1>2 DEF Resume
  <2> HIDE DEF t
  <2> QED BY <2>2, <2>3, AcquireType
<1> QED BY <1>1, <1>2

LEMMA HealType ==
  ASSUME TypeOK, LifeAssumption, BoundAssumption, NEW w \in Worker, Heal(w)
  PROVE  TypeOK'
<1> DEFINE t == [turn[w] EXCEPT !.pc = IF Stale = {} THEN "check" ELSE "release",
                                !.heal = Stale]
<1>1. turn[w] \in Turn /\ DOMAIN msgs \subseteq 1 .. MaxMessage
  BY BoundAssumption DEF TypeOK
<1>2. Stale \subseteq DOMAIN msgs
  BY DEF Stale
<1>3. t \in Turn /\ t.heal = Stale /\ t.pc \notin OnRow
  BY <1>1, <1>2 DEF Turn, OnRow
<1>4. turn' = [turn EXCEPT ![w] = t] /\ NoFault /\ key' = key
  BY DEF Heal, ToRelease
<1>5. msgs' \in [DOMAIN msgs -> Message]
  <2>1. ASSUME NEW m \in DOMAIN msgs
        PROVE  /\ msgs[m] \in Message
               /\ [msgs[m] EXCEPT !.status = "cancelled", !.age = 0] \in Message
    <3>1. msgs[m] \in Message /\ 0 \in 0 .. TTL + 1
      BY LifeAssumption DEF TypeOK
    <3> QED BY <3>1 DEF Message, Statuses
  <2> QED BY <2>1 DEF Heal
<1>6. msgs' \in Seq(Message) /\ Len(msgs') = Len(msgs) /\ DOMAIN msgs' = DOMAIN msgs
  BY <1>5, MapRows DEF TypeOK
<1>7. faults' \in 0 .. MaxFault /\ lost' \subseteq DOMAIN msgs'
      /\ overrun' \in BOOLEAN /\ exposed' \subseteq DOMAIN msgs'
  BY <1>4, <1>6 DEF TypeOK, NoFault, Heal, SameExposure
<1>8. key' \in 0 .. TTL /\ Len(msgs') <= MaxMessage
  BY <1>4, <1>6 DEF TypeOK
<1> HIDE DEF t
<1> QED BY <1>2, <1>3, <1>4, <1>6, <1>7, <1>8, TypeFrame

LEMMA ReleaseHealedType ==
  ASSUME TypeOK, LifeAssumption, BoundAssumption, NEW w \in Worker, ReleaseHealed(w)
  PROVE  TypeOK'
<1>1. PICK m \in turn[w].heal :
        /\ turn' = [turn EXCEPT ![w].heal = @ \ {m}]
        /\ \/ msgs' = [msgs EXCEPT ![m].usage = Released(@)] /\ NoFault
           \/ Fault({m}) /\ UNCHANGED msgs
  BY DEF ReleaseHealed
<1> DEFINE t == [turn[w] EXCEPT !.heal = @ \ {m}]
<1>2. m \in DOMAIN msgs /\ turn[w] \in Turn /\ turn[w].pc = "release" /\ key' = key
      /\ turn[w].heal \subseteq DOMAIN msgs
  BY DEF TypeOK, ReleaseHealed, At
<1>3. t \in Turn /\ t.heal \subseteq DOMAIN msgs /\ t.pc \notin OnRow
      /\ turn' = [turn EXCEPT ![w] = t]
  BY <1>1, <1>2 DEF Turn, OnRow
<1>4. key' \in 0 .. TTL /\ {m} \subseteq DOMAIN msgs
      /\ overrun' \in BOOLEAN /\ exposed' = exposed
  BY <1>2, ExposureType DEF TypeOK, ReleaseHealed
<1> HIDE DEF t
<1>5. CASE msgs' = [msgs EXCEPT ![m].usage = Released(@)] /\ NoFault
  <2> DEFINE r == [msgs[m] EXCEPT !.usage = Released(msgs[m].usage)]
  <2>1. r \in Message
    BY <1>2, UsageType, UsedRowType
  <2>2. msgs' = [msgs EXCEPT ![m] = r]
    BY <1>5
  <2> HIDE DEF r
  <2> QED BY <1>2, <1>3, <1>4, <1>5, <2>1, <2>2, NewRowType
<1>6. CASE Fault({m}) /\ UNCHANGED msgs
  BY <1>3, <1>4, <1>6, SameRowsType
<1> QED BY <1>1, <1>5, <1>6

LEMMA HealedType ==
  ASSUME TypeOK, BoundAssumption, NEW w \in Worker, Healed(w)
  PROVE  TypeOK'
<1> DEFINE t == [turn[w] EXCEPT !.pc = "check"]
<1>1. t \in Turn /\ t.heal \subseteq DOMAIN msgs /\ (t.pc \in OnRow => t.msg \in DOMAIN msgs)
  BY GotoType
<1>2. turn' = [turn EXCEPT ![w] = t] /\ NoFault /\ msgs' = msgs /\ key' \in 0 .. TTL
      /\ overrun' \in BOOLEAN /\ exposed' = exposed
  BY ExposureType DEF Healed, Goto, TypeOK
<1>3. {} \subseteq DOMAIN msgs
  OBVIOUS
<1> HIDE DEF t
<1> QED BY <1>1, <1>2, <1>3, SameRowsType

\* The question of the latest row is one that was asked.
LEMMA LastType ==
  ASSUME TypeOK, msgs # <<>>
  PROVE  Last(msgs) \in Message /\ Last(msgs) = msgs[Len(msgs)]
         /\ Len(msgs) \in DOMAIN msgs
  BY DEF TypeOK, Last

LEMMA CheckType ==
  ASSUME TypeOK, BoundAssumption, NEW w \in Worker, Check(w)
  PROVE  TypeOK'
<1>1. NoFault /\ msgs' = msgs /\ key' \in 0 .. TTL /\ {} \subseteq DOMAIN msgs
      /\ overrun' \in BOOLEAN /\ exposed' = exposed
  BY ExposureType DEF Check, TypeOK
<1>2. CASE Leave(w)
  BY <1>1, <1>2, LeaveType
<1>3. CASE Goto(w, "open")
  <2> DEFINE t == [turn[w] EXCEPT !.pc = "open"]
  <2>1. t \in Turn /\ t.heal \subseteq DOMAIN msgs /\ (t.pc \in OnRow => t.msg \in DOMAIN msgs)
    BY GotoType
  <2>2. turn' = [turn EXCEPT ![w] = t]
    BY <1>3 DEF Goto
  <2> HIDE DEF t
  <2> QED BY <1>1, <2>1, <2>2, SameRowsType
<1>4. CASE /\ msgs # <<>>
           /\ turn' = [turn EXCEPT ![w].pc = "open",
                                   ![w].question = Last(msgs).question]
  <2> DEFINE t == [turn[w] EXCEPT !.pc = "open", !.question = Last(msgs).question]
  <2>1. Last(msgs).question \in 0 .. MaxMessage
    BY <1>4, LastType, BoundAssumption DEF Message
  <2>2. turn[w] \in Turn /\ turn[w].heal \subseteq DOMAIN msgs
    BY DEF TypeOK
  <2>3. t \in Turn /\ t.heal \subseteq DOMAIN msgs /\ t.pc \notin OnRow
    BY <2>1, <2>2 DEF Turn, OnRow
  <2>4. turn' = [turn EXCEPT ![w] = t]
    BY <1>4
  <2> HIDE DEF t
  <2> QED BY <1>1, <2>3, <2>4, SameRowsType
<1> QED BY <1>2, <1>3, <1>4 DEF Check

LEMMA OpenType ==
  ASSUME TypeOK, LifeAssumption, BoundAssumption, NEW w \in Worker, Open(w)
  PROVE  TypeOK'
<1> DEFINE r == [status |-> "streaming", age |-> 0,
                 usage |-> "reserved", approval |-> "none",
                 question |-> QuestionOf(w)]
           t == [turn[w] EXCEPT !.pc = "stream", !.msg = Len(msgs) + 1]
<1>1. turn[w] \in Turn /\ turn[w].heal \subseteq DOMAIN msgs
      /\ msgs \in Seq(Message) /\ Len(msgs) < MaxMessage
  BY DEF TypeOK, Open
<1>2. QuestionOf(w) \in 1 .. MaxMessage
  <2>1. Len(msgs) + 1 \in 1 .. MaxMessage /\ turn[w].question \in 0 .. MaxMessage
    BY <1>1, BoundAssumption DEF Turn
  <2> QED BY <2>1, BoundAssumption DEF QuestionOf
<1>3. r \in Message
  BY <1>2, LifeAssumption DEF Message, Statuses
<1>4. t \in Turn /\ t.heal = turn[w].heal /\ t.msg = Len(msgs) + 1
  <2>1. Len(msgs) + 1 \in Nat
    BY <1>1
  <2> QED BY <1>1, <2>1 DEF Turn
<1>5. msgs' = Append(msgs, r) /\ turn' = [turn EXCEPT ![w] = t]
      /\ faults' = faults /\ lost' = lost /\ key' = key
  BY DEF Open, NoFault
<1> HIDE DEF r, t
<1>6. msgs' \in Seq(Message) /\ Len(msgs') = Len(msgs) + 1
      /\ DOMAIN msgs' = 1 .. Len(msgs) + 1 /\ DOMAIN msgs = 1 .. Len(msgs)
  BY <1>1, <1>3, <1>5, AppendRow
<1>7. Len(msgs) \in Nat
  BY <1>1
<1>8. DOMAIN msgs \subseteq DOMAIN msgs' /\ t.msg \in DOMAIN msgs'
      /\ Len(msgs') <= MaxMessage /\ t.heal \subseteq DOMAIN msgs'
  BY <1>1, <1>4, <1>6, <1>7, BoundAssumption
<1>9. key' \in 0 .. TTL /\ faults' \in 0 .. MaxFault /\ lost' \subseteq DOMAIN msgs'
      /\ overrun' \in BOOLEAN
  BY <1>5, <1>8 DEF TypeOK, Open
<1>10. exposed' \subseteq DOMAIN msgs'
  <2>1. Len(msgs) + 1 \in DOMAIN msgs' /\ exposed \subseteq DOMAIN msgs'
    BY <1>4, <1>8 DEF TypeOK
  <2> QED BY <2>1 DEF Open
<1> QED BY <1>4, <1>5, <1>6, <1>8, <1>9, <1>10, TypeFrame

LEMMA RefuseType ==
  ASSUME TypeOK, BoundAssumption, NEW w \in Worker, Refuse(w)
  PROVE  TypeOK'
<1>1. Leave(w) /\ NoFault /\ msgs' = msgs /\ key' \in 0 .. TTL /\ {} \subseteq DOMAIN msgs
      /\ overrun' \in BOOLEAN /\ exposed' = exposed
  BY ExposureType DEF Refuse, TypeOK
<1> QED BY <1>1, LeaveType

\* Writing the row of the turn and leaving it: Complete, AwaitApproval, Answer,
\* GiveUp and Mark.
LEMMA WriteAndLeaveType ==
  ASSUME TypeOK, LifeAssumption, BoundAssumption, NEW w \in Worker,
         turn[w].pc \in OnRow,
         NEW status \in Statuses, NEW usage \in {"reserved", "settled", "released"},
         NEW approval \in {"none", "open", "used"},
         Write(turn[w].msg, status, usage, approval), Leave(w), NoFault, key' = key,
         SameExposure
  PROVE  TypeOK'
<1> DEFINE t == [Idle EXCEPT !.pc = "unlock"]
           r == [msgs[turn[w].msg] EXCEPT !.status = status, !.age = 0, !.usage = usage,
                                          !.approval = approval]
<1>1. turn[w].msg \in DOMAIN msgs
  BY DEF TypeOK, OnRow, Generating, At
<1>2. r \in Message
  BY <1>1, RowType
<1>3. msgs' = [msgs EXCEPT ![turn[w].msg] = r]
  BY <1>1 DEF Write
<1>4. t \in Turn /\ t.heal = {} /\ t.pc = "unlock" /\ turn' = [turn EXCEPT ![w] = t]
  BY IdleType DEF Leave
<1> HIDE DEF t, r
<1>5. t.heal \subseteq DOMAIN msgs /\ t.pc \notin OnRow /\ {} \subseteq DOMAIN msgs
      /\ overrun' \in BOOLEAN /\ exposed' = exposed
  BY <1>4, ExposureType DEF OnRow
<1> QED BY <1>1, <1>2, <1>3, <1>4, <1>5, NewRowType

LEMMA ApprovalType ==
  ASSUME TypeOK, NEW m \in DOMAIN msgs
  PROVE  msgs[m].approval \in {"none", "open", "used"}
<1>1. msgs[m] \in Message
  BY DEF TypeOK
<1> QED BY <1>1 DEF Message

\* What a turn that ends in a write leaves in its row.
Written(m) ==
  \E status \in Statuses, usage \in {"reserved", "settled", "released"},
     approval \in {"none", "open", "used"} : Write(m, status, usage, approval)

LEMMA WrittenType ==
  ASSUME TypeOK, LifeAssumption, BoundAssumption, NEW w \in Worker,
         turn[w].pc \in OnRow, Written(turn[w].msg), Leave(w), NoFault, key' = key,
         SameExposure
  PROVE  TypeOK'
  BY WriteAndLeaveType DEF Written

LEMMA CompleteType ==
  ASSUME TypeOK, LifeAssumption, BoundAssumption, NEW w \in Worker,
         Complete(w) \/ AwaitApproval(w) \/ Answer(w)
  PROVE  TypeOK'
<1> DEFINE m == turn[w].msg
<1>1. turn[w].pc \in OnRow /\ m \in DOMAIN msgs
  BY DEF TypeOK, OnRow, Complete, AwaitApproval, Answer, At, Generating
<1>2. msgs[m].usage \in {"reserved", "settled", "released"}
      /\ Settled(msgs[m].usage) \in {"reserved", "settled", "released"}
      /\ msgs[m].approval \in {"none", "open", "used"}
  BY <1>1, UsageType, ApprovalType
<1>3. Leave(w) /\ NoFault /\ key' = key /\ SameExposure
      /\ \/ Write(m, "completed", Settled(msgs[m].usage), msgs[m].approval)
         \/ Write(m, "pending", Settled(msgs[m].usage), "open")
         \/ Write(m, "completed", msgs[m].usage, "used")
  BY DEF Complete, AwaitApproval, Answer
<1>4. "completed" \in Statuses /\ "pending" \in Statuses
  BY DEF Statuses
<1> HIDE DEF m
<1>5. Written(m)
  BY <1>2, <1>3, <1>4 DEF Written
<1> QED BY <1>1, <1>3, <1>5, WrittenType DEF m

LEMMA GiveUpType ==
  ASSUME TypeOK, LifeAssumption, BoundAssumption, NEW w \in Worker, GiveUp(w)
  PROVE  TypeOK'
<1> DEFINE m == turn[w].msg
<1>1. turn[w].pc \in OnRow /\ m \in DOMAIN msgs
  BY DEF TypeOK, OnRow, GiveUp, At, Generating
<1>2. Leave(w) /\ NoFault /\ key' = key /\ SameExposure /\ "failed" \in Statuses
  BY DEF GiveUp, Statuses
<1>3. CASE UNCHANGED msgs
  <2>1. key' \in 0 .. TTL /\ {} \subseteq DOMAIN msgs
        /\ overrun' \in BOOLEAN /\ exposed' = exposed
    BY <1>2, ExposureType DEF TypeOK
  <2> QED BY <1>2, <1>3, <2>1, LeaveType
<1>4. ASSUME NEW approval \in {msgs[m].approval, "used"},
             Write(m, "failed", msgs[m].usage, approval)
      PROVE  TypeOK'
  <2>1. approval \in {"none", "open", "used"}
        /\ msgs[m].usage \in {"reserved", "settled", "released"}
    BY <1>1, UsageType, ApprovalType
  <2> HIDE DEF m
  <2>2. Written(m)
    BY <1>2, <1>4, <2>1 DEF Written
  <2> QED BY <1>1, <1>2, <2>2, WrittenType DEF m
<1> QED BY <1>3, <1>4 DEF GiveUp

LEMMA DeclineType ==
  ASSUME TypeOK, LifeAssumption, BoundAssumption, NEW m \in DOMAIN msgs, Decline(m)
  PROVE  TypeOK'
<1> DEFINE r == [msgs[m] EXCEPT !.status = "failed", !.age = 0,
                                !.usage = msgs[m].usage, !.approval = "used"]
<1>1. "failed" \in Statuses /\ msgs[m].usage \in {"reserved", "settled", "released"}
  BY UsageType DEF Statuses
<1>2. r \in Message
  BY <1>1, RowType
<1>3. msgs' = [msgs EXCEPT ![m] = r] /\ turn' = turn /\ key' = key
      /\ faults' = faults /\ lost' = lost /\ overrun' = overrun /\ exposed' = exposed
  BY DEF Decline, Write, NoFault, SameExposure
<1> HIDE DEF r
<1>4. msgs' \in Seq(Message) /\ Len(msgs') = Len(msgs) /\ DOMAIN msgs' = DOMAIN msgs
  BY <1>2, <1>3, ReplaceRow DEF TypeOK
<1> QED BY <1>3, <1>4 DEF TypeOK, Generating, At

LEMMA BreakType ==
  ASSUME TypeOK, BoundAssumption, NEW w \in Worker,
         NEW verdict \in Retryable, Break(w, verdict)
  PROVE  TypeOK'
<1> DEFINE t == [turn[w] EXCEPT !.pc = "close", !.verdict = verdict]
<1>1. turn[w] \in Turn /\ turn[w].heal \subseteq DOMAIN msgs /\ turn[w].msg \in DOMAIN msgs
  BY DEF TypeOK, Break, At, Generating
<1>2. t \in Turn /\ t.heal \subseteq DOMAIN msgs /\ t.msg \in DOMAIN msgs
  BY <1>1 DEF Turn
<1>3. turn' = [turn EXCEPT ![w] = t] /\ NoFault /\ msgs' = msgs /\ key' \in 0 .. TTL
      /\ {} \subseteq DOMAIN msgs /\ overrun' \in BOOLEAN /\ exposed' = exposed
  BY ExposureType DEF Break, AfterBreak, TypeOK
<1> HIDE DEF t
<1> QED BY <1>2, <1>3, SameRowsType

LEMMA EscapeType ==
  ASSUME TypeOK, BoundAssumption, NEW w \in Worker, Escape(w)
  PROVE  TypeOK'
<1>1. Leave(w) /\ Fault({}) /\ msgs' = msgs /\ key' \in 0 .. TTL /\ {} \subseteq DOMAIN msgs
      /\ overrun' \in BOOLEAN /\ exposed' = exposed
  BY ExposureType DEF Escape, TypeOK
<1> QED BY <1>1, LeaveType

LEMMA CloseUsageType ==
  ASSUME TypeOK, LifeAssumption, BoundAssumption, NEW w \in Worker, CloseUsage(w)
  PROVE  TypeOK'
<1> DEFINE m == turn[w].msg
           t == [turn[w] EXCEPT !.pc = "mark"]
<1>1. m \in DOMAIN msgs /\ turn[w].pc \in OnRow
  BY DEF TypeOK, CloseUsage, At, OnRow, Generating
<1>2. t \in Turn /\ t.heal \subseteq DOMAIN msgs /\ (t.pc \in OnRow => t.msg \in DOMAIN msgs)
  BY <1>1, GotoType
<1>3. turn' = [turn EXCEPT ![w] = t] /\ key' = key /\ key' \in 0 .. TTL
      /\ overrun' \in BOOLEAN /\ exposed' = exposed
  BY ExposureType DEF CloseUsage, Goto, TypeOK
<1>4. {m} \subseteq DOMAIN msgs /\ {} \subseteq DOMAIN msgs
  BY <1>1
<1>5. ASSUME NEW usage \in {Settled(msgs[m].usage), Released(msgs[m].usage)},
             msgs' = [msgs EXCEPT ![m].usage = usage], NoFault
      PROVE  TypeOK'
  <2> DEFINE r == [msgs[m] EXCEPT !.usage = usage]
  <2>1. usage \in {"reserved", "settled", "released"}
    BY <1>1, UsageType
  <2>2. r \in Message
    BY <1>1, <2>1, UsedRowType
  <2>3. msgs' = [msgs EXCEPT ![m] = r]
    BY <1>5
  <2> HIDE DEF r, t, m
  <2> QED BY <1>1, <1>2, <1>3, <1>4, <1>5, <2>2, <2>3, NewRowType
<1>6. CASE UNCHANGED msgs /\ Fault({m})
  <2> HIDE DEF t, m
  <2> QED BY <1>2, <1>3, <1>4, <1>6, SameRowsType
<1>7. \/ UNCHANGED msgs /\ Fault({m})
      \/ /\ NoFault
         /\ \/ msgs' = [msgs EXCEPT ![m].usage = Settled(msgs[m].usage)]
            \/ msgs' = [msgs EXCEPT ![m].usage = Released(msgs[m].usage)]
  BY DEF CloseUsage
<1> HIDE DEF m, t
<1> QED BY <1>5, <1>6, <1>7

LEMMA MarkType ==
  ASSUME TypeOK, LifeAssumption, BoundAssumption, NEW w \in Worker, Mark(w)
  PROVE  TypeOK'
<1> DEFINE m == turn[w].msg
<1>1. m \in DOMAIN msgs /\ turn[w].pc \in OnRow /\ turn[w] \in Turn
  BY DEF TypeOK, Mark, At, OnRow, Generating
<1>2. turn[w].verdict \in Statuses /\ msgs[m].usage \in {"reserved", "settled", "released"}
      /\ msgs[m].approval \in {"none", "open", "used"}
  BY <1>1, UsageType, ApprovalType DEF Turn, Retryable, Statuses
<1>5. Leave(w) /\ key' = key /\ SameExposure
  BY DEF Mark
<1>3. CASE Write(m, turn[w].verdict, msgs[m].usage, msgs[m].approval) /\ NoFault
  BY <1>1, <1>2, <1>3, <1>5, WriteAndLeaveType
<1>4. CASE UNCHANGED msgs /\ Fault({})
  <2>1. key' \in 0 .. TTL /\ {} \subseteq DOMAIN msgs
        /\ overrun' \in BOOLEAN /\ exposed' = exposed
    BY <1>5, ExposureType DEF TypeOK
  <2> QED BY <1>4, <1>5, <2>1, LeaveType
<1> QED BY <1>3, <1>4 DEF Mark

LEMMA UnlockType ==
  ASSUME TypeOK, LifeAssumption, BoundAssumption, NEW w \in Worker, Unlock(w)
  PROVE  TypeOK'
<1>1. turn' = [turn EXCEPT ![w] = Idle] /\ (NoFault \/ Fault({})) /\ msgs' = msgs
      /\ {} \subseteq DOMAIN msgs /\ overrun' \in BOOLEAN /\ exposed' = exposed
  BY ExposureType DEF Unlock, End
<1>2. key' \in 0 .. TTL
  BY LifeAssumption DEF Unlock, TypeOK
<1> QED BY <1>1, <1>2, LeaveType

LEMMA CrashType ==
  ASSUME TypeOK, BoundAssumption, NEW w \in Worker, Crash(w)
  PROVE  TypeOK'
<1>1. turn' = [turn EXCEPT ![w] = Idle] /\ Fault(turn[w].heal) /\ msgs' = msgs
      /\ key' \in 0 .. TTL /\ turn[w].heal \subseteq DOMAIN msgs
      /\ overrun' \in BOOLEAN /\ exposed' = exposed
  BY ExposureType DEF Crash, End, TypeOK
<1> QED BY <1>1, LeaveType

LEMMA TickType ==
  ASSUME TypeOK, LifeAssumption, BoundAssumption, Tick
  PROVE  TypeOK'
<1>1. msgs' \in [DOMAIN msgs -> Message]
  <2>1. ASSUME NEW m \in DOMAIN msgs
        PROVE  /\ msgs[m] \in Message
               /\ msgs[m].age <= TTL => [msgs[m] EXCEPT !.age = @ + 1] \in Message
    <3>1. msgs[m] \in Message
      BY DEF TypeOK
    <3>2. msgs[m].age <= TTL => msgs[m].age + 1 \in 0 .. TTL + 1
      BY <3>1, LifeAssumption DEF Message
    <3> QED BY <3>1, <3>2 DEF Message
  <2> QED BY <2>1 DEF Tick
<1>2. msgs' \in Seq(Message) /\ Len(msgs') = Len(msgs) /\ DOMAIN msgs' = DOMAIN msgs
  BY <1>1, MapRows DEF TypeOK
<1>3. key' \in 0 .. TTL
  BY LifeAssumption DEF Tick, Fade, TypeOK
<1>4. turn' = turn /\ faults' = faults /\ lost' = lost
  BY DEF Tick, NoFault
<1>5. overrun' \in BOOLEAN
  BY DEF Tick, TypeOK, Overruns
<1>6. exposed' \subseteq DOMAIN msgs
  <2>1. \A w \in Worker : Generating(w) => turn[w].msg \in DOMAIN msgs
    BY DEF TypeOK
  <2> QED BY <2>1 DEF Tick, TypeOK
<1> QED BY <1>2, <1>3, <1>4, <1>5, <1>6 DEF TypeOK, Generating, At

LEMMA InitType ==
  ASSUME Init, LifeAssumption, BoundAssumption
  PROVE  TypeOK
<1>1. Idle \in Turn /\ Idle.heal = {} /\ Idle.pc = "idle"
  BY IdleType
<1>2. key \in 0 .. TTL /\ faults \in 0 .. MaxFault /\ msgs = <<>> /\ lost = {}
      /\ turn = [w \in Worker |-> Idle]
  BY LifeAssumption, BoundAssumption DEF Init
<1>3. msgs \in Seq(Message) /\ Len(msgs) <= MaxMessage
  BY <1>2, BoundAssumption
<1>4. overrun = FALSE /\ exposed = {}
  BY DEF Init
<1> QED BY <1>1, <1>2, <1>3, <1>4 DEF TypeOK, Generating, At

\* Every step keeps the type invariant.
LEMMA NextType ==
  ASSUME TypeOK, [Next]_vars, LifeAssumption, BoundAssumption
  PROVE  TypeOK'
<1>1. CASE UNCHANGED vars
  BY <1>1 DEF vars, TypeOK, Generating, At
<1>2. CASE Tick
  BY <1>2, TickType
<1>3. ASSUME NEW m \in DOMAIN msgs, Decline(m)
      PROVE  TypeOK'
  BY <1>3, DeclineType
<1>4. ASSUME NEW w \in Worker,
             \/ Begin(w) \/ Proceed(w) \/ Escape(w) \/ Crash(w)
             \/ \E m \in DOMAIN msgs : Resume(w, m)
      PROVE  TypeOK'
  <2>1. CASE Begin(w) \/ \E m \in DOMAIN msgs : Resume(w, m)
    BY <2>1, BeginType
  <2>2. CASE Heal(w)
    BY <2>2, HealType
  <2>3. CASE ReleaseHealed(w)
    BY <2>3, ReleaseHealedType
  <2>4. CASE Healed(w)
    BY <2>4, HealedType
  <2>5. CASE Check(w)
    BY <2>5, CheckType
  <2>6. CASE Open(w)
    BY <2>6, OpenType
  <2>7. CASE Refuse(w)
    BY <2>7, RefuseType
  <2>8. CASE Complete(w) \/ AwaitApproval(w) \/ Answer(w)
    BY <2>8, CompleteType
  <2>15. CASE GiveUp(w)
    BY <2>15, GiveUpType
  <2>9. CASE \E verdict \in Retryable : Break(w, verdict)
    BY <2>9, BreakType
  <2>10. CASE CloseUsage(w)
    BY <2>10, CloseUsageType
  <2>11. CASE Mark(w)
    BY <2>11, MarkType
  <2>12. CASE Unlock(w)
    BY <2>12, UnlockType
  <2>13. CASE Escape(w)
    BY <2>13, EscapeType
  <2>14. CASE Crash(w)
    BY <2>14, CrashType
  <2> QED BY <1>4, <2>1, <2>2, <2>3, <2>4, <2>5, <2>6, <2>7, <2>8, <2>9, <2>10,
             <2>11, <2>12, <2>13, <2>14, <2>15 DEF Proceed
<1> QED BY <1>1, <1>2, <1>3, <1>4 DEF Next

\* Whatever the workers do and whenever they die, every row that a turn writes or
\* releases exists.
THEOREM TypeCorrect == Spec => []TypeOK
<1>1. Init => TypeOK
  BY InitType, LifeAssumption, BoundAssumption
<1>2. TypeOK /\ [Next]_vars => TypeOK'
  BY NextType, LifeAssumption, BoundAssumption
<1> QED BY <1>1, <1>2, PTL DEF Spec

-----------------------------------------------------------------------------
(* Turns, charges and answers.  The invariant says what a turn may still   *)
(* believe of the rows: everything while no turn has outlived the key, and *)
(* during an overrun only that the rows being generated are recorded as    *)
(* exposed and that a question is retried only if its rows were given up.  *)

InRow == {"stream", "close", "mark"}

\* A row that has not answered its question and can do so only by a resume.
Past(r) == r.status \in Retryable \/ r.approval # "none"

GivenUp(q, rows, bare) ==
  \A m \in DOMAIN rows : rows[m].question = q => Past(rows[m]) \/ m \in bare

TurnOK(t, rows, over, bare) ==
  /\ t.pc \in {"heal", "release", "check"} => t.question = 0
  /\ t.pc = "open" /\ ~over => \A m \in DOMAIN rows : rows[m].status \notin Active
  /\ t.pc = "open" /\ t.question # 0 =>
       t.question <= Len(rows) /\ GivenUp(t.question, rows, bare)
  /\ t.pc \in InRow /\ over => t.msg \in bare
  /\ t.pc = "stream" /\ ~over =>
       /\ rows[t.msg].status = "streaming" /\ rows[t.msg].usage = "reserved"
       /\ rows[t.msg].approval = "none"
       /\ \A m \in DOMAIN rows : rows[m].status \in Active => m = t.msg
  /\ t.pc = "resume" => rows[t.msg].approval # "none"

\* A row that is completed, or that a resume may complete, has been charged, and
\* what was completed waits for no approval.
Charged(r) ==
  /\ r.status = "completed" \/ r.approval # "none" => r.usage = "settled"
  /\ r.status = "completed" => r.approval # "open"

RowsOK(rows, bare) ==
  /\ \A m \in DOMAIN rows : Charged(rows[m]) \/ m \in bare
  /\ \A m \in DOMAIN rows : rows[m].question <= m
  /\ \A m, n \in DOMAIN rows :
       m < n /\ rows[m].question = rows[n].question => Past(rows[m]) \/ m \in bare

Alone(w) == \A v \in Worker : v # w => turn[v].pc = "idle"

Inv ==
  /\ TypeOK
  /\ RowsOK(msgs, exposed)
  /\ \A w \in Worker :
       /\ TurnOK(turn[w], msgs, overrun, exposed)
       /\ turn[w].pc # "idle" /\ ~overrun => key > 0 /\ Alone(w)

\* How the rows may change under a turn that is not alone.
Evolve ==
  /\ DOMAIN msgs \subseteq DOMAIN msgs' /\ exposed \subseteq exposed'
  /\ \A m \in DOMAIN msgs :
       /\ msgs'[m].question = msgs[m].question
       /\ msgs[m].approval # "none" => msgs'[m].approval # "none"
       /\ Past(msgs[m]) => Past(msgs'[m]) \/ m \in exposed'
  /\ \A m \in DOMAIN msgs' : m \in DOMAIN msgs \/ m \in exposed'

\* A turn that is not alone keeps what it believes.
LEMMA OtherTurn ==
  ASSUME TypeOK, TypeOK', Evolve, NEW v \in Worker,
         TurnOK(turn[v], msgs, TRUE, exposed)
  PROVE  TurnOK(turn[v], msgs', TRUE, exposed')
<1>1. Len(msgs) <= Len(msgs')
  BY DEF TypeOK, Evolve
<1>2. turn[v].pc = "open" /\ turn[v].question # 0 =>
        turn[v].question <= Len(msgs') /\ GivenUp(turn[v].question, msgs', exposed')
  <2> SUFFICES ASSUME turn[v].pc = "open", turn[v].question # 0
               PROVE  turn[v].question <= Len(msgs')
                      /\ GivenUp(turn[v].question, msgs', exposed')
    OBVIOUS
  <2>1. turn[v].question <= Len(msgs) /\ GivenUp(turn[v].question, msgs, exposed)
    BY DEF TurnOK
  <2>2. turn[v].question \in Nat
    BY BoundAssumption DEF TypeOK, Turn
  <2>3. turn[v].question <= Len(msgs')
    BY <1>1, <2>1, <2>2 DEF TypeOK
  <2>4. GivenUp(turn[v].question, msgs', exposed')
    BY <2>1 DEF GivenUp, Evolve
  <2> QED BY <2>3, <2>4
<1>3. turn[v].pc \in InRow => turn[v].msg \in exposed'
  BY DEF TurnOK, Evolve
<1>4. turn[v].pc = "resume" => msgs'[turn[v].msg].approval # "none"
  <2>1. turn[v].pc = "resume" => turn[v].msg \in DOMAIN msgs
    BY DEF TypeOK, At
  <2> QED BY <2>1 DEF TurnOK, Evolve
<1>5. turn[v].pc \in {"heal", "release", "check"} => turn[v].question = 0
  BY DEF TurnOK
<1> QED BY <1>2, <1>3, <1>4, <1>5 DEF TurnOK

\* During an overrun, or when it ends and nobody else is in a turn, the rest of
\* the workers keep their part of the invariant.
LEMMA Frame ==
  ASSUME Inv, TypeOK', NEW w \in Worker, NEW t, turn' = [turn EXCEPT ![w] = t],
         overrun' => overrun, overrun' \/ Alone(w),
         overrun' => Evolve,
         RowsOK(msgs', exposed'), TurnOK(t, msgs', overrun', exposed'),
         t.pc # "idle" /\ ~overrun' => key' > 0
  PROVE  Inv'
<1>1. turn'[w] = t /\ \A v \in Worker : v # w => turn'[v] = turn[v]
  BY DEF Inv, TypeOK
<1>2. ASSUME NEW v \in Worker
      PROVE  TurnOK(turn'[v], msgs', overrun', exposed')
  <2>1. CASE v = w
    BY <1>1, <2>1
  <2>2. CASE v # w /\ overrun'
    <3>1. overrun = TRUE /\ overrun' = TRUE
      BY <2>2 DEF Inv, TypeOK
    <3>2. TurnOK(turn[v], msgs, TRUE, exposed)
      BY <3>1 DEF Inv
    <3>3. TurnOK(turn[v], msgs', TRUE, exposed')
      BY <2>2, <3>2, OtherTurn DEF Inv
    <3> QED BY <1>1, <2>2, <3>1, <3>3
  <2>3. CASE v # w /\ ~overrun'
    <3>1. turn'[v].pc = "idle"
      BY <1>1, <2>3 DEF Alone
    <3> QED BY <3>1 DEF TurnOK, InRow
  <2> QED BY <2>1, <2>2, <2>3
<1>3. ASSUME NEW v \in Worker, turn'[v].pc # "idle", ~overrun'
      PROVE  key' > 0 /\ \A u \in Worker : u # v => turn'[u].pc = "idle"
  <2>1. \A u \in Worker : u # w => turn'[u].pc = "idle"
    BY <1>1, <1>3 DEF Alone
  <2>2. v = w
    BY <1>3, <2>1
  <2> QED BY <1>1, <1>3, <2>1, <2>2
<1> QED BY <1>2, <1>3 DEF Inv, Alone

\* Rewriting rows: what every row must keep.
LEMMA Rewrite ==
  ASSUME TypeOK, RowsOK(msgs, exposed), DOMAIN msgs' = DOMAIN msgs,
         exposed \subseteq exposed',
         \A m \in DOMAIN msgs :
           /\ msgs'[m].question = msgs[m].question
           /\ msgs[m].approval # "none" => msgs'[m].approval # "none"
           /\ Past(msgs[m]) => Past(msgs'[m]) \/ m \in exposed'
           /\ Charged(msgs[m]) => Charged(msgs'[m]) \/ m \in exposed'
  PROVE  RowsOK(msgs', exposed') /\ Evolve
<1>1. \A m \in DOMAIN msgs' : Charged(msgs'[m]) \/ m \in exposed'
  BY DEF RowsOK
<1>2. \A m \in DOMAIN msgs' : msgs'[m].question <= m
  BY DEF RowsOK
<1>3. \A m, n \in DOMAIN msgs' :
        m < n /\ msgs'[m].question = msgs'[n].question => Past(msgs'[m]) \/ m \in exposed'
  BY DEF RowsOK
<1> QED BY <1>1, <1>2, <1>3 DEF RowsOK, Evolve

LEMMA SameRows ==
  ASSUME TypeOK, RowsOK(msgs, exposed), msgs' = msgs, exposed' = exposed
  PROVE  RowsOK(msgs', exposed') /\ Evolve
  BY Rewrite

\* Rewriting one row.
LEMMA RewriteRow ==
  ASSUME TypeOK, RowsOK(msgs, exposed), exposed' = exposed,
         NEW m \in DOMAIN msgs, NEW r \in Message, msgs' = [msgs EXCEPT ![m] = r],
         r.question = msgs[m].question,
         msgs[m].approval # "none" => r.approval # "none",
         Past(msgs[m]) => Past(r) \/ m \in exposed,
         Charged(msgs[m]) => Charged(r) \/ m \in exposed
  PROVE  /\ RowsOK(msgs', exposed') /\ Evolve
         /\ DOMAIN msgs' = DOMAIN msgs /\ msgs'[m] = r
         /\ \A n \in DOMAIN msgs : n # m => msgs'[n] = msgs[n]
<1>1. DOMAIN msgs' = DOMAIN msgs /\ msgs'[m] = r
      /\ \A n \in DOMAIN msgs : n # m => msgs'[n] = msgs[n]
  BY ReplaceRow DEF TypeOK
<1>2. \A n \in DOMAIN msgs :
        /\ msgs'[n].question = msgs[n].question
        /\ msgs[n].approval # "none" => msgs'[n].approval # "none"
        /\ Past(msgs[n]) => Past(msgs'[n]) \/ n \in exposed'
        /\ Charged(msgs[n]) => Charged(msgs'[n]) \/ n \in exposed'
  BY <1>1
<1>3. RowsOK(msgs', exposed') /\ Evolve
  BY <1>1, <1>2, Rewrite
<1> QED BY <1>1, <1>3

\* What the invariant says of a worker that takes a step of its turn.
LEMMA Here ==
  ASSUME Inv, NEW w \in Worker
  PROVE  /\ TypeOK /\ RowsOK(msgs, exposed) /\ overrun \in BOOLEAN
         /\ turn[w] \in Turn /\ TurnOK(turn[w], msgs, overrun, exposed)
         /\ turn[w].pc \in OnRow => turn[w].msg \in DOMAIN msgs
         /\ turn[w].pc # "idle" => overrun \/ (Alone(w) /\ key > 0)
  BY DEF Inv, TypeOK, OnRow, Generating, At

\* A place of a turn at which it believes nothing but that it has no question.
LEMMA FreeTurn ==
  ASSUME NEW t, t.pc \in {"idle", "unlock", "heal", "release", "check"}, NEW rows,
         NEW over, NEW bare,
         t.pc \in {"heal", "release", "check"} => t.question = 0
  PROVE  TurnOK(t, rows, over, bare)
  BY DEF TurnOK, InRow

\* Steps that only move the turn on.
LEMMA QuietStep ==
  ASSUME Inv, TypeOK', NEW w \in Worker, turn[w].pc # "idle", NEW t,
         turn' = [turn EXCEPT ![w] = t], msgs' = msgs, key' = key, SameExposure,
         TurnOK(t, msgs, overrun, exposed)
  PROVE  Inv'
<1>1. RowsOK(msgs', exposed') /\ Evolve /\ overrun' = overrun /\ exposed' = exposed
  BY Here, SameRows DEF SameExposure
<1>2. overrun' \/ (Alone(w) /\ key' > 0)
  BY <1>1, Here
<1> QED BY <1>1, <1>2, Frame

\* Leaving a turn, the rows having changed as they may.
LEMMA LeaveStep ==
  ASSUME Inv, TypeOK', NEW w \in Worker, turn[w].pc # "idle", Leave(w),
         RowsOK(msgs', exposed'), Evolve, key' = key, overrun' = overrun
  PROVE  Inv'
<1> DEFINE t == [Idle EXCEPT !.pc = "unlock"]
<1>1. turn' = [turn EXCEPT ![w] = t] /\ t.pc = "unlock"
  BY DEF Leave, Idle
<1> HIDE DEF t
<1>2. TurnOK(t, msgs', overrun', exposed')
  BY <1>1, FreeTurn
<1>3. overrun' \/ (Alone(w) /\ key' > 0)
  BY Here
<1> QED BY <1>1, <1>2, <1>3, Frame

\* Who gets the lock is alone, or meets turns that have outlived it.
LEMMA AcquireStep ==
  ASSUME Inv, TypeOK', LifeAssumption, NEW w \in Worker, NEW t, Acquire(w, t),
         TurnOK(t, msgs, overrun, exposed)
  PROVE  Inv'
<1>1. /\ turn' = [turn EXCEPT ![w] = t] /\ msgs' = msgs /\ key' > 0 /\ key = 0
      /\ overrun' = overrun /\ exposed' = exposed
  BY LifeAssumption DEF Acquire, LockFree, SameExposure
<1>2. RowsOK(msgs', exposed') /\ Evolve
  BY <1>1, Here, SameRows
<1>3. overrun' \/ Alone(w)
  BY <1>1 DEF Inv, Alone
<1> QED BY <1>1, <1>2, <1>3, Frame

LEMMA BeginStep ==
  ASSUME Inv, TypeOK', LifeAssumption, NEW w \in Worker,
         Begin(w) \/ \E m \in DOMAIN msgs : Resume(w, m)
  PROVE  Inv'
<1>1. CASE Begin(w)
  <2> DEFINE t == [Idle EXCEPT !.pc = "heal"]
  <2>1. t.pc = "heal" /\ t.question = 0 /\ Acquire(w, t)
    BY <1>1 DEF Begin, Idle
  <2> HIDE DEF t
  <2>2. TurnOK(t, msgs, overrun, exposed)
    BY <2>1, FreeTurn
  <2> QED BY <2>1, <2>2, AcquireStep
<1>2. ASSUME NEW m \in DOMAIN msgs, Resume(w, m)
      PROVE  Inv'
  <2> DEFINE t == [Idle EXCEPT !.pc = "resume", !.msg = m]
  <2>1. t.pc = "resume" /\ t.msg = m /\ Acquire(w, t) /\ msgs[m].approval # "none"
    BY <1>2 DEF Resume, Idle
  <2> HIDE DEF t
  <2>2. TurnOK(t, msgs, overrun, exposed)
    BY <2>1 DEF TurnOK, InRow
  <2> QED BY <2>1, <2>2, AcquireStep
<1> QED BY <1>1, <1>2

LEMMA HealStep ==
  ASSUME Inv, TypeOK', NEW w \in Worker, Heal(w)
  PROVE  Inv'
<1> DEFINE t == [turn[w] EXCEPT !.pc = IF Stale = {} THEN "check" ELSE "release",
                                !.heal = Stale]
<1>1. turn[w].pc = "heal" /\ turn[w].question = 0 /\ turn[w] \in Turn
  BY Here DEF Heal, At, TurnOK
<1>2. /\ turn' = [turn EXCEPT ![w] = t] /\ key' = key
      /\ overrun' = overrun /\ exposed' = exposed
      /\ t.pc \in {"check", "release"} /\ t.question = 0
  BY <1>1 DEF Heal, ToRelease, Turn, SameExposure
<1> HIDE DEF t
<1>3. RowsOK(msgs', exposed') /\ Evolve
  <2>1. DOMAIN msgs' = DOMAIN msgs
    BY DEF Heal
  <2>2. ASSUME NEW m \in DOMAIN msgs
        PROVE  /\ msgs'[m].question = msgs[m].question
               /\ msgs'[m].approval = msgs[m].approval /\ msgs'[m].usage = msgs[m].usage
               /\ msgs'[m].status = msgs[m].status \/ msgs'[m].status = "cancelled"
    <3>1. msgs[m] \in Message
      BY DEF Inv, TypeOK
    <3> QED BY <3>1 DEF Heal, Message
  <2>3. \A m \in DOMAIN msgs :
          /\ Past(msgs[m]) => Past(msgs'[m])
          /\ Charged(msgs[m]) => Charged(msgs'[m])
    BY <2>2 DEF Past, Charged, Retryable
  <2> QED BY <1>2, <2>1, <2>2, <2>3, Here, Rewrite
<1>4. TurnOK(t, msgs', overrun', exposed') /\ (overrun' \/ (Alone(w) /\ key' > 0))
  BY <1>1, <1>2, FreeTurn, Here
<1> QED BY <1>2, <1>3, <1>4, Frame

\* Giving a hold back or settling it changes neither status nor approval.
LEMMA UsageRow ==
  ASSUME Inv, NEW m \in DOMAIN msgs, exposed' = exposed,
         NEW usage \in {Settled(msgs[m].usage), Released(msgs[m].usage)},
         msgs' = [msgs EXCEPT ![m].usage = usage]
  PROVE  RowsOK(msgs', exposed') /\ Evolve
<1> DEFINE r == [msgs[m] EXCEPT !.usage = usage]
<1>1. TypeOK /\ RowsOK(msgs, exposed) /\ msgs[m] \in Message
  BY DEF Inv, TypeOK
<1>2. usage \in {"reserved", "settled", "released"}
  BY <1>1, UsageType
<1>3. r \in Message
  BY <1>1, <1>2, UsedRowType
<1>4. /\ r.status = msgs[m].status /\ r.question = msgs[m].question
      /\ r.approval = msgs[m].approval /\ r.usage = usage /\ msgs' = [msgs EXCEPT ![m] = r]
  BY <1>1 DEF Message
<1> HIDE DEF r
<1>5. msgs[m].usage = "settled" => usage = "settled"
  BY DEF Settled, Released
<1>6. (Past(msgs[m]) => Past(r)) /\ (Charged(msgs[m]) => Charged(r))
  BY <1>4, <1>5 DEF Past, Charged
<1> QED BY <1>1, <1>3, <1>4, <1>6, RewriteRow

LEMMA ReleaseHealedStep ==
  ASSUME Inv, TypeOK', NEW w \in Worker, ReleaseHealed(w)
  PROVE  Inv'
<1>1. PICK m \in turn[w].heal :
        /\ turn' = [turn EXCEPT ![w].heal = @ \ {m}]
        /\ \/ msgs' = [msgs EXCEPT ![m].usage = Released(@)] /\ NoFault
           \/ Fault({m}) /\ UNCHANGED msgs
  BY DEF ReleaseHealed
<1> DEFINE t == [turn[w] EXCEPT !.heal = @ \ {m}]
<1>2. /\ m \in DOMAIN msgs /\ turn[w] \in Turn /\ turn[w].pc = "release" /\ key' = key
      /\ turn[w].question = 0 /\ overrun' = overrun /\ exposed' = exposed
  BY Here DEF Inv, TypeOK, ReleaseHealed, At, TurnOK, SameExposure
<1>3. turn' = [turn EXCEPT ![w] = t] /\ t.pc = "release" /\ t.question = 0
  BY <1>1, <1>2 DEF Turn
<1> HIDE DEF t
<1>4. RowsOK(msgs', exposed') /\ Evolve
  <2>1. CASE msgs' = [msgs EXCEPT ![m].usage = Released(@)]
    <3> DEFINE usage == Released(msgs[m].usage)
    <3>1. usage \in {Settled(msgs[m].usage), Released(msgs[m].usage)}
          /\ msgs' = [msgs EXCEPT ![m].usage = usage]
      BY <2>1
    <3> HIDE DEF usage
    <3> QED BY <1>2, <3>1, UsageRow
  <2>2. CASE msgs' = msgs
    BY <1>2, <2>2, Here, SameRows
  <2> QED BY <1>1, <2>1, <2>2
<1>5. TurnOK(t, msgs', overrun', exposed') /\ (overrun' \/ (Alone(w) /\ key' > 0))
  BY <1>2, <1>3, FreeTurn, Here
<1> QED BY <1>2, <1>3, <1>4, <1>5, Frame

LEMMA HealedStep ==
  ASSUME Inv, TypeOK', NEW w \in Worker, Healed(w)
  PROVE  Inv'
<1> DEFINE t == [turn[w] EXCEPT !.pc = "check"]
<1>1. turn[w] \in Turn /\ turn[w].pc # "idle" /\ turn[w].question = 0
  BY Here DEF Healed, At, TurnOK
<1>2. turn' = [turn EXCEPT ![w] = t] /\ t.pc = "check" /\ t.question = 0
      /\ msgs' = msgs /\ key' = key /\ SameExposure
  BY <1>1 DEF Healed, Goto, Turn
<1> HIDE DEF t
<1>3. TurnOK(t, msgs, overrun, exposed)
  BY <1>2, FreeTurn
<1> QED BY <1>1, <1>2, <1>3, QuietStep

LEMMA CheckStep ==
  ASSUME Inv, TypeOK', NEW w \in Worker, Check(w)
  PROVE  Inv'
<1>1. turn[w] \in Turn /\ turn[w].pc = "check" /\ turn[w].question = 0 /\ TypeOK
      /\ msgs \in Seq(Message) /\ RowsOK(msgs, exposed)
  BY Here DEF TypeOK, Check, At, TurnOK
<1>2. msgs' = msgs /\ key' = key /\ SameExposure
  BY DEF Check
<1>3. CASE HasActive
  <2>1. Leave(w) /\ RowsOK(msgs', exposed') /\ Evolve /\ overrun' = overrun
    BY <1>1, <1>2, <1>3, SameRows DEF Check, SameExposure
  <2> QED BY <1>1, <1>2, <2>1, LeaveStep
<1>4. CASE ~HasActive /\ Goto(w, "open")
  <2> DEFINE t == [turn[w] EXCEPT !.pc = "open"]
  <2>1. turn' = [turn EXCEPT ![w] = t] /\ t.pc = "open" /\ t.question = 0
    BY <1>1, <1>4 DEF Goto, Turn
  <2> HIDE DEF t
  <2>2. TurnOK(t, msgs, overrun, exposed)
    BY <1>4, <2>1 DEF TurnOK, HasActive, InRow
  <2> QED BY <1>1, <1>2, <2>1, <2>2, QuietStep
<1>5. CASE /\ ~HasActive /\ msgs # <<>> /\ Last(msgs).status \in Retryable
           /\ turn' = [turn EXCEPT ![w].pc = "open",
                                   ![w].question = Last(msgs).question]
  <2> DEFINE t == [turn[w] EXCEPT !.pc = "open", !.question = Last(msgs).question]
             n == Len(msgs)
  <2>1. turn' = [turn EXCEPT ![w] = t] /\ t.pc = "open" /\ t.question = Last(msgs).question
    BY <1>1, <1>5 DEF Turn
  <2>2. Last(msgs) = msgs[n] /\ n \in DOMAIN msgs /\ msgs[n].status \in Retryable
        /\ DOMAIN msgs = 1 .. n /\ n \in Nat
    BY <1>1, <1>5, LastType
  <2> HIDE DEF t, n
  <2>3. GivenUp(t.question, msgs, exposed)
    <3> SUFFICES ASSUME NEW m \in DOMAIN msgs, msgs[m].question = msgs[n].question
                 PROVE  Past(msgs[m]) \/ m \in exposed
      BY <2>1, <2>2 DEF GivenUp
    <3>1. CASE m = n
      BY <2>2, <3>1 DEF Past
    <3>2. CASE m < n
      BY <1>1, <2>2, <3>2 DEF RowsOK
    <3> QED BY <2>2, <3>1, <3>2
  <2>4. t.question <= n
    BY <1>1, <2>1, <2>2 DEF RowsOK
  <2>5. TurnOK(t, msgs, overrun, exposed)
    BY <1>5, <2>1, <2>3, <2>4 DEF TurnOK, HasActive, InRow, n
  <2> QED BY <1>1, <1>2, <2>1, <2>5, QuietStep
<1> QED BY <1>3, <1>4, <1>5 DEF Check

\* A new row for a new question, or for one whose rows were given up.
LEMMA OpenRows ==
  ASSUME NEW rows \in Seq(Message), NEW bare, RowsOK(rows, bare), NEW r \in Message,
         r.status = "streaming", r.approval = "none", r.question <= Len(rows) + 1,
         GivenUp(r.question, rows, bare), NEW bare2, bare \subseteq bare2
  PROVE  RowsOK(Append(rows, r), bare2)
<1> DEFINE s == Append(rows, r)
<1>1. Len(s) = Len(rows) + 1 /\ DOMAIN s = 1 .. Len(rows) + 1 /\ DOMAIN rows = 1 .. Len(rows)
      /\ s[Len(rows) + 1] = r /\ \A n \in DOMAIN rows : s[n] = rows[n]
  BY AppendRow
<1>2. Len(rows) \in Nat
  OBVIOUS
<1> HIDE DEF s
<1>3. \A n \in DOMAIN s : n \in DOMAIN rows \/ n = Len(rows) + 1
  BY <1>1, <1>2
<1>4. \A n \in DOMAIN s : Charged(s[n]) \/ n \in bare2
  BY <1>1, <1>3 DEF RowsOK, Charged
<1>5. \A n \in DOMAIN s : s[n].question <= n
  BY <1>1, <1>3 DEF RowsOK
<1>6. ASSUME NEW n \in DOMAIN s, NEW o \in DOMAIN s, n < o, s[n].question = s[o].question
      PROVE  Past(s[n]) \/ n \in bare2
  <2>1. n \in DOMAIN rows /\ s[n] = rows[n]
    BY <1>1, <1>2, <1>6
  <2>2. CASE o \in DOMAIN rows
    BY <1>1, <1>6, <2>1, <2>2 DEF RowsOK
  <2>3. CASE o = Len(rows) + 1
    BY <1>1, <1>6, <2>1, <2>3 DEF GivenUp
  <2> QED BY <1>3, <2>2, <2>3
<1> QED BY <1>4, <1>5, <1>6 DEF RowsOK, s

LEMMA OpenStep ==
  ASSUME Inv, TypeOK', NEW w \in Worker, Open(w), LifeAssumption, BoundAssumption
  PROVE  Inv'
<1> DEFINE r == [status |-> "streaming", age |-> 0,
                 usage |-> "reserved", approval |-> "none", question |-> QuestionOf(w)]
           t == [turn[w] EXCEPT !.pc = "stream", !.msg = Len(msgs) + 1]
<1>1. TypeOK /\ turn[w] \in Turn /\ turn[w].pc = "open"
      /\ TurnOK(turn[w], msgs, overrun, exposed)
      /\ RowsOK(msgs, exposed) /\ msgs \in Seq(Message) /\ Len(msgs) < MaxMessage
      /\ Len(msgs) \in Nat /\ overrun \in BOOLEAN
  BY Here DEF TypeOK, Open, At
<1>2. msgs' = Append(msgs, r) /\ turn' = [turn EXCEPT ![w] = t] /\ key' = key
      /\ overrun' = overrun
      /\ exposed' = IF overrun THEN exposed \union {Len(msgs) + 1} ELSE exposed
  BY DEF Open
<1>3. r.status = "streaming" /\ r.usage = "reserved" /\ r.question = QuestionOf(w)
      /\ r.approval = "none"
  OBVIOUS
<1>4. /\ QuestionOf(w) \in 1 .. MaxMessage
      /\ QuestionOf(w) <= Len(msgs) + 1
      /\ GivenUp(QuestionOf(w), msgs, exposed)
  <2>1. DOMAIN msgs = 1 .. Len(msgs) /\ \A m \in DOMAIN msgs : msgs[m] \in Message
    BY <1>1
  <2>2. CASE turn[w].question = 0
    <3>1. QuestionOf(w) = Len(msgs) + 1
      BY <2>2 DEF QuestionOf
    <3>2. \A m \in DOMAIN msgs : msgs[m].question <= m /\ msgs[m].question \in Nat
      BY <1>1, <2>1, BoundAssumption DEF RowsOK, Message
    <3>3. \A m \in DOMAIN msgs : msgs[m].question # Len(msgs) + 1
      BY <1>1, <2>1, <3>2
    <3>4. GivenUp(QuestionOf(w), msgs, exposed)
      BY <3>1, <3>3 DEF GivenUp
    <3>5. QuestionOf(w) \in 1 .. MaxMessage
      BY <1>1, <3>1, BoundAssumption
    <3> QED BY <1>1, <3>1, <3>4, <3>5
  <2>3. CASE turn[w].question # 0
    <3>1. QuestionOf(w) = turn[w].question
      BY <2>3 DEF QuestionOf
    <3>2. turn[w].question <= Len(msgs) /\ GivenUp(turn[w].question, msgs, exposed)
      BY <1>1, <2>3 DEF TurnOK
    <3>3. turn[w].question \in 1 .. MaxMessage
      BY <1>1, <2>3, BoundAssumption DEF Turn
    <3>4. turn[w].question <= Len(msgs) + 1
      BY <1>1, <3>2, <3>3, BoundAssumption
    <3> QED BY <3>1, <3>2, <3>3, <3>4
  <2> QED BY <2>2, <2>3
<1>5. r \in Message
  BY <1>4, LifeAssumption DEF Message, Statuses
<1>6. t.pc = "stream" /\ t.msg = Len(msgs) + 1
  BY <1>1 DEF Turn
<1> HIDE DEF r, t
<1>7. /\ DOMAIN msgs' = 1 .. Len(msgs) + 1 /\ DOMAIN msgs = 1 .. Len(msgs)
      /\ msgs'[Len(msgs) + 1] = r /\ \A m \in DOMAIN msgs : msgs'[m] = msgs[m]
  BY <1>1, <1>2, <1>5, AppendRow
<1>8. exposed \subseteq exposed'
  BY <1>2
<1>9. RowsOK(msgs', exposed')
  BY <1>1, <1>2, <1>3, <1>4, <1>5, <1>8, OpenRows
<1>10. overrun' => Evolve
  BY <1>1, <1>2, <1>7, <1>8 DEF Evolve
<1>11. TurnOK(t, msgs', overrun', exposed')
  <2>1. CASE overrun
    <3>1. t.msg \in exposed'
      BY <1>2, <1>6, <2>1
    <3> QED BY <1>2, <1>6, <2>1, <3>1 DEF TurnOK, InRow
  <2>2. CASE ~overrun
    <3>1. \A m \in DOMAIN msgs : msgs'[m].status \notin Active
      BY <1>1, <1>7, <2>2 DEF TurnOK
    <3>2. \A m \in DOMAIN msgs' : m \in DOMAIN msgs \/ m = Len(msgs) + 1
      BY <1>1, <1>7
    <3>3. \A m \in DOMAIN msgs' : msgs'[m].status \in Active => m = t.msg
      BY <1>6, <3>1, <3>2
    <3> QED BY <1>2, <1>3, <1>6, <1>7, <2>2, <3>3 DEF TurnOK, InRow
  <2> QED BY <2>1, <2>2
<1>12. overrun' \/ (Alone(w) /\ key' > 0)
  BY <1>1, <1>2, Here
<1> QED BY <1>1, <1>2, <1>9, <1>10, <1>11, <1>12, Frame

LEMMA RefuseStep ==
  ASSUME Inv, TypeOK', NEW w \in Worker, Refuse(w) \/ Escape(w)
  PROVE  Inv'
<1>1. turn[w].pc # "idle" /\ Leave(w) /\ msgs' = msgs /\ key' = key
      /\ overrun' = overrun /\ exposed' = exposed
  BY DEF Refuse, Escape, At, SameExposure
<1>2. RowsOK(msgs', exposed') /\ Evolve
  BY <1>1, Here, SameRows
<1> QED BY <1>1, <1>2, LeaveStep

\* Writing a row: what the new one keeps of the old one.
LEMMA WriteRow ==
  ASSUME Inv, TypeOK', LifeAssumption, NEW m \in DOMAIN msgs, exposed' = exposed,
         NEW status \in Statuses, NEW usage \in {"reserved", "settled", "released"},
         NEW approval \in {"none", "open", "used"},
         Write(m, status, usage, approval),
         msgs[m].approval # "none" => approval # "none",
         status = "completed" \/ approval # "none" => usage = "settled" \/ m \in exposed,
         status = "completed" /\ approval = "open" => m \in exposed,
         \/ status \in Retryable \/ approval # "none" \/ m \in exposed
         \/ msgs[m].status = "streaming"
  PROVE  RowsOK(msgs', exposed') /\ Evolve
<1> DEFINE r == [msgs[m] EXCEPT !.status = status, !.age = 0, !.usage = usage,
                                !.approval = approval]
<1>1. TypeOK /\ RowsOK(msgs, exposed) /\ msgs[m] \in Message
  BY DEF Inv, TypeOK
<1>2. r \in Message
  BY <1>1, RowType
<1>3. /\ r.question = msgs[m].question /\ r.status = status /\ r.usage = usage
      /\ r.approval = approval
  BY <1>1 DEF Message
<1>4. msgs' = [msgs EXCEPT ![m] = r]
  BY DEF Write
<1> HIDE DEF r
<1>5. Charged(r) \/ m \in exposed
  BY <1>3 DEF Charged
<1>6. Past(msgs[m]) => Past(r) \/ m \in exposed
  BY <1>3 DEF Past, Retryable
<1> QED BY <1>1, <1>2, <1>3, <1>4, <1>5, <1>6, RewriteRow

\* The hold of a generation that goes on alone is still reserved, so that a
\* completed answer is settled.
LEMMA CompleteStep ==
  ASSUME Inv, TypeOK', LifeAssumption, NEW w \in Worker, Complete(w) \/ AwaitApproval(w)
  PROVE  Inv'
<1> DEFINE m == turn[w].msg
           usage == Settled(msgs[m].usage)
<1>1. /\ turn[w].pc = "stream" /\ Leave(w) /\ key' = key
      /\ overrun' = overrun /\ exposed' = exposed
      /\ \/ Write(m, "completed", usage, msgs[m].approval)
         \/ Write(m, "pending", usage, "open")
  BY DEF Complete, AwaitApproval, At, SameExposure
<1>2. m \in DOMAIN msgs /\ TypeOK /\ TurnOK(turn[w], msgs, overrun, exposed)
  BY <1>1, Here DEF OnRow
<1>3. m \in exposed \/ (msgs[m].status = "streaming" /\ msgs[m].usage = "reserved"
                         /\ msgs[m].approval = "none")
  BY <1>1, <1>2 DEF TurnOK, InRow
<1>4. usage = "settled" \/ m \in exposed
  BY <1>3 DEF Settled
<1>5. usage \in {"reserved", "settled", "released"}
      /\ msgs[m].approval \in {"none", "open", "used"}
      /\ "completed" \in Statuses /\ "pending" \in Statuses
  BY <1>2, UsageType, ApprovalType DEF Statuses
<1> HIDE DEF m, usage
<1>6. RowsOK(msgs', exposed') /\ Evolve
  <2>1. CASE Write(m, "completed", usage, msgs[m].approval)
    BY <1>1, <1>2, <1>3, <1>4, <1>5, <2>1, WriteRow
  <2>2. CASE Write(m, "pending", usage, "open")
    BY <1>1, <1>2, <1>3, <1>4, <1>5, <2>2, WriteRow
  <2> QED BY <1>1, <2>1, <2>2
<1> QED BY <1>1, <1>6, LeaveStep

\* What an approval was asked for has been charged before it was asked.
LEMMA ResumeStep ==
  ASSUME Inv, TypeOK', LifeAssumption, NEW w \in Worker, Answer(w) \/ GiveUp(w)
  PROVE  Inv'
<1> DEFINE m == turn[w].msg
<1>1. /\ turn[w].pc = "resume" /\ Leave(w) /\ key' = key
      /\ overrun' = overrun /\ exposed' = exposed
      /\ \/ Write(m, "completed", msgs[m].usage, "used")
         \/ \E approval \in {msgs[m].approval, "used"} :
              Write(m, "failed", msgs[m].usage, approval)
         \/ msgs' = msgs
  BY DEF Answer, GiveUp, At, SameExposure
<1>2. /\ m \in DOMAIN msgs /\ TypeOK /\ TurnOK(turn[w], msgs, overrun, exposed)
      /\ RowsOK(msgs, exposed)
  BY <1>1, Here DEF OnRow
<1>3. msgs[m].approval # "none"
  BY <1>1, <1>2 DEF TurnOK
<1>4. msgs[m].usage = "settled" \/ m \in exposed
  BY <1>2, <1>3 DEF RowsOK, Charged
<1>5. msgs[m].usage \in {"reserved", "settled", "released"}
      /\ msgs[m].approval \in {"none", "open", "used"}
      /\ "completed" \in Statuses /\ "failed" \in Statuses
  BY <1>2, UsageType, ApprovalType DEF Statuses
<1> HIDE DEF m
<1>6. RowsOK(msgs', exposed') /\ Evolve
  <2>1. CASE Write(m, "completed", msgs[m].usage, "used")
    BY <1>1, <1>2, <1>4, <1>5, <2>1, WriteRow
  <2>2. ASSUME NEW approval \in {msgs[m].approval, "used"},
               Write(m, "failed", msgs[m].usage, approval)
        PROVE  RowsOK(msgs', exposed') /\ Evolve
    <3>1. approval \in {"none", "open", "used"} /\ approval # "none"
      BY <1>3, <1>5
    <3> QED BY <1>1, <1>2, <1>4, <1>5, <2>2, <3>1, WriteRow
  <2>3. CASE msgs' = msgs
    BY <1>1, <1>2, <2>3, SameRows
  <2> QED BY <1>1, <2>1, <2>2, <2>3
<1> QED BY <1>1, <1>6, LeaveStep

LEMMA BreakStep ==
  ASSUME Inv, TypeOK', NEW w \in Worker,
         NEW verdict \in Retryable, Break(w, verdict)
  PROVE  Inv'
<1> DEFINE t == [turn[w] EXCEPT !.pc = "close", !.verdict = verdict]
<1>1. turn[w] \in Turn /\ turn[w].pc = "stream"
      /\ TurnOK(turn[w], msgs, overrun, exposed)
  BY Here DEF Break, At
<1>2. turn' = [turn EXCEPT ![w] = t] /\ msgs' = msgs /\ key' = key /\ SameExposure
      /\ t.pc = "close" /\ t.msg = turn[w].msg
  BY <1>1 DEF Break, AfterBreak, Turn
<1> HIDE DEF t
<1>3. TurnOK(t, msgs, overrun, exposed)
  BY <1>1, <1>2 DEF TurnOK, InRow
<1> QED BY <1>1, <1>2, <1>3, QuietStep

LEMMA CloseUsageStep ==
  ASSUME Inv, TypeOK', NEW w \in Worker, CloseUsage(w)
  PROVE  Inv'
<1> DEFINE m == turn[w].msg
           t == [turn[w] EXCEPT !.pc = "mark"]
<1>1. turn[w] \in Turn /\ turn[w].pc = "close"
      /\ TurnOK(turn[w], msgs, overrun, exposed) /\ m \in DOMAIN msgs
  BY Here DEF CloseUsage, At, OnRow
<1>2. /\ turn' = [turn EXCEPT ![w] = t] /\ key' = key /\ t.pc = "mark" /\ t.msg = m
      /\ overrun' = overrun /\ exposed' = exposed
  BY <1>1 DEF CloseUsage, Goto, Turn, SameExposure
<1>3. msgs' = msgs \/ \E usage \in {Settled(msgs[m].usage), Released(msgs[m].usage)} :
                        msgs' = [msgs EXCEPT ![m].usage = usage]
  BY DEF CloseUsage
<1> HIDE DEF t, m
<1>4. RowsOK(msgs', exposed') /\ Evolve
  BY <1>1, <1>2, <1>3, Here, SameRows, UsageRow
<1>5. TurnOK(t, msgs', overrun', exposed')
  BY <1>1, <1>2 DEF TurnOK, InRow, m
<1>6. overrun' \/ (Alone(w) /\ key' > 0)
  BY <1>1, <1>2, Here
<1> QED BY <1>1, <1>2, <1>4, <1>5, <1>6, Frame

LEMMA MarkStep ==
  ASSUME Inv, TypeOK', LifeAssumption, NEW w \in Worker, Mark(w)
  PROVE  Inv'
<1> DEFINE m == turn[w].msg
<1>1. /\ turn[w].pc = "mark" /\ turn[w] \in Turn /\ Leave(w) /\ key' = key
      /\ overrun' = overrun /\ exposed' = exposed
      /\ (msgs' = msgs \/ Write(m, turn[w].verdict, msgs[m].usage, msgs[m].approval))
  BY Here DEF Mark, At, SameExposure
<1>2. m \in DOMAIN msgs /\ TypeOK /\ RowsOK(msgs, exposed)
  BY <1>1, Here DEF OnRow
<1>3. msgs[m].usage \in {"reserved", "settled", "released"}
      /\ msgs[m].approval \in {"none", "open", "used"}
      /\ turn[w].verdict \in Statuses /\ turn[w].verdict \in Retryable
      /\ turn[w].verdict # "completed"
  BY <1>1, <1>2, UsageType, ApprovalType DEF Turn, Retryable, Statuses
<1>4. msgs[m].approval # "none" => msgs[m].usage = "settled" \/ m \in exposed
  BY <1>2 DEF RowsOK, Charged
<1> HIDE DEF m
<1>5. RowsOK(msgs', exposed') /\ Evolve
  <2>1. CASE msgs' = msgs
    BY <1>1, <1>2, <2>1, SameRows
  <2>2. CASE Write(m, turn[w].verdict, msgs[m].usage, msgs[m].approval)
    BY <1>1, <1>2, <1>3, <1>4, <2>2, WriteRow
  <2> QED BY <1>1, <2>1, <2>2
<1> QED BY <1>1, <1>5, LeaveStep

\* A worker that is done, or dead, leaves the rows as they are; the overrun is
\* over if it was the last one.
LEMMA EndStep ==
  ASSUME Inv, TypeOK', NEW w \in Worker, Unlock(w) \/ Crash(w)
  PROVE  Inv'
<1>1. /\ turn[w].pc # "idle" /\ turn' = [turn EXCEPT ![w] = Idle] /\ msgs' = msgs
      /\ exposed' = exposed
      /\ overrun' = (overrun /\ \E v \in Worker \ {w} : ~At(v, "idle"))
  BY DEF Unlock, Crash, End, At
<1>2. Idle.pc = "idle"
  BY DEF Idle
<1>3. RowsOK(msgs', exposed') /\ Evolve
  BY <1>1, Here, SameRows
<1>4. overrun' \/ Alone(w)
  BY <1>1, Here DEF Alone, At
<1>5. TurnOK(Idle, msgs', overrun', exposed')
  BY <1>2, FreeTurn
<1> QED BY <1>1, <1>2, <1>3, <1>4, <1>5, Frame

\* A refusal only marks a row failed, so no turn loses what it believes.
LEMMA DeclineStep ==
  ASSUME Inv, TypeOK', LifeAssumption, NEW m \in DOMAIN msgs, Decline(m)
  PROVE  Inv'
<1>1. /\ msgs[m].approval # "none" /\ Write(m, "failed", msgs[m].usage, "used")
      /\ turn' = turn /\ key' = key /\ overrun' = overrun /\ exposed' = exposed
  BY DEF Decline, SameExposure
<1>2. TypeOK /\ RowsOK(msgs, exposed) /\ overrun \in BOOLEAN /\ msgs[m] \in Message
  BY DEF Inv, TypeOK
<1>3. msgs[m].usage = "settled" \/ m \in exposed
  BY <1>1, <1>2 DEF RowsOK, Charged
<1>4. msgs[m].usage \in {"reserved", "settled", "released"} /\ "failed" \in Statuses
  BY <1>2, UsageType DEF Statuses
<1>5. RowsOK(msgs', exposed') /\ Evolve
  BY <1>1, <1>2, <1>3, <1>4, WriteRow DEF Retryable
<1>6. /\ DOMAIN msgs' = DOMAIN msgs /\ msgs'[m].status = "failed"
      /\ \A n \in DOMAIN msgs : n # m => msgs'[n] = msgs[n]
  BY <1>1, <1>2 DEF Write, TypeOK, Message
<1>7. ASSUME NEW v \in Worker
      PROVE  TurnOK(turn'[v], msgs', overrun', exposed')
  <2>1. TurnOK(turn[v], msgs, overrun, exposed)
    BY DEF Inv
  <2>2. CASE overrun
    <3>1. overrun = TRUE /\ overrun' = TRUE
      BY <1>1, <1>2, <2>2
    <3> QED BY <1>1, <1>2, <1>5, <2>1, <3>1, OtherTurn
  <2>3. CASE ~overrun
    <3>1. turn[v].pc = "open" /\ turn[v].question # 0 =>
            turn[v].question <= Len(msgs') /\ GivenUp(turn[v].question, msgs', exposed')
      <4>1. TurnOK(turn[v], msgs, TRUE, exposed) \/ turn[v].pc \in InRow
        BY <2>1 DEF TurnOK
      <4>2. TurnOK(turn[v], msgs', TRUE, exposed') \/ turn[v].pc \in InRow
        BY <1>2, <1>5, <4>1, OtherTurn
      <4> QED BY <4>2 DEF TurnOK, InRow
    <3>2. turn[v].pc = "open" => \A n \in DOMAIN msgs' : msgs'[n].status \notin Active
      BY <1>6, <2>1, <2>3 DEF TurnOK, Active
    <3>3. turn[v].pc = "stream" =>
            LET n == turn[v].msg
            IN  /\ msgs'[n].status = "streaming" /\ msgs'[n].usage = "reserved"
                /\ msgs'[n].approval = "none"
                /\ \A o \in DOMAIN msgs' : msgs'[o].status \in Active => o = n
      <4> SUFFICES ASSUME turn[v].pc = "stream"
                   PROVE  LET n == turn[v].msg
                          IN  /\ msgs'[n] = msgs[n]
                              /\ \A o \in DOMAIN msgs' : msgs'[o].status \in Active => o = n
        BY <2>1, <2>3 DEF TurnOK
      <4>1. turn[v].msg \in DOMAIN msgs /\ turn[v].msg # m
        BY <1>1, <2>1, <2>3, Here DEF TurnOK, OnRow
      <4> QED BY <1>6, <2>1, <2>3, <4>1 DEF TurnOK, Active
    <3>4. turn[v].pc = "resume" => msgs'[turn[v].msg].approval # "none"
      <4>1. turn[v].pc = "resume" => turn[v].msg \in DOMAIN msgs
        BY Here DEF OnRow
      <4> QED BY <1>5, <2>1, <4>1 DEF TurnOK, Evolve
    <3>5. turn[v].pc \in {"heal", "release", "check"} => turn[v].question = 0
      BY <2>1 DEF TurnOK
    <3> QED BY <1>1, <2>3, <3>1, <3>2, <3>3, <3>4, <3>5 DEF TurnOK
  <2> QED BY <2>2, <2>3
<1> QED BY <1>1, <1>5, <1>7 DEF Inv, Alone

\* Time takes the key from a turn only by an overrun, which is recorded with the
\* rows it exposes.
LEMMA TickStep ==
  ASSUME Inv, TypeOK', LifeAssumption, Tick
  PROVE  Inv'
<1>1. turn' = turn /\ TypeOK /\ RowsOK(msgs, exposed) /\ overrun \in BOOLEAN
      /\ exposed \subseteq exposed'
  BY DEF Inv, TypeOK, Tick
<1>2. DOMAIN msgs' = DOMAIN msgs
  BY DEF Tick
<1>3. ASSUME NEW m \in DOMAIN msgs
      PROVE  /\ msgs'[m].question = msgs[m].question /\ msgs'[m].usage = msgs[m].usage
             /\ msgs'[m].status = msgs[m].status /\ msgs'[m].approval = msgs[m].approval
  <2>1. msgs[m] \in Message
    BY <1>1 DEF TypeOK
  <2> QED BY <2>1 DEF Tick, Message
<1>4. RowsOK(msgs', exposed') /\ Evolve
  <2>1. \A m \in DOMAIN msgs : /\ Past(msgs[m]) => Past(msgs'[m])
                               /\ Charged(msgs[m]) => Charged(msgs'[m])
    BY <1>3 DEF Past, Charged
  <2> QED BY <1>1, <1>2, <1>3, <2>1, Rewrite
<1>5. ASSUME NEW w \in Worker
      PROVE  TurnOK(turn'[w], msgs', overrun', exposed')
  <2>1. TurnOK(turn[w], msgs, overrun, exposed)
        /\ (turn[w].pc \in OnRow => turn[w].msg \in DOMAIN msgs)
    BY Here
  <2>2. CASE overrun'
    <3>1. turn[w].pc \in InRow => turn[w].msg \in exposed'
      <4>1. CASE overrun
        BY <1>1, <2>1, <4>1 DEF TurnOK
      <4>2. CASE Overruns
        BY <4>2 DEF Tick, Generating, InRow
      <4> QED BY <2>2, <4>1, <4>2 DEF Tick
    <3>2. TurnOK(turn[w], msgs, TRUE, exposed) \/ turn[w].pc \in InRow
      BY <2>1 DEF TurnOK
    <3>3. TurnOK(turn[w], msgs', TRUE, exposed') \/ turn[w].pc \in InRow
      BY <1>1, <1>4, <3>2, OtherTurn
    <3>4. overrun' = TRUE
      BY <2>2 DEF TypeOK
    <3> QED BY <1>1, <3>1, <3>3, <3>4 DEF TurnOK, InRow
  <2>3. CASE ~overrun'
    <3>1. ~overrun
      BY <2>3 DEF Tick
    <3>2. turn[w].pc = "open" => \A n \in DOMAIN msgs' : msgs'[n].status \notin Active
      BY <1>2, <1>3, <2>1, <3>1 DEF TurnOK
    <3>3. turn[w].pc = "open" /\ turn[w].question # 0 =>
            turn[w].question <= Len(msgs') /\ GivenUp(turn[w].question, msgs', exposed')
      <4>1. TurnOK(turn[w], msgs, TRUE, exposed) \/ turn[w].pc \in InRow
        BY <2>1 DEF TurnOK
      <4>2. TurnOK(turn[w], msgs', TRUE, exposed') \/ turn[w].pc \in InRow
        BY <1>1, <1>4, <4>1, OtherTurn
      <4> QED BY <4>2 DEF TurnOK, InRow
    <3>4. turn[w].pc = "stream" =>
            LET n == turn[w].msg
            IN  /\ msgs'[n].status = "streaming" /\ msgs'[n].usage = "reserved"
                /\ msgs'[n].approval = "none"
                /\ \A o \in DOMAIN msgs' : msgs'[o].status \in Active => o = n
      BY <1>2, <1>3, <2>1, <3>1 DEF TurnOK, OnRow
    <3>5. turn[w].pc = "resume" => msgs'[turn[w].msg].approval # "none"
      BY <1>3, <2>1 DEF TurnOK, OnRow
    <3>6. turn[w].pc \in {"heal", "release", "check"} => turn[w].question = 0
      BY <2>1 DEF TurnOK
    <3> QED BY <1>1, <2>3, <3>2, <3>3, <3>4, <3>5, <3>6 DEF TurnOK
  <2> QED BY <2>2, <2>3
<1>6. ASSUME NEW w \in Worker, turn[w].pc # "idle", ~overrun'
      PROVE  key' > 0 /\ Alone(w)
  <2>1. ~overrun /\ ~Overruns
    BY <1>6 DEF Tick
  <2>2. key > 0 /\ Alone(w) /\ key # 1 /\ key \in Nat
    BY <1>1, <1>6, <2>1, LifeAssumption DEF Inv, Overruns, At, TypeOK
  <2> QED BY <2>2 DEF Tick, Fade
<1> QED BY <1>1, <1>4, <1>5, <1>6 DEF Inv, Alone

LEMMA InitInv ==
  ASSUME Init, LifeAssumption, BoundAssumption
  PROVE  Inv
<1>1. TypeOK
  BY InitType
<1>2. \A w \in Worker : turn[w].pc = "idle"
  BY DEF Init, Idle
<1>3. \A w \in Worker : TurnOK(turn[w], msgs, overrun, exposed)
  BY <1>2, FreeTurn
<1>4. RowsOK(msgs, exposed)
  BY DEF Init, RowsOK
<1> QED BY <1>1, <1>2, <1>3, <1>4 DEF Inv

LEMMA NextInv ==
  ASSUME Inv, [Next]_vars, LifeAssumption, BoundAssumption
  PROVE  Inv'
<1>0. TypeOK'
  BY NextType DEF Inv
<1>1. CASE UNCHANGED vars
  BY <1>0, <1>1 DEF vars, Inv, Alone
<1>2. CASE Tick
  BY <1>0, <1>2, TickStep
<1>3. ASSUME NEW m \in DOMAIN msgs, Decline(m)
      PROVE  Inv'
  BY <1>0, <1>3, DeclineStep
<1>4. ASSUME NEW w \in Worker,
             \/ Begin(w) \/ Proceed(w) \/ Escape(w) \/ Crash(w)
             \/ \E m \in DOMAIN msgs : Resume(w, m)
      PROVE  Inv'
  <2>1. CASE Begin(w) \/ \E m \in DOMAIN msgs : Resume(w, m)
    BY <1>0, <2>1, BeginStep
  <2>2. CASE Heal(w)
    BY <1>0, <2>2, HealStep
  <2>3. CASE ReleaseHealed(w)
    BY <1>0, <2>3, ReleaseHealedStep
  <2>4. CASE Healed(w)
    BY <1>0, <2>4, HealedStep
  <2>5. CASE Check(w)
    BY <1>0, <2>5, CheckStep
  <2>6. CASE Open(w)
    BY <1>0, <2>6, OpenStep
  <2>7. CASE Refuse(w) \/ Escape(w)
    BY <1>0, <2>7, RefuseStep
  <2>8. CASE Complete(w) \/ AwaitApproval(w)
    BY <1>0, <2>8, CompleteStep
  <2>9. CASE Answer(w) \/ GiveUp(w)
    BY <1>0, <2>9, ResumeStep
  <2>10. CASE \E verdict \in Retryable : Break(w, verdict)
    BY <1>0, <2>10, BreakStep
  <2>11. CASE CloseUsage(w)
    BY <1>0, <2>11, CloseUsageStep
  <2>12. CASE Mark(w)
    BY <1>0, <2>12, MarkStep
  <2>13. CASE Unlock(w) \/ Crash(w)
    BY <1>0, <2>13, EndStep
  <2> QED BY <1>4, <2>1, <2>2, <2>3, <2>4, <2>5, <2>6, <2>7, <2>8, <2>9, <2>10,
             <2>11, <2>12, <2>13 DEF Proceed
<1> QED BY <1>1, <1>2, <1>3, <1>4 DEF Next

LEMMA Invariance == Spec => []Inv
<1>1. Init => Inv
  BY InitInv, LifeAssumption, BoundAssumption
<1>2. Inv /\ [Next]_vars => Inv'
  BY NextInv, LifeAssumption, BoundAssumption
<1> QED BY <1>1, <1>2, PTL DEF Spec

\* Turns meet, and a turn meets another active row or loses its own, only in a
\* stretch in which one has outlived the key: no crash, error of Redis, retry or
\* resume leads to it, although releasing the lock deletes whatever key is there,
\* and afterwards turns are alone again (locks.py; chat_orchestrator.py).
THEOREM TurnsMeetOnlyInOverruns == Spec => []TurnsStandAlone
<1>1. Inv => TurnsStandAlone
  <2> SUFFICES ASSUME Inv, ~overrun PROVE OneTurn /\ LiveTurnKept
    BY DEF TurnsStandAlone
  <2>1. OneTurn
    BY DEF Inv, Alone, OneTurn, At
  <2>2. LiveTurnKept
    BY DEF Inv, TurnOK, LiveTurnKept, At
  <2> QED BY <2>1, <2>2
<1> QED BY <1>1, Invariance, PTL

\* Every completed answer has been charged, be it completed by its turn or by the
\* resume of an approval, unless it was being generated during an overrun.
THEOREM CompletedAnswersAreCharged == Spec => []CompletedIsCharged
<1>1. Inv => CompletedIsCharged
  BY DEF Inv, RowsOK, Charged, CompletedIsCharged
<1> QED BY <1>1, Invariance, PTL

\* However often a question is retried and whoever crashes, it gets a second
\* completed answer only because an approval completed the earlier row after it
\* had been given up, or the earlier row was generated during an overrun.
THEOREM SecondAnswerIsLate == Spec => []OneAnswer
<1>1. Inv => OneAnswer
  <2> SUFFICES ASSUME Inv, NEW m \in DOMAIN msgs, NEW n \in DOMAIN msgs, m < n,
                      msgs[m].status = "completed",
                      msgs[m].question = msgs[n].question, m \notin exposed
               PROVE  msgs[m].approval = "used"
    BY DEF OneAnswer
  <2>1. msgs[m].approval # "none" /\ msgs[m].approval # "open"
    BY DEF Inv, RowsOK, Past, Charged, Retryable
  <2>2. msgs[m].approval \in {"none", "open", "used"}
    BY ApprovalType DEF Inv
  <2> QED BY <2>1, <2>2
<1> QED BY <1>1, Invariance, PTL

-----------------------------------------------------------------------------
(* Holds are not forgotten, however long turns last: rows to release are   *)
(* remembered only by a turn that is releasing, whoever marks a row has    *)
(* closed its hold or lost the transaction that would have, and what waits *)
(* for an approval has no open hold.                                       *)

HoldsOK ==
  /\ TypeOK /\ NoForgottenHold
  /\ \A m \in DOMAIN msgs : msgs[m].approval # "none" => msgs[m].usage # "reserved"
  /\ \A w \in Worker :
       /\ turn[w].heal # {} => turn[w].pc = "release"
       /\ turn[w].pc = "mark" =>
            msgs[turn[w].msg].usage # "reserved" \/ turn[w].msg \in lost
       /\ turn[w].pc = "resume" => msgs[turn[w].msg].usage # "reserved"

\* An approval is asked for only when the hold of its row is closed.
AskedOnce ==
  \A m \in DOMAIN msgs' :
    msgs'[m].approval # "none" =>
      msgs'[m].usage # "reserved" \/ (m \in DOMAIN msgs /\ msgs[m].approval # "none")

\* The frame of every step of one worker: nothing is reserved again, what it was
\* to release is released, lost or still to do, and rows that it ends are so too.
LEMMA HoldsFrame ==
  ASSUME HoldsOK, TypeOK', NEW w \in Worker, NEW t,
         turn' = [turn EXCEPT ![w] = t],
         lost \subseteq lost', DOMAIN msgs \subseteq DOMAIN msgs',
         t.heal # {} => t.pc = "release",
         t.pc = "mark" => msgs'[t.msg].usage # "reserved" \/ t.msg \in lost',
         t.pc = "resume" => msgs'[t.msg].usage # "reserved",
         \A m \in DOMAIN msgs : msgs'[m].usage = "reserved" => msgs[m].usage = "reserved",
         AskedOnce,
         \A m \in turn[w].heal :
           m \in t.heal \/ m \in lost' \/ msgs'[m].usage # "reserved",
         \A m \in DOMAIN msgs' :
           msgs'[m].usage = "reserved" /\ msgs'[m].status \notin Active =>
             \/ m \in DOMAIN msgs /\ msgs[m].status \notin Active
             \/ m \in lost' \/ m \in t.heal
  PROVE  HoldsOK'
<1>1. turn'[w] = t /\ \A v \in Worker : v # w => turn'[v] = turn[v]
  BY DEF HoldsOK, TypeOK
<1>2. NoForgottenHold'
  <2>1. SUFFICES ASSUME NEW m \in DOMAIN msgs', msgs'[m].usage = "reserved",
                        msgs'[m].status \notin Active
                 PROVE  m \in lost' \/ \E v \in Worker : m \in turn'[v].heal
    BY DEF NoForgottenHold, Active
  <2>2. CASE m \in lost' \/ m \in t.heal
    BY <1>1, <2>2
  <2>3. CASE m \in DOMAIN msgs /\ msgs[m].status \notin Active
    <3>1. m \in lost \/ \E v \in Worker : m \in turn[v].heal
      BY <2>1, <2>3 DEF HoldsOK, NoForgottenHold, Active
    <3> QED BY <1>1, <2>1, <3>1
  <2> QED BY <2>1, <2>2, <2>3
<1>3. ASSUME NEW v \in Worker
      PROVE  /\ turn'[v].heal # {} => turn'[v].pc = "release"
             /\ turn'[v].pc = "mark" =>
                  msgs'[turn'[v].msg].usage # "reserved" \/ turn'[v].msg \in lost'
             /\ turn'[v].pc = "resume" => msgs'[turn'[v].msg].usage # "reserved"
  <2>1. CASE v = w
    BY <1>1, <2>1
  <2>2. CASE v # w
    <3>1. turn[v].pc \in {"mark", "resume"} => turn[v].msg \in DOMAIN msgs
      BY DEF HoldsOK, TypeOK, Generating, At
    <3> QED BY <1>1, <2>2, <3>1 DEF HoldsOK
  <2> QED BY <2>1, <2>2
<1>4. \A m \in DOMAIN msgs' : msgs'[m].approval # "none" => msgs'[m].usage # "reserved"
  BY DEF HoldsOK, AskedOnce
<1> QED BY <1>2, <1>3, <1>4 DEF HoldsOK

\* Steps that leave the rows alone, of a worker that has nothing to release.
LEMMA HoldsSame ==
  ASSUME HoldsOK, TypeOK', NEW w \in Worker, NEW t,
         turn' = [turn EXCEPT ![w] = t], msgs' = msgs, lost \subseteq lost',
         t.heal = {}, t.pc # "mark", turn[w].pc # "release",
         t.pc = "resume" => msgs[t.msg].usage # "reserved"
  PROVE  HoldsOK'
<1>1. turn[w].heal = {} /\ AskedOnce
  BY DEF HoldsOK, AskedOnce
<1> QED BY <1>1, HoldsFrame

\* The end of a turn.
LEMMA HoldsLeave ==
  ASSUME HoldsOK, TypeOK', NEW w \in Worker,
         Leave(w) \/ turn' = [turn EXCEPT ![w] = Idle],
         turn[w].pc # "release", lost \subseteq lost', DOMAIN msgs \subseteq DOMAIN msgs',
         \A m \in DOMAIN msgs : msgs'[m].usage = "reserved" => msgs[m].usage = "reserved",
         AskedOnce,
         \A m \in DOMAIN msgs' :
           msgs'[m].usage = "reserved" /\ msgs'[m].status \notin Active =>
             (m \in DOMAIN msgs /\ msgs[m].status \notin Active) \/ m \in lost'
  PROVE  HoldsOK'
<1>1. turn[w].heal = {}
  BY DEF HoldsOK
<1>2. PICK t : turn' = [turn EXCEPT ![w] = t] /\ t.heal = {} /\ t.pc \in {"idle", "unlock"}
  BY DEF Leave, Idle
<1> QED BY <1>1, <1>2, HoldsFrame

\* Closing the hold of a row, and writing a row that is over.
LEMMA UsageWritten ==
  ASSUME TypeOK, NEW n \in DOMAIN msgs, NEW usage \in {"settled", "released"},
         msgs' = [msgs EXCEPT ![n].usage = usage]
  PROVE  /\ DOMAIN msgs' = DOMAIN msgs /\ msgs'[n].usage # "reserved"
         /\ \A m \in DOMAIN msgs : /\ msgs'[m].status = msgs[m].status
                                   /\ msgs'[m].approval = msgs[m].approval
                                   /\ msgs'[m].usage = "reserved" => msgs[m].usage = "reserved"
<1> DEFINE r == [msgs[n] EXCEPT !.usage = usage]
<1>0. msgs \in Seq(Message) /\ msgs[n] \in Message
  BY DEF TypeOK
<1>a. r \in Message
  BY UsedRowType
<1>b. r.usage = usage /\ r.status = msgs[n].status /\ r.approval = msgs[n].approval
  BY <1>0 DEF Message
<1>1. r \in Message /\ r.usage = usage /\ r.status = msgs[n].status
      /\ r.approval = msgs[n].approval /\ msgs \in Seq(Message)
  BY <1>0, <1>a, <1>b
<1>2. msgs' = [msgs EXCEPT ![n] = r]
  OBVIOUS
<1> HIDE DEF r
<1>3. DOMAIN msgs' = DOMAIN msgs /\ msgs'[n] = r
      /\ \A m \in DOMAIN msgs : m # n => msgs'[m] = msgs[m]
  BY <1>1, <1>2, ReplaceRow
<1> QED BY <1>1, <1>3

LEMMA WrittenRow ==
  ASSUME TypeOK, NEW n \in DOMAIN msgs, NEW status, NEW usage, NEW approval,
         Write(n, status, usage, approval)
  PROVE  /\ DOMAIN msgs' = DOMAIN msgs
         /\ msgs'[n].usage = usage /\ msgs'[n].approval = approval
         /\ msgs'[n].status = status
         /\ \A m \in DOMAIN msgs : m # n => msgs'[m] = msgs[m]
<1>1. msgs \in Seq(Message) /\ msgs[n] \in Message
  BY DEF TypeOK
<1> QED BY <1>1 DEF Write, Message

LEMMA ClosedUsage ==
  ASSUME TypeOK, NEW n \in DOMAIN msgs
  PROVE  /\ msgs[n].usage \in {"reserved", "settled", "released"}
         /\ Settled(msgs[n].usage) \in {"settled", "released"}
         /\ Released(msgs[n].usage) \in {"settled", "released"}
<1>1. msgs[n] \in Message
  BY DEF TypeOK
<1> QED BY <1>1 DEF Message, Settled, Released

LEMMA HoldsStep ==
  ASSUME HoldsOK, TypeOK', LifeAssumption, BoundAssumption, NEW w \in Worker,
         \/ Begin(w) \/ Proceed(w) \/ Escape(w) \/ Crash(w)
         \/ \E m \in DOMAIN msgs : Resume(w, m)
  PROVE  HoldsOK'
<1> USE DEF At
<1>0. /\ turn[w] \in Turn /\ msgs \in Seq(Message)
      /\ \A m \in DOMAIN msgs : msgs[m] \in Message
      /\ turn[w].heal \subseteq DOMAIN msgs
      /\ turn[w].pc \in OnRow => turn[w].msg \in DOMAIN msgs
  BY DEF HoldsOK, TypeOK, OnRow, Generating
<1>same. msgs' = msgs => AskedOnce
  BY DEF AskedOnce
<1>1. CASE Begin(w) \/ \E m \in DOMAIN msgs : Resume(w, m)
  <2>1. PICK t : /\ Acquire(w, t) /\ t.heal = {} /\ t.pc \in {"heal", "resume"}
                 /\ t.pc = "resume" => msgs[t.msg].usage # "reserved"
    <3>1. Begin(w) => Acquire(w, [Idle EXCEPT !.pc = "heal"])
      BY DEF Begin
    <3>2. ASSUME NEW m \in DOMAIN msgs, Resume(w, m)
          PROVE  msgs[m].usage # "reserved" /\ Acquire(w, [Idle EXCEPT !.pc = "resume", !.msg = m])
      BY <3>2 DEF Resume, HoldsOK
    <3>3. /\ [Idle EXCEPT !.pc = "heal"].heal = {} /\ [Idle EXCEPT !.pc = "heal"].pc = "heal"
          /\ \A m \in DOMAIN msgs :
               LET t == [Idle EXCEPT !.pc = "resume", !.msg = m]
               IN  t.heal = {} /\ t.pc = "resume" /\ t.msg = m
      BY DEF Idle
    <3>4. CASE Begin(w)
      BY <3>1, <3>3, <3>4
    <3>5. CASE \E m \in DOMAIN msgs : Resume(w, m)
      <4>1. PICK m \in DOMAIN msgs : Resume(w, m)
        BY <3>5
      <4> DEFINE t == [Idle EXCEPT !.pc = "resume", !.msg = m]
      <4>2. /\ Acquire(w, t) /\ t.heal = {} /\ t.pc = "resume" /\ t.msg = m
            /\ msgs[m].usage # "reserved"
        BY <3>2, <3>3, <4>1
      <4> HIDE DEF t
      <4> QED BY <4>2
    <3> QED BY <1>1, <3>4, <3>5
  <2>2. turn' = [turn EXCEPT ![w] = t] /\ msgs' = msgs /\ lost' = lost /\ turn[w].pc = "idle"
    BY <2>1 DEF Acquire, NoFault
  <2> QED BY <2>1, <2>2, HoldsSame
<1>2. CASE Heal(w)
  <2> DEFINE t == [turn[w] EXCEPT !.pc = IF Stale = {} THEN "check" ELSE "release",
                                  !.heal = Stale]
  <2>1. turn' = [turn EXCEPT ![w] = t] /\ lost' = lost
    BY <1>2 DEF Heal, ToRelease, NoFault
  <2>2. t.heal = Stale /\ (t.heal # {} => t.pc = "release")
        /\ t.pc # "mark" /\ t.pc # "resume"
    BY <1>0 DEF Turn
  <2>3. turn[w].heal = {}
    BY <1>2 DEF Heal, HoldsOK
  <2>4. DOMAIN msgs' = DOMAIN msgs /\ \A m \in DOMAIN msgs :
          /\ msgs'[m].usage = msgs[m].usage
          /\ msgs'[m].approval = msgs[m].approval
          /\ msgs'[m] # msgs[m] => m \in Stale
    BY <1>0, <1>2 DEF Heal, Message
  <2>5. AskedOnce
    BY <2>4 DEF AskedOnce
  <2> HIDE DEF t
  <2> QED BY <2>1, <2>2, <2>3, <2>4, <2>5, HoldsFrame
<1>3. CASE ReleaseHealed(w)
  <2>1. PICK n \in turn[w].heal :
          /\ turn' = [turn EXCEPT ![w].heal = @ \ {n}]
          /\ \/ msgs' = [msgs EXCEPT ![n].usage = Released(@)] /\ NoFault
             \/ Fault({n}) /\ UNCHANGED msgs
    BY <1>3 DEF ReleaseHealed
  <2> DEFINE t == [turn[w] EXCEPT !.heal = turn[w].heal \ {n}]
  <2>2. turn' = [turn EXCEPT ![w] = t] /\ turn[w].pc = "release"
    BY <1>3, <2>1 DEF ReleaseHealed
  <2>3. t.heal = turn[w].heal \ {n} /\ t.pc = "release"
    BY <1>0, <2>2 DEF Turn
  <2>4. /\ DOMAIN msgs' = DOMAIN msgs /\ lost \subseteq lost'
        /\ \A m \in DOMAIN msgs : /\ msgs'[m].status = msgs[m].status
                                  /\ msgs'[m].approval = msgs[m].approval
                                  /\ msgs'[m].usage = "reserved" => msgs[m].usage = "reserved"
        /\ msgs'[n].usage # "reserved" \/ n \in lost'
    <3>1. CASE msgs' = [msgs EXCEPT ![n].usage = Released(@)] /\ NoFault
      <4>1. n \in DOMAIN msgs /\ TypeOK /\ lost' = lost
        BY <1>0, <3>1 DEF HoldsOK, NoFault
      <4> QED BY <3>1, <4>1, ClosedUsage, UsageWritten
    <3>2. CASE Fault({n}) /\ UNCHANGED msgs
      BY <3>2 DEF Fault
    <3> QED BY <2>1, <3>1, <3>2
  <2>5. AskedOnce
    BY <2>4 DEF AskedOnce
  <2> HIDE DEF t
  <2> QED BY <2>2, <2>3, <2>4, <2>5, HoldsFrame
<1>4. CASE Healed(w)
  <2> DEFINE t == [turn[w] EXCEPT !.pc = "check"]
  <2>1. turn' = [turn EXCEPT ![w] = t] /\ msgs' = msgs /\ lost' = lost /\ turn[w].heal = {}
    BY <1>4 DEF Healed, Goto, NoFault
  <2>2. t.heal = {} /\ t.pc = "check"
    BY <1>0, <2>1 DEF Turn
  <2> HIDE DEF t
  <2> QED BY <1>same, <2>1, <2>2, HoldsFrame
<1>5. CASE Check(w)
  <2>1. msgs' = msgs /\ lost' = lost /\ turn[w].pc = "check" /\ turn[w].heal = {}
    BY <1>5 DEF Check, NoFault, HoldsOK
  <2>2. CASE Leave(w)
    BY <1>same, <2>1, <2>2, HoldsLeave
  <2>3. CASE Goto(w, "open")
    <3> DEFINE t == [turn[w] EXCEPT !.pc = "open"]
    <3>1. turn' = [turn EXCEPT ![w] = t] /\ t.heal = {} /\ t.pc = "open"
      BY <1>0, <2>1, <2>3 DEF Goto, Turn
    <3> HIDE DEF t
    <3> QED BY <2>1, <3>1, HoldsSame
  <2>4. CASE turn' = [turn EXCEPT ![w].pc = "open", ![w].question = Last(msgs).question]
    <3> DEFINE t == [turn[w] EXCEPT !.pc = "open", !.question = Last(msgs).question]
    <3>1. turn' = [turn EXCEPT ![w] = t] /\ t.heal = {} /\ t.pc = "open"
      BY <1>0, <2>1, <2>4 DEF Turn
    <3> HIDE DEF t
    <3> QED BY <2>1, <3>1, HoldsSame
  <2> QED BY <1>5, <2>2, <2>3, <2>4 DEF Check
<1>6. CASE Open(w)
  <2> DEFINE t == [turn[w] EXCEPT !.pc = "stream", !.msg = Len(msgs) + 1]
             r == [status |-> "streaming", age |-> 0, usage |-> "reserved",
                   approval |-> "none", question |-> QuestionOf(w)]
  <2>1. /\ turn' = [turn EXCEPT ![w] = t] /\ msgs' = Append(msgs, r) /\ lost' = lost
        /\ turn[w].heal = {}
    BY <1>6 DEF Open, NoFault, HoldsOK
  <2>2. t.heal = {} /\ t.pc = "stream"
    BY <1>0, <2>1 DEF Turn
  <2>3. r.status \in Active /\ r.approval = "none"
    BY DEF Active
  <2> HIDE DEF t, r
  <2>4. /\ DOMAIN msgs' = DOMAIN msgs \union {Len(msgs) + 1}
        /\ \A m \in DOMAIN msgs : msgs'[m] = msgs[m]
        /\ msgs'[Len(msgs) + 1] = r
    BY <1>0, <2>1
  <2>5. AskedOnce
    BY <2>3, <2>4 DEF AskedOnce
  <2> QED BY <2>1, <2>2, <2>3, <2>4, <2>5, HoldsFrame
<1>7. CASE Refuse(w)
  BY <1>7, <1>same, HoldsLeave DEF Refuse, NoFault
<1>8. CASE Complete(w) \/ AwaitApproval(w)
  <2> DEFINE n == turn[w].msg
             usage == Settled(msgs[n].usage)
  <2>1. /\ n \in DOMAIN msgs /\ turn[w].pc = "stream" /\ Leave(w) /\ lost' = lost
        /\ \/ Write(n, "completed", usage, msgs[n].approval)
           \/ Write(n, "pending", usage, "open")
    BY <1>0, <1>8 DEF Complete, AwaitApproval, NoFault, OnRow
  <2>2. usage \in {"settled", "released"}
    BY <2>1, ClosedUsage DEF HoldsOK
  <2> HIDE DEF n, usage
  <2>3. /\ DOMAIN msgs' = DOMAIN msgs /\ msgs'[n].usage # "reserved"
        /\ \A m \in DOMAIN msgs : m # n => msgs'[m] = msgs[m]
    BY <1>0, <2>1, <2>2, WrittenRow DEF HoldsOK
  <2>4. AskedOnce
    BY <2>3 DEF AskedOnce
  <2> QED BY <2>1, <2>3, <2>4, HoldsLeave
<1>9. ASSUME NEW verdict \in Retryable, Break(w, verdict)
      PROVE  HoldsOK'
  <2> DEFINE t == [turn[w] EXCEPT !.pc = "close", !.verdict = verdict]
  <2>1. /\ turn' = [turn EXCEPT ![w] = t] /\ msgs' = msgs /\ lost' = lost
        /\ turn[w].heal = {} /\ turn[w].pc = "stream"
    BY <1>9 DEF Break, AfterBreak, NoFault, HoldsOK
  <2>2. t.heal = {} /\ t.pc = "close"
    BY <1>0, <2>1 DEF Turn
  <2> HIDE DEF t
  <2> QED BY <2>1, <2>2, HoldsSame
<1>10. CASE CloseUsage(w)
  <2> DEFINE t == [turn[w] EXCEPT !.pc = "mark"]
             n == turn[w].msg
  <2>1. /\ turn' = [turn EXCEPT ![w] = t] /\ turn[w].heal = {} /\ n \in DOMAIN msgs
    BY <1>0, <1>10 DEF CloseUsage, Goto, HoldsOK, OnRow
  <2>2. t.heal = {} /\ t.pc = "mark" /\ t.msg = n
    BY <1>0, <2>1 DEF Turn
  <2>3. \/ /\ lost \subseteq lost'
           /\ \/ msgs' = [msgs EXCEPT ![n].usage = Settled(msgs[n].usage)]
              \/ msgs' = [msgs EXCEPT ![n].usage = Released(msgs[n].usage)]
        \/ msgs' = msgs /\ lost' = lost \union {n}
    BY <1>10 DEF CloseUsage, NoFault, Fault
  <2> HIDE DEF t, n
  <2>4. /\ DOMAIN msgs' = DOMAIN msgs /\ lost \subseteq lost'
        /\ \A m \in DOMAIN msgs : /\ msgs'[m].status = msgs[m].status
                                  /\ msgs'[m].approval = msgs[m].approval
                                  /\ msgs'[m].usage = "reserved" => msgs[m].usage = "reserved"
        /\ msgs'[n].usage # "reserved" \/ n \in lost'
    <3>1. CASE msgs' = msgs /\ lost' = lost \union {n}
      BY <3>1
    <3>2. CASE lost \subseteq lost' /\ msgs' = [msgs EXCEPT ![n].usage = Settled(msgs[n].usage)]
      BY <2>1, <3>2, ClosedUsage, UsageWritten DEF HoldsOK
    <3>3. CASE lost \subseteq lost' /\ msgs' = [msgs EXCEPT ![n].usage = Released(msgs[n].usage)]
      BY <2>1, <3>3, ClosedUsage, UsageWritten DEF HoldsOK
    <3> QED BY <2>3, <3>1, <3>2, <3>3
  <2>5. AskedOnce
    BY <2>4 DEF AskedOnce
  <2> QED BY <2>1, <2>2, <2>4, <2>5, HoldsFrame
<1>11. CASE Mark(w)
  <2> DEFINE n == turn[w].msg
  <2>1. /\ n \in DOMAIN msgs /\ turn[w].pc = "mark" /\ Leave(w) /\ lost \subseteq lost'
        /\ msgs[n].usage # "reserved" \/ n \in lost
    BY <1>0, <1>11 DEF Mark, NoFault, Fault, OnRow, HoldsOK
  <2>2. msgs' = msgs \/ Write(n, turn[w].verdict, msgs[n].usage, msgs[n].approval)
    BY <1>11 DEF Mark
  <2> HIDE DEF n
  <2>3. /\ DOMAIN msgs' = DOMAIN msgs
        /\ \A m \in DOMAIN msgs : /\ msgs'[m].usage = msgs[m].usage
                                  /\ msgs'[m].approval = msgs[m].approval
                                  /\ m # n => msgs'[m] = msgs[m]
    BY <1>0, <2>1, <2>2, WrittenRow DEF HoldsOK
  <2>4. AskedOnce
    BY <2>3 DEF AskedOnce
  <2> QED BY <2>1, <2>3, <2>4, HoldsLeave
<1>15. CASE Answer(w) \/ GiveUp(w)
  <2> DEFINE n == turn[w].msg
  <2>1. /\ n \in DOMAIN msgs /\ turn[w].pc = "resume" /\ Leave(w) /\ lost' = lost
        /\ \/ msgs' = msgs
           \/ Write(n, "completed", msgs[n].usage, "used")
           \/ \E approval \in {msgs[n].approval, "used"} :
                Write(n, "failed", msgs[n].usage, approval)
    BY <1>0, <1>15 DEF Answer, GiveUp, NoFault, OnRow
  <2>2. msgs[n].usage # "reserved"
    BY <1>0, <2>1 DEF HoldsOK
  <2> HIDE DEF n
  <2>3. /\ DOMAIN msgs' = DOMAIN msgs /\ msgs'[n].usage = msgs[n].usage
        /\ \A m \in DOMAIN msgs : m # n => msgs'[m] = msgs[m]
    BY <1>0, <2>1, WrittenRow DEF HoldsOK
  <2>4. AskedOnce
    BY <2>2, <2>3 DEF AskedOnce
  <2> QED BY <2>1, <2>2, <2>3, <2>4, HoldsLeave
<1>12. CASE Unlock(w)
  <2>1. turn[w].pc = "unlock" /\ turn' = [turn EXCEPT ![w] = Idle] /\ msgs' = msgs
        /\ lost \subseteq lost'
    BY <1>12 DEF Unlock, End, NoFault, Fault
  <2> QED BY <1>same, <2>1, HoldsLeave
<1>13. CASE Escape(w)
  BY <1>13, <1>same, HoldsLeave DEF Escape, Fault
<1>14. CASE Crash(w)
  <2>1. /\ turn' = [turn EXCEPT ![w] = Idle] /\ msgs' = msgs
        /\ lost' = lost \union turn[w].heal
    BY <1>14 DEF Crash, End, Fault
  <2>2. Idle.heal = {} /\ Idle.pc = "idle"
    BY DEF Idle
  <2> QED BY <1>same, <2>1, <2>2, HoldsFrame
<1> QED BY <1>1, <1>2, <1>3, <1>4, <1>5, <1>6, <1>7, <1>8, <1>9, <1>10, <1>11, <1>12,
           <1>13, <1>14, <1>15 DEF Proceed

LEMMA HoldsTick ==
  ASSUME HoldsOK, TypeOK', Tick \/ UNCHANGED vars
  PROVE  HoldsOK'
<1>1. /\ turn' = turn /\ lost' = lost /\ DOMAIN msgs' = DOMAIN msgs
      /\ \A m \in DOMAIN msgs : /\ msgs'[m].usage = msgs[m].usage
                                /\ msgs'[m].status = msgs[m].status
                                /\ msgs'[m].approval = msgs[m].approval
  <2>1. \A m \in DOMAIN msgs : msgs[m] \in Message
    BY DEF HoldsOK, TypeOK
  <2>2. CASE Tick
    BY <2>1, <2>2 DEF Tick, NoFault, Message
  <2> QED BY <2>2 DEF vars
<1>2. \A w \in Worker :
        turn[w].pc \in {"mark", "resume"} => turn[w].msg \in DOMAIN msgs
  BY DEF HoldsOK, TypeOK, Generating, At
<1> QED BY <1>1, <1>2 DEF HoldsOK, NoForgottenHold

\* A refusal marks a row whose hold is closed.
LEMMA HoldsDecline ==
  ASSUME HoldsOK, TypeOK', NEW m \in DOMAIN msgs, Decline(m)
  PROVE  HoldsOK'
<1>1. /\ msgs[m].approval # "none" /\ Write(m, "failed", msgs[m].usage, "used")
      /\ turn' = turn /\ lost' = lost
  BY DEF Decline, NoFault
<1>2. /\ DOMAIN msgs' = DOMAIN msgs /\ msgs'[m].usage = msgs[m].usage
      /\ \A n \in DOMAIN msgs : n # m => msgs'[n] = msgs[n]
  BY <1>1, WrittenRow DEF HoldsOK
<1>3. msgs[m].usage # "reserved"
  BY <1>1 DEF HoldsOK
<1>4. \A w \in Worker :
        turn[w].pc \in {"mark", "resume"} => turn[w].msg \in DOMAIN msgs
  BY DEF HoldsOK, TypeOK, Generating, At
<1> QED BY <1>1, <1>2, <1>3, <1>4 DEF HoldsOK, NoForgottenHold

\* A row that is over keeps its hold only while a turn is about to give it back,
\* or if the transaction that would have closed it was lost, however long turns
\* last (chat_orchestrator.py: the handlers of stream_turn; repository.py: the healing).
THEOREM HoldsAreNotForgotten == Spec => []NoForgottenHold
<1>1. Init => HoldsOK
  <2>1. Init => TypeOK
    BY InitType, LifeAssumption, BoundAssumption
  <2>2. Init => DOMAIN msgs = {} /\ \A w \in Worker : turn[w].heal = {} /\ turn[w].pc = "idle"
    BY DEF Init, Idle
  <2> QED BY <2>1, <2>2 DEF HoldsOK, NoForgottenHold
<1>2. ASSUME HoldsOK, [Next]_vars PROVE HoldsOK'
  <2>1. TypeOK'
    BY <1>2, NextType, LifeAssumption, BoundAssumption DEF HoldsOK
  <2> QED BY <1>2, <2>1, HoldsStep, HoldsTick, HoldsDecline, LifeAssumption, BoundAssumption DEF Next
<1>3. HoldsOK => NoForgottenHold
  BY DEF HoldsOK
<1> QED BY <1>1, <1>2, <1>3, PTL DEF Spec
=============================================================================
