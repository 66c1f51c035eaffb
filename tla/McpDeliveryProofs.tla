------------------------- MODULE McpDeliveryProofs -------------------------
(***************************************************************************)
(* Proofs about McpDelivery for any number of segments, processes, attempts*)
(* and faults: if the provider's refusals mean what they say (~Garbled),   *)
(* no segment is given to it twice, the rows tell the truth, and the chat  *)
(* reads the segments in order: the rows implement AnswerOutbox.           *)
(*                                                                         *)
(* The argument: a row becomes pending again only by the call that claimed *)
(* it, when the provider refused it.  So there is one call of a row at     *)
(* most, none of a pending row, and a call that has not sent yet is of a   *)
(* row that nobody sent.  A segment that is claimed has no row before it   *)
(* that can still be claimed, and such a row never comes back.             *)
(***************************************************************************)
EXTENDS McpDelivery, SequenceTheorems, TLAPS

Row == [status : Statuses, attempts : 0 .. MaxAttempts, left : 0 .. Ttl,
        lease : 0 .. Lease, reconciled : BOOLEAN]

\* What a row says about the chat is true: "sent" was taken unless an operator
\* said so, and "pending" and "expired" mean that nothing left the house.
RowIsTrue ==
  \A i \in DOMAIN rows :
    /\ rows[i].status = "sent" /\ ~rows[i].reconciled => Took(i)
    /\ rows[i].status \in {"pending", "expired"} => ~Took(i)

\* A call belongs to one row, which cannot be claimed as long as it lasts.
Single ==
  /\ \A c \in calls : rows[c.row].status \notin {"pending", "expired"}
  /\ \A c, d \in calls : c.row = d.row => c = d

\* What the provider took is known to the call that sent it.
Known ==
  /\ \A c \in calls : c.pc \in {"send", "release"} => ~Took(c.row)
  /\ \A c \in calls : c.pc = "mark_sent" => Took(c.row)

\* Once a segment was claimed, all earlier ones are settled.
Reached(j) == Took(j) \/ \E c \in calls : c.row = j
Ordered ==
  \A i, j \in DOMAIN rows : i < j /\ Reached(j) => rows[i].status \notin Blocking

\* An operator decides only what will not be sent or marked again.
Decided ==
  \A i \in DOMAIN rows : rows[i].reconciled => rows[i].status \in {"sent", "cancelled"}

Inv == TypeOK /\ SentOnce /\ RowIsTrue /\ Single /\ Known /\ Ordered /\ Decided

USE SizeAssumption, LifeAssumption, GarbledAssumption

-----------------------------------------------------------------------------
\* The moves of a row that say nothing about the provider.
Quiet(a, b) ==
  \/ b.status = "gone" /\ ~b.reconciled
  \/ /\ b.reconciled = a.reconciled
     /\ \/ b.status = a.status
        \/ a.status \in {"pending", "dispatching"} /\ b.status = "cancelled"
        \/ a.status = "pending" /\ b.status = "expired"
        \/ a.status = "dispatching" /\ b.status = "delivery_unknown"
  \/ a.status = "delivery_unknown" /\ b.status \in {"sent", "cancelled"} /\ b.reconciled

QuietStep ==
  /\ DOMAIN rows' = DOMAIN rows
  /\ \A i \in DOMAIN rows : Quiet(rows[i], rows'[i])
  /\ calls' \subseteq calls
  /\ accepted' = accepted

\* The parts of a row that the operators on rows keep in their type.
LEMMA RowTypes ==
  ASSUME NEW row \in Row
  PROVE  /\ Cancelled(row) \in Row /\ Lost(row) \in Row /\ Purged(row) \in Row
         /\ Terminal(row) \in Row /\ Gone \in Row /\ New \in Row
         /\ row.attempts < MaxAttempts => Claimed(row) \in Row
         /\ \A outcome \in Outcomes : Result(row, outcome) \in Row
         /\ [row EXCEPT !.left = Older(@), !.lease = Older(@)] \in Row
         /\ \A status \in Statuses, b \in BOOLEAN :
              [row EXCEPT !.status = status] \in Row
              /\ [row EXCEPT !.status = status, !.reconciled = b] \in Row
<1>0. /\ row.status \in Statuses /\ row.attempts \in 0 .. MaxAttempts
      /\ row.left \in 0 .. Ttl /\ row.lease \in 0 .. Lease /\ row.reconciled \in BOOLEAN
      /\ 0 \in 0 .. Lease /\ Lease \in 0 .. Lease /\ 0 \in 0 .. Ttl /\ 0 \in 0 .. MaxAttempts
      /\ {"dispatching", "cancelled", "gone", "pending", "sent", "delivery_unknown"} \subseteq Statuses
      /\ Ttl \in 0 .. Ttl
  BY DEF Row, Statuses
<1> USE DEF Row
<1>1. \A status \in Statuses : Marked(row, status) \in Row
  BY <1>0 DEF Marked
<1>2. Cancelled(row) \in Row
  BY <1>0 DEF Cancelled
<1>3. Lost(row) \in Row
  BY <1>0, <1>1 DEF Lost
<1>4. Gone \in Row /\ New \in Row
  BY <1>0 DEF Gone, New
<1>5. Purged(row) \in Row
  BY <1>4 DEF Purged
<1>6. Terminal(row) \in Row
  BY <1>0, <1>1, <1>2 DEF Terminal
<1>7. row.attempts < MaxAttempts => Claimed(row) \in Row
  <2>1. row.attempts < MaxAttempts => row.attempts + 1 \in 0 .. MaxAttempts
    BY <1>0
  <2> QED BY <1>0, <2>1 DEF Claimed
<1>8. ASSUME NEW outcome \in Outcomes PROVE Result(row, outcome) \in Row
  BY <1>0, <1>1, <1>8 DEF Result, Released, Outcomes
<1>9. [row EXCEPT !.left = Older(@), !.lease = Older(@)] \in Row
  <2>1. Older(row.left) \in 0 .. Ttl /\ Older(row.lease) \in 0 .. Lease
    BY <1>0 DEF Older
  <2> QED BY <1>0, <2>1
<1>10. \A status \in Statuses, b \in BOOLEAN :
         [row EXCEPT !.status = status] \in Row
         /\ [row EXCEPT !.status = status, !.reconciled = b] \in Row
  BY <1>0
<1> QED BY <1>2, <1>3, <1>4, <1>5, <1>6, <1>7, <1>8, <1>9, <1>10

\* A row with a lease is dispatching: the operators on rows keep that too.
Leased(row) == row.lease > 0 => row.status = "dispatching"
LEMMA RowLeases ==
  ASSUME NEW row \in Row, Leased(row)
  PROVE  /\ Leased(Cancelled(row)) /\ Leased(Lost(row)) /\ Leased(Purged(row))
         /\ Leased(Terminal(row)) /\ Leased(Gone) /\ Leased(New)
         /\ Leased(Claimed(row))
         /\ \A outcome \in Outcomes : Leased(Result(row, outcome))
         /\ Leased([row EXCEPT !.left = Older(@), !.lease = Older(@)])
         /\ row.status # "dispatching" =>
              \A status \in Statuses, b \in BOOLEAN :
                Leased([row EXCEPT !.status = status])
                /\ Leased([row EXCEPT !.status = status, !.reconciled = b])
<1> USE DEF Row, Leased
<1>1. \A status \in Statuses : Leased(Marked(row, status))
  BY DEF Marked
<1>2. Leased(Cancelled(row))
  BY DEF Cancelled
<1>3. Leased(Lost(row))
  BY <1>1 DEF Lost, Statuses
<1>4. Leased(Gone) /\ Leased(New)
  BY DEF Gone, New
<1>5. Leased(Purged(row))
  BY <1>4 DEF Purged
<1>6. Leased(Terminal(row))
  BY <1>1, <1>2 DEF Terminal, Statuses
<1>7. Leased(Claimed(row))
  BY DEF Claimed
<1>8. ASSUME NEW outcome \in Outcomes PROVE Leased(Result(row, outcome))
  BY <1>1, <1>8 DEF Result, Released, Outcomes, Statuses
<1>9. Leased([row EXCEPT !.left = Older(@), !.lease = Older(@)])
  BY DEF Older
<1>10. row.status # "dispatching" =>
         \A status \in Statuses, b \in BOOLEAN :
           Leased([row EXCEPT !.status = status])
           /\ Leased([row EXCEPT !.status = status, !.reconciled = b])
  OBVIOUS
<1> QED BY <1>2, <1>3, <1>4, <1>5, <1>6, <1>7, <1>8, <1>9, <1>10

\* The same operators as moves of a row.
LEMMA RowMoves ==
  ASSUME NEW row \in Row
  PROVE  /\ Quiet(row, row) /\ Quiet(row, Cancelled(row)) /\ Quiet(row, Gone)
         /\ Quiet(row, Purged(Lost(row))) /\ Quiet(row, Terminal(row))
         /\ row.status = "pending" => Quiet(row, Cancelled(Claimed(row)))
         /\ row.status = "pending" => Quiet(row, [row EXCEPT !.status = "expired"])
         /\ Quiet(row, Result(row, "mark_unknown"))
         /\ Quiet(row, [row EXCEPT !.left = Older(@), !.lease = Older(@)])
         /\ row.status = "delivery_unknown" =>
              \A status \in {"sent", "cancelled"} :
                Quiet(row, [row EXCEPT !.status = status, !.reconciled = TRUE])
<1> USE DEF Row, Quiet
<1>1. Quiet(row, Cancelled(row)) /\ Quiet(row, row)
  BY DEF Cancelled
<1>2. Quiet(row, Gone)
  BY DEF Gone
<1>3. Quiet(row, Lost(row)) /\ Quiet(row, Purged(Lost(row)))
  <2>1. Lost(row).status = "delivery_unknown" \/ Lost(row) = row
    BY DEF Lost, Marked
  <2>2. Quiet(row, Lost(row))
    BY DEF Lost, Marked
  <2>3. Purged(Lost(row)) \in {Gone, Lost(row)}
    BY DEF Purged
  <2> QED BY <1>2, <2>2, <2>3
<1>4. Quiet(row, Terminal(row))
  BY <1>1 DEF Terminal, Marked
<1>5. row.status = "pending" => Quiet(row, Cancelled(Claimed(row)))
  BY DEF Cancelled, Claimed
<1>6. row.status = "pending" => Quiet(row, [row EXCEPT !.status = "expired"])
  OBVIOUS
<1>7. Quiet(row, Result(row, "mark_unknown"))
  BY DEF Result, Marked
<1>8. Quiet(row, [row EXCEPT !.left = Older(@), !.lease = Older(@)])
  OBVIOUS
<1>9. row.status = "delivery_unknown" =>
        \A status \in {"sent", "cancelled"} :
          Quiet(row, [row EXCEPT !.status = status, !.reconciled = TRUE])
  OBVIOUS
<1> QED BY <1>1, <1>2, <1>3, <1>4, <1>5, <1>6, <1>7, <1>8, <1>9

-----------------------------------------------------------------------------
\* A function on 1 .. n is a sequence of length n.
LEMMA SeqOfValues ==
  ASSUME NEW S, NEW f, NEW n \in Nat, f \in [1 .. n -> S]
  PROVE  f \in Seq(S) /\ Len(f) = n /\ DOMAIN f = 1 .. n
<1>1. f \in Seq(S)
  BY SeqDef
<1>2. DOMAIN f = 1 .. n /\ DOMAIN f = 1 .. Len(f) /\ Len(f) \in Nat
  BY <1>1, LenProperties
<1>3. Len(f) = n
  <2>1. CASE n = 0
    <3>1. 1 .. Len(f) = {}
      BY <1>2, <2>1
    <3>2. Len(f) \notin Nat \ {0}
      BY <3>1
    <3> QED BY <1>2, <2>1, <3>2
  <2>2. CASE n # 0
    <3>1. n \in 1 .. Len(f)
      BY <1>2, <2>2
    <3>2. Len(f) \in 1 .. n
      BY <1>2, <3>1
    <3> QED BY <1>2, <3>1, <3>2
  <2> QED BY <2>1, <2>2
<1> QED BY <1>1, <1>2, <1>3

\* The typing of the variables, in the terms of the lemmas above.
Typed ==
  /\ rows \in Seq(Row) /\ Len(rows) \in 0 .. MaxRows /\ DOMAIN rows = 1 .. Len(rows)
  /\ tasks \subseteq DOMAIN rows
  /\ \A i \in DOMAIN rows : rows[i] \in Row /\ Leased(rows[i])
  /\ calls \subseteq [row : DOMAIN rows, attempt : 1 .. MaxAttempts,
                      pc : {"send"} \union Outcomes]
  /\ channel \in {"ready", "denied", "changed", "revoked"} /\ open \in BOOLEAN
  /\ accepted \in Seq(DOMAIN rows)
  /\ faults \in 0 .. MaxFaults

LEMMA TypedIsTypeOK == TypeOK <=> Typed
<1>1. ASSUME rows \in Seq(Row)
      PROVE  /\ Len(rows) \in Nat /\ DOMAIN rows = 1 .. Len(rows)
             /\ \A i \in DOMAIN rows : rows[i] \in Row
  BY <1>1, LenProperties, ElementOfSeq
<1>2. TypeOK => rows \in Seq(Row)
  BY DEF TypeOK, Row
<1>3. TypeOK => Typed
  BY <1>1, <1>2 DEF TypeOK, Typed, Leased
<1>4. Typed => TypeOK
  BY DEF TypeOK, Typed, Row, Leased
<1> QED BY <1>3, <1>4

LEMMA TypedNext == Typed' => TypeOK'
BY TypedIsTypeOK, PTL

\* One row is written, or all of them are mapped.
LEMMA OneRow ==
  ASSUME Typed, NEW i \in DOMAIN rows, NEW row \in Row, Leased(row), Write(i, row)
  PROVE  /\ rows' \in Seq(Row) /\ Len(rows') = Len(rows) /\ DOMAIN rows' = DOMAIN rows
         /\ \A j \in DOMAIN rows : rows'[j] = IF j = i THEN row ELSE rows[j]
         /\ \A j \in DOMAIN rows : rows'[j] \in Row /\ Leased(rows'[j])
<1>1. rows' = [rows EXCEPT ![i] = row] /\ i \in 1 .. Len(rows)
  BY DEF Typed, Write
<1>2. rows' \in Seq(Row) /\ Len(rows') = Len(rows)
  BY <1>1, ExceptSeq DEF Typed
<1>3. DOMAIN rows' = DOMAIN rows
  BY <1>2, LenProperties DEF Typed
<1>4. \A j \in DOMAIN rows : rows'[j] = IF j = i THEN row ELSE rows[j]
  BY <1>1 DEF Typed
<1> QED BY <1>2, <1>3, <1>4 DEF Typed

LEMMA AllRows ==
  ASSUME Typed, DOMAIN rows' = DOMAIN rows, rows' = [i \in DOMAIN rows |-> rows'[i]],
         \A i \in DOMAIN rows : rows'[i] \in Row /\ Leased(rows'[i])
  PROVE  rows' \in Seq(Row) /\ Len(rows') = Len(rows)
<1>1. rows' \in [1 .. Len(rows) -> Row] /\ Len(rows) \in Nat
  BY DEF Typed
<1> QED BY <1>1, SeqOfValues

-----------------------------------------------------------------------------
LEMMA InitInv ==
  ASSUME Init
  PROVE  Inv
<1>1. Typed
  <2>1. rows = <<>> /\ rows \in Seq(Row) /\ Len(rows) = 0 /\ DOMAIN rows = {}
    BY EmptySeq DEF Init
  <2>2. accepted \in Seq(DOMAIN rows)
    BY EmptySeq DEF Init
  <2> QED BY <2>1, <2>2 DEF Init, Typed
<1>2. DOMAIN accepted = {} /\ calls = {} /\ DOMAIN rows = {}
  BY EmptySeq DEF Init
<1> QED BY <1>1, <1>2, TypedIsTypeOK
        DEF Inv, SentOnce, RowIsTrue, Single, Known, Ordered, Decided

\* Quiet steps keep all but the types, which each action keeps for itself.
LEMMA QuietKeeps ==
  ASSUME Inv, QuietStep
  PROVE  SentOnce' /\ RowIsTrue' /\ Single' /\ Known' /\ Ordered' /\ Decided'
<1>0. /\ Typed
      /\ \A c \in calls : c.row \in DOMAIN rows
      /\ \A i \in DOMAIN rows : rows[i].status \in Statuses
  BY TypedIsTypeOK DEF Inv, Typed, Row
<1>1. SentOnce'
  BY DEF Inv, SentOnce, QuietStep
<1>2. \A i : Took(i)' <=> Took(i)
  BY DEF QuietStep, Took
<1>3. \A i : Reached(i)' => Reached(i)
  BY <1>2 DEF QuietStep, Reached
<1>4. RowIsTrue'
  BY <1>0, <1>2 DEF Inv, RowIsTrue, QuietStep, Quiet, Statuses
<1>5. Single'
  BY <1>0 DEF Inv, Single, QuietStep, Quiet, Statuses
<1>6. Known'
  BY <1>2 DEF Inv, Known, QuietStep
<1>7. Ordered'
  BY <1>0, <1>3 DEF Inv, Ordered, QuietStep, Quiet, Blocking, Statuses
<1>8. Decided'
  BY <1>0 DEF Inv, Decided, QuietStep, Quiet, Statuses
<1> QED BY <1>1, <1>4, <1>5, <1>6, <1>7, <1>8

-----------------------------------------------------------------------------
\* A quiet step that writes one row.
LEMMA QuietWrite ==
  ASSUME Typed, NEW i \in DOMAIN rows, NEW row \in Row, Leased(row), Write(i, row),
         Quiet(rows[i], row),
         calls' \subseteq calls, tasks' \subseteq DOMAIN rows, accepted' = accepted,
         channel' = channel, open' = open, faults' = faults
  PROVE  Typed' /\ QuietStep
<1>1. /\ rows' \in Seq(Row) /\ Len(rows') = Len(rows) /\ DOMAIN rows' = DOMAIN rows
      /\ \A j \in DOMAIN rows : rows'[j] = IF j = i THEN row ELSE rows[j]
      /\ \A j \in DOMAIN rows : rows'[j] \in Row /\ Leased(rows'[j])
  BY OneRow
<1>2. Typed'
  BY <1>1 DEF Typed, Leased
<1>3. \A j \in DOMAIN rows : Quiet(rows[j], rows'[j])
  BY <1>1 DEF Quiet
<1> QED BY <1>1, <1>2, <1>3 DEF QuietStep

\* A quiet step that leaves the rows alone.
LEMMA QuietElse ==
  ASSUME Typed, rows' = rows, calls' \subseteq calls, tasks' \subseteq DOMAIN rows,
         accepted' = accepted, open' \in BOOLEAN, faults' \in 0 .. MaxFaults,
         channel' \in {"ready", "denied", "changed", "revoked"}
  PROVE  Typed' /\ QuietStep
<1>1. Typed'
  BY DEF Typed, Leased
<1>2. \A i \in DOMAIN rows : Quiet(rows[i], rows'[i])
  BY DEF Quiet
<1> QED BY <1>1, <1>2 DEF QuietStep

\* The tasks that find nothing to send, or may not.
LEMMA IdleSteps ==
  ASSUME Typed, NEW i \in DOMAIN rows, Deny(i) \/ Expire(i) \/ Skip(i) \/ Withdraw(i)
  PROVE  Typed' /\ QuietStep
<1>0. /\ rows[i] \in Row /\ Leased(rows[i])
      /\ tasks' = tasks \ {i} /\ tasks' \subseteq DOMAIN rows
      /\ calls' \subseteq calls /\ accepted' = accepted
      /\ channel' = channel /\ open' = open /\ faults' = faults
  BY DEF Typed, Deny, Expire, Skip, Withdraw, Take
<1>1. CASE Deny(i)
  <2>1. Write(i, Cancelled(rows[i]))
    BY <1>1 DEF Deny
  <2>2. Cancelled(rows[i]) \in Row /\ Leased(Cancelled(rows[i]))
        /\ Quiet(rows[i], Cancelled(rows[i]))
    BY <1>0, RowTypes, RowLeases, RowMoves
  <2> QED BY <1>0, <2>1, <2>2, QuietWrite
<1>2. CASE Expire(i) /\ rows[i].left = 0
  <2> DEFINE row == [rows[i] EXCEPT !.status = "expired"]
  <2>1. Write(i, row) /\ rows[i].status = "pending"
    BY <1>2 DEF Expire, Claimable
  <2>2. row \in Row /\ Leased(row)
    BY <1>0, <2>1 DEF Row, Statuses, Leased
  <2>3. Quiet(rows[i], row)
    BY <1>0, <2>1, RowMoves
  <2> QED BY <1>0, <2>1, <2>2, <2>3, QuietWrite
<1>3. CASE Expire(i) /\ rows[i].left # 0
  <2>1. Write(i, Cancelled(rows[i]))
    BY <1>3 DEF Expire
  <2>2. Cancelled(rows[i]) \in Row /\ Leased(Cancelled(rows[i]))
        /\ Quiet(rows[i], Cancelled(rows[i]))
    BY <1>0, RowTypes, RowLeases, RowMoves
  <2> QED BY <1>0, <2>1, <2>2, QuietWrite
<1>4. CASE Skip(i)
  <2>1. rows' = rows
    BY <1>4 DEF Skip
  <2> QED BY <1>0, <2>1, QuietElse DEF Typed
<1>5. CASE Withdraw(i)
  <2> DEFINE claimed == Claimed(rows[i])
  <2>1. Write(i, Cancelled(claimed)) /\ rows[i].status = "pending"
        /\ rows[i].attempts < MaxAttempts
    BY <1>0, <1>5 DEF Withdraw, Claimable, Overdue, Row
  <2>2. claimed \in Row /\ Leased(claimed)
    BY <1>0, <2>1, RowTypes, RowLeases
  <2>3. Cancelled(claimed) \in Row /\ Leased(Cancelled(claimed))
    BY <2>2, RowTypes, RowLeases
  <2>4. Quiet(rows[i], Cancelled(claimed))
    BY <1>0, <2>1, RowMoves
  <2> QED BY <1>0, <2>1, <2>3, <2>4, QuietWrite
<1> QED BY <1>1, <1>2, <1>3, <1>4, <1>5

\* Faults, and whatever an operator or an admin does.
LEMMA OutsideSteps ==
  ASSUME Typed,
         \/ \E i \in DOMAIN rows : Redeliver(i) \/ Lose(i)
         \/ \E call \in calls : Die(call)
         \/ \E i \in DOMAIN rows, status \in {"sent", "cancelled"} : Reconcile(i, status)
         \/ \E now \in {"ready", "denied", "changed"} : Alter(now)
  PROVE  Typed' /\ QuietStep
<1>1. ASSUME NEW i \in DOMAIN rows, Redeliver(i) \/ Lose(i) PROVE Typed' /\ QuietStep
  BY <1>1, QuietElse DEF Redeliver, Lose, Fault, Typed
<1>2. ASSUME NEW call \in calls, Die(call) PROVE Typed' /\ QuietStep
  <2>1. call.row \in DOMAIN rows
    BY DEF Typed
  <2> QED BY <1>2, <2>1, QuietElse DEF Die, Fault, Typed
<1>3. ASSUME NEW i \in DOMAIN rows, NEW status \in {"sent", "cancelled"}, Reconcile(i, status)
      PROVE  Typed' /\ QuietStep
  <2> DEFINE row == [rows[i] EXCEPT !.status = status, !.reconciled = TRUE]
  <2>0. rows[i] \in Row /\ Leased(rows[i]) /\ status \in Statuses
    BY DEF Typed, Statuses
  <2>1. Write(i, row) /\ rows[i].status = "delivery_unknown"
        /\ UNCHANGED <<tasks, calls, channel, open, accepted, faults>>
    BY <1>3 DEF Reconcile
  <2>2. row \in Row /\ Leased(row)
    <3>1. TRUE \in BOOLEAN
      OBVIOUS
    <3> QED BY <2>0, <2>1, <3>1, RowTypes, RowLeases
  <2>3. Quiet(rows[i], row)
    BY <2>0, <2>1, RowMoves
  <2>4. calls' \subseteq calls /\ tasks' \subseteq DOMAIN rows
    BY <2>1 DEF Typed
  <2> QED BY <2>1, <2>2, <2>3, <2>4, QuietWrite
<1>4. ASSUME NEW new \in {"ready", "denied", "changed"}, Alter(new) PROVE Typed' /\ QuietStep
  BY <1>4, QuietElse DEF Alter, Typed
<1> QED BY <1>1, <1>2, <1>3, <1>4

\* The steps that write all rows.
LEMMA SweepingSteps ==
  ASSUME Typed, Sweep \/ TearDown \/ Retire \/ Tick
  PROVE  Typed' /\ QuietStep
<1> DEFINE F(row) == Purged(Lost(row))
           G(row) == [row EXCEPT !.left = Older(@), !.lease = Older(@)]
           H(row) == Terminal(row)
<1>0. \A i \in DOMAIN rows : rows[i] \in Row /\ Leased(rows[i])
  BY DEF Typed
<1>1. /\ DOMAIN rows' = DOMAIN rows /\ rows' = [i \in DOMAIN rows |-> rows'[i]]
      /\ \A i \in DOMAIN rows : rows'[i] \in {F(rows[i]), G(rows[i]), H(rows[i]), Gone}
  <2> HIDE DEF F, G, H
  <2>1. CASE Sweep
    <3>1. rows' = [i \in DOMAIN rows |-> F(rows[i])]
      BY <2>1 DEF Sweep, F
    <3> QED BY <3>1
  <2>2. CASE TearDown
    <3>1. rows' = [i \in DOMAIN rows |-> H(rows[i])]
      BY <2>2 DEF TearDown, H
    <3> QED BY <3>1
  <2>3. CASE Retire
    BY <2>3 DEF Retire
  <2>4. CASE Tick
    <3>1. rows' = [i \in DOMAIN rows |-> G(rows[i])]
      BY <2>4 DEF Tick, G
    <3> QED BY <3>1
  <2> QED BY <2>1, <2>2, <2>3, <2>4
<1>2. ASSUME NEW row \in Row, Leased(row)
      PROVE  \A new \in {F(row), G(row), H(row), Gone} :
               new \in Row /\ Leased(new) /\ Quiet(row, new)
  <2>1. Lost(row) \in Row /\ Leased(Lost(row))
    BY <1>2, RowTypes, RowLeases
  <2>2. F(row) \in Row /\ Leased(F(row)) /\ Quiet(row, F(row))
    BY <1>2, <2>1, RowTypes, RowLeases, RowMoves
  <2>3. G(row) \in Row /\ Leased(G(row)) /\ Quiet(row, G(row))
    BY <1>2, RowTypes, RowLeases, RowMoves
  <2>4. H(row) \in Row /\ Leased(H(row)) /\ Quiet(row, H(row))
    BY <1>2, RowTypes, RowLeases, RowMoves
  <2>5. Gone \in Row /\ Leased(Gone) /\ Quiet(row, Gone)
    BY <1>2, RowTypes, RowLeases, RowMoves
  <2> HIDE DEF F, G, H
  <2> QED BY <2>2, <2>3, <2>4, <2>5
<1> HIDE DEF F, G, H
<1>3. \A i \in DOMAIN rows : rows'[i] \in Row /\ Leased(rows'[i]) /\ Quiet(rows[i], rows'[i])
  BY <1>0, <1>1, <1>2
<1>4. rows' \in Seq(Row) /\ Len(rows') = Len(rows)
  BY <1>1, <1>3, AllRows
<1>5. /\ calls' = calls /\ accepted' = accepted /\ faults' = faults
      /\ tasks' \subseteq DOMAIN rows /\ open' \in BOOLEAN
      /\ channel' \in {"ready", "denied", "changed", "revoked"}
  BY DEF Sweep, TearDown, Retire, Tick, Typed, FirstPending, PendingRows
<1>6. Typed'
  BY <1>1, <1>3, <1>4, <1>5 DEF Typed, Leased
<1> QED BY <1>1, <1>3, <1>5, <1>6 DEF QuietStep

-----------------------------------------------------------------------------
\* What the other steps do to the rows, and that they keep the types.
LEMMA EnqueueRows ==
  ASSUME Typed, NEW n \in 1 .. MaxRows, Enqueue(n)
  PROVE  /\ Typed' /\ DOMAIN rows \subseteq DOMAIN rows' /\ Len(rows') = Len(rows) + n
         /\ \A i \in DOMAIN rows' : rows'[i] = IF i \in DOMAIN rows THEN rows[i] ELSE New
<1>0. Len(rows) \in Nat /\ n \in Nat
  BY DEF Typed
<1> DEFINE fresh == [k \in 1 .. n |-> New]
<1>1. New \in Row /\ Leased(New) /\ New.status = "pending"
  BY DEF New, Row, Leased, Statuses
<1>2. fresh \in Seq(Row) /\ Len(fresh) = n
  BY <1>0, <1>1, SeqOfValues
<1>3. /\ rows' \in Seq(Row) /\ Len(rows') = Len(rows) + n
      /\ DOMAIN rows' = 1 .. Len(rows) + n
      /\ \A i \in DOMAIN rows' : rows'[i] = IF i \in DOMAIN rows THEN rows[i] ELSE New
  <2>1. rows' = rows \o fresh
    BY DEF Enqueue
  <2>2. rows' \in Seq(Row) /\ Len(rows') = Len(rows) + n
    BY <1>0, <1>2, <2>1, ConcatProperties DEF Typed
  <2>3. DOMAIN rows' = 1 .. Len(rows) + n
    BY <2>2, LenProperties
  <2>4. ASSUME NEW i \in 1 .. Len(rows) + n
        PROVE  rows'[i] = IF i <= Len(rows) THEN rows[i] ELSE fresh[i - Len(rows)]
    BY <1>0, <1>2, <2>1, ConcatProperties DEF Typed
  <2>5. ASSUME NEW i \in 1 .. Len(rows) + n
        PROVE  rows'[i] = IF i \in DOMAIN rows THEN rows[i] ELSE New
    <3>1. CASE i <= Len(rows)
      BY <1>0, <2>4, <3>1 DEF Typed
    <3>2. CASE ~(i <= Len(rows))
      <4>1. i - Len(rows) \in 1 .. n /\ i \notin DOMAIN rows
        BY <1>0, <3>2 DEF Typed
      <4> QED BY <2>4, <3>2, <4>1
    <3> QED BY <3>1, <3>2
  <2> QED BY <2>2, <2>3, <2>5
<1>4. DOMAIN rows \subseteq DOMAIN rows' /\ tasks' \subseteq DOMAIN rows'
  BY <1>0, <1>3 DEF Enqueue, Typed
<1>5. UNCHANGED <<calls, channel, open, accepted, faults>>
  BY DEF Enqueue
<1>6. Typed'
  <2>1. accepted \in Seq(DOMAIN rows')
    BY <1>0, <1>4, SeqMonotonic DEF Typed
  <2>2. Len(rows') \in 0 .. MaxRows
    BY <1>0, <1>3 DEF Enqueue
  <2> QED BY <1>0, <1>1, <1>3, <1>4, <1>5, <2>1, <2>2 DEF Typed, Leased
<1> QED BY <1>3, <1>4, <1>6

LEMMA ClaimRows ==
  ASSUME Typed, NEW i \in DOMAIN rows, Claim(i)
  PROVE  /\ Typed' /\ DOMAIN rows' = DOMAIN rows
         /\ \A j \in DOMAIN rows : rows'[j] = IF j = i THEN Claimed(rows[i]) ELSE rows[j]
         /\ Claimed(rows[i]).status = "dispatching"
         /\ Claimed(rows[i]).reconciled = rows[i].reconciled
<1> DEFINE call == [row |-> i, attempt |-> rows[i].attempts + 1, pc |-> "send"]
           row == Claimed(rows[i])
<1>1. /\ rows[i] \in Row /\ Leased(rows[i])
      /\ rows[i].attempts \in Nat /\ rows[i].attempts < MaxAttempts
      /\ calls' = calls \union {call} /\ Write(i, row)
      /\ tasks' \subseteq DOMAIN rows /\ UNCHANGED <<channel, open, accepted, faults>>
  <2>1. rows[i] \in Row /\ Leased(rows[i])
    BY DEF Typed
  <2>2. rows[i].attempts \in Nat /\ rows[i].attempts < MaxAttempts
    BY <2>1 DEF Row, Claim, Overdue
  <2> QED BY <2>1, <2>2 DEF Typed, Claim, Take
<1>2. row \in Row /\ Leased(row)
  BY <1>1, RowTypes, RowLeases
<1>3. row.status = "dispatching" /\ row.reconciled = rows[i].reconciled
  BY <1>1 DEF Claimed, Row
<1>4. call \in [row : DOMAIN rows, attempt : 1 .. MaxAttempts, pc : {"send"} \union Outcomes]
  BY <1>1
<1> HIDE DEF call, row
<1>5. /\ rows' \in Seq(Row) /\ Len(rows') = Len(rows) /\ DOMAIN rows' = DOMAIN rows
      /\ \A j \in DOMAIN rows : rows'[j] = IF j = i THEN row ELSE rows[j]
      /\ \A j \in DOMAIN rows : rows'[j] \in Row /\ Leased(rows'[j])
  BY <1>1, <1>2, OneRow
<1>6. Typed'
  BY <1>1, <1>4, <1>5 DEF Typed, Leased
<1> QED BY <1>3, <1>5, <1>6 DEF row

LEMMA SendRows ==
  ASSUME Typed, NEW call \in calls, NEW taken \in BOOLEAN, NEW outcome \in Outcomes,
         Send(call, taken, outcome)
  PROVE  /\ Typed' /\ call.row \in DOMAIN rows
         /\ \A j : Took(j)' <=> Took(j) \/ (taken /\ j = call.row)
         /\ SentOnce /\ (taken => ~Took(call.row)) => SentOnce'
<1> DEFINE sent == [call EXCEPT !.pc = outcome]
           i == call.row
<1>0. /\ i \in DOMAIN rows /\ calls' = (calls \ {call}) \union {sent}
      /\ UNCHANGED <<rows, tasks, channel, open, faults>>
      /\ call \in [row : DOMAIN rows, attempt : 1 .. MaxAttempts, pc : {"send"} \union Outcomes]
  BY DEF Typed, Send
<1>1. sent \in [row : DOMAIN rows, attempt : 1 .. MaxAttempts, pc : {"send"} \union Outcomes]
  BY <1>0
<1>2. IF taken THEN accepted' = Append(accepted, i) ELSE accepted' = accepted
  BY DEF Send
<1> HIDE DEF sent, i
<1>3. /\ accepted' \in Seq(DOMAIN rows)
      /\ \A j : Took(j)' <=> Took(j) \/ (taken /\ j = i)
      /\ SentOnce /\ (taken => ~Took(i)) => SentOnce'
  <2>0. accepted \in Seq(DOMAIN rows) /\ DOMAIN accepted = 1 .. Len(accepted)
        /\ Len(accepted) \in Nat
    BY LenProperties DEF Typed
  <2>1. CASE taken
    <3>1. accepted' = Append(accepted, i)
      BY <1>2, <2>1
    <3>2. /\ accepted' \in Seq(DOMAIN rows) /\ Len(accepted') = Len(accepted) + 1
          /\ \A k \in 1 .. Len(accepted) : accepted'[k] = accepted[k]
          /\ accepted'[Len(accepted) + 1] = i
      BY <1>0, <2>0, <3>1, AppendProperties
    <3>3. DOMAIN accepted' = 1 .. Len(accepted) + 1
      BY <3>2, LenProperties
    <3>4. \A j : Took(j)' <=> Took(j) \/ j = i
      BY <2>0, <3>2, <3>3 DEF Took
    <3>5. SentOnce /\ ~Took(i) => SentOnce'
      BY <2>0, <3>2, <3>3 DEF SentOnce, Took
    <3> QED BY <2>1, <3>2, <3>4, <3>5
  <2>2. CASE ~taken
    <3>1. accepted' = accepted
      BY <1>2, <2>2
    <3> QED BY <2>0, <2>2, <3>1 DEF Took, SentOnce
  <2> QED BY <2>1, <2>2
<1>4. Typed'
  BY <1>0, <1>1, <1>3 DEF Typed, Leased
<1> QED BY <1>0, <1>3, <1>4 DEF i

LEMMA MarkRows ==
  ASSUME Typed, NEW call \in calls, Mark(call)
  PROVE  /\ Typed' /\ call.row \in DOMAIN rows /\ DOMAIN rows' = DOMAIN rows
         /\ \A j \in DOMAIN rows :
              rows'[j] = IF j = call.row THEN Result(rows[call.row], call.pc) ELSE rows[j]
<1> DEFINE i == call.row
           row == Result(rows[i], call.pc)
<1>1. /\ i \in DOMAIN rows /\ call.pc \in Outcomes
      /\ rows[i] \in Row /\ Leased(rows[i])
      /\ Write(i, row) /\ calls' \subseteq calls
      /\ UNCHANGED <<tasks, channel, open, accepted, faults>>
  BY DEF Typed, Mark
<1>2. row \in Row /\ Leased(row)
  BY <1>1, RowTypes, RowLeases
<1> HIDE DEF i, row
<1>3. /\ rows' \in Seq(Row) /\ Len(rows') = Len(rows) /\ DOMAIN rows' = DOMAIN rows
      /\ \A j \in DOMAIN rows : rows'[j] = IF j = i THEN row ELSE rows[j]
      /\ \A j \in DOMAIN rows : rows'[j] \in Row /\ Leased(rows'[j])
  BY <1>1, <1>2, OneRow
<1>4. Typed'
  BY <1>1, <1>3 DEF Typed, Leased
<1> QED BY <1>1, <1>3, <1>4 DEF i, row

-----------------------------------------------------------------------------
\* New rows are pending, and nobody has seen them.
LEMMA EnqueueInv ==
  ASSUME Inv, NEW n \in 1 .. MaxRows, Enqueue(n)
  PROVE  Inv'
<1>0. Typed /\ Len(rows) \in Nat /\ n \in Nat
  BY TypedIsTypeOK DEF Inv, Typed
<1>1. New.status = "pending" /\ New.reconciled = FALSE
  BY DEF New
<1>3. /\ Typed' /\ DOMAIN rows \subseteq DOMAIN rows'
      /\ \A i \in DOMAIN rows' : rows'[i] = IF i \in DOMAIN rows THEN rows[i] ELSE New
  BY <1>0, EnqueueRows
<1>5. UNCHANGED <<calls, channel, open, accepted, faults>>
  BY DEF Enqueue
<1>6. /\ \A k \in DOMAIN accepted : accepted[k] \in DOMAIN rows
      /\ \A c \in calls : c.row \in DOMAIN rows
  BY <1>0, LenProperties, ElementOfSeq DEF Typed
<1>8. \A i : Took(i)' <=> Took(i)
  BY <1>5 DEF Took
<1>9. SentOnce' /\ Single' /\ Known'
  BY <1>3, <1>5, <1>6, <1>8 DEF Inv, SentOnce, Single, Known
<1>10. RowIsTrue'
  BY <1>1, <1>3, <1>6, <1>8 DEF Inv, RowIsTrue, Took
<1>11. Ordered'
  <2>1. SUFFICES ASSUME NEW i \in DOMAIN rows', NEW j \in DOMAIN rows', i < j, Reached(j)'
                 PROVE  rows'[i].status \notin Blocking
    BY DEF Ordered
  <2>2. j \in DOMAIN rows /\ Reached(j)
    BY <1>5, <1>6, <1>8, <2>1 DEF Reached, Took
  <2>3. i \in DOMAIN rows
    BY <1>0, <1>3, <2>1, <2>2 DEF Typed
  <2> QED BY <1>3, <2>1, <2>2, <2>3 DEF Inv, Ordered
<1>12. Decided'
  BY <1>1, <1>3 DEF Inv, Decided
<1> QED BY <1>3, <1>9, <1>10, <1>11, <1>12, TypedNext DEF Inv

\* A claim finds its row pending, so nobody has sent it, and finds no row
\* before it that may still be.
LEMMA ClaimInv ==
  ASSUME Inv, NEW i \in DOMAIN rows, Claim(i)
  PROVE  Inv'
<1> DEFINE call == [row |-> i, attempt |-> rows[i].attempts + 1, pc |-> "send"]
           row == Claimed(rows[i])
<1>0. /\ Typed /\ rows[i].status = "pending"
      /\ \A j \in 1 .. i - 1 : rows[j].status \notin Blocking
      /\ calls' = calls \union {call} /\ accepted' = accepted
  BY TypedIsTypeOK DEF Inv, Claim, Take, Claimable, Waits
<1>1. row.status = "dispatching" /\ row.reconciled = rows[i].reconciled
  BY <1>0, ClaimRows
<1>2. call.row = i /\ call.pc = "send"
  OBVIOUS
<1>4. Typed' /\ DOMAIN rows' = DOMAIN rows
      /\ \A j \in DOMAIN rows : rows'[j] = IF j = i THEN row ELSE rows[j]
  BY <1>0, ClaimRows
<1> HIDE DEF call, row
<1>6. ~Took(i) /\ \A c \in calls : c.row # i
  BY <1>0 DEF Inv, RowIsTrue, Single
<1>7. \A j : Took(j)' <=> Took(j)
  BY <1>0 DEF Took
<1>8. SentOnce'
  BY <1>0 DEF Inv, SentOnce
<1>9. RowIsTrue'
  BY <1>1, <1>4, <1>7 DEF Inv, RowIsTrue
<1>10. Single'
  <2>1. \A c \in calls : c.row \in DOMAIN rows
    BY <1>0 DEF Typed
  <2> QED BY <1>0, <1>1, <1>2, <1>4, <1>6, <2>1 DEF Inv, Single
<1>11. Known'
  BY <1>0, <1>2, <1>6, <1>7 DEF Inv, Known
<1>12. Ordered'
  <2>1. SUFFICES ASSUME NEW h \in DOMAIN rows, NEW j \in DOMAIN rows, h < j, Reached(j)'
                 PROVE  rows'[h].status \notin Blocking
    BY <1>4 DEF Ordered
  <2>2. CASE j = i
    <3>1. h \in 1 .. i - 1
      BY <1>0, <2>1, <2>2 DEF Typed
    <3> QED BY <1>0, <1>4, <3>1
  <2>3. CASE j # i
    <3>1. Reached(j)
      BY <1>0, <1>2, <1>7, <2>1, <2>3 DEF Reached
    <3>2. rows[h].status \notin Blocking
      BY <2>1, <3>1 DEF Inv, Ordered
    <3>3. h # i
      BY <1>0, <3>2 DEF Blocking
    <3> QED BY <1>4, <3>2, <3>3
  <2> QED BY <2>2, <2>3
<1>13. Decided'
  BY <1>0, <1>1, <1>4 DEF Inv, Decided
<1> QED BY <1>4, <1>8, <1>9, <1>10, <1>11, <1>12, <1>13, TypedNext DEF Inv

\* The provider takes a segment that it has not taken before, or none.
LEMMA SendInv ==
  ASSUME Inv, ~Garbled, NEW call \in calls, NEW taken \in BOOLEAN, NEW outcome \in Outcomes,
         Send(call, taken, outcome)
  PROVE  Inv'
<1> DEFINE sent == [call EXCEPT !.pc = outcome]
           i == call.row
<1>0. /\ Typed /\ call.pc = "send" /\ i \in DOMAIN rows
      /\ calls' = (calls \ {call}) \union {sent}
      /\ UNCHANGED <<rows, tasks, channel, open, faults>>
      /\ call \in [row : DOMAIN rows, attempt : 1 .. MaxAttempts, pc : {"send"} \union Outcomes]
  BY TypedIsTypeOK DEF Inv, Typed, Send
<1>1. sent.row = i /\ sent.pc = outcome
  BY <1>0
<1>2. /\ ~Took(i) /\ rows[i].status \notin {"pending", "expired"}
      /\ \A c \in calls : c # call => c.row # i
  BY <1>0 DEF Inv, Known, Single
<1>3. \/ taken /\ outcome # "release" /\ accepted' = Append(accepted, i)
      \/ ~taken /\ outcome # "mark_sent" /\ accepted' = accepted
  BY DEF Send
<1> HIDE DEF sent, i
<1>4. /\ Typed' /\ \A j : Took(j)' <=> Took(j) \/ (taken /\ j = i)
      /\ SentOnce'
  BY <1>0, <1>2, SendRows DEF Inv, i
<1>6. RowIsTrue'
  BY <1>0, <1>2, <1>4 DEF Inv, RowIsTrue
<1>7. Single'
  BY <1>0, <1>1, <1>2 DEF Inv, Single
<1>8. Known'
  <2>1. \A c \in calls' : c = sent \/ (c \in calls /\ c.row # i)
    BY <1>0, <1>2
  <2>2. \A c \in calls : c.row # i =>
          /\ c.pc \in {"send", "release"} => ~Took(c.row)'
          /\ c.pc = "mark_sent" => Took(c.row)'
    BY <1>4 DEF Inv, Known
  <2>3. /\ outcome = "release" => ~Took(i)'
        /\ outcome = "mark_sent" => Took(i)'
        /\ outcome # "send"
    BY <1>2, <1>3, <1>4 DEF Outcomes
  <2> QED BY <1>1, <2>1, <2>2, <2>3 DEF Known
<1>9. Ordered'
  <2>1. \A j : Reached(j)' => Reached(j)
    BY <1>0, <1>1, <1>4 DEF Reached, i
  <2> QED BY <1>0, <2>1 DEF Inv, Ordered
<1>10. Decided'
  BY <1>0 DEF Inv, Decided
<1> QED BY <1>4, <1>6, <1>7, <1>8, <1>9, <1>10, TypedNext DEF Inv

\* The transaction after the call: "sent" is of a call that was taken, and only
\* a call that was not makes its row pending again, when it ends.
LEMMA MarkInv ==
  ASSUME Inv, NEW call \in calls, Mark(call)
  PROVE  Inv'
<1> DEFINE i == call.row
           row == Result(rows[i], call.pc)
<1>0. /\ Typed /\ i \in DOMAIN rows /\ call.pc \in Outcomes
      /\ rows[i] \in Row /\ calls' = calls \ {call} /\ accepted' = accepted
  BY TypedIsTypeOK DEF Inv, Typed, Mark
<1>1. row.reconciled = rows[i].reconciled
  BY <1>0 DEF Result, Released, Marked, Row, Outcomes
<1>2. \/ row.status = rows[i].status
      \/ call.pc = "mark_sent" /\ row.status = "sent" /\ rows[i].status = "dispatching"
      \/ /\ call.pc = "release" /\ rows[i].status = "dispatching"
         /\ row.status \in {"pending", "cancelled"}
      \/ row.status = "delivery_unknown" /\ rows[i].status = "dispatching"
  BY <1>0 DEF Result, Released, Marked, Row, Outcomes
<1>3. /\ call.pc = "mark_sent" => Took(i)
      /\ call.pc = "release" => ~Took(i)
      /\ rows[i].status \notin {"pending", "expired"}
      /\ \A c \in calls' : c \in calls /\ c.row # i
  BY <1>0 DEF Inv, Known, Single
<1> HIDE DEF row
<1>4. Typed' /\ DOMAIN rows' = DOMAIN rows
      /\ \A j \in DOMAIN rows : rows'[j] = IF j = i THEN row ELSE rows[j]
  BY <1>0, MarkRows DEF row
<1>6. \A j : Took(j)' <=> Took(j)
  BY <1>0 DEF Took
<1>7. SentOnce' /\ Known'
  BY <1>0, <1>6 DEF Inv, SentOnce, Known
<1>8. RowIsTrue'
  <2>1. ASSUME NEW j \in DOMAIN rows, j # i
        PROVE  /\ rows'[j].status = "sent" /\ ~rows'[j].reconciled => Took(j)'
               /\ rows'[j].status \in {"pending", "expired"} => ~Took(j)'
    BY <1>4, <1>6, <2>1 DEF Inv, RowIsTrue
  <2>2. /\ row.status = "sent" /\ ~row.reconciled => Took(i)
        /\ row.status \in {"pending", "expired"} => ~Took(i)
    BY <1>0, <1>1, <1>2, <1>3 DEF Inv, RowIsTrue
  <2>3. rows'[i] = row
    BY <1>0, <1>4
  <2> QED BY <1>0, <1>4, <1>6, <2>1, <2>2, <2>3 DEF RowIsTrue
<1>9. Single'
  <2>1. \A c \in calls : c.row \in DOMAIN rows
    BY <1>0 DEF Typed
  <2> QED BY <1>0, <1>3, <1>4, <2>1 DEF Inv, Single
<1>10. Ordered'
  <2>1. \A j : Reached(j)' => Reached(j)
    BY <1>0, <1>6 DEF Reached
  <2>2. rows[i].status \notin Blocking => row.status \notin Blocking
    BY <1>2 DEF Blocking
  <2> QED BY <1>0, <1>4, <2>1, <2>2 DEF Inv, Ordered
<1>11. Decided'
  <2>1. rows[i].reconciled => row.status \in {"sent", "cancelled"}
    BY <1>0, <1>2 DEF Inv, Decided
  <2> QED BY <1>0, <1>1, <1>4, <2>1 DEF Inv, Decided
<1> QED BY <1>4, <1>7, <1>8, <1>9, <1>10, <1>11, TypedNext DEF Inv

-----------------------------------------------------------------------------
LEMMA QuietInv ==
  ASSUME Inv, Typed', QuietStep
  PROVE  Inv'
BY QuietKeeps, TypedNext DEF Inv

LEMMA StepInv ==
  ASSUME Inv, ~Garbled, [Next]_vars
  PROVE  Inv'
<1>0. Typed
  BY TypedIsTypeOK DEF Inv
<1>1. ASSUME NEW n \in 1 .. MaxRows, Enqueue(n) PROVE Inv'
  BY <1>1, EnqueueInv
<1>2. ASSUME NEW i \in DOMAIN rows, Serve(i) PROVE Inv'
  <2>1. CASE Claim(i)
    BY <2>1, ClaimInv
  <2>2. CASE Deny(i) \/ Expire(i) \/ Skip(i) \/ Withdraw(i)
    BY <1>0, <2>2, IdleSteps, QuietInv
  <2> QED BY <1>2, <2>1, <2>2 DEF Serve
<1>3. ASSUME NEW call \in calls, Finish(call) PROVE Inv'
  BY <1>3, SendInv, MarkInv DEF Finish
<1>4. CASE \/ \E i \in DOMAIN rows : Redeliver(i) \/ Lose(i)
           \/ \E call \in calls : Die(call)
           \/ \E i \in DOMAIN rows, status \in {"sent", "cancelled"} : Reconcile(i, status)
           \/ \E now \in {"ready", "denied", "changed"} : Alter(now)
  BY <1>0, <1>4, OutsideSteps, QuietInv
<1>5. CASE Sweep \/ TearDown \/ Retire \/ Tick
  BY <1>0, <1>5, SweepingSteps, QuietInv
<1>6. CASE UNCHANGED vars
  <2>1. Typed' /\ QuietStep
    BY <1>0, <1>6, QuietElse DEF vars, Typed
  <2> QED BY <2>1, QuietInv
<1> QED BY <1>1, <1>2, <1>3, <1>4, <1>5, <1>6 DEF Next

LEMMA AlwaysInv == ~Garbled /\ Spec => [](~Garbled /\ Inv)
<1>1. ~Garbled /\ Init => ~Garbled /\ Inv
  BY InitInv
<1>2. (~Garbled /\ Inv) /\ [Next]_vars => (~Garbled /\ Inv)'
  BY StepInv
<1> QED BY <1>1, <1>2, PTL DEF Spec

\* The variables have their types, and a claim is leased and within its
\* attempts (surfaces.py: claim, mark, release), whatever the provider answers.
THEOREM TypeCorrect == Spec => []TypeOK
<1>1. Init => Typed
  BY InitInv, TypedIsTypeOK DEF Inv
<1>2. Typed /\ [Next]_vars => Typed'
  <2> SUFFICES ASSUME Typed, [Next]_vars PROVE Typed'
    OBVIOUS
  <2>1. ASSUME NEW n \in 1 .. MaxRows, Enqueue(n) PROVE Typed'
    BY <2>1, EnqueueRows
  <2>2. ASSUME NEW i \in DOMAIN rows, Serve(i) PROVE Typed'
    BY <2>2, ClaimRows, IdleSteps DEF Serve
  <2>3. ASSUME NEW call \in calls, Finish(call) PROVE Typed'
    BY <2>3, SendRows, MarkRows DEF Finish
  <2>4. CASE \/ \E i \in DOMAIN rows : Redeliver(i) \/ Lose(i)
             \/ \E call \in calls : Die(call)
             \/ \E i \in DOMAIN rows, status \in {"sent", "cancelled"} : Reconcile(i, status)
             \/ \E now \in {"ready", "denied", "changed"} : Alter(now)
    BY <2>4, OutsideSteps
  <2>5. CASE Sweep \/ TearDown \/ Retire \/ Tick
    BY <2>5, SweepingSteps
  <2>6. CASE UNCHANGED vars
    BY <2>6, QuietElse DEF vars, Typed
  <2> QED BY <2>1, <2>2, <2>3, <2>4, <2>5, <2>6 DEF Next
<1> QED BY <1>1, <1>2, TypedIsTypeOK, PTL DEF Spec

\* The provider is given no segment twice, for any number of workers, lost and
\* repeated tasks and crashes (delivery.py: deliver).
THEOREM SegmentsAreSentOnce == ~Garbled /\ Spec => []SentOnce
<1>1. Inv => SentOnce
  BY DEF Inv
<1> QED BY <1>1, AlwaysInv, PTL

\* A row that says "sent" was taken, and one that says "pending" or "expired"
\* was not (surfaces.py: mark_sent, release_before_send, expire).
THEOREM RowsAreTrue == ~Garbled /\ Spec => []RowIsTrue
<1>1. Inv => RowIsTrue
  BY DEF Inv
<1> QED BY <1>1, AlwaysInv, PTL

\* What is sent under a claim that stands comes before all later segments
\* (surfaces.py: claim).
THEOREM SegmentsAreInOrder == ~Garbled /\ Spec => InOrder
<1> DEFINE A == \A i \in DOMAIN rows :
                  accepted' = Append(accepted, i) /\ rows[i].status = "dispatching" =>
                    \A k \in DOMAIN accepted : accepted[k] < i
<1>1. ASSUME Inv, [Next]_vars PROVE [A]_vars
  <2>1. SUFFICES ASSUME NEW i \in DOMAIN rows, accepted' = Append(accepted, i),
                        rows[i].status = "dispatching", NEW k \in DOMAIN accepted
                 PROVE  accepted[k] < i
    OBVIOUS
  <2>0. Typed
    BY <1>1, TypedIsTypeOK DEF Inv
  <2>2. /\ accepted \in Seq(DOMAIN rows) /\ DOMAIN accepted = 1 .. Len(accepted)
        /\ Len(accepted) \in Nat /\ accepted[k] \in DOMAIN rows
        /\ DOMAIN rows \subseteq Nat
    BY <2>0, LenProperties, ElementOfSeq DEF Typed
  <2>3. accepted' # accepted
    <3>1. Len(accepted') = Len(accepted) + 1
      BY <2>1, <2>2, AppendProperties
    <3> QED BY <2>2, <3>1
  <2>4. PICK call \in calls : \E taken \in BOOLEAN, outcome \in Outcomes :
          Send(call, taken, outcome)
    BY <1>1, <2>3 DEF Next, vars, Enqueue, Serve, Deny, Expire, Skip, Withdraw, Claim, Take,
                      Finish, Mark, Die, Redeliver, Lose, Sweep, Reconcile, Alter, TearDown,
                      Retire, Tick
  <2>5. call.row = i
    <3>1. call.row \in DOMAIN rows
      BY <2>0 DEF Typed
    <3>2. accepted' = Append(accepted, call.row)
      BY <2>3, <2>4 DEF Send
    <3> DEFINE r == call.row
    <3> HIDE DEF r
    <3>3. accepted'[Len(accepted) + 1] = r
      BY <2>2, <3>1, <3>2, AppendProperties DEF r
    <3>4. accepted'[Len(accepted) + 1] = i
      BY <2>1, <2>2, AppendProperties
    <3> QED BY <3>3, <3>4 DEF r
  <2>6. ~Took(i)
    BY <1>1, <2>4, <2>5 DEF Send, Inv, Known
  <2>7. accepted[k] # i /\ Reached(accepted[k])
    BY <2>6 DEF Took, Reached
  <2>8. ~(i < accepted[k])
    BY <1>1, <2>1, <2>2, <2>7 DEF Inv, Ordered, Blocking
  <2> QED BY <2>2, <2>7, <2>8
<1> QED BY <1>1, AlwaysInv, PTL DEF Spec, InOrder

-----------------------------------------------------------------------------
(***************************************************************************)
(* The rows implement AnswerOutbox.  Answers and calls of the provider are *)
(* its steps of that name; every other transaction, however many rows it   *)
(* writes, closes rows or changes nothing that is told of them.            *)
(***************************************************************************)
ToldFits ==
  /\ Told \in Seq(Promise!Words) /\ Len(Told) = Len(rows) /\ DOMAIN Told = DOMAIN rows
  /\ \A i \in DOMAIN rows : Told[i] = Word(rows[i])

LEMMA TypedIsTold == Typed => ToldFits
<1> SUFFICES ASSUME Typed PROVE ToldFits
  OBVIOUS
<1>1. \A i \in DOMAIN rows : Word(rows[i]) \in Promise!Words
  BY DEF Typed, Row, Statuses, Word, Promise!Words
<1>2. Told \in [1 .. Len(rows) -> Promise!Words] /\ Len(rows) \in Nat
  BY <1>1 DEF Typed, Told
<1> QED BY <1>2, SeqOfValues DEF ToldFits, Told

LEMMA ToldNext == Typed' => ToldFits'
BY TypedIsTold, PTL

LEMMA OutboxInit ==
  ASSUME Init
  PROVE  Promise!Init
<1>1. Inv /\ rows = <<>> /\ accepted = <<>>
  BY InitInv DEF Init
<1>2. Told \in Seq(Promise!Words) /\ Len(Told) = 0
  BY <1>1, TypedIsTypeOK, TypedIsTold, EmptySeq DEF Inv, ToldFits
<1>3. <<>> \in Seq(Promise!Words) /\ Len(<<>>) = 0
  BY EmptySeq
<1>4. Told = <<>>
  BY <1>2, <1>3, SeqEqual
<1> QED BY <1>1, <1>4 DEF Promise!Init

\* Rows that move as the outbox allows, one or all of them at a time.
LEMMA RowsSettle ==
  ASSUME Typed, Typed', DOMAIN rows' = DOMAIN rows, accepted' = accepted,
         \A i \in DOMAIN rows : Word(rows'[i]) \in Promise!Successors(i)
  PROVE  Promise!Settle
<1>1. ToldFits /\ ToldFits'
  BY TypedIsTold, ToldNext
<1>2. \A i \in DOMAIN Told : Told'[i] \in Promise!Successors(i)
  BY <1>1 DEF ToldFits
<1>3. Told' \in [DOMAIN Told -> Promise!Words]
  <2>1. Told' \in [1 .. Len(rows') -> Promise!Words]
    BY <1>1, LenProperties DEF ToldFits, Typed
  <2> QED BY <1>1, <2>1 DEF ToldFits, Typed
<1> QED BY <1>2, <1>3 DEF Promise!Settle

LEMMA QuietSettles ==
  ASSUME Inv, Typed', QuietStep
  PROVE  Promise!Settle
<1>1. Typed /\ ToldFits
  BY TypedIsTypeOK, TypedIsTold DEF Inv
<1>2. ASSUME NEW i \in DOMAIN rows PROVE Word(rows'[i]) \in Promise!Successors(i)
  <2>1. rows[i] \in Row /\ Quiet(rows[i], rows'[i]) /\ Told[i] = Word(rows[i])
    BY <1>1 DEF Typed, QuietStep, ToldFits
  <2>2. rows[i].reconciled => rows[i].status \in {"sent", "cancelled"}
    BY DEF Inv, Decided
  <2>3. rows[i].status = "pending" => ~Promise!Given(i)
    BY DEF Inv, RowIsTrue, Took, Promise!Given
  <2> QED BY <2>1, <2>2, <2>3
          DEF Quiet, Word, Row, Statuses, Promise!Successors, Promise!Verdict
<1> QED BY <1>1, <1>2, RowsSettle DEF QuietStep

LEMMA AnswerStep ==
  ASSUME Inv, NEW n \in 1 .. MaxRows, Enqueue(n)
  PROVE  Promise!Answer(n)
<1> DEFINE more == [k \in 1 .. n |-> "open"]
<1>1. /\ Typed /\ Typed' /\ ToldFits /\ ToldFits' /\ n \in Nat /\ Len(rows) \in Nat
      /\ Len(rows') = Len(rows) + n /\ accepted' = accepted
      /\ \A i \in DOMAIN rows' : rows'[i] = IF i \in DOMAIN rows THEN rows[i] ELSE New
  <2>1. Typed
    BY TypedIsTypeOK DEF Inv
  <2>2. Typed'
    BY <2>1, EnqueueRows
  <2>3. ToldFits /\ ToldFits' /\ n \in Nat /\ Len(rows) \in Nat
    BY <2>1, <2>2, TypedIsTold, ToldNext DEF Typed
  <2>4. /\ Len(rows') = Len(rows) + n
        /\ \A i \in DOMAIN rows' : rows'[i] = IF i \in DOMAIN rows THEN rows[i] ELSE New
    BY <2>1, EnqueueRows
  <2> QED BY <2>1, <2>2, <2>3, <2>4 DEF Enqueue
<1>2. more \in Seq(Promise!Words) /\ Len(more) = n
  <2>1. more \in [1 .. n -> Promise!Words]
    BY DEF Promise!Words
  <2> QED BY <1>1, <2>1, SeqOfValues
<1>3. Word(New) = "open"
  BY DEF Word, New
<1>4. /\ Told \o more \in Seq(Promise!Words) /\ Len(Told \o more) = Len(rows) + n
      /\ \A i \in 1 .. Len(rows) + n :
           (Told \o more)[i] = IF i <= Len(rows) THEN Told[i] ELSE more[i - Len(rows)]
  <2>1. Told \in Seq(Promise!Words) /\ Len(Told) = Len(rows)
    BY <1>1 DEF ToldFits
  <2> HIDE DEF more
  <2>2. /\ Told \o more \in Seq(Promise!Words)
        /\ Len(Told \o more) = Len(Told) + Len(more)
        /\ \A i \in 1 .. Len(Told) + Len(more) :
             (Told \o more)[i] = IF i <= Len(Told) THEN Told[i] ELSE more[i - Len(Told)]
    BY <1>2, <2>1, ConcatProperties, Zenon
  <2> QED BY <1>2, <2>1, <2>2
<1>5. ASSUME NEW i \in 1 .. Len(rows) + n PROVE Told'[i] = (Told \o more)[i]
  <2>1. i \in DOMAIN rows' /\ Told'[i] = Word(rows'[i])
    BY <1>1 DEF ToldFits, Typed
  <2>2. CASE i <= Len(rows)
    <3>1. i \in DOMAIN rows
      BY <1>1, <2>2 DEF Typed
    <3> QED BY <1>1, <1>4, <2>1, <2>2, <3>1 DEF ToldFits
  <2>3. CASE ~(i <= Len(rows))
    <3>1. i \notin DOMAIN rows /\ i - Len(rows) \in 1 .. n
      BY <1>1, <2>3 DEF Typed
    <3> QED BY <1>1, <1>3, <1>4, <2>1, <2>3, <3>1
  <2> QED BY <2>2, <2>3
<1> HIDE DEF more
<1>6. Told' = Told \o more
  BY <1>1, <1>4, <1>5, SeqEqual DEF ToldFits
<1> QED BY <1>1, <1>6 DEF Promise!Answer, more

\* A claim tells nothing: its row is as open as before.
LEMMA ClaimStep ==
  ASSUME Inv, NEW i \in DOMAIN rows, Claim(i)
  PROVE  Promise!Settle
<1>1. /\ Typed /\ ToldFits /\ accepted' = accepted
      /\ rows[i].status = "pending" /\ rows[i].reconciled \in BOOLEAN
  BY TypedIsTypeOK, TypedIsTold DEF Inv, Typed, Row, Claim, Take, Claimable
<1>2. /\ Typed' /\ DOMAIN rows' = DOMAIN rows
      /\ \A j \in DOMAIN rows : j # i => rows'[j] = rows[j]
      /\ rows'[i].status = "dispatching" /\ rows'[i].reconciled = rows[i].reconciled
  BY <1>1, ClaimRows
<1>3. \A j \in DOMAIN rows : Word(rows'[j]) = Told[j]
  BY <1>1, <1>2 DEF Word, ToldFits
<1> QED BY <1>1, <1>2, <1>3, RowsSettle DEF Promise!Successors

\* The call is of a segment that was not given, and of one whose row, if it is
\* still open, has only settled rows before it and no claimed one after it.
LEMMA GiveStep ==
  ASSUME Inv, ~Garbled, NEW call \in calls, NEW taken \in BOOLEAN, NEW outcome \in Outcomes,
         Send(call, taken, outcome)
  PROVE  (\E i \in DOMAIN Told : Promise!Give(i)) \/ (Told' = Told /\ accepted' = accepted)
<1> DEFINE i == call.row
<1>1. /\ Typed /\ ToldFits /\ i \in DOMAIN rows /\ call.pc = "send" /\ rows' = rows
      /\ Told' = Told
  BY TypedIsTypeOK, TypedIsTold DEF Inv, Typed, Send, Told
<1>2. /\ ~Took(i) /\ Reached(i) /\ rows[i].status \notin {"pending", "expired"}
      /\ rows[i].status = "sent" => rows[i].reconciled
  BY <1>1 DEF Inv, Known, Single, Reached, RowIsTrue
<1>3. CASE taken
  <2>1. accepted' = Append(accepted, i)
    BY <1>3 DEF Send
  <2>2. ~Promise!Given(i)
    BY <1>2 DEF Took, Promise!Given
  <2>3. Told[i] \notin {"sent", "expired"}
    BY <1>1, <1>2 DEF ToldFits, Word
  <2>4. ASSUME Told[i] = "open", NEW k \in DOMAIN accepted PROVE accepted[k] < i
    <3>1. rows[i].status \in Blocking
      BY <1>1, <2>4 DEF ToldFits, Word, Blocking, Typed, Row, Statuses
    <3>2. accepted[k] \in DOMAIN rows /\ Reached(accepted[k]) /\ accepted[k] # i
      BY <1>1, <1>2, LenProperties, ElementOfSeq DEF Typed, Reached, Took
    <3>3. ~(i < accepted[k])
      BY <1>1, <3>1, <3>2 DEF Inv, Ordered
    <3> QED BY <1>1, <3>2, <3>3 DEF Typed
  <2>5. i \in DOMAIN Told
    BY <1>1 DEF ToldFits
  <2> QED BY <1>1, <2>1, <2>2, <2>3, <2>4, <2>5 DEF Promise!Give
<1>4. CASE ~taken
  BY <1>1, <1>4 DEF Send
<1> QED BY <1>3, <1>4

\* The transaction after the call closes the row with the truth, or leaves it.
LEMMA MarkStep ==
  ASSUME Inv, NEW call \in calls, Mark(call)
  PROVE  Promise!Settle
<1> DEFINE i == call.row
           row == Result(rows[i], call.pc)
<1>1. /\ Typed /\ ToldFits /\ i \in DOMAIN rows /\ rows[i] \in Row
      /\ call.pc \in Outcomes /\ accepted' = accepted
  BY TypedIsTypeOK, TypedIsTold DEF Inv, Typed, Mark
<1>2. /\ Typed' /\ DOMAIN rows' = DOMAIN rows
      /\ \A j \in DOMAIN rows : rows'[j] = IF j = i THEN row ELSE rows[j]
  BY <1>1, MarkRows
<1>3. row.reconciled = rows[i].reconciled
  BY <1>1 DEF Result, Released, Marked, Row, Outcomes
<1>4. \/ row.status = rows[i].status
      \/ /\ rows[i].status = "dispatching"
         /\ \/ row.status \in {"pending", "cancelled", "delivery_unknown"}
            \/ row.status = "sent" /\ Promise!Given(i)
  <2>1. call.pc = "mark_sent" => Promise!Given(i)
    BY DEF Inv, Known, Took, Promise!Given
  <2> QED BY <1>1, <2>1 DEF Result, Released, Marked, Row, Outcomes
<1>5. rows[i].reconciled => rows[i].status # "dispatching"
  BY <1>1 DEF Inv, Decided
<1> HIDE DEF row
<1>6. Word(row) \in Promise!Successors(i)
  <2>1. Told[i] = Word(rows[i])
    BY <1>1 DEF ToldFits
  <2> QED BY <1>1, <1>3, <1>4, <1>5, <2>1
          DEF Word, Row, Promise!Successors, Promise!Verdict
<1>7. \A j \in DOMAIN rows : Word(rows'[j]) \in Promise!Successors(j)
  BY <1>1, <1>2, <1>6 DEF ToldFits, Promise!Successors
<1> QED BY <1>1, <1>2, <1>7, RowsSettle

LEMMA OutboxStep ==
  ASSUME Inv, ~Garbled, [Next]_vars
  PROVE  [Promise!Next]_<<Told, accepted>>
<1>0. Typed
  BY TypedIsTypeOK DEF Inv
<1>1. ASSUME NEW n \in 1 .. MaxRows, Enqueue(n) PROVE Promise!Next
  BY <1>1, AnswerStep DEF Promise!Next
<1>2. ASSUME NEW i \in DOMAIN rows, Serve(i) PROVE Promise!Next
  <2>1. CASE Claim(i)
    BY <2>1, ClaimStep DEF Promise!Next
  <2>2. CASE Deny(i) \/ Expire(i) \/ Skip(i) \/ Withdraw(i)
    BY <1>0, <2>2, IdleSteps, QuietSettles DEF Promise!Next
  <2> QED BY <1>2, <2>1, <2>2 DEF Serve
<1>3. ASSUME NEW call \in calls, Finish(call) PROVE [Promise!Next]_<<Told, accepted>>
  <2>1. CASE Mark(call)
    BY <2>1, MarkStep DEF Promise!Next
  <2>2. CASE ~Mark(call)
    <3>1. PICK taken \in BOOLEAN, outcome \in Outcomes : Send(call, taken, outcome)
      BY <1>3, <2>2 DEF Finish
    <3> QED BY <3>1, GiveStep DEF Promise!Next
  <2> QED BY <2>1, <2>2
<1>4. CASE \/ \E i \in DOMAIN rows : Redeliver(i) \/ Lose(i)
           \/ \E call \in calls : Die(call)
           \/ \E i \in DOMAIN rows, status \in {"sent", "cancelled"} : Reconcile(i, status)
           \/ \E now \in {"ready", "denied", "changed"} : Alter(now)
  BY <1>0, <1>4, OutsideSteps, QuietSettles DEF Promise!Next
<1>5. CASE Sweep \/ TearDown \/ Retire \/ Tick
  BY <1>0, <1>5, SweepingSteps, QuietSettles DEF Promise!Next
<1>6. CASE UNCHANGED vars
  BY <1>6 DEF vars, Told
<1> QED BY <1>1, <1>2, <1>3, <1>4, <1>5, <1>6 DEF Next

\* The rows, the tasks and the sweep implement AnswerOutbox (surfaces.py and
\* delivery.py), if the provider's refusals mean what they say.
THEOREM Implements == ~Garbled /\ Spec => ImplementsOutbox
<1>1. Init => Promise!Init
  BY OutboxInit
<1>2. (~Garbled /\ Inv) /\ [Next]_vars => [Promise!Next]_<<Told, accepted>>
  BY OutboxStep
<1> QED BY <1>1, <1>2, AlwaysInv, PTL DEF Spec, Promise!Spec, ImplementsOutbox
=============================================================================
