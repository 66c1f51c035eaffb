---------------------- MODULE DocumentLifecycleProofs ----------------------
(***************************************************************************)
(* Proofs about DocumentLifecycle for every number of workers, pages,      *)
(* requests, retries and faults: what a deletion leaves behind, and that a *)
(* ready document is indexed.                                              *)
(*                                                                         *)
(* No transaction spans the stores, so none of the properties is inductive.*)
(* What carries them is where ingests may be once the row is deleted: the  *)
(* checks of deleted_at let nobody in, and the key of the rows (era) keeps *)
(* out who was in before.                                                  *)
(***************************************************************************)
EXTENDS DocumentLifecycle, TLAPS

Removed == doc.row \in {"deleted", "gone"}
NoText == chunks = {} /\ \A p \in Page : pages[p] = "none"
AllIdle == \A w \in Worker : At(w, "idle")

\* A worker that is at a task has its message.
Typed == TypeOK /\ \A w \in Worker : ~At(w, "idle") => run[w].msg \in Message

\* As long as no two ingests overlapped there is at most one.
Alone ==
  ~history.overlapped =>
    \A v, w \in Worker : ~At(v, "idle") /\ ~At(w, "idle") => v = w

\* Only what was deleted is being removed, or was.
Removing ==
  /\ purge.pc # "idle" => doc.row = "deleted"
  /\ history.cleaned => Removed

\* Points: once the row is deleted nobody is let in to write them.
PointsStay ==
  Removed /\ ~history.latePoints =>
    /\ \A w \in Worker : ~At(w, "upsert")
    /\ history.cleaned => points = {}

\* Rows: nobody is let in to insert pages, and who has read pages before the
\* deletion has read those of an earlier era.
TextStays ==
  /\ \A w \in Worker : run[w].era <= era
  /\ doc.row = "deleted" /\ ~history.lateRows =>
       /\ NoText
       /\ \A w \in Worker : run[w].pc \notin {"reset", "drop", "ensure"}
       /\ \A w \in Worker : run[w].era = era => run[w].todo = {}

\* The sweep comes when no worker is at the document, and knows what it emptied.
Swept ==
  purge.pc # "idle" /\ purge.by = "sweep" =>
    /\ AllIdle
    /\ purge.pc # "blob" /\ "blob" \notin purge.failed => ~blob
    /\ purge.pc = "row" /\ "points" \notin purge.failed => points = {}

Gone == doc.row = "gone" => AllIdle /\ ~blob /\ points = {} /\ NoText

\* The index: a lone ingest that has chunked is left with the points it owes,
\* and a document is ready only between two ingests.
Served == chunks # {} /\ chunks \subseteq points
Owes(w) ==
  /\ run[w].pc \in {"upsert?", "upsert"} =>
       chunks # {} /\ chunks \ run[w].batch \subseteq points
  /\ run[w].pc \in {"ready?", "ready"} => Served
Resting(w) == doc.status = "ready" => Served /\ run[w].pc \in {"idle", "begin"}

Indexed ==
  ~Removed /\ ~history.overlapped =>
    /\ doc.status = "ready" => Served
    /\ \A w \in Worker : Owes(w) /\ Resting(w)

Inv == /\ Typed /\ Alone /\ Removing /\ PointsStay
       /\ TextStays /\ Swept /\ Gone /\ Indexed

\* A document that does not exist yet, or whose first ingest is over, satisfies the
\* invariant.
LEMMA InitInv ==
  ASSUME BoundAssumption, Init
  PROVE  Inv
<1>1. Typed
  <2>1. run \in [Worker -> [pc : Asserts \cup Steps \cup {"idle"},
                            msg : Message \cup {NoMessage}, era : Nat, fresh : BOOLEAN,
                            todo : SUBSET Page, batch : SUBSET Chunk]]
    BY DEF Init, Idle
  <2>2. \A w \in Worker : At(w, "idle")
    BY DEF Init, Idle, At
  <2>3. history \in [Remembered -> BOOLEAN]
    BY DEF Init
  <2>4. purge \in [pc : {"idle", "blob", "points", "row"},
                   by : {"user", "sweep"}, failed : SUBSET {"blob", "points"}]
    BY DEF Init, NoPurge
  <2>5. leaving \in BOOLEAN /\ blob \in BOOLEAN
    BY Zenon DEF Init
  <2>6. /\ doc \in [row : {"absent", "live", "deleted", "gone"}, status : Statuses]
        /\ pages \in [Page -> PageStatus] /\ chunks \subseteq Chunk
        /\ points \subseteq Chunk /\ era \in Nat
        /\ tasks \subseteq Message /\ sent \in 0 .. MaxSent /\ owed \subseteq Modes
        /\ faults \in 0 .. MaxFaults
    BY BoundAssumption DEF Init, Statuses, PageStatus
  <2> QED BY <2>1, <2>2, <2>3, <2>4, <2>5, <2>6, Zenon DEF Typed, TypeOK
<1>2. Alone /\ Removing /\ PointsStay /\ Swept /\ Gone
  BY DEF Init, Alone, Removing, PointsStay, Swept, Gone, Removed, At, Idle, NoPurge,
         Remembered
<1>3. TextStays
  BY DEF Init, TextStays, Idle
<1>4. Indexed
  BY DEF Init, Indexed, Owes, Resting, Idle
<1> QED BY <1>1, <1>2, <1>3, <1>4 DEF Inv

-----------------------------------------------------------------------------
(***************************************************************************)
(* Steps of a worker.                                                      *)
(***************************************************************************)
DocRow == [row : {"absent", "live", "deleted", "gone"}, status : Statuses]
RunRow == [pc : Asserts \cup Steps \cup {"idle"}, msg : Message \cup {NoMessage},
           era : Nat, fresh : BOOLEAN, todo : SUBSET Page, batch : SUBSET Chunk]

\* A step of w writes no other worker's state and, unless it takes a task,
\* neither the deletion nor what is remembered of it.
Moved(w) ==
  /\ run' \in [Worker -> RunRow]
  /\ \A v \in Worker : v # w => run'[v] = run[v]
  /\ run'[w].pc # "idle" => run'[w].msg \in Message

WorkerStep(w) ==
  /\ Moved(w)
  /\ UNCHANGED <<leaving, blob, sent, owed, purge, history>>
  /\ doc' \in DocRow /\ doc'.row = doc.row
  /\ tasks' \subseteq Message /\ faults' \in 0 .. MaxFaults
  /\ pages' \in [Page -> PageStatus] /\ chunks' \subseteq Chunk
  /\ points' \subseteq Chunk /\ era' \in Nat

\* What it may do to points, rows and index.
GuardsPoints(w) ==
  Removed => /\ run'[w].pc = "upsert" => At(w, "upsert")
             /\ points' \in {points, {}} \/ At(w, "upsert")

Barred(w) == /\ run[w].pc \notin {"reset", "drop", "ensure"}
             /\ run[w].era = era => run[w].todo = {}

GuardsText(w) ==
  /\ era <= era' /\ run'[w].era <= era'
  /\ Removed /\ NoText /\ Barred(w) => NoText' /\ era' = era /\ Barred(w)'

GuardsIndex(w) ==
  ~Removed /\ Owes(w) /\ Resting(w) => Owes(w)' /\ Resting(w)'

\* A worker's step preserves the invariant if what it does to points, rows and
\* index is guarded.
LEMMA Work ==
  ASSUME Inv, NEW w \in Worker, ~At(w, "idle"), WorkerStep(w),
         GuardsPoints(w), GuardsText(w), GuardsIndex(w)
  PROVE  Inv'
<1> USE DEF At
<1>0. \A v \in Worker : v # w => run'[v] = run[v]
  BY DEF WorkerStep, Moved
<1>1. Typed'
  <2>1. \A v \in Worker : run'[v].pc # "idle" => run'[v].msg \in Message
    BY DEF WorkerStep, Moved, Inv, Typed
  <2>2. TypeOK'
    BY Zenon DEF WorkerStep, Moved, Inv, Typed, TypeOK, RunRow, DocRow
  <2> QED BY <2>1, <2>2 DEF Typed
<1>2. Alone'
  BY <1>0 DEF WorkerStep, Inv, Alone
<1>3. Removing'
  BY DEF WorkerStep, Inv, Removing, Removed
<1>4. PointsStay'
  <2> SUFFICES ASSUME Removed', ~history'.latePoints
               PROVE  /\ \A v \in Worker : ~At(v, "upsert")'
                      /\ history'.cleaned => points' = {}
    BY DEF PointsStay
  <2>1. Removed /\ ~history.latePoints /\ history' = history
    BY DEF WorkerStep, Removed
  <2>2. /\ \A v \in Worker : ~At(v, "upsert")
        /\ history.cleaned => points = {}
    BY <2>1 DEF Inv, PointsStay
  <2> QED BY <1>0, <2>1, <2>2 DEF GuardsPoints
<1>5. TextStays'
  <2>0. era \in Nat /\ era' \in Nat /\ \A v \in Worker : run[v].era \in Nat
    BY DEF WorkerStep, Inv, Typed, TypeOK
  <2>1. \A v \in Worker : run'[v].era <= era'
    BY <1>0, <2>0 DEF GuardsText, Inv, TextStays
  <2>2. ASSUME doc'.row = "deleted", ~history'.lateRows
        PROVE  NoText' /\ \A v \in Worker : Barred(v)'
    <3>1. Removed /\ doc.row = "deleted" /\ ~history.lateRows
      BY <2>2 DEF WorkerStep, Removed
    <3>2. NoText /\ \A v \in Worker : Barred(v)
      BY <3>1 DEF Inv, TextStays, Barred
    <3>3. NoText' /\ era' = era /\ Barred(w)'
      BY <3>1, <3>2 DEF GuardsText
    <3> QED BY <1>0, <3>2, <3>3 DEF Barred
  <2> QED BY <2>1, <2>2 DEF TextStays, Barred
<1>6. Swept' /\ Gone'
  <2>1. ~AllIdle
    BY DEF AllIdle
  <2> QED BY <2>1 DEF WorkerStep, Inv, Swept, Gone
<1>7. Indexed'
  <2> SUFFICES ASSUME ~Removed', ~history'.overlapped
               PROVE  /\ (doc.status = "ready")' => Served'
                      /\ \A v \in Worker : Owes(v)' /\ Resting(v)'
    BY DEF Indexed
  <2>1. ~Removed /\ ~history.overlapped
    BY DEF WorkerStep, Removed
  <2>2. Owes(w)' /\ Resting(w)'
    BY <2>1 DEF Inv, Indexed, GuardsIndex
  <2>3. \A v \in Worker : v # w => run'[v].pc = "idle"
    BY <1>0, <2>1 DEF Inv, Alone
  <2> QED BY <2>2, <2>3 DEF Owes, Resting
<1> QED BY <1>1, <1>2, <1>3, <1>4, <1>5, <1>6, <1>7 DEF Inv

\* How a worker moves: to another place, or back to rest.
LEMMA WorkerTypes ==
  ASSUME Inv, NEW w \in Worker
  PROVE  /\ run \in [Worker -> RunRow] /\ run[w] \in RunRow /\ doc \in DocRow
         /\ ~At(w, "idle") => run[w].msg \in Message
         /\ pages \in [Page -> PageStatus] /\ chunks \subseteq Chunk
         /\ points \subseteq Chunk /\ era \in Nat
         /\ tasks \subseteq Message /\ faults \in 0 .. MaxFaults
  BY DEF Inv, Typed, TypeOK, RunRow, DocRow

\* A worker may move to any record of a run.
LEMMA Moves ==
  ASSUME Inv, NEW w \in Worker, NEW r \in RunRow,
         r.pc # "idle" => r.msg \in Message, run' = [run EXCEPT ![w] = r]
  PROVE  Moved(w) /\ run'[w] = r
<1>1. run \in [Worker -> RunRow]
  BY WorkerTypes
<1> QED BY <1>1 DEF Moved

\* Going on changes the program counter only.
LEMMA Goes ==
  ASSUME Inv, NEW w \in Worker, ~At(w, "idle"), NEW pc \in Asserts \cup Steps, Go(w, pc)
  PROVE  /\ Moved(w)
         /\ run'[w].pc = pc /\ run'[w].msg = run[w].msg /\ run'[w].era = run[w].era
         /\ run'[w].todo = run[w].todo /\ run'[w].batch = run[w].batch
<1> DEFINE r == [run[w] EXCEPT !.pc = pc]
<1>1. run[w] \in RunRow /\ run[w].msg \in Message
  BY WorkerTypes
<1>2. /\ r \in RunRow /\ r.pc = pc /\ r.msg = run[w].msg /\ r.era = run[w].era
      /\ r.todo = run[w].todo /\ r.batch = run[w].batch
  BY <1>1 DEF RunRow
<1>3. run' = [run EXCEPT ![w] = r]
  BY DEF Go
<1> HIDE DEF r
<1> QED BY <1>1, <1>2, <1>3, Moves

\* Letting go of a task is such a move.
LEMMA Rests ==
  ASSUME Inv, NEW w \in Worker, run' = [run EXCEPT ![w] = Idle]
  PROVE  Moved(w) /\ run'[w] = Idle
<1>1. Idle \in RunRow /\ Idle.pc = "idle"
  BY DEF Idle, RunRow
<1> QED BY <1>1, Moves

\* A worker that comes to rest guards everything, if it writes no store and the
\* document does not become ready.
LEMMA RestGuards ==
  ASSUME Inv, NEW w \in Worker, run'[w] = Idle, UNCHANGED <<points, rows>>,
         doc'.row = doc.row, doc'.status = "ready" => doc.status = "ready"
  PROVE  GuardsPoints(w) /\ GuardsText(w) /\ GuardsIndex(w)
<1>1. era \in Nat
  BY WorkerTypes
<1>2. GuardsPoints(w)
  BY DEF GuardsPoints, Idle
<1>3. GuardsText(w)
  BY <1>1 DEF GuardsText, Idle, rows, NoText, Barred
<1>4. GuardsIndex(w)
  BY DEF GuardsIndex, Idle, rows, Owes, Resting, Served
<1> QED BY <1>2, <1>3, <1>4

\* So do the ends of an ingest, good and bad.
LEMMA EndStep ==
  ASSUME Inv, NEW w \in Worker, ~At(w, "idle"), run' = [run EXCEPT ![w] = Idle],
         doc' = doc \/ doc' = Marked, tasks' \subseteq Message,
         faults' \in 0 .. MaxFaults,
         UNCHANGED <<leaving, files, rows, sent, owed, purge, history>>
  PROVE  Inv'
<1>1. Moved(w) /\ run'[w] = Idle
  BY Rests
<1>2. /\ doc' \in DocRow /\ doc'.row = doc.row
      /\ doc'.status = "ready" => doc.status = "ready"
  BY WorkerTypes DEF Marked, DocRow, Statuses
<1>3. WorkerStep(w)
  BY <1>1, <1>2, WorkerTypes DEF WorkerStep, files, rows
<1> QED BY <1>1, <1>2, <1>3, RestGuards, Work DEF files

\* A retry is a message of the queue again (its count is bounded by max_retries).
LEMMA Retried ==
  ASSUME BoundAssumption, Inv, NEW w \in Worker, ~At(w, "idle"), NEW again, End(w, again)
  PROVE  tasks' \subseteq Message
<1> DEFINE m == run[w].msg
<1>1. m \in Message /\ tasks \subseteq Message
  BY WorkerTypes
<1>2. CASE again /\ MayRetry(m)
  <2>1. [m EXCEPT !.tries = @ + 1] \in Message
    BY <1>1, <1>2, BoundAssumption DEF MayRetry, Message
  <2> QED BY <1>1, <1>2, <2>1 DEF End
<1>3. CASE ~(again /\ MayRetry(m))
  BY <1>1, <1>3 DEF End
<1> QED BY <1>2, <1>3

\* An ingest that fails, in whatever way, preserves the invariant.
LEMMA FailingStep ==
  ASSUME BoundAssumption, Inv, NEW w \in Worker,
         GiveUp(w) \/ Fail(w) \/ Raise(w) \/ BreakSession(w)
  PROVE  Inv'
<1>1. ~At(w, "idle")
  BY DEF GiveUp, Fail, Raise, BreakSession, At
<1>2. PICK again \in BOOLEAN : End(w, again)
  BY DEF GiveUp, Fail, Raise, BreakSession
<1>3. tasks' \subseteq Message
  BY <1>1, <1>2, Retried
<1>4. doc' = doc \/ doc' = Marked
  BY DEF GiveUp, Fail, Raise, BreakSession
<1>5. faults' \in 0 .. MaxFaults
  <2>1. faults' = faults \/ Fault
    BY DEF GiveUp, Fail, Raise, BreakSession
  <2> QED BY <2>1, WorkerTypes, BoundAssumption DEF Fault
<1> QED BY <1>1, <1>2, <1>3, <1>4, <1>5, EndStep DEF End

\* So does the task of a worker that is dead, or only taken for dead, coming again.
LEMMA RedeliverStep ==
  ASSUME BoundAssumption, Inv, NEW w \in Worker, Redeliver(w)
  PROVE  Inv'
<1>1. /\ ~At(w, "idle") /\ tasks' \subseteq Message /\ faults' \in 0 .. MaxFaults
      /\ doc' = doc /\ UNCHANGED <<leaving, files, rows, sent, owed, purge, history>>
  BY WorkerTypes, BoundAssumption DEF Redeliver, Fault
<1>2. CASE run' = [run EXCEPT ![w] = Idle]
  BY <1>1, <1>2, EndStep
<1>3. CASE run' = run
  <2>1. Moved(w)
    BY <1>3, WorkerTypes DEF Moved, At
  <2>2. WorkerStep(w)
    BY <1>1, <2>1, WorkerTypes DEF WorkerStep, files, rows
  <2>3. GuardsPoints(w) /\ GuardsText(w) /\ GuardsIndex(w)
    BY <1>1, <1>3, WorkerTypes DEF Inv, TextStays, GuardsPoints, GuardsText, GuardsIndex,
       files, rows, At, Barred, NoText, Owes, Resting, Served
  <2> QED BY <1>1, <2>2, <2>3, Work
<1> QED BY <1>2, <1>3 DEF Redeliver

\* A worker that goes on without writing anything, the status included.
LEMMA GoStep ==
  ASSUME Inv, NEW w \in Worker, ~At(w, "idle"), NEW pc \in Asserts \cup Steps, Go(w, pc),
         pc \notin {"upsert", "reset", "drop", "ensure"} \/ ~Removed,
         doc' \in DocRow, doc'.row = doc.row,
         doc.status = "ready" /\ run[w].pc \in {"idle", "begin"} => doc'.status # "ready",
         doc'.status = "ready" => doc.status = "ready",
         pc \in {"upsert?", "upsert"} => run[w].pc \in {"upsert?", "upsert"},
         pc \in {"ready?", "ready"} =>
            \/ run[w].pc \in {"ready?", "ready"}
            \/ run[w].pc = "upsert" /\ run[w].batch = {},
         UNCHANGED <<leaving, files, rows, queue, purge, history, faults>>
  PROVE  Inv'
<1>1. /\ Moved(w)
      /\ run'[w].pc = pc /\ run'[w].era = run[w].era
      /\ run'[w].todo = run[w].todo /\ run'[w].batch = run[w].batch
  BY Goes
<1>2. WorkerStep(w)
  BY <1>1, WorkerTypes DEF WorkerStep, files, rows, queue
<1>3. GuardsPoints(w)
  BY <1>1 DEF GuardsPoints, files
<1>4. GuardsText(w)
  BY <1>1, WorkerTypes DEF Inv, TextStays, GuardsText, rows, NoText, Barred
<1>5. GuardsIndex(w)
  <2> SUFFICES ASSUME ~Removed, Owes(w), Resting(w)
               PROVE  Owes(w)' /\ Resting(w)'
    BY DEF GuardsIndex
  <2>1. chunks' = chunks /\ points' = points
    BY DEF rows, files
  <2>2. Owes(w)'
    BY <1>1, <2>1 DEF Owes, Served
  <2>3. Resting(w)'
    BY <1>1, <2>1 DEF Resting, Served
  <2> QED BY <2>2, <2>3
<1> QED BY <1>2, <1>3, <1>4, <1>5, Work

\* _run: the row is read, and left alone if it is deleted.
LEMMA BeginStep ==
  ASSUME Inv, NEW w \in Worker, Begin(w)
  PROVE  Inv'
<1>1. ~At(w, "idle") /\ UNCHANGED <<leaving, files, rows, queue, purge, history, faults>>
  BY DEF Begin, At
<1>2. CASE doc.row = "live"
  <2>1. Go(w, "reset?") /\ doc' = [doc EXCEPT !.status = "processing"]
    BY <1>2 DEF Begin
  <2>2. doc' \in DocRow /\ doc'.row = doc.row /\ doc'.status = "processing"
    BY <2>1, WorkerTypes DEF DocRow, Statuses
  <2> QED BY <1>1, <2>1, <2>2, GoStep DEF Asserts
<1>3. CASE doc.row # "live"
  BY <1>1, <1>3, EndStep, WorkerTypes DEF Begin, queue
<1> QED BY <1>2, <1>3

\* _assert_document_ingestible: nobody passes it once the row is deleted.
LEMMA AssertStep ==
  ASSUME Inv, NEW w \in Worker, AssertIngestible(w)
  PROVE  Inv'
<1>1. /\ ~At(w, "idle") /\ doc' = doc /\ run[w].pc \in Asserts
      /\ UNCHANGED <<leaving, files, rows, queue, purge, history, faults>>
  BY DEF AssertIngestible, At, Asserts
<1>2. CASE doc.row = "live"
  <2>1. Go(w, AfterAssert(w)) /\ ~Removed
    BY <1>2 DEF AssertIngestible, Ingestible, Removed
  <2>2. /\ AfterAssert(w) \in Steps
        /\ AfterAssert(w) \notin {"upsert?", "ready?"}
        /\ AfterAssert(w) = "upsert" => run[w].pc = "upsert?"
        /\ AfterAssert(w) = "ready" => run[w].pc = "ready?"
    BY <1>1 DEF AfterAssert, At, Asserts, Steps
  <2>3. run[w].pc \notin {"idle", "begin"}
    BY <1>1 DEF Asserts
  <2> HIDE DEF AfterAssert
  <2> QED BY <1>1, <2>1, <2>2, <2>3, WorkerTypes, GoStep
<1>3. CASE doc.row # "live"
  BY <1>1, <1>3, EndStep, WorkerTypes DEF AssertIngestible, Ingestible, queue
<1> QED BY <1>2, <1>3

\* The test that enough pages were read writes nothing.
LEMMA RequireUsableStep ==
  ASSUME Inv, NEW w \in Worker, RequireUsable(w)
  PROVE  Inv'
<1>1. /\ run[w].pc = "pages" /\ ~At(w, "idle") /\ doc' = doc /\ Go(w, "chunk?")
      /\ UNCHANGED <<leaving, files, rows, queue, purge, history, faults>>
  BY DEF RequireUsable, At
<1> QED BY <1>1, WorkerTypes, GoStep DEF Asserts

\* Writing the stores.
LEMMA ResetPointsStep ==
  ASSUME Inv, NEW w \in Worker, ResetPoints(w)
  PROVE  Inv'
<1>1. /\ run[w].pc = "reset" /\ ~At(w, "idle") /\ doc' = doc /\ points' = {}
      /\ UNCHANGED <<leaving, blob, rows, queue, purge, history, faults>>
  BY DEF ResetPoints, At
<1>2. /\ Moved(w)
      /\ run'[w].pc = "drop" /\ run'[w].era = run[w].era /\ run'[w].todo = run[w].todo
  BY <1>1, Goes DEF ResetPoints, Steps
<1>3. WorkerStep(w)
  BY <1>1, <1>2, WorkerTypes DEF WorkerStep, rows, queue
<1>4. GuardsPoints(w)
  BY <1>1, <1>2 DEF GuardsPoints
<1>5. GuardsText(w)
  BY <1>1, <1>2, WorkerTypes DEF Inv, TextStays, GuardsText, rows, Barred
<1>6. GuardsIndex(w)
  BY <1>1, <1>2 DEF GuardsIndex, Owes, Resting
<1> QED BY <1>1, <1>3, <1>4, <1>5, <1>6, Work

\* Rows that are dropped get new keys, so who holds the old ones stays barred.
LEMMA ResetRowsStep ==
  ASSUME Inv, NEW w \in Worker, ResetRows(w)
  PROVE  Inv'
<1>1. /\ run[w].pc = "drop" /\ ~At(w, "idle") /\ doc' = doc /\ NoRows
      /\ UNCHANGED <<leaving, files, queue, purge, history, faults>>
  BY DEF ResetRows, At
<1>2. /\ Moved(w)
      /\ run'[w].pc = "ensure" /\ run'[w].era = run[w].era
  BY <1>1, Goes DEF ResetRows, Steps
<1>3. WorkerStep(w)
  BY <1>1, <1>2, WorkerTypes DEF WorkerStep, files, queue, NoRows, PageStatus
<1>4. GuardsPoints(w)
  BY <1>1, <1>2 DEF GuardsPoints, files
<1>5. GuardsText(w)
  BY <1>1, <1>2, WorkerTypes DEF Inv, TextStays, GuardsText, NoRows, Barred, RunRow
<1>6. GuardsIndex(w)
  BY <1>1, <1>2 DEF GuardsIndex, Owes, Resting
<1> QED BY <1>1, <1>3, <1>4, <1>5, <1>6, Work

\* The page rows are inserted, by an ingest that is let in or was late.
LEMMA EnsurePageRowsStep ==
  ASSUME Inv, NEW w \in Worker, EnsurePageRows(w)
  PROVE  Inv'
<1>1. /\ run[w].pc = "ensure" /\ ~At(w, "idle") /\ doc' = doc
      /\ pages' = [p \in Page |-> IF pages[p] = "none" THEN "pending" ELSE pages[p]]
      /\ UNCHANGED <<leaving, files, chunks, era, queue, purge, history, faults>>
  BY DEF EnsurePageRows, At
<1>2. /\ Moved(w)
      /\ run'[w].pc = "load" /\ run'[w].era = run[w].era
  BY <1>1, Goes DEF EnsurePageRows, Steps
<1>3. pages' \in [Page -> PageStatus]
  BY <1>1, WorkerTypes DEF PageStatus
<1>4. WorkerStep(w)
  BY <1>1, <1>2, <1>3, WorkerTypes DEF WorkerStep, files, queue
<1>5. GuardsPoints(w)
  BY <1>1, <1>2 DEF GuardsPoints, files
<1>6. GuardsText(w)
  BY <1>1, <1>2, WorkerTypes DEF Inv, TextStays, GuardsText, Barred
<1>7. GuardsIndex(w)
  BY <1>1, <1>2 DEF GuardsIndex, Owes, Resting
<1> QED BY <1>1, <1>4, <1>5, <1>6, <1>7, Work

\* Who reads the pages of a deleted document finds none.
LEMMA LoadFileStep ==
  ASSUME Inv, NEW w \in Worker, LoadFile(w)
  PROVE  Inv'
<1> DEFINE left == {p \in Page : pages[p] \in {"pending", "failed"}}
           r == [run[w] EXCEPT !.pc = "ocr", !.era = era, !.fresh = TRUE, !.todo = left]
<1>1. /\ run[w].pc = "load" /\ ~At(w, "idle") /\ doc' = doc
      /\ run' = [run EXCEPT ![w] = r]
      /\ UNCHANGED <<leaving, files, rows, queue, purge, history, faults>>
  BY DEF LoadFile, At
<1>2. /\ r \in RunRow /\ r.pc = "ocr" /\ r.era = era /\ r.todo = left
      /\ r.msg \in Message
  <2>1. run[w] \in RunRow /\ run[w].msg \in Message /\ left \subseteq Page /\ era \in Nat
    BY <1>1, WorkerTypes
  <2> HIDE DEF left
  <2> QED BY <2>1 DEF RunRow, Steps
<1> HIDE DEF r
<1>3. Moved(w) /\ run'[w] = r
  BY <1>1, <1>2, Moves
<1>4. WorkerStep(w)
  BY <1>1, <1>3, WorkerTypes DEF WorkerStep, files, rows, queue
<1>5. GuardsPoints(w)
  BY <1>1, <1>2, <1>3 DEF GuardsPoints, files
<1>6. GuardsText(w)
  BY <1>1, <1>2, <1>3, WorkerTypes DEF GuardsText, rows, NoText, Barred
<1>7. GuardsIndex(w)
  BY <1>1, <1>2, <1>3 DEF GuardsIndex, Owes, Resting
<1> QED BY <1>1, <1>4, <1>5, <1>6, <1>7, Work

\* A result is written for a page that was read in the same era only.
LEMMA OcrPageStep ==
  ASSUME Inv, NEW w \in Worker, OcrPage(w)
  PROVE  Inv'
<1>1. /\ run[w].pc = "ocr" /\ ~At(w, "idle") /\ doc' = doc
      /\ UNCHANGED <<leaving, files, chunks, era, queue, purge, history, faults>>
  BY DEF OcrPage, At
<1>2. /\ run[w] \in RunRow /\ run[w].msg \in Message
      /\ run[w].era \in Nat /\ run[w].todo \subseteq Page /\ era \in Nat
      /\ run[w].era <= era
  BY <1>1, WorkerTypes DEF RunRow, Inv, TextStays
<1>3. PICK r \in RunRow :
        /\ run' = [run EXCEPT ![w] = r]
        /\ r.pc \in {"ocr", "pages?"} /\ r.msg = run[w].msg
        /\ r.era \in {0, run[w].era} /\ r.todo \subseteq run[w].todo
        /\ r.era = run[w].era \/ r.todo = {}
  <2>1. CASE run[w].todo = {}
             /\ run' = [run EXCEPT ![w].pc = "pages?", ![w].era = 0, ![w].fresh = FALSE]
    <3> DEFINE r == [run[w] EXCEPT !.pc = "pages?", !.era = 0, !.fresh = FALSE]
    <3>1. /\ r \in RunRow /\ r.pc = "pages?" /\ r.msg = run[w].msg /\ r.era = 0
          /\ r.todo = run[w].todo
      BY <1>2 DEF RunRow, Asserts
    <3>2. run' = [run EXCEPT ![w] = r]
      BY <2>1
    <3> HIDE DEF r
    <3> QED BY <2>1, <3>1, <3>2
  <2>2. ASSUME NEW p \in run[w].todo, NEW fresh \in BOOLEAN,
               run' = [run EXCEPT ![w] = [run[w] EXCEPT !.todo = run[w].todo \ {p},
                                                        !.fresh = fresh]]
        PROVE  \E r \in RunRow :
                 /\ run' = [run EXCEPT ![w] = r]
                 /\ r.pc = "ocr" /\ r.msg = run[w].msg
                 /\ r.era = run[w].era /\ r.todo \subseteq run[w].todo
    <3> DEFINE r == [run[w] EXCEPT !.todo = run[w].todo \ {p}, !.fresh = fresh]
    <3>1. /\ r \in RunRow /\ r.pc = "ocr" /\ r.msg = run[w].msg
          /\ r.era = run[w].era /\ r.todo \subseteq run[w].todo
      BY <1>1, <1>2 DEF RunRow
    <3>2. run' = [run EXCEPT ![w] = r]
      BY <2>2
    <3> HIDE DEF r
    <3> QED BY <3>1, <3>2
  <2>3. ASSUME NEW p \in run[w].todo,
               run' = [run EXCEPT ![w].todo = @ \ {p}, ![w].fresh = FALSE]
        PROVE  run' = [run EXCEPT ![w] = [run[w] EXCEPT !.todo = run[w].todo \ {p},
                                                        !.fresh = FALSE]]
    BY <2>3
  <2>4. ASSUME NEW p \in run[w].todo, run' = [run EXCEPT ![w].todo = @ \ {p}]
        PROVE  run' = [run EXCEPT ![w] =
                         [run[w] EXCEPT !.todo = run[w].todo \ {p},
                                         !.fresh = run[w].fresh]]
    <3>1. [run[w] EXCEPT !.todo = run[w].todo \ {p}, !.fresh = run[w].fresh]
            = [run[w] EXCEPT !.todo = run[w].todo \ {p}]
      BY <1>2 DEF RunRow
    <3> QED BY <2>4, <3>1
  <2>5. run[w].fresh \in BOOLEAN
    BY <1>2, Zenon DEF RunRow
  <2> QED BY <2>1, <2>2, <2>3, <2>4, <2>5 DEF OcrPage
<1>4. Moved(w) /\ run'[w] = r
  BY <1>2, <1>3, Moves
<1>5. /\ pages' \in [Page -> PageStatus]
      /\ pages' = pages \/ (run[w].era = era /\ run[w].todo # {})
  BY <1>2, WorkerTypes DEF OcrPage, PageStatus
<1>6. WorkerStep(w)
  BY <1>1, <1>4, <1>5, WorkerTypes DEF WorkerStep, files, queue
<1>7. GuardsPoints(w)
  BY <1>1, <1>3, <1>4 DEF GuardsPoints, files
<1>8. GuardsText(w)
  BY <1>1, <1>2, <1>3, <1>4, <1>5 DEF GuardsText, NoText, Barred
<1>9. GuardsIndex(w)
  BY <1>1, <1>3, <1>4 DEF GuardsIndex, Owes, Resting
<1> QED BY <1>1, <1>6, <1>7, <1>8, <1>9, Work

\* Chunks are made of pages that were read: no pages, no chunks.
LEMMA RebuiltFacts ==
  ASSUME Inv, NEW w \in Worker
  PROVE  Rebuilt \subseteq Chunk /\ (NoText => Rebuilt = {})
<1>1. Drafts \subseteq Chunk
  <2> DEFINE read == {p \in Page : pages[p] \in {"parsed", "blank"}}
             header == Cardinality(read) >= MinPages
  <2>1. Drafts = {[page |-> p, era |-> era, header |-> header] : p \in Usable}
    BY DEF Drafts
  <2>2. header \in BOOLEAN
    OBVIOUS
  <2> HIDE DEF header
  <2> QED BY <2>1, <2>2, WorkerTypes DEF Chunk, Usable
<1>2. NoText => Drafts = {}
  BY DEF NoText, Drafts, Usable
<1> QED BY <1>1, <1>2, WorkerTypes DEF Rebuilt, NoText

\* All chunks, the ones of earlier runs too, are to be written again.
LEMMA ChunkingStep ==
  ASSUME Inv, NEW w \in Worker, Chunking(w)
  PROVE  Inv'
<1> DEFINE r == [run[w] EXCEPT !.pc = "upsert?", !.batch = Rebuilt]
<1>1. /\ run[w].pc = "chunk" /\ ~At(w, "idle") /\ doc' = doc
      /\ run' = [run EXCEPT ![w] = r] /\ chunks' = Rebuilt /\ Rebuilt # {}
      /\ UNCHANGED <<leaving, files, pages, era, queue, purge, history, faults>>
  BY DEF Chunking, ToEmbed, At
<1>2. Rebuilt \subseteq Chunk /\ (NoText => Rebuilt = {})
  BY RebuiltFacts
<1> HIDE DEF Rebuilt
<1>3. /\ r \in RunRow /\ r.pc = "upsert?" /\ r.batch = Rebuilt /\ r.msg \in Message
      /\ r.era = run[w].era
  <2>1. run[w] \in RunRow /\ run[w].msg \in Message
    BY <1>1, WorkerTypes
  <2> QED BY <1>2, <2>1 DEF RunRow, Asserts
<1> HIDE DEF r
<1>4. Moved(w) /\ run'[w] = r
  BY <1>1, <1>3, Moves
<1>5. WorkerStep(w)
  BY <1>1, <1>2, <1>4, WorkerTypes DEF WorkerStep, files, queue
<1>6. GuardsPoints(w)
  BY <1>1, <1>3, <1>4 DEF GuardsPoints, files
<1>7. GuardsText(w)
  BY <1>1, <1>2, <1>3, <1>4, WorkerTypes DEF Inv, TextStays, GuardsText
<1>8. GuardsIndex(w)
  BY <1>1, <1>3, <1>4 DEF GuardsIndex, Owes, Resting
<1> QED BY <1>1, <1>5, <1>6, <1>7, <1>8, Work

\* Each upsert pays one of the points that are owed, or was late.
LEMMA UpsertStep ==
  ASSUME Inv, NEW w \in Worker, Upsert(w)
  PROVE  Inv'
<1>1. /\ run[w].pc = "upsert" /\ At(w, "upsert") /\ ~At(w, "idle") /\ doc' = doc
      /\ UNCHANGED <<leaving, blob, rows, queue, purge, history, faults>>
  BY DEF Upsert, At
<1>2. CASE run[w].batch = {}
  BY <1>1, <1>2, WorkerTypes, GoStep DEF Upsert, Asserts, files
<1>3. CASE run[w].batch # {}
  <2>1. PICK c \in run[w].batch :
          /\ points' = points \cup {c}
          /\ run' = [run EXCEPT ![w].batch = @ \ {c}]
    BY <1>3 DEF Upsert
  <2> DEFINE r == [run[w] EXCEPT !.batch = @ \ {c}]
  <2>2. run[w] \in RunRow /\ run[w].msg \in Message /\ run[w].batch \subseteq Chunk
    BY <1>1, WorkerTypes DEF RunRow
  <2>3. /\ r \in RunRow /\ r.pc = "upsert" /\ r.batch = run[w].batch \ {c}
        /\ r.era = run[w].era /\ r.todo = run[w].todo /\ r.msg \in Message
    BY <1>1, <2>2 DEF RunRow
  <2>4. run' = [run EXCEPT ![w] = r]
    BY <2>1
  <2> HIDE DEF r
  <2>5. Moved(w) /\ run'[w] = r
    BY <2>3, <2>4, Moves
  <2>6. WorkerStep(w)
    BY <1>1, <2>1, <2>2, <2>5, WorkerTypes DEF WorkerStep, rows, queue
  <2>7. GuardsPoints(w)
    BY <1>1 DEF GuardsPoints
  <2>8. GuardsText(w)
    BY <1>1, <2>3, <2>5, WorkerTypes DEF Inv, TextStays, GuardsText, rows, NoText, Barred
  <2>9. GuardsIndex(w)
    BY <1>1, <2>1, <2>3, <2>5 DEF GuardsIndex, Owes, Resting, rows
  <2> QED BY <1>1, <2>6, <2>7, <2>8, <2>9, Work
<1> QED BY <1>2, <1>3

\* The document becomes ready when its chunks are served.
LEMMA MarkReadyStep ==
  ASSUME Inv, NEW w \in Worker, MarkReady(w)
  PROVE  Inv'
<1>1. /\ run[w].pc = "ready" /\ ~At(w, "idle") /\ doc' = [doc EXCEPT !.status = "ready"]
      /\ run' = [run EXCEPT ![w] = Idle]
      /\ UNCHANGED <<leaving, files, rows, queue, purge, history, faults>>
  BY DEF MarkReady, At
<1>2. doc' \in DocRow /\ doc'.row = doc.row
  BY <1>1, WorkerTypes DEF DocRow, Statuses
<1>3. Moved(w) /\ run'[w] = Idle
  BY <1>1, Rests
<1>4. WorkerStep(w)
  BY <1>1, <1>2, <1>3, WorkerTypes DEF WorkerStep, files, rows, queue
<1>5. GuardsPoints(w)
  BY <1>1, <1>3 DEF GuardsPoints, files, Idle
<1>6. GuardsText(w)
  BY <1>1, <1>3, WorkerTypes DEF GuardsText, Idle, rows, NoText, Barred
<1>7. GuardsIndex(w)
  BY <1>1, <1>3 DEF GuardsIndex, Owes, Resting, Served, Idle, files, rows
<1> QED BY <1>1, <1>4, <1>5, <1>6, <1>7, Work

\* A worker takes a task while the document stands.
LEMMA TakeTaskStep ==
  ASSUME Inv, NEW w \in Worker, TakeTask(w)
  PROVE  Inv'
<1> USE DEF At
<1>1. PICK m \in tasks :
       /\ tasks' = tasks \ {m}
       /\ IF doc.row = "live" /\ ~leaving
          THEN /\ run' = [run EXCEPT ![w] = [Idle EXCEPT !.pc = "begin", !.msg = m]]
               /\ history' = [history EXCEPT !.overlapped =
                                @ \/ \E v \in Worker : ~At(v, "idle")]
          ELSE UNCHANGED <<run, history>>
  BY DEF TakeTask
<1>2. /\ run[w].pc = "idle"
      /\ UNCHANGED <<doc, leaving, files, rows, sent, owed, purge, faults>>
  BY DEF TakeTask
<1>3. m \in Message /\ tasks' \subseteq Message
  BY <1>1, WorkerTypes
<1>4. CASE ~(doc.row = "live" /\ ~leaving)
  <2>1. UNCHANGED <<run, history, doc, leaving, files, rows, sent, owed, purge, faults>>
    BY <1>1, <1>2, <1>4
  <2>2. Typed'
    BY <1>3, <2>1, Zenon DEF Inv, Typed, TypeOK, files, rows
  <2> QED BY <2>1, <2>2 DEF Inv, Alone, Removing, PointsStay, TextStays, Swept, Gone,
             Indexed, Removed, NoText, AllIdle, Served, Owes, Resting, files, rows
<1>5. CASE doc.row = "live" /\ ~leaving
  <2> DEFINE r == [Idle EXCEPT !.pc = "begin", !.msg = m]
             o == history.overlapped \/ \E v \in Worker : ~At(v, "idle")
  <2>1. /\ r \in RunRow /\ r.pc = "begin" /\ r.msg = m /\ r.era = 0 /\ r.todo = {}
    BY <1>3 DEF Idle, RunRow, Steps
  <2>2. run' = [run EXCEPT ![w] = r] /\ history' = [history EXCEPT !.overlapped = o]
    BY <1>1, <1>5
  <2>3. history \in [Remembered -> BOOLEAN] /\ o \in BOOLEAN
    BY Zenon DEF Inv, Typed, TypeOK
  <2>4. ~o <=> ~history.overlapped /\ \A v \in Worker : run[v].pc = "idle"
    OBVIOUS
  <2> HIDE DEF r, o
  <2>5. Moved(w) /\ run'[w] = r
    BY <1>3, <2>1, <2>2, Moves
  <2>6. history' \in [Remembered -> BOOLEAN]
    BY <2>2, <2>3
  <2>7. history'.overlapped = o
    BY <2>2, <2>3 DEF Remembered
  <2>8. ~Removed /\ ~Removed' /\ doc'.row = "live" /\ purge'.pc = "idle"
        /\ history'.cleaned = FALSE
    BY <1>2, <1>5, <2>2, <2>3 DEF Removed, Inv, Removing, Remembered
  <2>9. Typed'
    BY <1>2, <1>3, <2>5, <2>6, Zenon DEF Moved, Inv, Typed, TypeOK, files, rows, RunRow
  <2>10. Alone'
    BY <2>4, <2>5, <2>7 DEF Moved, Alone
  <2>11. Removing' /\ PointsStay' /\ Swept' /\ Gone'
    BY <2>8 DEF Removing, PointsStay, Swept, Gone
  <2>12. TextStays'
    BY <1>2, <2>1, <2>5, <2>8, WorkerTypes DEF Moved, Inv, TextStays, rows
  <2>13. Indexed'
    BY <1>2, <2>1, <2>4, <2>5, <2>7, <2>8
    DEF Moved, Inv, Indexed, Served, Owes, Resting, files, rows
  <2> QED BY <2>9, <2>10, <2>11, <2>12, <2>13 DEF Inv
<1> QED BY <1>4, <1>5

-----------------------------------------------------------------------------
(***************************************************************************)
(* Requests and the removal: no worker moves.                              *)
(***************************************************************************)
LEMMA OtherTypes ==
  ASSUME Inv
  PROVE  /\ doc \in DocRow /\ era \in Nat /\ run \in [Worker -> RunRow]
         /\ pages \in [Page -> PageStatus] /\ chunks \subseteq Chunk
         /\ points \subseteq Chunk /\ tasks \subseteq Message /\ owed \subseteq Modes
         /\ sent \in 0 .. MaxSent /\ faults \in 0 .. MaxFaults
         /\ purge \in [pc : {"idle", "blob", "points", "row"},
                       by : {"user", "sweep"}, failed : SUBSET {"blob", "points"}]
         /\ history \in [Remembered -> BOOLEAN]
  BY Zenon DEF Inv, Typed, TypeOK, DocRow, RunRow

\* Nobody resurrects a row, and a file comes before the row only.
LEMMA RequestStep ==
  ASSUME BoundAssumption, Inv,
         \/ PutFile \/ SaveDocument \/ DeleteWorkspace
         \/ \E mode \in Modes : Reprocess(mode) \/ EnqueueIngest(mode)
  PROVE  Inv'
<1>1. UNCHANGED <<points, rows, run, purge, history, faults>>
  BY DEF PutFile, SaveDocument, DeleteWorkspace, Reprocess, EnqueueIngest, files
<1>2. /\ doc' \in DocRow
      /\ doc'.row = doc.row \/ (doc.row = "absent" /\ doc'.row = "live")
      /\ doc' = doc \/ doc'.status = "queued"
  BY OtherTypes DEF PutFile, SaveDocument, DeleteWorkspace, Reprocess, EnqueueIngest,
     DocRow, Statuses
<1>3. blob' = blob \/ doc.row = "absent"
  BY DEF PutFile, SaveDocument, DeleteWorkspace, Reprocess, EnqueueIngest, files
<1>4. leaving' \in BOOLEAN /\ blob' \in BOOLEAN
  <2>1. leaving \in BOOLEAN /\ blob \in BOOLEAN
    BY DEF Inv, Typed, TypeOK
  <2>2. leaving' \in {leaving, TRUE} /\ blob' \in {blob, TRUE}
    BY Zenon DEF PutFile, SaveDocument, DeleteWorkspace, Reprocess, EnqueueIngest, files
  <2> QED BY <2>1, <2>2
<1>5. tasks' \subseteq Message /\ sent' \in 0 .. MaxSent /\ owed' \subseteq Modes
  <2>1. ASSUME NEW mode \in Modes, EnqueueIngest(mode)
        PROVE  tasks' \subseteq Message /\ sent' \in 0 .. MaxSent /\ owed' \subseteq Modes
    <3>1. [n |-> sent + 1, mode |-> mode, tries |-> 0] \in Message /\ sent + 1 \in 0 .. MaxSent
      BY <2>1, OtherTypes, BoundAssumption DEF EnqueueIngest, Message
    <3> QED BY <2>1, <3>1, OtherTypes DEF EnqueueIngest
  <2>2. ASSUME NEW mode \in Modes, Reprocess(mode)
        PROVE  tasks' \subseteq Message /\ sent' \in 0 .. MaxSent /\ owed' \subseteq Modes
    BY <2>2, OtherTypes DEF Reprocess
  <2>3. CASE PutFile \/ SaveDocument \/ DeleteWorkspace
    BY <2>3, OtherTypes DEF PutFile, SaveDocument, DeleteWorkspace, queue, Modes
  <2> QED BY <2>1, <2>2, <2>3
<1>6. Typed'
  <2>1. TypeOK'
    BY <1>1, <1>2, <1>4, <1>5, Zenon DEF Inv, Typed, TypeOK, DocRow, rows
  <2> QED BY <1>1, <2>1 DEF Inv, Typed, At
<1>7. Alone' /\ Removing'
  BY <1>1, <1>2 DEF Inv, Alone, Removing, Removed, At
<1>8. PointsStay' /\ TextStays'
  BY <1>1, <1>2 DEF Inv, PointsStay, TextStays, Removed, At, NoText, rows
<1>9. Swept' /\ Gone'
  BY <1>1, <1>2, <1>3 DEF Inv, Removing, Swept, Gone, AllIdle, At, NoText, rows
<1>10. Indexed'
  BY <1>1, <1>2 DEF Inv, Indexed, Removed, Served, Owes, Resting, rows
<1> QED BY <1>6, <1>7, <1>8, <1>9, <1>10 DEF Inv

\* The deletion: it takes a new era, and notes who is past the last check.
LEMMA SoftDeleteStep ==
  ASSUME Inv, NEW by \in {"user", "sweep"}, SoftDelete(by), doc.row = "live",
         purge.pc = "idle", by = "sweep" => AllIdle,
         UNCHANGED <<leaving, files, queue, run, faults>>
  PROVE  Inv'
<1> DEFINE lateRows == \E w \in Worker : run[w].pc \in {"reset", "drop", "ensure"}
           latePoints == \E w \in Worker : At(w, "upsert")
<1>1. /\ doc' = [row |-> "deleted", status |-> "deleting"]
      /\ purge' = [pc |-> "blob", by |-> by, failed |-> {}]
      /\ NoText' /\ pages' \in [Page -> PageStatus] /\ era' = era + 1
  BY DEF SoftDelete, NoRows, NoText, PageStatus
<1>2. history' = [history EXCEPT !.lateRows = lateRows, !.latePoints = latePoints]
  BY DEF SoftDelete
<1>3. lateRows \in BOOLEAN /\ latePoints \in BOOLEAN /\ history \in [Remembered -> BOOLEAN]
  BY OtherTypes
<1>4. /\ ~lateRows => \A w \in Worker : run[w].pc \notin {"reset", "drop", "ensure"}
      /\ ~latePoints => \A w \in Worker : ~At(w, "upsert")
  OBVIOUS
<1> HIDE DEF lateRows, latePoints
<1>5. /\ history' \in [Remembered -> BOOLEAN]
      /\ history'.lateRows = lateRows /\ history'.latePoints = latePoints
      /\ history'.cleaned = history.cleaned /\ history'.overlapped = history.overlapped
  BY <1>2, <1>3 DEF Remembered
<1>6. Typed'
  <2>1. doc' \in DocRow /\ chunks' \subseteq Chunk /\ era' \in Nat
    BY <1>1, OtherTypes DEF DocRow, Statuses, NoText
  <2>2. purge' \in [pc : {"idle", "blob", "points", "row"},
                    by : {"user", "sweep"}, failed : SUBSET {"blob", "points"}]
    BY <1>1
  <2>3. TypeOK'
    BY <1>1, <1>5, <2>1, <2>2, Zenon DEF Inv, Typed, TypeOK, DocRow, files, queue
  <2> QED BY <2>3 DEF Inv, Typed, At
<1>7. Alone' /\ Removing'
  BY <1>1, <1>5 DEF Inv, Alone, Removing, Removed, At
<1>8. PointsStay'
  BY <1>4, <1>5 DEF Inv, PointsStay, Removing, Removed, At
<1>9. TextStays'
  <2>1. \A w \in Worker : run'[w].era <= era /\ run'[w].era \in Nat
    BY OtherTypes DEF Inv, TextStays, RunRow
  <2> QED BY <1>1, <1>4, <1>5, <2>1, OtherTypes DEF TextStays
<1>10. Swept' /\ Gone' /\ Indexed'
  BY <1>1 DEF Swept, Gone, Indexed, Removed, AllIdle, At
<1> QED BY <1>6, <1>7, <1>8, <1>9, <1>10 DEF Inv

\* What the steps of a removal leave alone.
Purging ==
  /\ UNCHANGED <<leaving, rows, queue, run, doc>>
  /\ history' = history \/ doc.row = "deleted"
  /\ history' \in [Remembered -> BOOLEAN]
  /\ \A h \in Remembered : h # "cleaned" => history'[h] = history[h]
  /\ history'["cleaned"] => history["cleaned"] \/ points' = {}
  /\ faults' \in 0 .. MaxFaults
  /\ points' \in {points, {}} /\ blob' \in {blob, FALSE}
  /\ purge' \in [pc : {"idle", "blob", "points", "row"},
                 by : {"user", "sweep"}, failed : SUBSET {"blob", "points"}]
  /\ purge'.pc # "idle" => doc.row = "deleted"

\* The steps that empty the stores write nothing but stores and their own record.
LEMMA PurgingStep ==
  ASSUME Inv, Purging, Swept', points' = points \/ doc.row = "deleted"
  PROVE  Inv'
<1>1. Typed'
  <2>1. leaving' \in BOOLEAN /\ blob' \in BOOLEAN
    <3>1. leaving \in BOOLEAN /\ blob \in BOOLEAN
      BY DEF Inv, Typed, TypeOK
    <3> QED BY <3>1, Zenon DEF Purging
  <2>2. points' \subseteq Chunk
    BY OtherTypes DEF Purging
  <2>3. TypeOK'
    BY <2>1, <2>2, Zenon DEF Inv, Typed, TypeOK, Purging, rows, queue
  <2> QED BY <2>3 DEF Inv, Typed, At, Purging
<1>2. /\ history'.overlapped = history.overlapped /\ history'.lateRows = history.lateRows
      /\ history'.latePoints = history.latePoints
  BY DEF Purging, Remembered
<1>3. Alone' /\ Removing'
  BY <1>2 DEF Inv, Alone, Removing, Removed, At, Purging
<1>4. PointsStay' /\ TextStays'
  BY <1>2 DEF Inv, PointsStay, TextStays, Removed, At, NoText, rows, Purging
<1>5. Gone'
  BY DEF Inv, Gone, AllIdle, At, NoText, rows, Purging
<1>6. Indexed'
  BY <1>2 DEF Inv, Indexed, Removed, Served, Owes, Resting, rows, Purging
<1> QED BY <1>1, <1>3, <1>4, <1>5, <1>6 DEF Inv

\* The nightly sweep begins when no ingest is at the document.
LEMMA SweepStep ==
  ASSUME Inv, Sweep
  PROVE  Inv'
<1>1. AllIdle /\ purge.pc = "idle" /\ UNCHANGED <<leaving, files, queue, run, faults>>
  BY DEF Sweep, Retained, AllIdle
<1>2. CASE doc.row = "live" /\ SoftDelete("sweep")
  BY <1>1, <1>2, SoftDeleteStep
<1>3. CASE /\ doc.row = "deleted"
           /\ purge' = [pc |-> "blob", by |-> "sweep", failed |-> {}]
           /\ UNCHANGED <<doc, rows, history>>
  <2>1. Purging
    BY <1>1, <1>3, OtherTypes, Zenon DEF Purging, files
  <2>2. Swept'
    BY <1>1, <1>3 DEF Swept, AllIdle, At
  <2> QED BY <1>1, <2>1, <2>2, PurgingStep DEF files
<1> QED BY <1>2, <1>3 DEF Sweep

\* Emptying the file store and the points, or dying between the two.
LEMMA RemovalStep ==
  ASSUME BoundAssumption, Inv, PurgeFile \/ PurgePoints \/ PurgeDies
  PROVE  Inv'
<1>0. doc.row = "deleted" /\ purge.pc # "idle"
  BY DEF Inv, Removing, PurgeFile, PurgePoints, PurgeDies
<1>1. faults' \in 0 .. MaxFaults
  <2>1. faults' = faults \/ Fault
    BY DEF PurgeFile, PurgePoints, PurgeDies
  <2> QED BY <2>1, OtherTypes, BoundAssumption DEF Fault
<1>2. UNCHANGED <<leaving, rows, queue, run, doc>>
      /\ points' \in {points, {}} /\ blob' \in {blob, FALSE}
  BY DEF PurgeFile, PurgePoints, PurgeDies, files
<1>3. /\ history' \in [Remembered -> BOOLEAN]
      /\ \A h \in Remembered : h # "cleaned" => history'[h] = history[h]
      /\ history'["cleaned"] => history["cleaned"] \/ points' = {}
  <2>1. \/ history' = history
        \/ history' = [history EXCEPT !.cleaned = TRUE] /\ points' = {}
    BY DEF PurgeFile, PurgePoints, PurgeDies
  <2> QED BY <2>1, OtherTypes DEF Remembered
<1>4. purge' \in [pc : {"idle", "blob", "points", "row"},
                  by : {"user", "sweep"}, failed : SUBSET {"blob", "points"}]
  <2>1. PICK pc \in {"idle", "points", "row"}, by \in {"user", "sweep"},
             failed \in SUBSET {"blob", "points"} :
               purge' = [pc |-> pc, by |-> by, failed |-> failed]
    <3>1. CASE PurgeFile
      BY <3>1, OtherTypes DEF PurgeFile
    <3>2. CASE PurgePoints
      BY <3>2, OtherTypes DEF PurgePoints
    <3>3. CASE PurgeDies
      BY <3>3 DEF PurgeDies, NoPurge
    <3> QED BY <3>1, <3>2, <3>3
  <2> QED BY <2>1
<1>5. Swept'
  <2>1. CASE PurgeFile
    BY <2>1, OtherTypes DEF PurgeFile, Inv, Swept, AllIdle, At
  <2>2. CASE PurgePoints
    BY <2>2, OtherTypes DEF PurgePoints, Inv, Swept, AllIdle, At
  <2>3. CASE PurgeDies
    BY <2>3 DEF PurgeDies, NoPurge, Swept
  <2> QED BY <2>1, <2>2, <2>3
<1>6. Purging
  BY <1>0, <1>1, <1>2, <1>3, <1>4, Zenon DEF Purging
<1> QED BY <1>0, <1>5, <1>6, PurgingStep

\* The row goes when both stores were emptied and nobody can refill them.
LEMMA PurgeRowStep ==
  ASSUME Inv, PurgeRow
  PROVE  Inv'
<1>0. /\ doc.row = "deleted" /\ purge.pc = "row" /\ purge' = NoPurge
      /\ UNCHANGED <<leaving, files, queue, run, history, faults>>
  BY DEF Inv, Removing, PurgeRow
<1>1. NoPurge \in [pc : {"idle", "blob", "points", "row"},
                   by : {"user", "sweep"}, failed : SUBSET {"blob", "points"}]
  BY DEF NoPurge
<1>2. CASE purge.by = "sweep" /\ Purged(purge.failed)
  <2>1. /\ doc' = [doc EXCEPT !.row = "gone"] /\ NoRows
        /\ AllIdle /\ ~blob /\ points = {}
    BY <1>0, <1>2 DEF PurgeRow, Purged, Inv, Swept
  <2>2. doc' \in DocRow /\ doc'.row = "gone" /\ NoText'
        /\ pages' \in [Page -> PageStatus] /\ chunks' \subseteq Chunk /\ era' = era + 1
    BY <2>1, OtherTypes DEF DocRow, NoRows, NoText, PageStatus
  <2>3. TypeOK'
    <3>1. era' \in Nat
      BY <2>2, OtherTypes
    <3> QED BY <1>0, <1>1, <2>2, <3>1, Zenon DEF Inv, Typed, TypeOK, DocRow, files, queue
  <2>4. Typed' /\ Alone' /\ Removing'
    BY <1>0, <2>2, <2>3 DEF Inv, Typed, Alone, Removing, Removed, NoPurge, At
  <2>5. PointsStay' /\ Swept' /\ Gone' /\ Indexed'
    BY <1>0, <2>1, <2>2 DEF PointsStay, Swept, Gone, Indexed, Removed, NoPurge, AllIdle,
       At, files
  <2>6. TextStays'
    BY <1>0, <2>2, OtherTypes DEF Inv, TextStays, RunRow
  <2> QED BY <2>4, <2>5, <2>6 DEF Inv
<1>3. CASE ~(purge.by = "sweep" /\ Purged(purge.failed))
  <2>1. UNCHANGED <<doc, rows>>
    BY <1>3 DEF PurgeRow
  <2>2. purge'.pc = "idle"
    BY <1>0 DEF NoPurge
  <2>3. Purging
    BY <1>0, <1>1, <2>1, <2>2, OtherTypes, Zenon DEF Purging, files
  <2>4. Swept'
    BY <2>2 DEF Swept
  <2> QED BY <1>0, <2>3, <2>4, PurgingStep DEF files
<1> QED BY <1>2, <1>3

-----------------------------------------------------------------------------
\* Every step preserves the invariant.
LEMMA NextStep ==
  ASSUME BoundAssumption, Inv, Next
  PROVE  Inv'
<1>1. CASE Requests
  <2>1. CASE Delete
    BY <2>1, SoftDeleteStep DEF Delete
  <2> QED BY <1>1, <2>1, RequestStep DEF Requests
<1>2. CASE Removal \/ PurgeDies
  BY <1>2, SweepStep, RemovalStep, PurgeRowStep DEF Removal
<1>3. ASSUME NEW w \in Worker, Ingest(w) \/ Trouble(w)
      PROVE  Inv'
  BY <1>3, TakeTaskStep, BeginStep, AssertStep, ResetPointsStep, ResetRowsStep,
     EnsurePageRowsStep, LoadFileStep, OcrPageStep, RequireUsableStep, ChunkingStep,
     UpsertStep, MarkReadyStep, FailingStep, RedeliverStep DEF Ingest, Trouble
<1> QED BY <1>1, <1>2, <1>3 DEF Next

\* So does a step of something else.
LEMMA StutterStep ==
  ASSUME Inv, UNCHANGED vars
  PROVE  Inv'
<1>1. UNCHANGED <<doc, leaving, blob, points, pages, chunks, era, tasks, sent, owed, run,
                  purge, history, faults>>
  BY DEF vars, files, rows, queue
<1>2. TypeOK'
  BY <1>1, Zenon DEF Inv, Typed, TypeOK
<1> QED BY <1>1, <1>2 DEF Inv, Typed, Alone, Removing, PointsStay, TextStays, Swept, Gone,
           Indexed, Removed, NoText, AllIdle, Served, Owes, Resting, At

\* Where ingests may be after a deletion, what deletion and sweep have emptied, and
\* what a lone ingest owes the index hold at all times, for any number of pages,
\* workers, requests, retries and faults (pipeline.py, service.py).
THEOREM Invariance == Spec => []Inv
<1>1. Init => Inv
  BY InitInv, BoundAssumption
<1>2. Inv /\ [Next]_vars => Inv'
  BY NextStep, StutterStep, BoundAssumption
<1> QED BY <1>1, <1>2, PTL DEF Spec

\* Rows, tasks, workers and the three stores have their types, for any number of
\* pages, workers, requests and faults.
THEOREM TypeCorrect == Spec => []TypeOK
<1>1. Inv => TypeOK
  BY DEF Inv, Typed
<1> QED BY <1>1, Invariance, PTL

\* A document that is ready, with no ingest about, is indexed: retrieval finds
\* what the list of documents promises (pipeline.py, _chunk_and_embed).
THEOREM ReadyIsServed == Spec => []ReadyIsIndexed
<1>1. Inv => ReadyIsIndexed
  BY DEF Inv, Indexed, Served, Removed, ReadyIsIndexed
<1> QED BY <1>1, Invariance, PTL

\* After a deletion nothing of the document stays or comes back, unless an
\* ingest was past its last check; and once the row is gone nothing is left
\* (service.py, purge_document_lifecycle).
THEOREM NothingIsLeft == Spec => []NothingStays
<1>1. Inv => PurgedStaysPurged
  BY DEF Inv, Removing, PointsStay, PurgedStaysPurged
<1>2. Inv => DeletedKeepsNoText
  BY DEF Inv, TextStays, NoText, DeletedKeepsNoText
<1>3. Inv => GoneLeavesNothing
  BY DEF Inv, Gone, NoText, GoneLeavesNothing
<1> QED BY <1>1, <1>2, <1>3, Invariance, PTL DEF NothingStays
=============================================================================
