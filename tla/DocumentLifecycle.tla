------------------------- MODULE DocumentLifecycle -------------------------
(***************************************************************************)
(* One document in three stores: its row, pages and chunks in Postgres,    *)
(* its file in MinIO, its points in Qdrant (app/documents/service.py,      *)
(* app/ingestion/pipeline.py, the task ingest_document of                  *)
(* app/worker/tasks.py).  No transaction spans the stores: requests and    *)
(* ingest tasks interleave between any two commits or calls, and the row's *)
(* deleted_at, read again and again, is all that stops an ingest from      *)
(* writing for a document that is gone.                                    *)
(*                                                                         *)
(* A page has at most one chunk here.  What a chunk says depends on its    *)
(* page and on whether enough pages were read to recognise a repeated      *)
(* header.  Jobs, progress, charging and the links to experts are left     *)
(* out, and so are documents that need no OCR.                             *)
(***************************************************************************)
EXTENDS Naturals, FiniteSets

CONSTANTS
  Worker,      \* the Celery workers
  Page,        \* the pages of the file
  MinPages,    \* min_pages of detect_repeated_headers_footers
  MaxRetries,  \* max_retries of ingest_document
  MaxSent,     \* bound: ingests asked for
  MaxFaults    \* bound: failures of stores, providers and processes

ASSUME PageAssumption == IsFiniteSet(Page) /\ Page # {} /\ MinPages \in Nat
ASSUME BoundAssumption ==
  MaxRetries \in Nat /\ MaxSent \in Nat /\ MaxFaults \in Nat

VARIABLES
  doc,        \* the row of documents, "absent" before the upload commits
  leaving,    \* the workspace has been deleted
  blob,       \* the file is in MinIO
  pages,      \* the status of each page's row, "none" without one
  chunks,     \* the rows of chunks
  points,     \* the points of the document in Qdrant
  era,        \* how often the rows were removed: it stands for their keys
  tasks,      \* ingest tasks in the broker
  sent,       \* how many were sent
  owed,       \* modes of the ingests committed and not yet sent
  run,        \* what each worker is doing
  purge,      \* the request or the sweep that removes the document
  history,    \* what the properties remember, see Remembered
  faults      \* faults so far

files == <<blob, points>>
rows  == <<pages, chunks, era>>
queue == <<tasks, sent, owed>>
vars  == <<doc, leaving, files, rows, queue, run, purge, history, faults>>

Modes == {"full", "failed_pages"}
Statuses == {"queued", "processing", "ready", "failed", "deleting"}
Message == [n : 1 .. MaxSent, mode : Modes, tries : 0 .. MaxRetries]
NoMessage == [n |-> 0, mode |-> "full", tries |-> 0]

PageStatus == {"none", "pending", "parsed", "blank", "failed"}
Chunk == [page : Page, era : Nat, header : BOOLEAN]

\* Where an ingest is: the names in Asserts are _assert_ingestible, called
\* before the step of the same name without the question mark.
Asserts == {"reset?", "pages?", "chunk?", "upsert?", "ready?"}
Steps == {"begin", "reset", "drop", "ensure", "load", "ocr", "pages", "chunk",
          "upsert", "ready"}

\* cleaned: Qdrant was emptied after the deletion.  lateRows, latePoints: an
\* ingest had passed its last check before the deletion.  overlapped: two
\* ingests of the document ran at the same time.
Remembered == {"cleaned", "lateRows", "latePoints", "overlapped"}

\* fresh: nothing was committed since the rows of the pages were read.
Idle == [pc |-> "idle", msg |-> NoMessage, era |-> 0, fresh |-> FALSE,
         todo |-> {}, batch |-> {}]
NoPurge == [pc |-> "idle", by |-> "user", failed |-> {}]

TypeOK ==
  /\ doc \in [row : {"absent", "live", "deleted", "gone"}, status : Statuses]
  /\ leaving \in BOOLEAN /\ blob \in BOOLEAN
  /\ pages \in [Page -> PageStatus] /\ chunks \subseteq Chunk
  /\ points \subseteq Chunk /\ era \in Nat
  /\ tasks \subseteq Message /\ sent \in 0 .. MaxSent /\ owed \subseteq Modes
  /\ run \in [Worker -> [pc : Asserts \cup Steps \cup {"idle"},
                         msg : Message \cup {NoMessage}, era : Nat, fresh : BOOLEAN,
                         todo : SUBSET Page, batch : SUBSET Chunk]]
  /\ purge \in [pc : {"idle", "blob", "points", "row"},
                by : {"user", "sweep"}, failed : SUBSET {"blob", "points"}]
  /\ history \in [Remembered -> BOOLEAN]
  /\ faults \in 0 .. MaxFaults

Init ==
  /\ doc = [row |-> "absent", status |-> "queued"]
  /\ leaving = FALSE /\ blob = FALSE
  /\ pages = [p \in Page |-> "none"] /\ chunks = {} /\ points = {} /\ era = 0
  /\ tasks = {} /\ sent = 0 /\ owed = {}
  /\ run = [w \in Worker |-> Idle]
  /\ purge = NoPurge
  /\ history = [h \in Remembered |-> FALSE]
  /\ faults = 0

At(w, pc) == run[w].pc = pc
Go(w, pc) == run' = [run EXCEPT ![w].pc = pc]
Fault == faults < MaxFaults /\ faults' = faults + 1
NoRows == pages' = [p \in Page |-> "none"] /\ chunks' = {} /\ era' = era + 1

(***************************************************************************)
(* Requests.  The file is put in MinIO inside the transaction that inserts *)
(* the row, the ingest is sent after it commits: a request that dies in    *)
(* between leaves a file without a row, or a row nobody ingests.           *)
(***************************************************************************)
PutFile ==
  /\ doc.row = "absent" /\ ~leaving /\ ~blob
  /\ blob' = TRUE
  /\ UNCHANGED <<doc, leaving, points, rows, queue, run, purge, history, faults>>

SaveDocument ==
  /\ doc.row = "absent" /\ blob
  /\ doc' = [row |-> "live", status |-> "queued"]
  /\ owed' = {"full"}
  /\ UNCHANGED <<leaving, files, rows, tasks, sent, run, purge, history, faults>>

Reprocess(mode) ==
  /\ doc.row = "live" /\ ~leaving /\ sent + Cardinality(owed) < MaxSent
  /\ doc' = [doc EXCEPT !.status = "queued"]
  /\ owed' = owed \cup {mode}
  /\ UNCHANGED <<leaving, files, rows, tasks, sent, run, purge, history, faults>>

EnqueueIngest(mode) ==
  /\ mode \in owed /\ sent < MaxSent
  /\ tasks' = tasks \cup {[n |-> sent + 1, mode |-> mode, tries |-> 0]}
  /\ sent' = sent + 1
  /\ owed' = owed \ {mode}
  /\ UNCHANGED <<doc, leaving, files, rows, run, purge, history, faults>>

DeleteWorkspace ==
  /\ ~leaving
  /\ leaving' = TRUE
  /\ UNCHANGED <<doc, files, rows, queue, run, purge, history, faults>>

(***************************************************************************)
(* Deletion.  The row is soft-deleted and its pages and chunks go in one   *)
(* commit; then MinIO and Qdrant are emptied as well as they can be.  The  *)
(* retention sweep does the same for the documents of a workspace that was *)
(* deleted long ago, and removes the row once both stores agreed.          *)
(***************************************************************************)
SoftDelete(by) ==
  /\ doc' = [row |-> "deleted", status |-> "deleting"]
  /\ purge' = [pc |-> "blob", by |-> by, failed |-> {}]
  /\ NoRows
  /\ history' = [history EXCEPT
       !.lateRows = \E w \in Worker : run[w].pc \in {"reset", "drop", "ensure"},
       !.latePoints = \E w \in Worker : At(w, "upsert")]

Delete ==
  /\ doc.row = "live" /\ ~leaving /\ purge.pc = "idle"
  /\ SoftDelete("user")
  /\ UNCHANGED <<leaving, files, queue, run, faults>>

\* Faulty variant: the sweep does not see rows that are deleted already.
Sweepable_Live == doc.row = "live"

Sweepable == doc.row \in {"live", "deleted"}

\* SOFT_DELETE_RETENTION_DAYS (30 by default) is longer than an ingest takes:
\* when the sweep comes, no worker is still at a task it took before.
Retained == \A w \in Worker : At(w, "idle")

Sweep ==
  /\ leaving /\ Sweepable /\ Retained /\ purge.pc = "idle"
  /\ \/ doc.row = "live" /\ SoftDelete("sweep")
     \/ /\ doc.row = "deleted"
        /\ purge' = [pc |-> "blob", by |-> "sweep", failed |-> {}]
        /\ UNCHANGED <<doc, rows, history>>
  /\ UNCHANGED <<leaving, files, queue, run, faults>>

PurgeFile ==
  /\ purge.pc = "blob"
  /\ \/ /\ blob' = FALSE
        /\ purge' = [purge EXCEPT !.pc = "points"]
        /\ UNCHANGED faults
     \/ /\ Fault
        /\ purge' = [purge EXCEPT !.pc = "points", !.failed = {"blob"}]
        /\ UNCHANGED blob
  /\ UNCHANGED <<doc, leaving, points, rows, queue, run, history>>

PurgePoints ==
  /\ purge.pc = "points"
  /\ \/ /\ points' = {}
        /\ purge' = [purge EXCEPT !.pc = "row"]
        /\ history' = [history EXCEPT !.cleaned = TRUE]
        /\ UNCHANGED faults
     \/ /\ Fault
        /\ purge' = [purge EXCEPT !.pc = "row", !.failed = @ \cup {"points"}]
        /\ UNCHANGED <<points, history>>
  /\ UNCHANGED <<doc, leaving, blob, rows, queue, run>>

Purged(failed) == failed = {}

PurgeRow ==
  /\ purge.pc = "row"
  /\ purge' = NoPurge
  /\ IF purge.by = "sweep" /\ Purged(purge.failed)
     THEN doc' = [doc EXCEPT !.row = "gone"] /\ NoRows
     ELSE UNCHANGED <<doc, rows>>
  /\ UNCHANGED <<leaving, files, queue, run, history, faults>>

\* The request or the sweep dies on its way.
PurgeDies ==
  /\ purge.pc # "idle" /\ Fault
  /\ purge' = NoPurge
  /\ UNCHANGED <<doc, leaving, files, rows, queue, run, history>>

(***************************************************************************)
(* An ingest, from the message a worker takes to the status it leaves.     *)
(***************************************************************************)
TakeTask(w) ==
  /\ At(w, "idle")
  /\ \E m \in tasks :
       /\ tasks' = tasks \ {m}
       /\ IF doc.row = "live" /\ ~leaving
          THEN /\ run' = [run EXCEPT ![w] = [Idle EXCEPT !.pc = "begin", !.msg = m]]
               /\ history' = [history EXCEPT !.overlapped =
                                @ \/ \E v \in Worker : ~At(v, "idle")]
          ELSE UNCHANGED <<run, history>>
  /\ UNCHANGED <<doc, leaving, files, rows, sent, owed, purge, faults>>

\* Reading the row and writing its status are two steps in the code; only the
\* status of a deleted row, which nobody reads, would tell them apart.
Begin(w) ==
  /\ At(w, "begin")
  /\ IF doc.row = "live"
     THEN Go(w, "reset?") /\ doc' = [doc EXCEPT !.status = "processing"]
     ELSE run' = [run EXCEPT ![w] = Idle] /\ UNCHANGED doc
  /\ UNCHANGED <<leaving, files, rows, queue, purge, history, faults>>

\* Faulty variant: the check before the vectors are written is dropped.
Ingestible_Upsert(pc) == pc = "upsert?" \/ doc.row = "live"

Ingestible(pc) == doc.row = "live"

AfterAssert(w) ==
  CASE At(w, "reset?")  -> IF run[w].msg.mode = "full" THEN "reset" ELSE "ensure"
    [] At(w, "pages?")  -> "pages"
    [] At(w, "chunk?")  -> "chunk"
    [] At(w, "upsert?") -> "upsert"
    [] At(w, "ready?")  -> "ready"

AssertIngestible(w) ==
  /\ run[w].pc \in Asserts
  /\ IF Ingestible(run[w].pc) THEN Go(w, AfterAssert(w))
                              ELSE run' = [run EXCEPT ![w] = Idle]
  /\ UNCHANGED <<doc, leaving, files, rows, queue, purge, history, faults>>

\* _reset_derived: Qdrant first, then the rows.
ResetPoints(w) ==
  /\ At(w, "reset")
  /\ points' = {}
  /\ Go(w, "drop")
  /\ UNCHANGED <<doc, leaving, blob, rows, queue, purge, history, faults>>

ResetRows(w) ==
  /\ At(w, "drop")
  /\ NoRows
  /\ Go(w, "ensure")
  /\ UNCHANGED <<doc, leaving, files, queue, purge, history, faults>>

EnsurePageRows(w) ==
  /\ At(w, "ensure")
  /\ pages' = [p \in Page |-> IF pages[p] = "none" THEN "pending" ELSE pages[p]]
  /\ Go(w, "load")
  /\ UNCHANGED <<doc, leaving, files, chunks, era, queue, purge, history, faults>>

LoadFile(w) ==
  /\ At(w, "load") /\ blob
  /\ run' = [run EXCEPT
       ![w].pc = "ocr", ![w].era = era, ![w].fresh = TRUE,
       ![w].todo = {p \in Page : pages[p] \in {"pending", "failed"}}]
  /\ UNCHANGED <<doc, leaving, files, rows, queue, purge, history, faults>>

\* One page's result is committed.  A page whose row was removed since it was
\* read is skipped, but the first one breaks the session, see BreakSession.
OcrPage(w) ==
  /\ At(w, "ocr")
  /\ \/ /\ run[w].todo = {}
        /\ run' = [run EXCEPT ![w].pc = "pages?", ![w].era = 0, ![w].fresh = FALSE]
        /\ UNCHANGED pages
     \/ \E p \in run[w].todo, result \in {"parsed", "blank", "failed"} :
          /\ run[w].era = era
          /\ pages' = [pages EXCEPT ![p] = result]
          /\ run' = [run EXCEPT ![w].todo = @ \ {p}, ![w].fresh = FALSE]
     \/ \E p \in run[w].todo :
          /\ run[w].era # era /\ ~run[w].fresh
          /\ run' = [run EXCEPT ![w].todo = @ \ {p}]
          /\ UNCHANGED pages
  /\ UNCHANGED <<doc, leaving, files, chunks, era, queue, purge, history, faults>>

Usable == {p \in Page : pages[p] = "parsed"}

RequireUsable(w) ==
  /\ At(w, "pages") /\ Usable # {}
  /\ Go(w, "chunk?")
  /\ UNCHANGED <<doc, leaving, files, rows, queue, purge, history, faults>>

Drafts ==
  LET read == {p \in Page : pages[p] \in {"parsed", "blank"}}
  IN  {[page |-> p, era |-> era, header |-> Cardinality(read) >= MinPages] :
         p \in Usable}

\* The rows of pages that were not read again stay; a row whose text changed
\* is replaced by a new one, with a new point.
Rebuilt == {c \in chunks : c.page \notin Usable} \cup Drafts

\* Faulty variant: chunks that were committed by an earlier run are taken to
\* be in Qdrant.
ToEmbed_New == Rebuilt \ chunks

ToEmbed == Rebuilt

Chunking(w) ==
  /\ At(w, "chunk") /\ Rebuilt # {}
  /\ chunks' = Rebuilt
  /\ run' = [run EXCEPT ![w].pc = "upsert?", ![w].batch = ToEmbed]
  /\ UNCHANGED <<doc, leaving, files, pages, era, queue, purge, history, faults>>

\* Points are written in batches: a chunk here stands for a batch.
Upsert(w) ==
  /\ At(w, "upsert")
  /\ IF run[w].batch = {}
     THEN Go(w, "ready?") /\ UNCHANGED points
     ELSE \E c \in run[w].batch :
            /\ points' = points \cup {c}
            /\ run' = [run EXCEPT ![w].batch = @ \ {c}]
  /\ UNCHANGED <<doc, leaving, blob, rows, queue, purge, history, faults>>

MarkReady(w) ==
  /\ At(w, "ready")
  /\ doc' = [doc EXCEPT !.status = "ready"]
  /\ run' = [run EXCEPT ![w] = Idle]
  /\ UNCHANGED <<leaving, files, rows, queue, purge, history, faults>>

(***************************************************************************)
(* How an ingest fails.  An AppError marks the document, whatever its row  *)
(* says by then, and is retried only if it comes from the embedding        *)
(* provider; any other exception looks at the row first and is retried.    *)
(* An exception of the database leaves the session unusable, so nothing is *)
(* marked.                                                                 *)
(***************************************************************************)
\* Faulty variants: one retry too many, an error that will be retried is not
\* written down.
MayRetry_Once(m) == m.tries <= MaxRetries
Marked_Silent == doc

MayRetry(m) == m.tries < MaxRetries
Marked == [doc EXCEPT !.status = "failed"]

End(w, again) ==
  /\ run' = [run EXCEPT ![w] = Idle]
  /\ tasks' = IF again /\ MayRetry(run[w].msg)
              THEN tasks \cup {[run[w].msg EXCEPT !.tries = @ + 1]} ELSE tasks
  /\ UNCHANGED <<leaving, files, rows, sent, owed, purge, history>>

\* A file that is not there, no text on any page, no chunk.
GiveUp(w) ==
  /\ \/ At(w, "load") /\ ~blob
     \/ At(w, "pages") /\ Usable = {}
     \/ At(w, "chunk") /\ Rebuilt = {}
  /\ doc' = Marked
  /\ End(w, FALSE)
  /\ UNCHANGED faults

Fail(w) ==
  /\ run[w].pc \in {"reset", "load", "ocr", "upsert?", "upsert"} /\ Fault
  /\ doc' = Marked
  /\ \E again \in BOOLEAN : (again => At(w, "upsert?")) /\ End(w, again)

Raise(w) ==
  /\ run[w].pc \notin {"idle", "begin"} /\ Fault
  /\ IF doc.row = "live" THEN doc' = Marked /\ End(w, TRUE)
                         ELSE UNCHANGED doc /\ End(w, FALSE)

\* The row of a page was removed before it is updated, or before a chunk that
\* refers to it is inserted, or two ingests insert the same row.
BreakSession(w) ==
  /\ \/ At(w, "ocr") /\ run[w].era # era /\ run[w].fresh /\ run[w].todo # {}
     \/ At(w, "chunk") /\ doc.row = "deleted"
     \/ /\ run[w].pc \in {"ensure", "chunk"} /\ Cardinality(Worker) > 1
        /\ \E v \in Worker \ {w} : ~At(v, "idle")
  /\ End(w, TRUE)
  /\ UNCHANGED <<doc, faults>>

\* acks_late: the broker delivers again the task of a worker that died, or of
\* one it takes to be dead.
Redeliver(w) ==
  /\ ~At(w, "idle") /\ Fault
  /\ tasks' = tasks \cup {run[w].msg}
  /\ run' \in {run, [run EXCEPT ![w] = Idle]}
  /\ UNCHANGED <<doc, leaving, files, rows, sent, owed, purge, history>>

-----------------------------------------------------------------------------
Requests ==
  \/ PutFile \/ SaveDocument \/ Delete \/ DeleteWorkspace
  \/ \E mode \in Modes : Reprocess(mode) \/ EnqueueIngest(mode)

Removal == Sweep \/ PurgeFile \/ PurgePoints \/ PurgeRow

Ingest(w) ==
  \/ TakeTask(w) \/ Begin(w) \/ AssertIngestible(w)
  \/ ResetPoints(w) \/ ResetRows(w) \/ EnsurePageRows(w) \/ LoadFile(w)
  \/ OcrPage(w) \/ RequireUsable(w) \/ Chunking(w) \/ Upsert(w)
  \/ MarkReady(w) \/ GiveUp(w) \/ BreakSession(w)

Trouble(w) == Fail(w) \/ Raise(w) \/ Redeliver(w)

Next ==
  \/ Requests \/ Removal \/ PurgeDies
  \/ \E w \in Worker : Ingest(w) \/ Trouble(w)

\* Workers keep taking and carrying out tasks, and the sweep keeps coming.
\* Nobody has to send what is owed, to delete, or to reprocess.
Spec ==
  /\ Init /\ [][Next]_vars
  /\ WF_vars(Removal)
  /\ \A w \in Worker : WF_vars(Ingest(w))

-----------------------------------------------------------------------------
Busy == tasks # {} \/ \E w \in Worker : ~At(w, "idle")

\* A document that is ready, and that no ingest is at, has chunks, and every
\* chunk has its point: retrieval finds what the list of documents promises,
\* whatever failed, died and was repeated before, as long as two ingests of
\* it never ran side by side (pipeline.py, _chunk_and_embed).
ReadyIsIndexed ==
  doc.row = "live" /\ doc.status = "ready" /\ ~Busy /\ ~history.overlapped
    => chunks # {} /\ chunks \subseteq points

\* Once Qdrant was emptied for a deleted document, only an ingest that had
\* passed its last check before the deletion can leave points behind.
PurgedStaysPurged == history.cleaned /\ ~history.latePoints => points = {}

\* The same for the text in Postgres: unless an ingest was about to insert
\* page rows, a deleted document has no page and no chunk.
DeletedKeepsNoText ==
  doc.row = "deleted" /\ ~history.lateRows
    => chunks = {} /\ \A p \in Page : pages[p] = "none"

\* What late ingests left behind and failed purges kept, retention removes:
\* when the row is gone, so are file, points, pages and chunks
\* (purge_document_lifecycle).
GoneLeavesNothing ==
  doc.row = "gone" =>
    ~blob /\ points = {} /\ chunks = {} /\ \A p \in Page : pages[p] = "none"

\* After a deletion nothing of the document comes back or stays: not its points
\* once Qdrant was emptied, nor its text, nor anything once the row is gone.
NothingStays == PurgedStaysPurged /\ DeletedKeepsNoText /\ GoneLeavesNothing

\* An ingest ends: a document does not stay in processing, unless it goes
\* away or its workspace does, or two ingests took each other's rows.
ProcessingEnds ==
  doc.row = "live" /\ doc.status = "processing"
    ~> doc.row # "live" \/ doc.status # "processing" \/ leaving
         \/ history.overlapped

\* A deleted workspace's document is removed in the end, although stores fail
\* and sweeps die.
RetentionRemoves == leaving /\ doc.row \in {"live", "deleted"} ~> doc.row = "gone"

\* "Storage purge during ingest must not mark the document ready or re-index"
\* (tests/integration/test_storage_phase8.py:333).
NotReindexed == history.cleaned => points = {}
=============================================================================
