# A verification project for Geem-Platform

Geem-Platform is a multi-tenant service in which workspaces keep documents, build
"experts" that answer from them, and chat with those experts; answers cost tokens,
and an expert may call remote tools over MCP, writes only after a human approved
them.  The server is `apps/api/app` (FastAPI and Celery processes over Postgres,
Redis, Qdrant and MinIO, about 97,000 lines of Python); everything else in the
repository is a client of it or deploys it.

What is hard in this code is not one algorithm but the protocols between processes
that share a database, a Redis lock and a task queue: holds that must be closed once
whoever dies, locks that expire under their owner, tasks that are delivered twice,
human decisions that arrive after the deadline, browsers that return twice from a
payment, messages of which nobody knows whether they were sent.  The modules here model those
protocols, TLC checks them on small instances, and TLAPS proves the main theorems
for every size.

## 1. Inventory

Paths are relative to `apps/api/app`.

| Part | State | Operations | Talks to | Status |
|---|---|---|---|---|
| AI usage meter, credit wallet (`usage/`) | reservation rows, period counters, grants, balance, ledger | reserve, settle, release, charge, grant | called by every AI feature, in the caller's transaction | modelled |
| Conversation turns (`conversations/`) | message rows, Redis generation lock | stream_turn, stream_retry, heal | meter, MCP tool loop, RAG | modelled but for the content of answers |
| MCP approvals (`mcp/approvals.py`, `resume.py`) | pending tool call rows, message, dispatch admission | decide, claim, mark dispatch, finish, cancel, recover, expire, purge, finalize | Celery, gateway, generation lock, meter | modelled from the paused row on |
| MCP tool loop (`mcp/executor.py`, `quota.py`) | invocation rows, per-tool counters | dispatch, admit, pause for approval | gateway, models | the dispatch of an approved write only |
| Documents and ingestion (`documents/`, `ingestion/`, `worker/`) | document, job, page, chunk rows; objects; vectors | upload, delete, reprocess, ingest, purge | MinIO, Qdrant, meter | modelled for one PDF, without jobs and charging |
| Storage quota (`usage/storage.py`) | storage holds, reserved bytes, usage events | reserve, finalize, release, heal: one transaction under a workspace lock | documents, attachments | not modelled |
| Billing (`billing/`) | purchases, plan of the workspace | checkout, complete on return, reconcile, fulfil, assign plan | payment gateways, wallet, app catalogue | modelled but for catalogue data, invoices and gateway settings |
| MCP delivery outbox (`mcp/delivery.py`, `surfaces.py`) | delivery rows | enqueue, claim, send, mark, release, recover, purge, reconcile | WhatsApp (OpenWA) | modelled; widgets and surface bindings are not |
| App catalogue (`apps_catalog/`), agent admission (`agent/`) | licenses, subscriptions; agent quotas | buy, renew, grant, revoke; admit, settle | billing, meter | licenses and subscriptions, with billing |
| MCP connections (`mcp/oauth.py`, `services.py`, `teardown.py`) | connection with credentials and epoch, grants, OAuth states | authorize, callback, refresh, discover, grant, tear down | MCP servers, authorization servers | modelled for one OAuth connection |
| Connectors (`connectors/`) | connections, sync cursors, OAuth states | sync, authorize, webhook | remote drives | later |
| Experts, membership projection (`experts/`) | experts, document links, vector payloads | link, sync, reconcile | Qdrant | later, with documents |
| Identity, workspaces, invitations, RBAC, API keys, rate limits, audit | rows; a Redis window | CRUD, accept, transfer, count | - | later |
| Retention of documents (`retention/`) | deleted workspaces | the nightly sweep | documents | the removal of documents only |
| Other retention, maintenance, platform admin, notifications, observability, ops, RAG | - | periodic deletion; CRUD; calls of models | - | not modelled |
| Front ends, egress gateway, infrastructure | - | - | the API | not modelled |

How the modelled parts meet.  A chat turn takes the generation lock of its
conversation, heals what earlier turns left, inserts a `streaming` row, reserves
tokens for it and commits; then it generates, driven by the client that reads the
stream, and ends by writing the row and closing the hold.  If a tool wants to write,
the turn creates an approval row, leaves the message `pending` and goes away.  The
human's decision enqueues a Celery task that takes the same lock, claims the row,
reserves tokens under its own request id, calls the gateway and completes the
message.  A periodic sweep recovers claims whose worker died, expires what waited too
long, writes the message of what was refused, and purges.  Documents are apart from
this: requests write the file, the row and the task; Celery workers turn the file into
pages, chunks and vectors; deletion and retention take all of it away again, while
workers may still be at it.

The answer of an approved write, when the question came from WhatsApp, goes into an
outbox of segments that Celery tasks send.  The gateway is reached with the tokens of
an MCP connection, which its users authorize and refresh and an administrator removes
while calls are under way.  Purchases end in the wallet (`AiUsage!Grant`), in the plan
of the workspace, or in the license or subscription of an app.

## 2. Modules

| Module | What it is |
|---|---|
| `PrefixSum` | the sums and the two walks over grants, as recursive functions |
| `AiUsage` | the meter: one action per operation, each one a transaction |
| `CreditPurse` | abstract specification: tokens are bought, held, spent, never lost |
| `ApprovedWrite` | abstract specification: a write is decided, sent once at most, closed with the truth |
| `AnswerOutbox` | abstract specification: segments are given once and in their turn, rows are closed once |
| `ChatTurn` | one conversation: workers, lock, rows, holds, resumes of approvals; one action per commit |
| `McpApproval` | one approval: human, resume tasks, sweep, chat; one action per commit |
| `DocumentLifecycle` | one document in three stores: requests, ingest tasks, deletion, retention |
| `McpDelivery` | the outbox rows of one conversation: tasks, workers, sweep, provider, operator |
| `McpConnection` | one OAuth connection: flows that call out between two transactions, grants, teardown |
| `Checkout` | the purchases of one workspace: gateway, returns, fulfilment, administrators |
| `PrefixSumTheorems`, `AiUsageProofs`, `ChatTurnProofs`, `McpApprovalProofs`, `DocumentLifecycleProofs`, `McpDeliveryProofs`, `McpConnectionProofs`, `CheckoutProofs` | lemmas and theorems |
| `MCAiUsage`, `MCChatTurn`, `MCMcpApproval`, `MCDocumentLifecycle`, `MCMcpDelivery`, `MCMcpConnection`, `MCCheckout` | instances for TLC |

In every module an operator with an underscore in its name is a variant of the one
after it with a defect that a change of the code could introduce; nothing uses it but
the sensitivity runs listed under "mutants" in `PROJECT.json`, which show that each
property notices such a defect.

### AiUsage

Every operation of `AiUsageService` takes a per-workspace advisory lock and the rows
it changes inside the caller's transaction, so an operation is one action.

| Model | Code |
|---|---|
| `res[r]` | the row of `ai_usage_reservations` with that request id, and in `cr`, `cl`, `cx` the amounts of its ledger rows `:cr`, `:cl`, `:cx` |
| `used`, `reserved` | `usage_period_counters`, per period type and window start |
| `amount`, `remaining` | the GRANT rows of the ledger, indexed in the order of `lock_grants_for_fifo` |
| `balance` | `credit_accounts.balance` |
| `limits` | what `QuotaService` resolves; any change of plan is `ChangeLimits` |
| `Reserve`, `Settle`, `Release`, `ChargeImmediate` | the methods of that name, with the credit rows they append |
| `Grant` | `CreditService.append` of a GRANT, from billing or an administrator |

Calls that return an existing row unchanged are not steps: the model lets every
operation be tried at any time, and a replay changes nothing by its guard.
`WindowStart` is any function that puts an instant in a window that starts no later,
so the proofs do not depend on calendars.

### ChatTurn

A turn's program counter follows the commits of `stream_turn` and `stream_retry`:
`Begin` (lock), `Heal` (cancel stale rows, one commit), `ReleaseHealed` (one
transaction per hold), `Check`, `Open` (row and hold in one commit), then `Complete`,
`AwaitApproval` or `Break`, and after a break `CloseUsage` and `Mark`, two commits;
`Unlock` is in the `finally`.  `Escape` is an error that reaches no handler that
closes the turn, `Crash` the death of the process.  A row's age is the time since its
`updated_at`; the lock's life and the age that makes a row stale are the same setting
(`conversation_generation_lock_ttl_seconds`), hence one constant `TTL`.

A row that waits for an approval meets four more actions, which are what
`mcp/resume.py` does to the conversation: `Resume` takes the same lock, `Answer`
completes the row and `GiveUp` marks it failed or leaves it, both whatever the row says
by then; `Decline` is `finalize_terminal`, which takes no lock.  An approval may be
resumed at any time as long as it is open, in particular after a later turn has
cancelled its row as stale.  How an approval comes to be open, claimed and sent is
`McpApproval`.

Nothing renews the lock, and a generation advances when its client reads, so a turn may
outlive its key and another one begin beside it.  Two history variables record this.
`overrun` is set when time takes the key from under a turn, and reset when all workers
are idle again; `exposed` collects the rows that were being generated meanwhile.  The
safety properties except such a stretch, or such a row, and nothing else; all runs and
proofs include turns of any length.

### McpApproval

The row begins as the paused turn left it.  Each action is one commit of
`approvals.py` or `resume.py`, each of which locks the row.  The order of a resume is
claim, re-check, reserve, admit, mark the dispatch, call the gateway, finish, settle,
answer; failing adds refund, terminate, report.  A resume first reads the
row (`Load`), at any moment after the approval and any number of times, which covers
duplicated, late and re-enqueued tasks; then it takes the lock of the conversation or
goes away (`Lock`), and only then it claims (`Claim`).  The claim decides by the status
that was read at the beginning: `resume` loads the row into the session that
`claim_resume` uses, and `SELECT ... FOR UPDATE` waits for the row but does not refresh
a loaded object.  So a row that ended between the two is opened again; the field `late`
is history and says that this happened.  Workers may be arbitrarily slow: leases,
deadlines, the approval's expiry and the lock's life run out under them.  `SweepRow`,
`SweepFinalize` and `SweepPurge` are the transactions of
`recover_mcp_approval_state`.  `HealedByChat` is what a later turn of the same
conversation does to a message that has waited longer than the lock lives
(`ChatTurn!Heal`).

`ImplementsApprovedWrite` maps the row to what a reader learns from it: `Record` is
"open" for a pending, approved or executing row and else the row's status; the
decision and the number of calls are mapped to themselves, the readers of
`ApprovedWrite` to the resumes that have read the row as approved and not decided yet.
`ApprovedWrite` has neither leases nor clocks, so everything the resume does between
two of its steps, and a sweep that returns a claim, must be a stutter.  It lets a
reader open a closed record again, as the code does (`mcp_reopened`), and lets a call
come after the record was given up on ("expired", "outcome_unknown", `mcp_expired`),
but never after "denied" or "executed".

### DocumentLifecycle

One document, its row in Postgres (`doc`), its pages and chunks, its file in MinIO
(`blob`) and its points in Qdrant.  Every action is one commit or one call of another
store, so a request, a sweep and the ingests interleave at all places where the code
lets them.

| Model | Code |
|---|---|
| `PutFile`, `SaveDocument`, `Reprocess`, `EnqueueIngest` | upload and reprocess; the file is written inside the transaction, the task is sent after it |
| `Delete`, `PurgeFile`, `PurgePoints` | `delete_for_workspace`; the stores are emptied after the commit, failures are logged |
| `Sweep` ... `PurgeRow` | `purge_document_lifecycle`, from the sweep of a deleted workspace: the row goes last |
| `TakeTask` ... `MarkReady` | `ingest_document` and `IngestionPipeline._run`; `AssertIngestible` is each of its re-reads of the row, a step apart from what follows it |
| `GiveUp`, `Fail`, `Raise`, `End` | the three kinds of failure: final, from a provider or store, any other exception; and the retry policy of the task |
| `BreakSession` | an exception of the database: the session cannot be used any more, the handler's refresh raises again and the status stays |
| `Redeliver` | `task_acks_late`: the task of a dead worker, or of one taken for dead, comes again |

A page has one chunk at most.  What a chunk says depends on its page and on whether
enough pages were read for `detect_repeated_headers_footers`, so a second ingest that
reads a failed page may replace the chunks of other pages.  `era` stands for the keys
of the rows: after a reset the rows are new ones, and a worker that holds old ones
skips them or breaks.  `history` is not state of the program: it records which
interleavings happened, for the properties.

Two conditions in the properties name what the code does not exclude.  `lateRows` and
`latePoints` say that an ingest had passed its last check when the document was
deleted.  `overlapped` says that two ingests ran side by side; then a document can end
ready without chunks, or stay in processing.

### McpDelivery

One action per transaction, and one for the call of the provider.

| Model | Code |
|---|---|
| `rows` | the `mcp_surface_deliveries` of one conversation in the order of sequence and segment; `left` and `lease` count down to the deadline and the end of the claim |
| `Enqueue` | `McpSurfaceOutboxService.enqueue` and the tasks sent after its commit |
| `Deny`, `Expire`, `Skip`, `Withdraw`, `Claim` | the ways out of `_claim_authorized`, which calls `claim` and `cancel_before_send` in one transaction |
| `Send`, `Mark` | `send_text` with no transaction open, and `mark_sent`, `mark_unknown` or `release_definite_pre_send_failure` after it |
| `Sweep` | `recover_mcp_surface_deliveries`: recover, purge, enqueue the first pending rows |
| `Reconcile`, `TearDown`, `Retire` | the operator, the removal of the connection, the retention of the conversation |
| `channel` | what a claim finds: access to the app, and whether the approved source is still the one approved |
| `accepted` | what the provider took: history of the outside world |

`ImplementsOutbox` maps each row to what it tells (`Word`): "open" while pending or
dispatching, "decided" once an operator reconciled it, else its status; `accepted` is
the chat.  `AnswerOutbox` has no tasks, claims or leases.  A row leaves "open" once and
may then change by the operator's decision on an unknown delivery and by removal only;
"sent" needs that the provider took the segment, "expired" that it never will.  It
promises nothing of cancelled rows, for `cancel_before_send` also cancels a row that
another worker is sending (`Deny`).

`Garbled` decides whether the provider may take a message and then give an answer that
the code reports as an invalid request, which `delivery.py` takes for a failure before
sending: a body that is no JSON (`client.py:244`), or a status below 500 that
`openwa/errors.py` does not list.  With `Garbled` the segment is released and sent
again.  The run and the proofs assume that the provider does not do this; it is the one
assumption on a remote service in this project.

### McpConnection

Every operation that calls a remote server has three parts: an admission that copies
the row, the call, and a transaction that writes if the epoch and the ciphertext of
the credentials are still those copied.  The sets `starts`, `callbacks`, `refreshes`
and `discoveries` hold the copies of the flows between the two transactions, `states`
the OAuth states whose user is at the authorization server.  A ciphertext is the
number of its write, since every encryption takes a fresh nonce.  `Failed`,
`MarkReauth` and the refusal of a callback write without comparing, as the code does.
`tokens` records where the stored tokens come from; no guard reads it but the test
that there is a token at all.  The connection begins as `create_server` leaves one with
OAuth, "connecting" and without tokens.  `TearDown` ends in "disconnected" or
"revoked" and may be repeated, and every time it raises the epoch, up to the bound
`MaxEpoch`.  `Import` keeps the binding: the code would also store an issuer and a
client that the gateway reported with a discovery, which the gateway client never does.

### Checkout

| Model | Code |
|---|---|
| `StartCheckout`, `MayBuy` | the four checkouts and their refusals |
| `Gateway` | what happens to the transaction at ClickPay; the customer may try again after a refusal |
| `Peek` | the first read of `complete_on_return` and of an admin's reconciliation |
| `Nothing`, `Record`, `Complete`, `Refuse`, `Die` | the rest of the completion, one transaction under the row's lock, which works with the status that `Peek` read |
| `Fulfil` | `PurchaseFulfillmentService.fulfill` for the five kinds |
| `AdminLicense` ... `RevokeSubscription` | `AppAdminGrantService` |

`Peek` is a step of its own because of the session's identity map: `db.get` loads the
row, and the later `SELECT ... FOR UPDATE` waits for the lock but does not refresh the
attributes of the object that is already loaded.  `now` counts months.  History:
`given` counts what a purchase brought, `dropped` and `free` the months of the
subscription that an admin dropped and those that no purchase added (given by an admin,
or over before the next one was bought), `again` the completions that another
completion of the same purchase overtook.

## 3. Runs

| Run | Instance | What it shows |
|---|---|---|
| `ai_usage` | 2 requests, 2 grants, 2 days, limits 2/3/4 or 0 | wallet, ledger and counters agree, limits, FIFO order, last resort, exact billing; the meter implements `CreditPurse` |
| `chat_turn` | 2 workers, 2 answers, TTL 1, 1 fault | turns meet only after one has outlived the lock; answers are charged, a second answer is a late one, no hold is forgotten; the lock comes free, abandoned rows are healed, holds are closed |
| `mcp_approval` | 2 workers, 1 crash, expiry 3, clock to 4, fair sweep | sent at most once, only as decided, holds closed; the protocol implements `ApprovedWrite`, so outcomes stand but for a late claim; every approval ends for good, every refusal is shown before it is purged |
| `mcp_reopened` (violation) | 2 workers, no crash | a row that has ended is opened again by a claim that read it before |
| `mcp_expired` (violation) | 1 worker, 1 crash | a sent write may end as "expired" |
| `documents` | 2 workers, 2 pages, 1 ingest with 1 retry, 1 fault; from nothing, or from a document with one failed page | ready means indexed; deletion and retention leave nothing but what a late ingest writes |
| `documents_live` | the same with 1 worker and 2 faults | an ingest ends with a status; retention removes the document |
| `documents_reindex` (violation) | 1 worker, no fault | an ingest past its last check writes vectors of a purged document |
| `mcp_delivery` | 2 processes, 2 segments, 1 fault, deadline 2, lease 1, sweep of 1 row | nothing is sent twice, the order is kept; the rows implement `AnswerOutbox`, so what they say is true and stays; every segment is settled |
| `checkout` | 2 purchases of 5 kinds, 2 completions at a time, 2 app plans, 1 month, 2 acts of admins | the workspace holds what was paid for, no less and, but for overtaken completions, no more; months and plans are kept |
| `checkout_twice` (violation) | 2 purchases of an app, 1 plan, no month passes, no admin | two returns of one purchase add its month twice |
| `mcp_connection` | 2 bindings, 1 subject, 6 writes, 3 epochs, 2 starts, 2 discoveries and 2 refreshes at a time | grants and tokens match, a removed connection stays down, a refresh undoes nothing |

Bounds, and why they are enough.  `AiUsage`: two requests are the least that compete
for a grant, a window and the balance; two grants the least for which order and
partial use matter; the second day is a new day and a new month of the same week, so a
hold can be closed in windows of which one is current and two are past.  The estimates
1 and 3 lie below and above the tightest limit, the settled counts 0, 2 and 5 below,
between and above the estimates.  (Three requests were checked once, 1.9 million
states.)  `ChatTurn`: two workers are the least that overlap; two
rows are the least for a question and its retry, for a row that is healed beside one
that is generated, and for a row that waits beside a new one; one fault, of any
kind and at any step, is the failure model.  TTL 1 makes overrunning possible at once
and still leaves room for whole turns between two ticks; a row is stale one tick later.
The safety properties hold for any bounds (section 5).  `McpApproval`: `Lease` <
`TurnLife` <= `LockLife` < `Expires` <= `Retain` are ordered as the settings are (90,
120, 300, 900 and 3600 seconds); a lock taken at the pause expires under its worker
while the approval is still good; the clock runs past `Expires` and lets a row that
ended at once or a tick later be purged; one death is the failure model and two workers
the least that compete, or of which one opens what the other has closed.  A refusal
whose row a late claim opened again is excepted from `RefusalIsShown`.

`DocumentLifecycle`: two pages are the least for which some are read and some fail and
for which the number of read pages (`MinPages` 2) changes a chunk; a second ingest of
one document is reached from `Indexed`, the state an earlier one leaves; two workers
and a redelivery are the least that overlap.  A fault is a failing store, a failing
provider, a process that dies or a redelivery.  The code retries three times, the
model once: a retry differs from the one before only in its count.  Liveness is checked with one
worker, since `ProcessingEnds` says nothing of overlapping ingests and two workers
make the graph too large.  Deadlock is not checked: when the requests are bounded and
the row is gone, or its ingest done, nothing is left to do.

`McpDelivery`: two segments are the least that have an order, two processes the least
that compete; a sweep that enqueues one row at a time is the least for which it
matters which row comes first.  `Checkout`: with two purchases a
second one may come between two completions of the first, which is what makes a second
fulfilment of an app's month visible; one month is enough for a period to be over, and
two completions at a time are the least that race; two acts let an admin revoke and
grant again.  `McpConnection`: two bindings are the least between
which an authorization can change, two flows of a kind the least that race; six writes
and three epochs let an authorization, a refresh and its rival, and a second
authorization follow each other.  A third flow of a kind is like one of the two, for flows of a kind share
nothing but the row.

Where the clock of `McpApproval` stops nothing else stops: the sweep goes on for ever.

## 4. Fairness

`ChatTurn`: weak fairness of `Tick` (time passes) and of each worker's own steps: a
worker that lives is scheduled, and calls of models and tools have timeouts, so a
generation does not stay open by itself; if the client stops reading, the server
closes the generator, which is `Break`.  No fairness for `Begin`, `Escape` and
`Crash`: users need not send anything, errors need not happen.  Where healing needs
another turn, the property says so: `AbandonedIsHealed` assumes that turns keep being
begun.  `McpApproval`: weak fairness of `Tick`, of each worker's steps, and of the
sweep, which Celery beat runs periodically.  None for decisions and for the delivery
of tasks, so `Resolved` does not rest on the human or on the queue.
`DocumentLifecycle`: weak fairness of each worker's own steps (Celery takes tasks,
calls have timeouts) and of the removal (the sweep runs every night).  None for
requests, so a task that was never sent never comes, nor for faults.  `McpDelivery`:
weak fairness of `Tick`, of the sweep (Celery beat) and of each call under way (the
HTTP client has timeouts); strong fairness of serving each row's task, since a task
that the sweep enqueues again and again is taken in the end although other tasks and
repeated ones come between.  None for operators: `Settles` counts an unknown delivery
as settled.  `Checkout` and `McpConnection` state safety only: nobody has to return
from a payment, and nothing sweeps purchases or connections.

## 5. What is proved

All theorems hold for every value of the constants under the named assumptions of the
modules (sizes and lifetimes are natural numbers, windows start no later than the
instants in them).

- **Walks over grants** (`PrefixSumTheorems`).  `TakeFromFrontTotal` and
  `GiveFromTailTotal`: taking or giving back n moves exactly n and stays within every
  entry; `TakeFromFrontOrder` (lemma): whoever takes from an entry empties all before it.  Sums are recursive functions; their facts are proved through a least-number
  argument (`RangeInduction`).
- **The meter** (`AiUsageProofs`).  The inductive invariant `Inv`
  joins the type, the equality of balance and grants, each row's allocations, the
  conservation of each grant, the ledger and the exact billing.  Type correctness
  alone is not inductive: that a balance stays natural needs that it equals the grants,
  and that a refund stays within a grant needs that allocations add up.  From it:
  `TypeCorrect`, `BalanceMatchesGrants`, `GrantsConserved`, `LedgersAgree`, `BilledOnce`;
  with a sum over the reservations, `CountersExact` and `WalletsAgree`; and `Refinement`, every step of the meter is a
  step of `CreditPurse` or a stutter.

  Three theorems are about single steps.  `LimitsHold`: what `Available` leaves to a
  request fits below the limit of each of its windows (`AvailableFits`), and a
  settlement adds to a window no more than what is free there once its own hold is out
  of it (`SettleLevels`), so no step raises a window, current or past, above the limit
  in force.  `OldestGrantsFirst`: a step takes from grants by one walk from the front
  only (`TakeOrder`), and a settlement gives back before it takes, so the grants that
  it takes from are nowhere smaller than they were.
  `CreditComesLast`: a settlement has three parts, included tokens, credit, and what
  neither covers (`SettleParts`); the second is not zero only if the first fills a
  window, the third only if the balance is used up.
- **Turns** (`ChatTurnProofs`).  No theorem assumes how long a turn lasts.  The
  invariant is two-sided: as long as nobody has outlived the key, whoever is in a turn
  is alone and holds a live key, and each step of a turn fits its row; during an overrun
  a turn may believe only that the rows being generated are recorded as exposed, and
  that it retries a question only whose rows were given up (`TurnOK`).  That an overrun
  ends with the last of its turns needs that idle workers believe nothing.  It gives
  `TurnsMeetOnlyInOverruns`, `CompletedAnswersAreCharged` and `SecondAnswerIsLate`,
  crashes, swallowed errors and resumes included; `Charged` adds that what waits for an
  approval has been settled, so that a late answer is charged as well.
  `HoldsAreNotForgotten` has an invariant of its own: only a turn that releases
  remembers rows, and whoever else ends a row has closed its hold or lost the
  transaction.  `TypeCorrect` says that the rows a turn writes or releases exist.
- **Approvals** (`McpApprovalProofs`).  The invariant relates the number of calls to
  the marker and the program counters: the marker is set once, by the one worker that
  then calls the gateway, a call implies a marker (`OneCaller`), a marker implies an
  approval in time (`MarkerJustified`), and whoever reports success has made the call
  (`Confirmed`).  It gives `SentOnce`, `SentOnlyIfApproved`, `DenialIsSafe`,
  `DecisionsHold` (both), for any number of workers,
  redeliveries and crashes and any lifetimes.  `Implements` is the refinement of
  `ApprovedWrite`.  Its cases: two steps concern the gateway and leave the record
  alone; every other one leaves decision and calls alone and keeps the record, closes
  or purges it, or is the claim of a resume that had read it as approved, which opens it
  again (`Outcome`); that "denied" is written only where nothing was sent, and
  "executed" only where something was, is what `MarkerJustified`, `OneCaller` and
  `Confirmed` are for.
  `HoldsAreClosed` is a separate induction over the places where a worker still has a
  hold to close.  `TypeCorrect` assumes `Expires + Lease <= MaxTime`: the bound of the
  clock stands for "no lease", so a lease must end before it.  It says both ways which rows have a
  lease and a deadline.
- **Documents** (`DocumentLifecycleProofs`).  No transaction spans Postgres, MinIO and
  Qdrant, so neither `ReadyIsIndexed` nor `NothingStays` is inductive.  What carries
  them is where ingests may be once the row is deleted: unless an ingest was past its
  last check at that moment, no worker is at the upsert (`PointsStay`), none is about to
  reset or insert pages, and whoever still has pages to write has those of an earlier
  era, whose rows are gone (`TextStays`).  `Swept` says what a sweep knows it has
  emptied when it removes the row, `Removing` that only deleted documents are being
  removed, `Gone` that nothing comes back after that.  For a live document `Indexed`
  says which points a lone ingest still owes to its chunks; `Alone` that without an
  overlap there is one ingest at most.  It gives `TypeCorrect`, `ReadyIsServed`,
  `NothingIsLeft`, for any number of pages, workers, requests, retries and faults.
- **The outbox** (`McpDeliveryProofs`), all but the types under `~Garbled`.  Neither `SentOnce` nor
  `RowIsTrue` is inductive: a row could be released by a late call of an earlier
  claim.  The invariant adds that a row becomes pending again only by the call that
  claimed it, so there is one call of a row at most and none of a pending one
  (`Single`), that a call knows whether its segment was taken (`Known`), that rows
  before a claimed one are settled (`Ordered`), and that an operator decides only what
  will not be sent again (`Decided`).  All steps but four leave these alone;
  they are handled together, as moves of single rows (`Quiet`).  It gives
  `SegmentsAreSentOnce`, `RowsAreTrue`, `SegmentsAreInOrder` and `Implements`, the
  refinement of `AnswerOutbox`, for any lifetimes and any number of segments, processes
  and faults: a quiet step, a claim and a mark are its `Settle` (the record of a row
  says "sent" by `Known`, "expired" by `RowIsTrue`), a call is its `Give` (by `Known`,
  and in its turn by `Ordered`).  `TypeCorrect` needs no assumption on the provider.
- **Connections** (`McpConnectionProofs`).  What a flow compares before it writes
  matters only through the ciphertext: every write of binding, tokens or principal
  takes a new one, so a flow that finds the one it copied also finds the rest of what
  it copied (`Snapshots`).  It gives `GrantsMatchTokens`, `RemovedStaysDown`,
  `WinnersAreKept`.
- **Purchases** (`CheckoutProofs`).  `GoodsArePaid` is two-sided: no purchase brings
  less than was paid for, and none more than once but for the completions that another
  one overtook, which `again` counts; the months of a subscription are those that are
  owed, and one more at most for each of those.  It is inductive but for the type and
  for a subscription that nobody ever had: "paid" is final at the gateway, so a stale
  read can complete twice but not contradict, and whoever completes a purchase that was
  already paid read it before (`Nothing` takes the others).  It gives
  `GoodsAreAlwaysPaid` and `MonthsAreKept`, for any number of overlapping returns.

Only model-checked: the liveness properties `LockComesFree`, `HoldsClosed`,
`AbandonedIsHealed`, `Resolved`, `RefusalIsShown`, `ProcessingEnds`,
`RetentionRemoves` and `Settles`, which need fairness and ENABLED and are beyond the
prover.  Every other property of a passing run is a theorem.  `RowsAreTrue`, which no
run lists, is a consequence of the abstract specification of the outbox.

## 6. What the runs found

1. A write that was sent can be reported as expired (`mcp_expired`):
   `recover_stale_claims` looks at the expiry first and at the dispatch marker second.
2. A document deleted between the last check of an ingest and its upsert is indexed
   after it was purged (`documents_reindex`): the check takes no lock.  The points
   stay until the workspace itself is purged.  Retrieval re-reads the chunk rows, which
   are gone, so answers do not show them.
3. A purchase can be fulfilled twice (`checkout_twice`): of two returns that overlap,
   the second decides by the status it read before it waited for the lock.  Credits are
   safe, since their ledger entry carries the purchase as its request id, and so is a
   license; a plan is assigned anew, and an app's month is added again if another
   purchase of that subscription came between the two: the run ends with two months paid
   and three given.
4. An approval that has ended is opened again (`mcp_reopened`) by a resume that read it
   before and claims it after that.  The dispatch marker and the admission still keep
   the write from being sent twice, and the row ends again (`Resolved`), but it may say
   something else than it said before.

Reachable in the runs, recorded as hazards, and the only exceptions that the properties
of `ChatTurn` make:

- Turns of one conversation overlap once a generation outlives its lock:
  `conversations/locks.py` says that it prevents overlapping generations, but never
  renews the key and deletes it whoever set it.  The next turn may then take the first
  one's row for abandoned and give its hold back, and the first one completes it
  uncharged.
- A message that waits for an approval is cancelled as abandoned after 300 seconds
  though the approval lives for 900 (`conversations/repository.py:141`).  The user may
  retry the question, and the resume completes the cancelled row all the same: two
  answers to one question.

Also recorded as hazards: an executed write whose worker died before the answer is purged
with its message still pending, since executed rows are never finalized
(`mcp/approvals.py:492`); with `Garbled`, a message that the provider took and answered
with no JSON, or with a status the code does not know, is sent again
(`openwa/client.py:246`).

Not findings, but recorded as hazards because the repository does not say what is
wanted: a hold whose closing transaction was lost is never swept; a sweep may replace an answer that came after the outcome was
declared unknown; overlapping ingests of one document are not excluded; a document
whose task was never sent stays queued; a late return of an older plan purchase
assigns the older plan over the newer one; a renewal whose subscription changed its
plan is charged and never served; the loser of two token refreshes makes the winner's
connection ask for authorization; a late callback failure marks an active connection
as broken.

## 7. Not modelled, and what is left

- Storage quota: reserve and finalize are one transaction under a per-workspace
  advisory lock, so a model would repeat the code.  What can go wrong is two deletions
  of one document that both pass the check of `deleted_at` and book its size twice.
- Experts, vector membership, RAG, connectors, identity, RBAC, API keys, audit,
  platform administration, notifications: rows written by one request under a lock or
  a unique index, calls of models and remote drives.
- The tool loop of `mcp/executor.py` before an approval: reads and model calls whose
  only shared state is the per-tool counters of `mcp/quota.py`.
- Front ends, egress gateway and infrastructure: clients and deployment.

Left to do, in this order:

1. `DocumentLifecycle` with two deletions at a time and the storage ledger.
2. Widgets: their turn receipts beside the lock and the meter.
