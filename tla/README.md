# A TLA+ verification of notagrafo

notagrafo ingests Brazilian electronic invoices (NF-e XML) into a Neo4j graph
and serves queries, alerts and exports over it to a dashboard. This directory
models it from the parsing of a document to the screens that show it: the
ingestion pipeline (upload, queue, workers, storage), the graph and every query
over it, the alerts, the exports, the sessions, the operation of the worker
processes and the parts of the dashboard that keep state. Paths below are
relative to the repository; `worker/…`, `api/…`, `graph/…`, `core/…` and
`dashboard/…` stand for `packages/<package>/src/…`.

    tlc -config MCIngestion_jobs.cfg MCIngestion     # one model-checking run
    tlapm IngestionProofs.tla                        # the proofs, one module at a time

## The system

```
 browser (dashboard, several tabs, one localStorage)
        │ HTTP: uploads, polls, lists, charts, alerts, exports, /auth
        ▼
   API (Fastify, one process) ──▶ Neo4j: notas, companies, products, events,
        │   │  │                        alerts, accounts
        │   │  └──▶ local disk: export files
        │   └─────▶ Redis: copies of the exports
        ▼
   BullMQ queue nf-processing (Redis) ──▶ worker processes (WORKER_REPLICAS)
                                            │  └──▶ Redis: one heartbeat key
   nf-processing-dlq ◀──────────────────────┤
                                            ├──▶ Neo4j (mergeInvoice, migrations)
                                            └──▶ XML storage (local / S3 / MinIO)
```

| Component | State it keeps | Operations | What makes it correct | Here |
|---|---|---|---|---|
| Upload route (`api/nf/nf.routes.ts`, `upload.utils.ts`, `enqueueNFe`) | none of its own; a handler is cut by its awaits | `POST /nf/upload`, `GET /nf/jobs/:id` | what it accepted is never lost | `UploadRoute` |
| Queues (`worker/queue/*`, BullMQ) | jobs by access key, dead letters | add, take, complete, fail, stall, promote, evict | one job per key; a job that gives up leaves a dead letter | `JobQueue`, `NFLedger` |
| Worker (`worker/worker.ts`, `jobs/process-nfe.job.ts`) | slots, failure handlers in flight, shutdown state | `processNFe`, `handleFailedJob`, `shutdownWorker` | completed means graph and XML are durable; nothing half-ingested is forgotten | `NFWorker`, `Ingestion` |
| Start, heartbeat and healthcheck of a worker | applied migrations, one Redis key with a TTL | `startWorker`, `runMigrations`, beat, delete, healthcheck | it consumes only on a migrated graph; the key is some worker's | `Operations` |
| XML storage (`worker/storage/*`) | stored keys, cached bucket check (S3) | save, exists, read | a save that returned is readable | a set in `JobQueue`; bucket in `Operations` |
| Parser, validator, catalogues (`core/*`) | none | one document in, one object out | no tax group of an item is lost | `NFeDocument` |
| Graph repository (`graph/nf.repository.ts`) | notas, stubs, companies, products, items, events | `mergeInvoice` in one transaction | idempotent; independent of arrival order | `InvoiceGraph`, `FiscalGraph` |
| Graph queries (`graph/queries/*`) | none | lists, flows, taxes, analyses, metrics | the queries agree with each other | `InvoiceQueries`, `NetworkQueries`, `FiscalQueries` |
| Statistics, company and nota routes (`api/routes/*`) | none | reads with checks and defaults | what they count is one set of notas | `FiscalApi` |
| Alerts (`graph/queries/alert.*`, `api/routes/alert.routes.ts`) | alerts, read marks, configuration | evaluate, list, mark, configure | an alert that holds keeps its identity and mark | `AlertRules`, `AlertStore`, `AlertService` |
| Exports (`api/export/*`) | memory map, copy in Redis, files on disk | create, generate, get, list, read | answers never go back; a ready file is there until its TTL and is the list | `ExportService`, `ExportFile` |
| Authentication and session (`api/auth/*`, `dashboard/api/api.client.ts`, `auth.store.ts`) | accounts, one stored token, a store per tab | login, register, refresh, profile, password | an account is its owner's; a live session is kept | `Session` |
| Export watcher (`ExportWatcher.tsx`, `export.store.ts`) | the active job, toasts | polling, toast, close | the notice is true and comes once | `ExportWatcher` |
| Upload dialog (`UploadModal.tsx`) | status, followed job | pick, send, poll | what it says is done is stored | `UploadDialog` |
| Explorer, events, companies (`pages/explorer/*`, `Events.tsx`) | cursor stack, offset, table page, cached pages, URL, saved views | turn, sort, filter, search | a walk shows everything, once | `Browse`, `EventFeed`, `ExplorerUrl`, `ClientTable` |
| Graph page (`Graph.tsx`, `graph/layout.ts`) | drawing, loads in flight | load, expand, options, reset | the drawing is whole | `GraphScreen`, `GraphDrawing` |
| Home, insights and tax pages | none | figures and links from the answers | same numbers everywhere; a link opens what it counts | `HomeScreen` |
| Seed generator (`worker/seed/*`) | none | demo documents | they are valid and add up | `SeedGenerator` |
| Queue gauges, health route, API assembly, deployment, CI | — | wiring, reads | — | not modelled |

What is hard about it:

- The API and the workers share nothing but Redis, Neo4j and the storage. The
  upload handler looks in the graph, awaits, and adds to the queue; another
  upload or a worker runs in between (*interleaving, stale state*).
- `processNFe` makes two writes, the graph and the storage, without a common
  transaction (*partial failure*); BullMQ runs it at least once and can run it
  twice at a time when a lock expires (*retries*).
- `handleFailedJob` is started by an event and not awaited by BullMQ; it makes
  two Redis calls, dead letter then removal (*crash between two steps*,
  *shutdown before it ends*).
- A key is a job id. Adding an id that exists is ignored, in both queues
  (*long sequences of legal calls*).
- A devolução can be merged before its origin, which is then a stub that some
  queries must not count (*order*). Every screen has a query of its own over the
  same notas (*two paths to one number*), and an answer is often several
  statements (*reads at different moments*).
- An evaluation of the alerts is a chain of auto-committed statements that
  overlaps with another one, with users' marks and with arriving notas
  (*atomicity*).
- An export lives in memory, in Redis and on disk with three lifetimes; requests,
  the generation, the TTL and a restart interleave (*ordering, recovery*), and its
  pages are read while notas arrive.
- The look-up of an e-mail and its write are two statements without a constraint
  (*atomicity*); requests of several tabs refresh one token (*lost updates*).
- The dashboard neither cancels nor orders most of its requests: the watcher, the
  upload dialog and the graph page get late answers; pages come from a cache, and
  those of the events from an order with ties (*late answers, stale reads*).
- Workers migrate at once, share one heartbeat key and cache a promise that
  may have rejected (*interleaving, stale state*).

`PROJECT.json` lists each hazard at its line with the properties that cover it.

## Modules

| Module | What it is |
|---|---|
| `JobQueue` | The shared durable state and the operators of BullMQ on a job |
| `UploadRoute` | The upload handlers and the status route; EXTENDS `JobQueue` |
| `NFWorker` | Worker processes, slots, failure handlers; EXTENDS `JobQueue` |
| `Ingestion` | Composition of the two: `Spec`, fairness, properties, inductive invariant |
| `NFLedger` | The abstract specification `Ingestion` implements |
| `UploadDialog` | The dialog over `Ingestion`: the uploads are its own |
| `NFeDocument` | A document as a tree of tags; validation and parsing |
| `InvoiceGraph` | The graph and `MergeInvoice` |
| `InvoiceQueries`, `NetworkQueries`, `FiscalQueries` | The queries, as operators over a graph |
| `FiscalApi` | The GET routes over them |
| `ExportFile`, `HomeScreen` | What an export holds; what the home and tax pages derive |
| `SeedGenerator` | The documents of the demo seed |
| `FiscalGraph` | Jobs that parse and merge documents in any order, and the properties of all the above on every graph they can make |
| `AlertRules` | The six rules over a graph and their configuration |
| `AlertStore` | Evaluations, marks and configuration with the rules as a parameter |
| `AlertService` | `AlertStore` with the rules of `AlertRules` on the graph of the documents |
| `ExportService` | The life of the exports of the API |
| `ExportWatcher` | The dashboard's watch over the active export |
| `Session` | Accounts, tokens and the client of several tabs |
| `Operations` | Worker processes over services that come and go |
| `ClientTable`, `ExplorerUrl` | The paged table; the URL, its filters and saved views |
| `EventFeed` | A user at the feed of events while events are recorded |
| `Browse` | A user at the notas and the ranking while notas are imported |
| `GraphDrawing`, `GraphScreen` | The drawing as a value; the graph page, which EXTENDS `Browse` |
| `IngestionProofs` | The inductive invariant of `Ingestion` and what follows from it; that exhausted jobs are attended to; that dead letters are final; the refinement of `NFLedger`; the dialog over it |
| `AlertProofs`, `OperationsProofs`, `SessionProofs` | The inductive invariants of these modules and their safety properties |
| `ExportProofs` | The same of `ExportService` and of `ExportWatcher`, whose names begin with `Watch` |
| `NotaProofs` | What the operators over notas give: the folds the graph is made with, what one merge leaves, the graph of a set of documents, the order of a list and its pages; the next three modules extend it |
| `GraphProofs` | That the graph is its notas, and the gaps of the numbering |
| `ScreenProofs` | What searching and paging give; the inductive invariants of `EventFeed` and of `Browse` with `GraphScreen`, and their properties |
| `MC…` | Finite instances for TLC |

Operators whose comment begins with "Mutant of" are not part of any
specification. Each is the definition named there with a plausible bug, and
stands beside it to show which property notices that bug.

### JobQueue, UploadRoute, NFWorker, Ingestion

| State | In the code |
|---|---|
| `job[k]` | the BullMQ job with id `k` (`enqueueNFe` uses the access key as `jobId`): state, `attemptsMade`, `stalledCounter`, lock owner, and in `origem` which upload its payload came from |
| `dlq` | jobs of `nf-processing-dlq`; their id is made of key and attempts |
| `graph`, `stored` | keys `getInvoice` finds; keys whose XML is in the storage |
| `req[r]` | an upload handler: where it is, its batch, its loop index, `enfileiradas` |
| `run[s]` | what a concurrency slot executes: before the merge, before the save, before the return |
| `handler[k]` | a `handleFailedJob` in flight (`pendingFailures`) |
| `proc[p]` | a worker process: up, in its graceful shutdown, down |

Actions follow the awaits. An upload is received and validated in one step, then
takes one step per file of the check loop, and two per file of the enqueue loop
(`LookupRejects`/`LookupPasses`, `Enqueue`). A run is `Take`, `Merge`, `Save`,
`Complete`, with `Throw` possible at any stage: validation, Neo4j, the storage
and `updateProgress` can all reject. A run that lost its lock (`Stall`) goes on,
and BullMQ refuses its result. `Throw` and `Stall` start a handler when the
attempts are used up, which goes through `DeadLetter` and `Remove`, or
`HandlerFault` when a Redis call rejects. `Shutdown`, `Exit`, `Crash` and `Boot`
are the life of a process; the second signal (`process.exit(1)`) is a `Crash`.

BullMQ is not in the repository; its operators (marked external in
`PROJECT.json`) say what the code relies on: custom ids, attempts with backoff,
stalled jobs put back `maxStalledCount` times and then failed, completed jobs
evicted by `removeOnComplete`. A job failed by the stalled check may or may not
have the attempt counted; both are modelled.

### ExportService

| State | In the code |
|---|---|
| `mem[e]` | `jobs`: status of the job object, shared by the generation and the routes |
| `redis[e]`, `wire` | the copy under `export:<id>`; commands sent on the one connection that have no answer yet, in order |
| `disk` | files in the temporary directory |
| `gen[e]` | the generation: before its `writeFile` ends, or after |
| `reader[r]` | a GET that awaits: the answer of Redis, the `set` of `persist`, `rm`, `del`, `readFile` |
| `late` | exports whose `expiresAt` has passed |
| `told[e]` | the last answer a client got about the export (of any route) |

`Create` is `create` with the first stretch of `generate`, which run in one tick
and send two copies (`queued`, `processing`). `WriteFile`, `Finish` and `Fail`
are the rest of `generate` and of `generateRede`, which has the same shape.
`Arrive` is `get` when the job is in memory, where nothing is awaited; otherwise
the request waits in `wire` and `Recover` decides when Redis answers: unknown,
interrupted by a restart (the transition to `failed`), expired, or served.
`Removed` and `Deleted` are the two awaits of the expiry. `RedisRejects` fails a
command, which may have been applied. `Restart` empties the memory and loses the
commands in flight; that Redis applied some of them first is a `Restart` after
some `RedisReplies`.

### ExportWatcher

`jobAtivo` is the store, `polls` the GETs in flight (with the server's answer
once it has given one), `toasts` the notices on screen, `requested` the POSTs
without a reply. `Deliver` is `atualizarStatus` with the effects its render
runs; `Close` is any way a toast goes. A reload of the page, which empties the
store, is not modelled.

### UploadDialog

`dialog` is the component's state with the uploads it has sent and the answers of
polls on their way. `Enviar` is `Receive` of `UploadRoute` with the button,
`Resposta` and `SemResposta` end a fetch, which nothing cancels; `Tick` is the
server's answer to a poll and `Chega` its delivery, which a render that runs the
effect again forestalls (`Becomes`). Three fields are history: the upload of the file that is
shown (`shown`), the one whose job is followed (`follows`), and whether that one was answered
when another file was shown (`late`).

### NFeDocument, InvoiceGraph, the queries, FiscalApi, FiscalGraph

A document is a tree of tags with values. `ValidateNFe` decides as the validator
does, in its order: well-formed, a version with an XSD, the XSD (a field of the
document). `ParseNFe` follows the parser field by field, the search for a tax value
in nested groups included. Dates are instants on a line of days of ten units, a
date being the first instant of its day, which is how ISO texts compare.

`graph` is the record of Neo4j's nodes and edges, one field per label or relation
type; `MergeInvoice` is the transaction of the repository, statement by statement
where an order shows. `running` are jobs that have parsed and not merged,
`merged` the documents whose transaction committed; `RollBack` is a transaction that
fails or a worker that dies, and a job may run again after it committed. A query is
an operator of a graph. A route that runs several statements takes the graph
each of them reads; `ExportIsTheList` gives them different ones.

### AlertStore, AlertService

| State | In the code |
|---|---|
| `alerts[f]` | the `:Alert` with fingerprint `f`; the number of the evaluation that created it stands for its id |
| `read` | alerts with the `read` flag |
| `eval[e]` | a `POST /alerts/evaluate`: reading rules (`todo`), about to delete, to upsert, to count |
| `config`, `data` | the stored configuration; the notas in the graph |
| `view`, `marks` | what the notification center shows; what users said of each id (history) |

`Begin`, `ReadRule`, `RulesDone`, `DeleteStale`, `UpsertAlerts` and `Count` are the
statements of an evaluation, `Fail` any of them rejecting. `MarkAlertRead`, `Patch`
and `MarkAllRead` are the users' marks, from the view they last fetched.

### Session

An action is one statement against the graph or one callback of a tab. `token` is
`localStorage`, `store[t]` what a tab shows, `calls[c]` a request with where it is:
on the way, looked up, answered, refreshing, retried. `raced` and `overtaken` are
history: e-mails two callers found free at once; a token signed or read while the
claims changed. They name the windows in which the code gives no guarantee, so that
the properties can say that there are no others.

### Operations

A tick is the interval of the heartbeat. `phase[r]` goes from the migrations
(`attempt`, `next`) to running, hung or closing; `key` is the age of the shared
key, `silence[r]` that of the last heartbeat of a replica; `check[r]` is the cached
promise of its bucket check; `up` are the services that answer.

### EventFeed

`log` has the events in the order of their commits, each with its instant: the `datetime()` of
its transaction, which others may have too and which may be earlier than that of an event
before it. A page is one statement (`FetchEvents`) after another that counts (`CountEvents`), and
`ListEventos` is the set of pages the database may answer, one for each order of the events of one
instant: `ORDER BY ev.timestamp DESC` has no tie-breaker. `eventos` is the cache, `asked` the
requests on their way; answers arrive in any order, also for a page the user has left. `path` of
`feed` is what each earlier page was when the user left it; no action reads it.

### Browse, GraphScreen

A page of notas is kept in the cache (`pages`) as what its statement saw. `list` holds the
URL, the sort and the stack of cursors, `ranking` the table with its rows. `path` is what each
earlier page was when the user left it; no action reads it. The tabs of a narrow window empty
the search boxes (`Trocar`), the links of the rail leave them alone (`Rail`). `loads` are the two requests of each load
of the graph page, each of which reads the graph when it is answered.

## What is checked

| Run | Instance | Properties | Distinct states |
|---|---|---|---|
| `jobs` | one key, two uploads of it, two processes of one slot, 2 attempts, 1 stall, 1 crash, 1 handler fault; with fairness | `CompletedIsDurable`, `AcceptedIsTracked`, `HalfIngestedIsTracked`, `DeadLetterIsFinal`, `ExhaustedIsBeingMoved`, `ImplementsLedger`, `PendingIsSettled` | 88 k |
| `batches` | the dialog; two keys, two uploads with overlapping, repeated, invalid and oversized files, one slot; the uploads begin with different keys, requests symmetric | `AcceptedIsTracked`, `ConcluidoIsStored` | 901 k |
| `exports` | one export, three requests, 2 restarts, 2 rejected commands; with fairness | `ReadyIsDownloadable`, `DownloadBreaksOnlyPastTTL`, `RedisMirrorsMemory`, `AnswersNeverGoBack`, `PollingEnds` | 271 k |
| `watcher` | two exports; with fairness | `ClosedToastStaysClosed`, `LoneToastIsTrue`, `LoneExportIsAnnounced` | 7 k |
| `graph` | six documents, two of them of the demo seed, two jobs at once, five jobs in all | `GraphIsItsNotas`, `ItemsAddUpToTotals`, `RankingAddsUp`, `NetworkAgrees`, `ScreensAgree`, `GapsAreTheMissingNumbers`, `ExportIsTheList` | 2 k, each with every query |
| `alerts` | four notas, two configurations, two evaluations at once | `QuietEvaluationIsExact`, `ReadIsWhatUsersSaid`, `OnlyLapsedAreDeleted`, `FingerprintsTellAlertsApart` | 109 k |
| `session` | two tabs, two accounts and e-mails, two requests, a token that lives one tick and can be renewed for one more; with fairness | `AccountsAreOwn`, `QuietSessionIsCoherent`, `LiveSessionIsKept`, `CallsSettle` | 240 k |
| `workers` | two replicas, two attempts, two statements, a TTL of three ticks, two outages | `HeartbeatIsSomeones`, `ConsumersAreMigrated`, `BucketIsLostByOutageOnly` | 1.84 M |
| `browse` | three notas, pages of one row, five turns, three loads, two at once; or the feed: two events and one that arrives, two types, five instants, pages of one row or two, three turns | `WalkSkipsNothing`, `FeedSkipsNothing`, `RankingShowsEveryMatch`, `DrawingIsWhole` | 722 k |

What they show:

- `CompletedIsDurable`: a job that reads `completed` has its XML stored, and a
  stored XML its nota in the graph, with two runs of one job at once.
- `AcceptedIsTracked`: from the moment `queue.add` resolves, a file has a job, a
  dead letter or its XML, also when its batch is refused after it. It depends on the order of
  `handleFailedJob` and on the catch that keeps the job when the dead letter was not written.
- `HalfIngestedIsTracked`: a nota in the graph answers 409 to a new upload; if its
  XML is missing a job or a dead letter still says so.
- `DeadLetterIsFinal`: the job whose payload a dead letter records has failed, and no run
  holds its lock, although the key may be in the queue again with another payload. A run that
  lost its lock may still be at the payload: its result is refused, and what it saves after
  all makes the key ingested beside its dead letter.
- `ExhaustedIsBeingMoved`: without crashes and faults no exhausted job stays in
  the main queue unattended, which is what `pendingFailures` is for.
- `ImplementsLedger`: `Ingestion` implements `NFLedger`, under the mapping that
  reads a key as ingested when its XML is stored, pending while its job is
  waiting, active or delayed, dead when a failed job or a dead letter is left. A key
  is never forgotten, and ingested is for good.
- `PendingIsSettled`: retries, stalls and restarts end.
- `ConcluidoIsStored`: the dialog says "Concluído" only of a job whose nota is in the graph
  and whose XML is stored, for an upload that was accepted; and that is the upload of the file
  it shows, however late the polls are answered, unless the upload itself was answered after
  another file was picked. Then the dialog says of the new file what is true of the old one:
  the answer of `enviar` is taken whatever is shown by then (`UploadModal.tsx:90`).
- `ReadyIsDownloadable`, `DownloadBreaksOnlyPastTTL`: no interleaving of
  requests, restarts and lost copies serves a ready export without its file
  before the TTL; after it, a download can lose the race with another request's
  removal (the route then answers an error).
- `RedisMirrorsMemory`: once every write was answered, and none rejected, what a
  restart would find is what memory holds.
- `AnswersNeverGoBack`: what a restart recovers can be older than what clients
  were told; the transition to `failed` in `get` is what keeps a finished export
  from running again. `PollingEnds` is the reason the code gives for it.
- `ClosedToastStaysClosed`: no late answer brings a closed notice back.
  `LoneToastIsTrue`, `LoneExportIsAnnounced`: with a single export the watcher is
  right. With two it is not, see below.
- `GraphIsItsNotas`: the graph is the union of its notas whatever the order and
  however often they were merged: stubs become the nota, nothing is doubled, each
  nota has one import event.
- `ItemsAddUpToTotals`: what the items of a nota carry of each of ten taxes is what the nota
  declares. The Imposto Seletivo and the taxes `AddUpToTotals` does not name are not compared;
  of the first see `taxes_lost` below.
- `RankingAddsUp`, `NetworkAgrees`, `ScreensAgree`: queries
  written apart agree. Rankings by NCM and CFOP add up to the KPIs of the page for
  every UF and window; nodes, edges, flow, hubs, communities and the company page
  draw one network; the overview, the volume, the rankings, the map, the list, the
  comparison, a product's history, the events and the home page count the same
  notas.
- `GapsAreTheMissingNumbers`: a gap that is reported is a run of numbers nobody imported
  between two of the série that were, no number is in two gaps, and while the report is
  not full (50) the gaps of a série are all that it lacks; no nota is in two groups of
  duplicates.
- `ExportIsTheList`: a file whose pages are read while a nota is imported has every
  nota of the filter once, newest first, with what the page of the nota shows, and
  its XMLs.
- `QuietEvaluationIsExact`: an evaluation that ran alone leaves what its rules
  found. `OnlyLapsedAreDeleted`: however many overlap, an alert that held from the
  first statement on is not deleted. `ReadIsWhatUsersSaid`: a mark is never lost nor
  carried over to an alert born again. `FingerprintsTellAlertsApart`: two situations
  are two alerts.
- `AccountsAreOwn`: two accounts share an e-mail, or a registration signs into a
  foreign account, only where two callers found the e-mail free at once: this window
  is there, and it is the only one. `LiveSessionIsKept` says the same of a session that is
  dropped while it could be renewed: a refused refresh of an older token, or a
  throttled one. `QuietSessionIsCoherent`: without an overlap with a change of the
  profile the stored claims are the account's. `CallsSettle`: no request is sent for ever.
- `HeartbeatIsSomeones`: containers read healthy only while some worker writes, and
  dead only after a silence or a shutdown that deleted the key.
  `ConsumersAreMigrated`: no worker takes jobs on a graph without its constraints.
  `BucketIsLostByOutageOnly`: the race to create the bucket is harmless; an outage
  at the first save is not.
- `WalkSkipsNothing`: paging by cursor shows no nota in two places, and each nota of the
  filter that was there at the oldest page of the walk, whatever is imported and
  whichever pages come from the cache. `FeedSkipsNothing`: paging by
  offset does so for events as long as pages were fetched in order, but for the events of an
  instant in which a full page ends: the two statements may order those differently, and one of
  them is skipped or seen twice even while nothing is recorded. Out of order, a
  cached later page and a fresh earlier one skip events. `RankingShowsEveryMatch`: the
  table shows every match and is never empty while one exists. `DrawingIsWhole`:
  edges have both ends, an expanded company has all its exchanges unless they are more than
  an answer takes (100), and a drawing whose loads did not cross has one root.

Bounds. One key is enough for the life of a job, because keys interact only in a
batch, which `batches` covers with two, in uploads that begin with different ones (a state
constraint: uploads that begin with one key are in `jobs`); two uploads of one key are the least that
collide, and two attempts the least that have a retry and a last attempt. Two
processes with a slot each give a run without its lock beside the run that has
it. One crash and one fault can hit any step; the proofs remove these bounds
for the properties they cover. With two restarts an export can be interrupted,
recovered and interrupted again; exports share nothing but the order of the Redis
connection, so one is enough. Two exports give the watcher an earlier and a newer
one. The documents of `graph` have, between them, two items of one product under two
CFOPs, a devolução that refers to another document and to itself, a nota to nobody
with a CNPJ, one of the Simples with ST, one of the reform, one that no XSD
accepts, and numbers with a gap; five jobs merge all accepted ones in any order with two
at once, or one of them again. Two evaluations are the least that overlap, and four
notas make two groups of duplicates of one value and a gap that moves. Two requests
are the least that race in a session; with a third TLC does not end in
minutes. Two outages let a service fail during the migrations and again later.
Pages of one row make a walk of three pages out of three notas, two of which tie
in each order. The list is
sorted by the date it comes with, or by the value. Of two events of the feed the one that arrives
may be newer or older than either, between them, or of the instant of one, so that a border of a
page cuts a tie. Two loads of the drawing are the least that cross; a third begins before, between
or after them.

Deadlock is checked except where everything a run has to do may have been done:
in `watcher` (the exports have ended), `graph` (the jobs are used up), `alerts`,
`session` and `browse` (their bounds are reached).

Fairness. Continuations of a handler, a run or a generation are run by the event
loop (weak). BullMQ hands out waiting jobs first in first out and its stalled
check is periodic, so a job is not passed over for ever (strong, on `TakeAny` and
`StallDead`). Workers have `restart: "no"` in `docker-compose.yml`: that a stopped
one is started again (`Boot`) is an assumption about the operator. Nothing makes
a run succeed or fail: `PendingIsSettled` needs neither. For exports, a client
that was told a running status asks again every 10 s and is served sometimes
(strong, on its arrival); Redis answers or rejects. For the watcher, the interval
fires (weak) and polls that are sent again and again are answered and delivered
sometimes (strong). In a session the server answers a request it was sent, or the
connection breaks, and a callback that is due is run (weak, for each request); users do
nothing by fairness.

### Where the code and its documentation differ

Each is a run that is expected to end in a violation.

| Run | Property | What the code does |
|---|---|---|
| `deadletter_again` | `EveryFailureIsRecorded` | A dead letter's id is key and attempts, and only the last attempt makes one, so the second round of failures of a key has the id of the first: its add is ignored and the job removed (`worker/queue/dlq.ts:30-41`). |
| `taxes_lost` | `SelectiveTaxIsKept` | The Imposto Seletivo of an item is looked for inside `IBSCBS/gIBSCBS`, where the XSD has none: it stands in `imposto/IS`, as `nf.types.ts` says, and is dropped (`core/parser/nfe.parser.ts:196`). |
| `drill_down` | `BarOpensItsNotas` | The window of a bar of the volume chart ends with a date, which the list compares with instants: the list of a day is empty and that of a month lacks its last day (`dashboard/pages/Overview.tsx:208`, `graph/queries/nf.queries.ts:110`). |

Other places met while modelling where the code does something else than a text
next to it, or than a user would expect; the models do as the code does:

- A batch can be answered 413 after part of it was enqueued
  (`api/nf/nf.routes.ts:110`, against README.md:429-430), and 409 when one of its files was
  ingested since the check (line 106, against the comment at 81-83, which says that none is
  enqueued then). What was enqueued is tracked all the same (`AcceptedIsTracked`).
- The status route answers 404 for a job in the dead-letter queue
  (`api/nf/nf.routes.ts:132`), and the upload dialog, which swallows it, waits for ever
  (`UploadModal.tsx:61`). Of a ZIP only the first job is followed. The answer of an upload that
  arrives after another file was picked is shown as that of the new one (`UploadModal.tsx:90`).
- `ready` is visible before its copy is in Redis; a restart in between fails a complete
  export (`api/export/export.service.ts:212`). Only a request for a known job removes an
  expired file.
- With two exports the late answer to a poll of one sets the status of the other
  (`export.store.ts:23`), and closing a toast drops a newer export (`ExportWatcher.tsx:55`).
- Without `campos` the columns of a file are those of its first row
  (`export.service.ts:275`).
- Recipients abroad, with neither CNPJ nor CPF, become one company
  (`nfe.parser.ts:339`); a product sold under two NCMs counts in both rankings;
  `direction` of the company graph does not filter (`company.queries.ts:131`);
  `/stats/volume` without a window has a bar of stubs and treats a week as days;
  `/stats/top-empresas` ignores its dates; most windows miss their last day.
- Alerts: a partial `PUT` of the configuration resets the rules it leaves out
  (`alert.repository.ts:189`); a mark on an alert born again answers 404.
- Session: a refresh that overlaps a change of the profile can put the old e-mail back
  (`api.client.ts:44`); a wrong current password makes the client refresh and send the
  change again.
- Dashboard: clearing the filters leaves those of a deep link (`Explorer.tsx:112`); an edge
  already drawn keeps its old weight (`layout.ts:211`).

## What is proved

The proof modules show, for every value of the constants that satisfies the named
assumptions of the modules (every set of keys, uploads, exports, notas, rules,
replicas, and every bound):

| Theorem | Statement |
|---|---|
| `Invariance` (`IngestionProofs`) | `Spec => []IInv` |
| `TypeCorrect` | `Spec => []TypeOK` |
| `CompletedDurable` | `Spec => []CompletedIsDurable` |
| `AcceptedTracked` | `Spec => []AcceptedIsTracked` |
| `HalfIngestedTracked` | `Spec => []HalfIngestedIsTracked` |
| `ExhaustedMoved` | `Spec => []ExhaustedIsBeingMoved` |
| `DeadLettersFinal` | `Spec => []DeadLetterIsFinal` |
| `Refinement` | `Spec => ImplementsLedger` |
| `DialogInvariance` | `DialogSpec => [](IInv /\ DialogInv)` |
| `ConcluidoStored` | `DialogSpec => []ConcluidoIsStored` |
| `ExportInvariance` (`ExportProofs`) | `Spec => []IInv` |
| `ReadyDownloadable`, `DownloadFindsFile`, `RedisIsMemory` | `Spec => []ReadyIsDownloadable`, `[]DownloadBreaksOnlyPastTTL`, `[]RedisMirrorsMemory` |
| `AnswersGoForward` | `Spec => AnswersNeverGoBack`, an action property |
| `WatcherInvariance`, `ClosedStaysClosed`, `LoneIsTrue` | `WatchSpec => []WatchInv`, `[]ClosedToastStaysClosed`, `[]LoneToastIsTrue` |
| `AlertInvariance`, `QuietIsExact`, `ReadIsAsSaid` (`AlertProofs`) | `Spec => []IInv`, `[]QuietEvaluationIsExact`, `[]ReadIsWhatUsersSaid` |
| `LapsedAreDeleted` | `Spec => OnlyLapsedAreDeleted`, an action property |
| `FingerprintsApart` | `Spec => []FingerprintsTellAlertsApart` |
| `OperationsInvariance`, `ConsumersMigrated`, `BucketLostByOutage`, `HeartbeatSomeones` (`OperationsProofs`) | `Spec => []IInv`, `[]ConsumersAreMigrated`, `[]BucketIsLostByOutageOnly`, `[]HeartbeatIsSomeones` |
| `SessionInvariance`, `AccountsOwn`, `QuietCoherent` (`SessionProofs`) | `Spec => []IInv`, `[]AccountsAreOwn`, `[]QuietSessionIsCoherent` |
| `LiveSessionKept` | `Spec => LiveSessionIsKept`, an action property |
| `GraphInvariance`, `GraphWhole`, `AnomaliesHold` (`GraphProofs`) | `Spec => []IInv`, `[]GraphIsItsNotas`, `[]GapsAreTheMissingNumbers` |
| `FeedInvariance`, `FeedWhole` (`ScreenProofs`) | `FeedSpec => []FeedInv`, `[]FeedSkipsNothing` |
| `ScreenInvariance`, `RankingWhole` | `PagesSpec => []IInv`, `[]RankingShowsEveryMatch` |
| `WalkWhole` | `PagesSpec => []WalkSkipsNothing` |
| `DrawingWhole` | `PagesSpec => []DrawingIsWhole` |

The assumptions, each named in its module and evaluated by TLC, are:

- bounds are naturals and `MaxRetries`, `Attempts`, `Statements`, `BeatTTL` and `Life`
  positive, every slot belongs to a process, the `No…` constants are outside their
  sets, batches are sequences of files;
- of the alerts (`RulesAssumption`), that different rules have different fingerprints
  (each begins with its rule's name) and find nothing outside `Fingerprint`; with
  `AlertService` TLC evaluates it for the rules of the code;
- of accounts and requests (`SessionAssumption`), that there are finitely many and that
  the accounts there are at first differ in their e-mails;
- of documents (`AreNotas`, which `DocsAssumption`, `NotasAssumption` and
  `BrowseAssumption` state of the documents of their models), what the XSD gives of an
  accepted one: two with one access key are one invoice, `dhEmi` is there, items are a
  sequence with distinct numbers. Without `dhEmi` the parser would give a nota the time it
  is parsed at, and two runs of one job would merge different invoices;
- of the notas that are there at first (`NotasAssumption`, `BrowseAssumption`), that they are
  finitely many;
- of the feed (`FeedAssumption`), that instants are numbers, the log at the start is one of
  such events, and that a page has from 1 to 200 rows, which `listEventos` takes as they are;
- of the screens (`BrowseAssumption`, `ScreenAssumption`), that a page has rows, that a
  depth is one of the four that the slider and the route allow, that the list of notas is
  sorted by one of its three columns, what it is sorted by and the keys are numbers (so that they
  can be compared, as texts and instants can), and that the filters a user sets are those of
  the panel (`NFFilters.tsx`). A deep link could add one by UF, which no page of the
  model does.

### Ingestion

The properties are not inductive by themselves. `AcceptedIsTracked` breaks if a
handler may remove a job whose dead letter was not written, so `HandlerInv` says
that a handler at its second step has a dead letter, and that it works on a job
that failed for good, so that nobody else takes it. `CompletedIsDurable` breaks if a
run may complete without having saved, so `RunInv` ties the stage of a run to
the graph and the storage; it also says that a run without its lock works on a
tracked key, because its late merge adds to the graph. `JobInv` relates state,
owner and attempts of a job; without attempts left on live jobs the counter would
leave its type. `LoopInv` keeps the loop indices of the uploads inside their
batches.

The proof goes by halves: upload steps can disturb what `IInv` says of the
requests (and, in `Enqueue`, of the queue), worker steps only the rest. A step
that replaces one job is one lemma (`JobStep`), whose premise `Fits` lists what
the new job must be like; that a key once tracked stays so is what carries
`AcceptedIsTracked` over the worker steps.

`ExhaustedMoved` needs no more than `IInv`: after each step a key is as it was, is
no exhausted failed job, or has a handler (`Attended`); crashes and rejected calls
only count up, which excuses the property for good. `DeadLettersFinal` needs a
second invariant (`FInv`) about the uploads: a payload in a queue was sent by the
upload it names, and the keys of a batch are distinct as far as the check loop has
come, so an upload cannot add a key again after its own dead letter. That no run holds the lock
of such a job is in `JobInv`: a failed job has no owner. `Refinement` shows that each
step moves the status of at most one key, and only as the ledger allows: a run
works on a tracked key (`RunInv`), so `Save` never ingests an unknown one, and an
evicted or removed job leaves the XML or a dead letter behind.

The dialog adds steps of its own and restricts the uploads to those it sends, so every
step of `DialogSpec` is a step of `Ingestion` or a stutter and `IInv` holds in it without
a new proof. `FollowInv` says what is missing: the dialog follows the first key of an
upload that was answered 202, which is the one shown unless it was answered late, and an answer
`completed` on its way was given about that key. The keys of `stored` and `graph` only grow, so a late answer stays true.

### Exports, watcher, alerts, operations

`RedisMirrorsMemory` is about a moment with nothing on the wire; its invariant
(`LastWriteIsMemory`) says of every moment that the last write on its way is what
memory holds. `AnswersNeverGoBack` needs that an export ends in one way
(`EndsOneWay`): no ready copy is anywhere once something says it failed, commands in
flight and requests about to persist `failed` included; and for that, that a `get` of
an export is only sent once memory has lost it, with no ready copy behind it
(`GetsAreLate`), and that while an export is generated memory answers for it
(`GenerationIsAlone`). `ReadyHasItsFile` carries the two properties of downloads.

The watcher's notices only move forward, from requested to active to closed
(`NoticesGoOneWay`), which is why no late answer revives one. `LoneToastIsTrue` needs
that an active job is ready because its server says so, or by the answer of another
export (`AnswersAreTrue`).

An evaluation deletes by what its rules found some statements ago, so
`OnlyLapsedAreDeleted` needs that everything that has held since its first statement
was found or its rule is still to be read (`WhatHoldsIsFound`); the arrival of a nota
records what stops holding. `ReadIsWhatUsersSaid` needs that the ids evaluations are
about to give are new (`IdsAreFresh`), so that no mark meets an alert it was
not made for. `LoneRunsAreExact` does `QuietEvaluationIsExact`. `FingerprintsApart` is about
the rules themselves: alerts of two rules begin with two kinds, and two alerts of
one rule with one fingerprint are about one nota, issuer, gap or group, which for notas and
groups needs that a nota of the graph has one issuer (because the graph of a set of notas
is what `Holds` says, `UnionHolds`) and that a group of duplicates is not empty.

`ConsumersAreMigrated` needs the order of the statements of each migration
(`MigrationsAreInOrder`), since one process may start while another has applied half
of them. `HeartbeatIsSomeones` compares two ages: the key is as young as somebody's
last heartbeat, and no older than the last one of any replica whose heartbeat was not
deleted (`KeyIsTheLastHeartbeat`).

### Session

`AccountsAreOwn` says that a shared e-mail was raced for. Its invariant (`ClaimInv`) is
about requests that found their e-mail free and have not written it: such a claim
was raced for, or no other request claims that e-mail and no account but the one that asks
holds it. Every check that finds an e-mail free while another claim is open puts it
among `raced`, and nothing takes it out again. `TokenInv` does
`QuietSessionIsCoherent`: as long as no token was overtaken by a change of the profile, every
token that may still be stored has the claims of its account, and the stored one does
unless the answer that renames it is about to be delivered. A registration takes an id that
is free; that there is one is a fact about numbers (`RoomInv`: no more registrations
in flight than ids left), proved with the cardinalities of `FiniteSetTheorems`.
`LiveSessionIsKept` follows action by action: only `SignOut` takes a token away, and
`CallInv` says what a request that was denied knows of the token it was sent with.

### The graph

`Extends` lists what one transaction of `mergeInvoice` does to each label and
relation, and `GraphIsItsNotas` is a statement of the same shape about all documents
merged so far, so that a merge is three cases: a new nota, a stub that becomes one, a nota
that is merged again. The last changes nothing but instants, because `DocsAssumption`
makes it the same invoice. What makes the invariant inductive is that a stub has its key
and nothing that would show through the nota written over it (`StubsAreKeys`), and that
only imported notas have events, so that the guard of `MergeEvent` is about this nota
(`EventsAreImports`). That a company has its CNPJ (`CompaniesAreNamed`) ties the groups of the
anomalies to their issuer. The loop over the items is a fold, unfolded as described below.

`GapsAreTheMissingNumbers` follows from what the graph is: a nota has one issuer and one
number (`IssuersAre`), a série finitely many (`FiniteGaps`), and `Ascending` lists them in
order, so that two that follow each other have nothing of the série between them
(`GapIs`) and a number that is missing lies between two that do (`MissingIsInAGap`). That the
report has all gaps while it is not full is what `NotFull` says of a `LIMIT`.

### Lists, tables and the drawing

Lists are ordered by `Ordered`, a recursive function over the subsets of a set.
`OrderedIs` says what it gives for every finite set and every order: each member
once, none before one that is to come first, when there always is a first. From it
follow `SortIs`, `MatchingIs` and `RankingIs` (sorting, searching and reading a ranking
keep the rows), `PagesFill` (the pages of a table cut it into pieces without a gap, with
`LastPage` as the quotient of the code).

`FeedSkipsNothing` speaks of pages that were fetched at different times and in different orders of
ties. `FeedInv` says that each of them saw the log as long as it once was, and that the user
came to the page on screen one page at a time. Whatever the order of ties, the events newer
than an instant are the first ones of the list (`NewerFirst`), so a page's border falls
among the events of an instant, or between two instants. For an event that is on none of the pages
and of no instant in which a page ends, the number of newer events of its type (which only
grows, `NewerGrows`) is never on page `n`, the places from `n * FeedSize` on, so it is past the
last page (`Climbs`, `FeedReaches`), and the event is older than what that page shows. In a quiet log an
event on two pages is among the ties of the instant the earlier one ends in (`FeedRepeats`). The
premise that pages were fetched in order cannot be dropped, the cache breaks it; nor can the
exception for the instants pages end in.

`WalkSkipsNothing` has the same difficulty with cursors: a page may come from the cache and be
older or newer than the page before it. `WalkInv` says that of any two pages that are
kept one saw all that the other saw and perhaps later notas (`AreSnapshots`), and that each
page of the path ends at the cursor the next one begins with (`IsTurned`). A page is the stretch of
the order behind its cursor, up to the place of its last row (`PageIs`), so consecutive
pages cover the order without a gap and meet nowhere (`WalkIs`), and a nota that the oldest
page saw was seen by all of them. That it is in the list of all of them needs that a filter, once it
matches a nota, goes on to (`Lasting`, `FilteredGrows`). One by UF does not: it matches by the
address of a company, which the last import of it sets. The filters of the panel, the status and the CNPJ
of the issuer are about the nota itself.

`RankingShowsEveryMatch` needs only that the state of a table is one (`TableInv`): every row
of a match is on a page, and `SafePage` brings the user back from a page that no longer
exists. `DrawingIsWhole` has three parts. That edges have their ends and that
a drawing whose loads did not cross has the one root the user asked for are
proved: an answer of the server is a closed graph of which every node that is no
company is joined to another (`AnswerIs`), a merge of two such drawings is one
(`MergeDraws`), and as long as no two loads cross, the load that is in flight is the only
one and its root, if it merges, is drawn (`LoadInv`). The third part,
`ExpandedIsComplete`, is itself inductive once `ReadsInv` says that the rest of an answer
saw all that its neighbours saw, and both no more than there is. A trade that was there
when the answer was begun is there when its edges are read (`LinksGrow`), and its
other end is one nota away, which every depth reaches (`ReachedIs`). The `LIMIT 100` of
both statements leaves nothing out when there are no more rows than that (`FitsIn`), and what fits
in an answer now did when less had been imported (`FitsBefore`). Hence the property asks whether the
neighbourhood fits in the graph as it is now: beyond the limit the drawing
leaves companies out, by the order of the query.

### Induction

The library's induction theorems have an operator as a parameter, which the provers
cannot instantiate. Where a fold or a recursive function had to be unfolded (the items of an
invoice, the notas of a graph, `Ordered`), the proofs take a least counterexample: `LeastSubset` gives, of any
non-empty family of subsets of a finite set, one with no smaller one in it. It follows
from the well-foundedness of the strict subsets (`FiniteSetTheorems`), which is a
statement about sets and needs no operator. That a recursive definition over sets has a
solution at all is shown the same way (`ListTable`, `LoopTable`, `FoldTable`). All of these
are in `NotaProofs`, and so is `NoFirst`, the same for the pages of a walk: a place that
the first page has, and that the next has whenever one has it, is there in all of them.

### Only model-checked

- The liveness properties (`PendingIsSettled`, `PollingEnds`,
  `LoneExportIsAnnounced`, `CallsSettle`) rest on fairness and `ENABLED`, which are out of the
  prover's reach.
- `ItemsAddUpToTotals` is about documents: that the taxes of items and totals agree is a fact of each
  document, and what is checked is that the parser loses none of those ten.
- `RankingAddsUp`, `NetworkAgrees`, `ScreensAgree` and `ExportIsTheList`
  compare queries that have different `LIMIT`s, and agree while no limit is
  reached; over all constants they would be false, and a precondition about the limits
  would have to be stated for each query.

## Abstractions and what is not modelled

- In the pipeline a payload is which upload it came from, and a file is its key,
  whether it is valid and whether it is too big; ZIP extraction and its limits are part
  of what makes an upload invalid. There `mergeInvoice` is one commit of a key; what
  it writes is in `InvoiceGraph`.
- In a document the XSD is whether it passes; texts that no rule reads (names, addresses,
  the nature of the operation and the search in it) are left out. Money and rates are
  integers: rounding is modelled where the code itself rounds, in the seed and in the
  percentage of the reform.
- An export file is the sequence of its records; quoting, the BOM, XLSX cells and
  the progress counter are left out.
- A token is its claims and expiry; hashes are the passwords; the rate limit is a
  request that is refused.
- Rendering, hovering, the peek, the page size of the list of notas and pictures of
  the graph are left out; so are the queue gauges, the health route (a ping of each
  service), logging, metrics, the wiring of the API, the creation of the demo
  user, deployment and CI: they keep no state that the properties are about.
- API and workers read the same `JOB_MAX_RETRIES`, as `docker-compose.yml` gives
  both the same `.env`.

## What is left

In this order:

1. `ExportWatcher` composed with `ExportService`, so that polls see restarts and expiry.
2. `NetworkAgrees`, `RankingAddsUp` and `ScreensAgree` for graphs below the limits of the queries, as
   `ExpandedIsComplete` is stated; their sums are folds over sets of notas, for which `NotaProofs`
   has no lemmas yet.
3. The remaining pages of the dashboard (peek, company and product details) over
   `FiscalApi`.
