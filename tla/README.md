# A TLA+ development of flowxrag

TLA+ modules for the parts of this repository whose correctness depends on
order, concurrency, time or failure; the TLC configurations that check them on
small instances; and theorems about them that TLAPS proves for every instance.

    tlc -workers 2 -config sync_faults.cfg MCSyncFaults.tla
    tlapm SyncServiceProofs.tla

Contents: [inventory](#1-inventory) · [modules](#2-modules-and-their-correspondence-to-the-code)
· [runs](#3-what-the-runs-check) · [disagreements](#4-where-code-and-documentation-disagree)
· [proofs](#5-what-is-proved) · [limits](#6-what-is-not-modelled) · [plan](#7-plan)

## 1. Inventory

A question enters through the Go **gateway** (circuit breaker, rate limiter) or
the Python **API** (its own rate limiter, an answer cache, sessions, memories)
and is answered by the **CRAG graph**, which searches the **knowledge base**
(FAISS + BM25), the web (Tavily), or asks the language model alone. Documents
enter through the document API, which stores the PDF in a shared directory and
indexes it itself or in a Celery worker; or as change events: the API's own
Kafka producer, or MySQL binlog -> Canal -> Kafka, read by the Go **Sync
Service**, which calls `IndexDocument` of the **RAG gRPC server** under a Redis
lock per document.

| Component (source) | State | Operations | Interacts through | Hard behaviour | What makes it correct |
|---|---|---|---|---|---|
| Sync Service consumer (`sync-service/internal/service.go`, `cmd/.../main.go`) | record in hand, attempt, row; group offset; dead-letter topic | fetch, process, retry, dead-letter, commit, shut down | Kafka, Redis, gRPC | crash or rebalance anywhere, RPC timeouts, DLQ failure, batched records | no offset passes an unsettled record; rows in order; per-document order; everything settles in the end |
| Document lock (`lock.go`) | one Redis key per document | SetNX with token and TTL, compare-and-delete | Redis | expiry during the critical section, lost replies | one call per document at a time while leases and clients last; no release removes somebody else's lease; no lock stays |
| Record decoding (`document.go`) | none | decode, validate | - | two formats, batches, DDL | nothing dropped, nothing unusable accepted |
| RAG gRPC server (`rag-service/server.py`) | a `KnowledgeBase` | IndexDocument, Chat, Retrieve | gRPC, knowledge base | calls outlive their clients | idempotent |
| Knowledge base (`backend/retriever.py`) | chunk list, FAISS, BM25 per process; `chunks.json`, `faiss.index`, upload directory shared | add, upsert, delete, rebuild, clear, boot | files shared by processes | several processes on the same files; crash between two writes; embedding failure | list, vectors and BM25 agree; acknowledged means durable; idempotent ingest; deleted stays deleted |
| Gateway breaker (`gateway/internal/circuit.go`, `server.go`) | failure count, openedAt | Allow, Success, Failure | concurrent handlers | late outcomes, client hang-ups, no half-open state | opens for a reason, closes again, keeps probing |
| Gateway limiter (`server.go`) | a Redis sorted set per client | one Lua script | replicas, each with its clock | clock skew, inclusive bounds | at most N per window; refusals have a cause |
| API limiter (`backend/services/cache_service.py`) | a Redis counter | INCR, EXPIRE | concurrent requests | failure between the two commands | bounded per window; lifts again |
| CRAG graph (`backend/graph.py`) | GraphState | six nodes, two conditional edges | retriever, Tavily, LLM | partial failures of tools, retries | cites what it used; flags web answers; ends |
| Document API and tasks (`backend/api/v1/documents.py`, `backend/tasks/`) | `document_records`, upload lock, Celery queue | upload, upload_async, delete, clear, rebuild, nightly rebuild, clean-up | knowledge base, Celery, Kafka, MySQL | redelivered tasks, blind lock release, two producers, commit after dispatch | one ingest per upload; some record tells the outcome; no upload is lost to a deletion that came before it |
| Event producer, CDC table (`backend/messaging/`) | the MySQL table Canal reads | upsert row, delete rows, publish | Kafka, Canal | keys decide the order; a row that was never written | per-document order |
| Chat service and cache (`backend/services/chat_service.py`, `cache_service.py`, `api/v1/chat.py`) | answers by question hash, chat history | chat, chat_stream | Redis, PostgreSQL, CRAG graph, page | errors swallowed in a transaction, commit after the response, row locks through a turn | what is listed is saved; counts are right; a session's history stays in it |
| Memory service (`backend/services/memory_service.py`, `api/v1/memories.py`) | memories per user | extract, find-then-insert, count uses, patch, delete, clear | PostgreSQL | overlapping transactions, an ORM that writes changed attributes only | a turn is told what was stated last, and nothing deleted |
| Hybrid retrieval (`retriever.py` `search`, `rerank`) | none | rank fusion, fold into passages, overview boost, merge, rerank | embedding, reranker | rounding, ties, two scales of score | the order both searches agree on survives; no passage twice |
| Sessions and page (`api/v1/sessions.py`, `frontend/app.py`) | `session_state`, chat sessions | sign in and out, guest, new, load, ask, delete | the API | a page that outlives its user, an interrupted stream | a turn is saved under who asked it |
| Passwords and tokens; config, logging, metrics, telemetry, health; evaluation tool; generated protobuf code; deployment files | - | - | - | - | not modelled, section 6 |

`PROJECT.json` lists every component with its status, and under `hazards` the
places where the code is hard to test, each at its line.

## 2. Modules and their correspondence to the code

| Module | Models | Role |
|---|---|---|
| `DocumentChanges` | `document.go` | the decoder as an operator on abstract records |
| `DecoderChecks` | - | assumptions TLC evaluates: the decoder against its contract on 1000-odd records |
| `AtLeastOnce` | what `docs/architecture.md` promises | abstract specification of a consumer |
| `SyncService` | `service.go`, `lock.go`, `main.go`; Kafka, Redis and the server as environment | the detailed consumer; `ImplementsAtLeastOnce` is its refinement mapping |
| `MCSyncService`, `MCSyncFaults` | - | partitions to check it on; the second also evaluates `DecoderChecks` |
| `SyncServiceProofs` and the other `...Proofs` | - | theorems about the module of that name (section 5) |
| `KnowledgeBase`, `MCKnowledgeBase` | `retriever.py` in several processes | the vector store; the deployments to check |
| `CircuitBreaker` | `circuit.go`, `Server.chat` | the breaker and the handler that drives it |
| `SlidingWindow` | the Lua script in `server.go` | the gateway's limiter |
| `FixedWindow` | `check_rate_limit` | the API's limiter |
| `Tallies` | - | how many requests fell how long ago, for both limiters |
| `RateLimits` | a client at either door | instantiates both limiters and states what they promise |
| `Retrieval` | `KnowledgeBase.search`, `Reranker.rerank` | operators from two ranked lists to what the graph gets; no state |
| `CragGraph`, `MCCragGraph` | `graph.py` | the question-answering graph, over the results of `Retrieval` |
| `DocumentPipeline`, `MCDocumentPipeline` | `documents.py`, `document_tasks.py`, `celery_app.py`, `scheduled_tasks.py`, `messaging/`, the lock of `cache_service.py` | a document's way from the upload to the index behind the Sync Service |
| `Memories`, `MCMemories` | `memory_service.py`, `memories.py` | what is remembered of a user, as overlapping transactions |
| `Chat`, `MCChat` | `chat_service.py`, `chat.py`, `sessions.py`, the cache of `cache_service.py`, the state of `app.py` | a turn from the page to the database |

`SyncService` EXTENDS `DocumentChanges`, so the constant `Log` is a sequence of
raw records and the consumer decodes them with the modelled decoder.

### SyncService

One partition and any number of replicas. `pc[c]` is where a replica's consumer
goroutine is:

| `pc` | code | actions |
|---|---|---|
| `idle` | `Consume`'s loop around `FetchMessage` | `FetchMessage`, `AwaitMessage` |
| `process` | `process` before its first row | `Process` |
| `lock`, `wait`, `release` | `syncDocument`: acquire, RPC, deferred release | `AcquireAndCall`, `AcquireFails`, `GiveUp`, `Serve`, `Release` |
| `backoff` | the timer in `handleWithRetry` | `Backoff` |
| `dlq` | `sendDLQ` | `SendDLQ`, `SendDLQFails` |
| `commit` | `CommitMessages` | `CommitMessages` |
| `down` | no process | `Crash`, `Stop` (SIGTERM cancels the context), `Exit`, `Restart` |

What the environment may do is modelled from how the code uses it: a Redis or
Kafka command may fail before or after it took effect; a commit is accepted
from a consumer that no longer owns the partition, as kafka-go sends it; a new
owner starts at the committed offset; a server-side call outlives its client
(`GiveUp` leaves `call[t]` running) and may report an error after its effect;
`LockExpires` can happen at any time, while the call runs too. The lock is taken
per document id, and the index is keyed by source, as the server's `upsert_pdf`
and `delete_source` are (server.py:109, 115). Tokens are a finite set in which
`Fresh` picks one nobody refers to, which is what a random 128-bit token is.

History variables: `applied`, the rows reported as applied; `index`, the last
record that took effect per source; `lost`, the records `Consume` skipped
because their dead-lettering failed; `overdue`, the calls that run although
their lease is over or their client has stopped waiting; `disturbed`, whether a
call was ever overdue or a consumer lost the partition with a record in hand.

### KnowledgeBase

A process has `chunks`, `index`, `bm25` and a lock `holder`; `diskChunks`,
`diskIndex` and `uploads` are shared. A chunk list is a sequence of blocks
`<<source, file>>`. A request is five steps in the order of the code: read
files outside the lock (`Upload`, `Ingest`, `RebuildFromUploads`,
`DeleteSource`, `Clear`), take the lock and change the list (`ChangeChunks`,
which also truncates `chunks.json`), write it (`SaveChunks`), then embed, write
`faiss.index`, rebuild BM25 and release (`RebuildIndex`) or fail in the
embedding call (`EmbedFails`). `Crash` may fall between any two; `Boot` is
`__init__` with its test "as many vectors as chunks". The constants
`SourceOf`, `DisplayOf` and `Listed` are what the client's name,
`_display_source_name` and the `*.pdf` glob make of a file. An upload is indexed
under the client's name, a rebuild indexes it under the displayed one, and a
deletion removes the chunks of the name it is given and unlinks the files that
are displayed or stored under it (retriever.py:826).

History variables: `promised`, the blocks an answered request put into the
index; `withdrawn`, the files an answered deletion took out; `rebuilt`, whether
the last rebuild of the process's index succeeded.

### CircuitBreaker, SlidingWindow, FixedWindow

The breaker's three methods are atomic (mutex) operators; each request of
`Server.chat` walks `idle -> admitted -> calling -> idle` and reports outcomes
in any order. `since` is the time since `openedAt`, counted to `ResetTimeout`.
In both limiters there is no clock, only ages: `admitted[a]` counts requests
admitted `a` ticks ago, which keeps the state finite without a bound on time.
`SlidingWindow.ahead` is how far each replica's clock is ahead. The sorted set
tallies its members by how far their scores lie behind the fastest clock there
could be, so a replica adds its requests at `Skew - ahead[h]`; a script run by
`h` drops those with `a + ahead[h] >= Window + Skew`, which is
`ZREMRANGEBYSCORE`'s inclusive bound by the clock of `h`. In `FixedWindow` the INCR and the EXPIRE
are different steps, and either may fail.

### Retrieval and CragGraph

`Retrieval` takes the two ranked lists of chunks (vector and BM25) and follows
`search`: reciprocal ranks with the weights and `k` of the code, rounded to four
decimals in integer arithmetic (`Scale`); chunks folded into their passage,
each passage with its best chunk; the second sort; the overview boost; the
merge; the reranker, whose models are tried in turn until one answers
(`RerankApi`). `Excerpt` gives a passage its merge key, (source, page, first 160
characters), by which two passages of a page that begin alike are merged into
the first (retriever.py:947). A reranker is assumed to name a place once, and
may name one that does not exist.

`CragGraph` has one action per node, the two routing functions as operators, and
`invoke_llm`'s bounded retries. A question is the set of intents its wording
matches (`choose_route` decides with the code's priorities); the grader's
verdict and the overlap of words are nondeterministic, while the confidence
test on the scores is computed (`Convincing`). A search that cannot embed the
question ends the run, since nothing catches it in `retrieve` (`Raise`).

### DocumentPipeline

An upload is a file (its stored name gets a uuid), and its request, its task and
its record are named after it; several files carry one source name. The API
runs as one event loop, so a handler's step ends where it awaits:
`AcquireLock`, `IndexUpload` (save and `add_pdf`), `AnnounceUpload`,
`ReleaseLock` for `/documents/upload`; `AcceptUpload`, `Dispatch`, `Commit` for
the asynchronous one, whose task is in the queue before its record is
committed. The task is `StartTask`, `AddPdf`, `AnnounceTask`, `Succeed` or
`Fail`, and a retry, a redelivery (`WorkerLost`) or the hard time limit
(`HardLimit`). `queue[k]` is the partition of key `k`: Canal's single one, or
one per key when the API publishes. The Sync Service is reduced to what
`SyncService` shows of it: it applies a partition in order (`Succeeded`); after
a lock that is held, a failed call or embedding, a lost answer or a lost commit
it tries again, or, its retries used up, dead-letters the event and passes it
(`Failed`, `GivenUp`); and a call it stopped waiting for takes effect later
(`late`, `LateCall`). The index is reduced to the files in it; `upsert_pdf` is two
steps because it reads the PDF before it takes the lock. A `Mishap` is any one
failure of the outside: Redis, MySQL (a flush, also one after the chunks were
appended, or the commit at the end of the request, after its event was
published), Kafka, a worker, a parser, an embedding, an `IndexDocument` call.
Names are taken to be such that the upload directory keeps them; what happens
to others is the subject of `KnowledgeBase`.

### Memories

A request is a transaction of reads (`Context`, `Find`), flushes (`FlushInsert`,
`FlushUpdate`, `FlushClear`, `Touch`) and a `Commit` or `Rollback`, at
PostgreSQL's read committed: it sees the committed rows and its own writes, and
a row it wrote stays locked. `loaded` is the session's identity map; a flush
writes the attributes that differ from what was loaded. What a message yields
is a pipeline of operators (`Found`, `Deduped`, `FirstFive`, `Stored`), and
`Statements` says independently what it states; that the two agree is `Extracts`.
`mem` is what the user stated last, the reference for `RecallsLastStatement`.

### Chat

`page` is Streamlit's `session_state`, its `messages` the turns it lists;
`turn[t].at` is where a handler is:
lookup, context, memories, graph, then store/save/remember in the order of its
route (`After`), end, commit. Rows written are seen and unlocked at the commit,
which comes after the response. Other clients (`Call`) may name any session, or
none: neither `/chat` nor `/chat/stream` looks at its owner (chat.py:30-91). An
exception that the handler swallows leaves `broken`, a transaction that keeps
nothing. An answer is known by the turns the model was told of, so that the
cache can be asked whose it is.

## 3. What the runs check

| Run | Instance | Properties |
|---|---|---|
| `sync_faults` | 2 replicas, 2 tokens, log = batch of `a`, `b`; then deletion of the source `a` under the id `b`; one attempt; 1 crash or stop and 1 reassignment; everything may fail, leases and clients may run out (3.5 M states) | `TypeOK`, `CommittedIsHandled`, `RowsInOrder`, `DocumentsSerialised`, `LastChangeWins`, `LeaseNotStolen`, `ImplementsAtLeastOnce` |
| `sync_order` | log = batch of `a`, `b`; DDL; an invalid record; 2 attempts; 1 crash; the dead-letter topic works, no reassignment (124 k) | `CommittedIsSettled`, `NoRowLost`, `EventuallyHandled`, `LocksFreed` |
| `sync_dlq_gap` | log = insertion and deletion of a document; dead-lettering may fail | `CommittedIsSettled` is violated |
| `kb` | the gRPC server alone (2 threads), the API alone (3 files of 2 sources, one with a name that is sanitised), the API with a worker, once with a crash and once with a second upload (3 M) | `IngestIsIdempotent`, `SearchAligned`, `AcknowledgedIsDurable`, `DeletedStaysDeleted`, `RebuildMatchesUploads` |
| `kb_names` | the API alone | `DeletedCopiesGone` is violated |
| `breaker` | 3 requests, threshold 3, timeout 2 ticks | `OpensOnStreak`, `Recovers`, `ProbesAgain` |
| `rate_limits` | gateway: 2 replicas, every clock offset up to 2 ticks; API: 2 concurrent requests; window 4, limit 3 (39 k) | `LimitKept`, `RefusedForCause`, `TwiceTheLimitKept`, `LimitLifts` |
| `crag_answers` | 4 chunks in 3 passages, two of which begin alike, 3 candidates, top 2, 3 model calls (67 k states over every pair of rankings) | `CitesItsEvidence`, `FlagsWebFallback`, `RanksAsBothSearches`, `FusedScoresDoNotConvince` |
| `uploads` | 2 uploads of one name, 1 deletion, 1 mishap; with Canal (and 1 retry of a task), without, and without a database (5.4 M) | `UploadsSerialised`, `AppendedOnce`, `OutcomeOnRecord`, `NoOrphans`, `UploadsSurvive` |
| `uploads_reordered` | the same with a database and without Canal, no mishap | `EventsKeepTheirOrder` is violated |
| `memories` | 2 overlapping requests, 4 in all, turns that state up to two keys, 3 rows (2.2 M) | `RecallsLastStatement`, `DeletionIsFinal` |
| `chat` | 1 page, 1 user with memories and the guest, other clients, 2 turns, 2 sessions, 1 mishap; with and without a database (2.6 M) | `ListedIsSaved`, `CountIsHistory`, `SavedUnderAsker`, `HistoryStaysInSession`, `EveryQuestionEnds` |

What the less obvious properties say:

- `DocumentsSerialised`: two `IndexDocument` calls of one document overlap only
  if one of them is overdue; no crash, stale owner, lost reply or failed
  release makes them overlap.
- `LastChangeWins`: once a partition is consumed, a source none of whose records
  was dead-lettered is in the state its last record asks for, whatever was
  redelivered, retried or taken over between two records.
- `AcknowledgedIsDurable`: what an answered request put into the knowledge base
  is on the disk, until a request takes it out.
- `DeletedStaysDeleted`: once a deletion is answered, no rebuild, redelivered
  event, retry or restart indexes the files it found again.
- `UploadsSerialised`: two uploads of one name are never both between acquiring
  and releasing the lock, unless its thirty seconds ran out or Redis failed.
- `AppendedOnce`: a file's chunks are appended once, plus once for every
  repetition - there are no other doubles.
- `OutcomeOnRecord`: the task takes any record of its file name, perhaps before
  its own is committed; still, when the last task of a name has succeeded, some
  record of that name says so.
- `NoOrphans`, `UploadsSurvive`: once the partitions are drained, nothing is
  served whose file is gone, and no upload is lost that began after the last
  deletion of its name was through. The exceptions are listed below.
- `EventsKeepTheirOrder`: a DELETE published after an INSERT of its document
  removes nothing whose INSERT was published after the DELETE.
- `RanksAsBothSearches`: a passage that both searches rank ahead of another is
  not behind it in what the fusion returns, after rounding, folding and
  merging; a passage merged away is stood for by the one that begins like it.
- `FusedScoresDoNotConvince`: fused scores alone never reach the threshold of
  `local_results_confident`; only boosted or reranked hits do. It is 2/61
  against 0.55.
- `RecallsLastStatement`: after any overlap of turns, stores, patches and
  deletions a later turn is told, for each key, exactly what was stated last.
- `DeletionIsFinal`: a memory that was recalled when its user deleted it stays
  rejected, whatever turn had loaded it before, until a PATCH; it relies on
  flushes that write changed attributes only.
- `ListedIsSaved`, `CountIsHistory`, `SavedUnderAsker`: the page, the counter
  and the history agree whatever fails, is interrupted or overlaps.
- `HistoryStaysInSession`: no answer that was told of a session's turns gets
  into the shared cache or into another session.
- `EveryQuestionEnds` (of `Chat`): a waiting page gets an answer or an error
  although turns wait for one another's row locks.

**Why the bounds are enough.** Two replicas are all that can meet on one
partition in one reassignment; two records are all that per-document order
needs, and a batch of two rows is the smallest in which one can be applied
without the other. Two tokens let an old lease and a new one exist at once; a
lock is never needed by a third party. One crash and one reassignment per run
reach every state of a record in which they can fall; what more of them could
do is covered by the proofs. `Retries` 1 or 2 distinguishes "retry" from "give
up". Three files of two sources give the two interesting pairs: same source and
different source. In the breaker as many requests as the threshold make late
failures enough to open it again on their own; in the windows a limit below the
window length forces members to age out. Two uploads of one name are the
smallest case of each hazard of the pipeline, with one deletion between or
around them; one mishap reaches every failure path, in every step it can
follow. A retried task does the same whoever publishes its event, so the run
has the retry where it costs least. Two overlapping transactions are what a lost update needs, four
requests let one state, one delete and two overlap after that, and three rows
leave room for a double of each of two keys. Two turns are what the history, the
locks and the cache need to meet; a second page adds nothing that `Call`
(another client) does not. Four chunks in three passages let a passage's chunks
compete with each other and with another's, and two passages begin alike.

**Deadlock** is checked except where the system may stop: in `kb` a crash while
`chunks.json` is being written leaves a file that no process can parse, and a
system all of whose processes are down then really stops (`Boot` needs
`diskChunks # Torn`); in `uploads`, `memories` and `chat` nothing is left to do
once the bounded requests are over. `AwaitMessage` is the only step that stands
for waiting: a consumer group with nothing to read and nothing under way.

**Symmetry** is used where only safety is checked: replicas and tokens in
`sync_faults` and `sync_dlq_gap`, files in `uploads`, the slots of requests in
`memories`.

**Fairness.** `SyncService`: a consumer goroutine that can take a step takes
one (it never blocks for ever: every call it makes has a timeout), Redis
expires keys, the server finishes calls, a stopped process exits and is
restarted by its Deployment, the coordinator assigns an unowned partition.
Crashes, stops, voluntary reassignments and client timeouts are never forced.
With finitely many crashes, `EventuallyHandled` then needs no fairness of
success: an operation that keeps failing ends in the dead-letter topic.
`CircuitBreaker`: time passes, clients keep asking, and every call ends, because
of `RequestTimeout`; the service is never forced to recover - `Recovers` is
conditional on it. `RateLimits`: time passes and a request that has done its
INCR goes on. `Chat`: each handler takes its next step if it can - the event loop runs every ready task, and every
statement ends, unless it waits for a row lock; that no turn waits for ever for
one is what `EveryQuestionEnds` shows. Nothing makes a page ask, a cache entry
expire or a failure happen.

**What holds only under a condition.** The code does not have these properties
without the exceptions; most name a fault that the model has and the property
excuses, and a few a constant that rules it out:

- `DocumentsSerialised` excepts overdue calls: the lease (300 s) begins before
  the call (up to 5 minutes), and when the client gives up, its deferred release
  frees the lock while the server's thread still indexes (service.go:197).
- `LastChangeWins` excepts what such a call disturbs, and an owner that loses
  the partition in the middle of a record: it goes on retrying its old record
  (service.go:152), and nothing fences it. It also spares sources with a dead
  letter, whose last change was given up.
- `CommittedIsSettled` and `NoRowLost` need `DlqMayFail = FALSE` (and records that are JSON:
  `sendDLQ` embeds the record as raw JSON, so one that is not never gets there).
- `AcknowledgedIsDurable` and `DeletedStaysDeleted` need a single writing process.
  `deploy/rag-entrypoint.sh` starts two (gRPC server and API) in one pod, and a
  Celery worker shares the volume; each saves the list it has in memory, and with
  `Processes = {api, grpc}` TLC shows an acknowledged upload overwritten.
- `AcknowledgedIsDurable` excepts a crash inside `write_text` (retriever.py:655):
  `chunks.json` is then torn, every acknowledged document is lost from it, and no
  process starts again; of that case the property says only that all are dead.
- `DeletedStaysDeleted` is about the files the deletion found: not one that
  another thread had parsed already when the deletion ended, nor one whose
  name `save_upload` sanitised (`my file.pdf` is stored as
  `<uuid>_my_file.pdf`), which a deletion by the original name does not find -
  the disagreement `kb_names` shows.
- `NoOrphans` and `UploadsSurvive` except what no event repairs: a deletion that
  was never announced (`unheard`: a CDC row that was never written gives no
  DELETE, documents.py:177), an event that was dead-lettered (`givenUp`,
  service.go:127: an announced upload is then not served, a deleted one still
  is), a deletion that overtook an INSERT being indexed (`crossed`), and uploads
  that came while a DELETE of an earlier copy was under way (`risky`).
- `UploadsSerialised` needs a lock that has not run out (`lapsed`): a late
  release is a plain DEL and may free another upload's lock (cache_service.py:99).
- `RecallsLastStatement` excepts keys that two overlapping requests wrote, and
  those for which a PATCH changed a row that is not recalled, or took a row over
  from such a key (`muddled`): there is no unique key, and all of these do make
  doubles (a store that finds a row writes the key it states and the key the row
  has). So does counting the uses of a memory (memory_service.py:217), which
  sets `updated_at` to the time at which the turn began: if the memory was
  deleted and stated again meanwhile, the row found next is the rejected one,
  and a second is inserted beside it. That takes five requests; the attempt to
  prove the property found it, and with the exception (`Touch`) instances of
  five requests with fewer kinds of messages hold.
- `DeletionIsFinal` excepts rows that another open request had found while they
  were unconfirmed candidates (`ReadUnconfirmed`): if a PATCH then confirms the
  row and a DELETE removes it, that request still sets the status from what it
  loaded and takes the memory up again (memory_service.py:76). The run's four
  requests are too few to see it; the proof found it.
- `ListedIsSaved` excepts turns whose save or commit failed unseen (`lost`:
  `_save_chat` only logs it, chat_service.py:148).
- `SavedUnderAsker` is about turns asked on a page. `/chat` and `/chat/stream` check
  no ownership (chat.py:30-91): a client that names another user's session has
  its turn saved there, and is told of that session's history.
- `HistoryStaysInSession` is about sessions, then, not about users. Memories do reach the shared
  cache when a signed-in user asks without a session, since
  `use_personal_context` looks at the session only (chat_service.py:21).
- `RebuildMatchesUploads` needs the rebuild to run in the serving process: the
  nightly rebuild (scheduled_tasks.py) runs in a worker and does not change
  what the API has in memory. It is also stated for a rebuild during which no
  other request is under way, since the directory is read before the lock is
  taken (retriever.py:735).
- `OpensOnStreak` excepts hang-ups (`hungUp`): `Server.chat` reports the
  cancellation of a call by its client as a failure of the service.
- `TwiceTheLimitKept` rather than `Limit`: a minute may reach into two windows.
- `LimitLifts` excepts a key that has no expiry because the request that should
  have set it failed between INCR and EXPIRE (cache_service.py:76): it stays.
- `SearchAligned` excepts an index taken from the disk at boot (`rebuilt`):
  the test compares sizes only.

## 4. Where code and documentation disagree

- `sync_dlq_gap` (service.go:129). "A message is committed only after it is
  durably transferred to the DLQ" (service.go:126). When the publication fails,
  `Consume` goes on to the next record; committing that one moves the group's
  offset past both. The record is then neither indexed nor dead-lettered and is
  never read again.
- `kb_names` (retriever.py:826). "Delete one indexed document and its uploaded
  PDF copies." (retriever.py:757). `save_upload` stores a PDF under a sanitised
  name, and `delete_source` compares the displayed and the stored names with the
  one it is asked for. The chunks of `b c.pdf` go, its stored copy stays, and
  the next rebuild indexes it again, as `b_c.pdf`.
- `uploads_reordered` (documents.py:181). "Kafka keys must use `document_id`,
  preserving per-document ordering" (docs/architecture.md:21). Without Canal an
  INSERT is keyed by the id of its record and a DELETE by the source name. In
  the trace a document is uploaded and announced, its deletion is published, and
  it is uploaded again. The second INSERT, published after the DELETE, is in
  another partition and applied before it; the DELETE then removes the document
  that was uploaded last from the index.

One more remark, for which there is no run: "retrieve -> grade_documents ->
(web_search if weak) -> generate" (graph.py:619), but for an open question weak
hits are discarded (graph.py:378) and `direct_answer` runs; `web_search` is
reachable from `route_question` only.

## 5. What is proved

TLAPS checks these for every value of the constants that satisfies the named
assumptions of the modules: any number of replicas, requests, files, users and
failures, where a run has two or three. A theorem whose name is not that of a
property names it after a colon. Each module proves one inductive invariant, in
small named parts and with one step per action, and derives its theorems from
it; TLC had checked the invariants of the limiters, the consumer's order and the
pipeline on the runs' instances before they were proved.

**SyncServiceProofs** - any set of replicas, documents and tokens, any log, any
`Retries`, any faults.

- `TypeCorrect`: `TypeOK`, with the one extra conjunct `AttemptLeft`.
- `CommitsAreHandled`: `CommittedIsHandled`. Not inductive alone: a commit
  covers every record *below* it, whoever processed those. The strengthening
  `IInv` follows a record through a consumer: everything the reader has passed
  is handled or in its owner's hands (`FetchedHandled`), everything below a
  record somebody holds is handled (`BelowHandled`), and a record about to be
  committed is (`CommitReady`) - which in turn needs that its rows were applied
  one by one: `SyncingAccepted`, `RowsAboveApplied`, `SuccessApplied`, and for
  the answers of late calls `CallOfWaiter` and `CallsInOrder`. A reassignment
  restores `FetchedHandled` because the new owner starts at the committed
  offset; a late commit of a former owner is harmless because of `BelowHandled`.
  `lost`, `dlq` and `applied` only grow (`NextGrows`).
- `BatchesInOrder`: `RowsInOrder`, from the same invariant.
- `CommitsAreSettled`: `CommittedIsSettled`, if dead-lettering never fails and
  every record is JSON - the promise of service.go:126 holds of the code exactly
  up to the gap that `sync_dlq_gap` shows.
- `Refinement`: `ImplementsAtLeastOnce`. Every step handles one more record,
  commits over handled ones, or is a stutter of `AtLeastOnce`.
- `LeasesAreKept`: `LeaseNotStolen`. Needs that no two consumers hold one token
  (`TokensDiffer`); without it a compare-and-delete could remove a stranger's key.
- `CallsAreSerialised`: `DocumentsSerialised`, under every fault. A running call
  that is not overdue has its document's key (`LeaseHeld`), and a consumer that
  releases has no call left but an overdue one (`CallOver`); the call of a
  consumer that crashed keeps its key.
- `RowsAreNotLost`: `NoRowLost`, if dead-lettering works and every record is JSON
  of one of the two shapes (`OneShape`: an event carries no rows, an envelope no
  event, which is what the producer and Canal write). `EveryRowDecoded` is the
  part of the decoder's contract it rests on, proved for any row values.
- `LastChangesWin`: `LastChangeWins`, for any number of crashes, stops,
  reassignments and dead letters. "The index has the last committed change" is
  not inductive: after a crash or a reassignment the records behind the commit
  run again, and the source goes back in time. As long as nothing is disturbed
  there is one worker (`HandInv`), and `OrderInv` is built around the `Frontier`,
  the first record that will be, or is being, processed: of the sources without
  a dead letter, what lies below it is applied (`Passed`), calls that still run
  are at it or beyond (`Ahead`), and the rows of the record in hand that are
  behind its current row are taken and can no longer be overtaken (`TakenInv`).

**KnowledgeBaseProofs** - any processes, threads, files and deployments with the
assumptions of the module. `RebuildsAssumption` says that a process that
rebuilds does nothing else meanwhile: a Celery worker runs one task at a time,
and the API awaits nothing inside the knowledge base.

- `Invariant`: types, and that a lock is held by the one request that changes
  the list (`LockKept`).
- `SearchStaysAligned`: `SearchAligned`, for every state between two requests.
- `EventsAreIdempotent`: `IngestIsIdempotent`. By `NoDuplicates`: no list has a
  source twice, in memory or on the disk unless it is being written.
- `RebuildsMatch`: `RebuildMatchesUploads`. A request that runs alone finds the
  directory as it read it (`Undisturbed`).
- `AcknowledgedSurvives`: `AcknowledgedIsDurable`, for any file names. `Safe`
  follows a promised block through a save: it is in the list in memory as soon
  as the lock is free, in the list about to be written, and on the disk when the
  process is down - unless the file is torn, and then no process is alive.
- `DeletionsLast`: `DeletedStaysDeleted`. The copies a deletion found are neither
  in the directory nor still to be uploaded (`Deleting`), a deletion that has
  changed the list has left nothing of its source (`Cleared`), and no request is
  about to add a withdrawn file (`Gone`).

**DocumentPipelineProofs** - any files, names, configurations, retries,
deletions and mishaps.

- `Types`: `TypeOK`, the type invariant of the module.
- `UploadsAreSerialised`: `UploadsSerialised`, by `LockKept` (whoever is inside
  holds the lock, alone).
- `FilesAreAppendedOnce`: `AppendedOnce`. What was appended and what is still
  ahead is at most one, and one more per repetition (`Appends`).
- `OutcomesAreRecorded`: `OutcomeOnRecord`, by `Recorded`: a row comes with its
  request's commit, and a success on record stays.
- `IndexHasNoOrphans`, `UploadsAreKept`: `NoOrphans`, `UploadsSurvive`, with retries,
  dead letters and late calls. Both speak of drained partitions only and are far
  from inductive. `Accounted` and `Kept` say for every state what will have
  happened by then: what is served, or about to be - also by a late call - has
  its PDF or a deletion on its way, unless that was given up; what is kept has
  none on its way and is served or will be, unless its event was given up.

**ChatProofs** - any pages, users, limits and mishaps, and other clients that name
any session.

- `Invariant`: `Inv`, whose parts the four theorems use.
- `ListedAnswersAreSaved`, `CountsAreHistories`, `TurnsStayWithTheirUser`,
  `HistoryIsNotShared`: `ListedIsSaved`, `CountIsHistory`, `SavedUnderAsker`,
  `HistoryStaysInSession`. The count is right because at most one open turn of a
  session has written its history and its count is one ahead (`Counted`: the
  row lock); the owner because pages, and turns asked on them, hold sessions of
  their own user only (`Owned`); the history because neither cache nor answer was told of
  another session's turns (`Told`).

**MemoriesProofs** - any requests, rows, messages and candidates.

- `DeletionsAreFinal`: `DeletionIsFinal`. The invariant says what may be stale:
  two open transactions have written different rows (`Exclusive`), and what a
  turn has loaded of a deleted memory is not a candidate, so that its flush does
  not touch the status (`Faithful`). The first attempt failed for a good reason:
  a request that had found the row as a candidate does (section 3).
- `OneMemoryPerKey`: no two recalled rows of a key that is not muddled, whatever
  turns store. `create_memory` finds the row updated last, so the invariant
  `KeyInv` is about times: of the rows of a key at most one is not rejected, and
  it is the newest (`Newest`). A commit keeps that because what the transaction
  wrote is newer than every rejected row (`Later`), and it is the only one to
  hold a row of the key that is not rejected (`Alone`, `Single`); and it wrote the
  right row because what it had loaded and found is as it was, unless somebody
  else has written the key since (`Fresh`, `Aimed`). `Counted` says that a turn
  which has only counted the use of a row leaves it as it was. The keys one
  flush touches are muddled together or not at all, which is why the invariant
  can be proved key by key (`UpdateKnown`).
- `RecallsStatements`: `RecallsLastStatement`, under the hypothesis `Extracts` that
  what a turn stores is what it states. `WordInv` adds the contents: what a
  request states under a key still waits to be flushed (`Announced`) or is in a
  row (`Done`), it writes no other key (`Meant`), and what is recalled is `mem`
  (`Told`). TLC had checked both invariants, on the run's instance and on one of
  five requests. `Extracts` is about constants, and TLC evaluates it at the start
  of the run (`SaidIsStored` in `MCMemories`); it is a hypothesis and not an
  assumption of the module because it need not hold: of a message in which the
  language model finds six keys the sixth is not kept (memory_service.py:251).
  The rules alone know five.

**RateLimitsProofs** - any window, limit, number of replicas and of concurrent
requests, any clocks at most `Skew` apart. Sums over ages are a recursive
function of numbers (`Total`), and its laws are lemmas.

- `LimitIsKept`, `RefusalsHaveCause`: `LimitKept`, `RefusedForCause`. The sorted set
  is not the history: members are dropped by one clock and added by another.
  `Held` and `Caused` bound one by the other, shifted by the slowest and the
  fastest clock; `Renewed` covers the expiry of the whole key.
- `TwiceTheLimit`: `TwiceTheLimitKept`. `TwoKeys` splits what was admitted within a
  window in two: what the current key counted, and what its predecessor did
  alone. Its witnesses are a number of ticks and how many requests of the oldest
  tick belong to the predecessor.

**CragGraphProofs** - whatever the searches, the grader, Tavily and the language
model return; any number of chunks and passages, any `TopK` and `CandidateK`.

- `AnswersCiteTheirEvidence`, `FallbacksAreFlagged`: `CitesItsEvidence`,
  `FlagsWebFallback`, from what each node hands on (`Inv`).
- `HitsAreFound`: what is graded is what a search returned.
- `HitsRankAsBothSearches`: `RanksAsBothSearches`. `Ordered` says of a list that
  its scores fall and that no passage comes before one that beats it in both
  searches; the list fusion gives has it (`FusedResults`: the better chunk has a
  score at least as high, and if rounding or a tie makes them equal it was first
  among the candidates - `CandidateLists`), and it survives folding into
  passages, sorting again, merging and cutting (`FirstsComeFirst`,
  `FirstsAreOrdered`, `SortedAreOrdered`, `MergedAreOrdered`, `CutsAreOrdered`). A stable sort is given by counting what
  comes before a place; that this numbers the places (`PlacesAreNumbered`) is the
  pigeonhole principle.
- `FusedScoresNeverConvince`: `FusedScoresDoNotConvince`. Two shares of at most
  1/61 each, and rounding is monotone.

**CircuitBreakerProofs** - any set of requests, any threshold and timeout.

- `BreakerTyped`: `TypeOK`, including "open exactly when `Threshold` failures are
  counted".
- `OpenMeansStreak`: `OpensOnStreak`. The invariant `CountIsStreak` says that while
  nobody hung up, what is counted below the threshold never exceeds the streak
  of real failures, and that the streak is complete above it.

**Assumptions.** They are stated as `ASSUME` in the modules and evaluated by TLC.
Most give the bounds and switches their types. The others: `NothingAssumption`
(the values for "no session" and "no memory" are no session and no row),
`CandidatesAssumption` (what a message yields is a list of candidates - the
library's `SelectSeq` and `FoldLeft` hide that from the provers),
`GatewaysAssumption` (there is a replica), `RebuildsAssumption`, `TornAssumption`
(a torn file is no list), and the finiteness of processes and files.

**Only model-checked.**

- Liveness (`EventuallyHandled`, `LocksFreed`, `Recovers`, `ProbesAgain`, `LimitLifts`,
  `EveryQuestionEnds`): fairness and ENABLED are beyond TLAPS here.
- The decoder against its whole contract (`DecoderChecks`).
- `Extracts`, that `Deduped`, `FirstFive` and `Stored` yield what a message states:
  an induction over the fold, for the messages and model answers of the run.

**Assumed about the outside:** Redis runs single commands and scripts
atomically; Kafka keeps the order of a partition and forgets nothing it
acknowledged; random tokens do not repeat; `IndexDocument` changes only the
source it is called for.

## 6. What is not modelled

- Text: PDF parsing, splitting, tokenising, BM25's formula, embedding, prompts,
  the wording rules of the router and of the memory patterns, answers.
- `Chat`, `Retrieve` and `Health` of the gRPC server (they change nothing),
  readiness and metrics.
- Passwords, tokens and their expiry: checked and issued within one request.
  Migrations, the connection pool, configuration, logging, telemetry: static or
  observing only.
- The views of the page that show documents, memories and metrics; the
  evaluation tool; generated protobuf code. Deployment files: read for which
  processes run together, not modelled.
- Several partitions in `SyncService`: documents of different partitions do not
  interact as long as the producer's keys keep a document in one. Where they do
  not, `DocumentPipeline` models the partitions.
- Lock order between the rows of one user: two turns that state two keys in
  opposite order can block each other; PostgreSQL detects that and fails one.
- The identity of the embedder: a saved index is taken over if its size and
  dimension fit, whichever backend made its vectors (retriever.py:664).

What the models take from outside `src/` as it is used: `process_pdf_task.delay`
may raise with the task queued or not (the handler then indexes itself); a
query without ORDER BY returns any row; a dependency with `yield` is closed after
the response was sent; a statement that fails poisons its transaction; a task
killed by the hard time limit is not delivered again and leaves its record
"processing".

## 7. Plan

Done: the path of document changes (decoder, consumer, lock, abstract contract,
proofs) and the knowledge base they end in; the front-door protections; the
answering graph with retrieval; the document pipeline; the memories; the chat;
theorems about each of these, one for every property of a run that is not
liveness.

Abstract specifications worth stating: `AtLeastOnce` (done); an atomic map from
source to file that the single-process knowledge base implements; a limiter
that admits at most N per window.
