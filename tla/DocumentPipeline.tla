--------------------------- MODULE DocumentPipeline ---------------------------
(***************************************************************************)
(* A document's way through the system: the upload handlers and the        *)
(* deletion of api/v1/documents.py, the upload lock of cache_service.py,   *)
(* the Celery task of document_tasks.py, the CDC table and the Kafka       *)
(* producer of messaging/, and the replica of the index that the Sync      *)
(* Service keeps up to date through IndexDocument.                         *)
(*                                                                         *)
(* Every upload is a new file (its name gets a uuid), so an upload request,*)
(* its task and its DocumentRecord are all named after the file; several   *)
(* files can carry one source name.  What happens inside a KnowledgeBase is*)
(* the subject of that module: here add_pdf, upsert_pdf and delete_source  *)
(* are steps (upsert_pdf two: it reads the PDF before it takes the lock),  *)
(* and the index is its list of chunks, which a failed embedding leaves    *)
(* changed.                                                                *)
(* The API is one event loop (uvicorn --workers 1), so a handler is        *)
(* interrupted only where it awaits.                                       *)
(***************************************************************************)
EXTENDS Naturals, Sequences, FiniteSets

CONSTANTS
  Files,        \* the uploads that will be made
  SourceOf,     \* [Files -> the name the client gave the file]
  Canal,        \* the partition Canal writes to (canal.mq.partitionsNum = 1)
  NoEvent,      \* nothing is being indexed from this partition
  Configurations, \* pairs <<is DATABASE_URL set?, is the CDC table enabled?>>
  MaxRetries,   \* max_retries of the task, with the CDC table and without
  MaxDeletes,   \* bound: DELETE requests
  MaxMishaps    \* bound: failures of Redis, MySQL, Kafka, a worker or a parser

Sources == {SourceOf[f] : f \in Files}
Keys == Files \cup Sources \cup {Canal}

ASSUME ConfigurationAssumption == Configurations \subseteq BOOLEAN \X BOOLEAN
ASSUME SourceAssumption == DOMAIN SourceOf = Files
ASSUME KeyAssumption == Canal \notin Files \cup Sources /\ Sources \cap Files = {}
ASSUME BoundAssumption ==
  MaxRetries \in [BOOLEAN -> Nat] /\ MaxDeletes \in Nat /\ MaxMishaps \in Nat

VARIABLES
  database,   \* is DATABASE_URL set?
  cdc,        \* mysql_cdc_enabled, with its URL
  uploads,    \* the upload directory
  upload,     \* [Files -> where its upload request is]
  lock,       \* [Sources -> is crag:lock:upload:<name> set?]
  task,       \* [Files -> [at, tries]: the task process_pdf_task of the file]
  status,     \* [Files \X {"api", "task"} -> status of that DocumentRecord]
  deletion,   \* [Sources -> where the DELETE request of that source is]
  table,      \* the MySQL table: records [source, file, id]
  queue,      \* [Keys -> the events under way in that partition]
  indexing,   \* [Keys -> the event whose PDF has been read, or NoEvent]
  late,       \* the events whose call the Sync Service gave up and the server works on
  served,     \* the files in the index of the gRPC server
  deletes,
  mishaps,
  (* History.                                                              *)
  added,      \* [Files -> how often add_pdf appended the file's chunks]
  redone,     \* [Files -> how often work on the file was repeated]
  lapsed,     \* the names whose lock ran out, or was passed over, in an upload
  outcome,    \* [Sources -> how the last task of that name ended]
  unrecorded, \* the names a status update was lost for
  kept,       \* the files uploaded and not deleted by a user since
  announced,  \* the files an INSERT was published for
  risky,      \* the files uploaded while a DELETE of their source was under way
  unheard,    \* the names a deletion was not announced for
  withdrawn,  \* the files whose INSERT was published before a DELETE still under way
  givenUp,    \* the events dead-lettered, or passed over because that failed
  crossed     \* the names deleted while one of their files was being indexed

api     == <<uploads, upload, lock>>
tasks   == <<task, added, redone, outcome, unrecorded>>
events  == <<table, queue, indexing, late, served, crossed, givenUp>>
bounds  == <<deletes, mishaps>>
promise == <<kept, announced, risky, unheard, withdrawn>>
config == <<database, cdc>>
vars == <<config, api, tasks, status, deletion, events, bounds, promise, lapsed>>

Rows == Files \X {"api", "task"}

Init ==
  /\ \E c \in Configurations : database = c[1] /\ cdc = c[2]
  /\ uploads = {} /\ served = {} /\ table = {} /\ late = {}
  /\ upload = [f \in Files |-> "new"]
  /\ lock = [s \in Sources |-> FALSE]
  /\ task = [f \in Files |-> [at |-> "none", tries |-> 0]]
  /\ status = [r \in Rows |-> "absent"]
  /\ deletion = [s \in Sources |-> "idle"]
  /\ queue = [k \in Keys |-> << >>]
  /\ indexing = [k \in Keys |-> NoEvent]
  /\ deletes = 0 /\ mishaps = 0
  /\ added = [f \in Files |-> 0] /\ redone = [f \in Files |-> 0]
  /\ outcome = [s \in Sources |-> "none"]
  /\ lapsed = {} /\ unrecorded = {}
  /\ kept = {} /\ announced = {} /\ risky = {} /\ unheard = {} /\ crossed = {}
  /\ withdrawn = {} /\ givenUp = {}

Mishap == mishaps < MaxMishaps /\ mishaps' = mishaps + 1 /\ UNCHANGED deletes
Goes(f, from, to) == upload[f] = from /\ upload' = [upload EXCEPT ![f] = to]
Appended(f) == added' = [added EXCEPT ![f] = @ + 1]
Redone(f) == redone' = [redone EXCEPT ![f] = @ + 1]

-----------------------------------------------------------------------------
(* Events                                                                  *)

(* The id of a document: the record's or the task's, else the file name.   *)
DocumentId(f) == IF database THEN f ELSE SourceOf[f]

Insert(f) == [op |-> "INSERT", source |-> SourceOf[f], file |-> f]
Delete(s) == [op |-> "DELETE", source |-> s, file |-> NoEvent]
Send(k, e) == queue' = [queue EXCEPT ![k] = Append(@, e)]

DeleteUnderWay(s) ==
  \/ deletion[s] # "idle"
  \/ Delete(s) \in late
  \/ \E k \in Keys : \E i \in DOMAIN queue[k] : queue[k][i] = Delete(s)

(* upsert_document_record: with CDC enabled and no failure, Canal takes it *)
(* from there.  Otherwise publish_document_change sends the event itself,  *)
(* or fails; neither raises.                                               *)
PublishInsert(f, id) ==
  /\ \/ /\ cdc
        /\ table' = {r \in table : r.id # id}
                       \cup {[source |-> SourceOf[f], file |-> f, id |-> id]}
        /\ Send(Canal, Insert(f))
        /\ announced' = announced \cup {f}
        /\ UNCHANGED bounds
     \/ /\ IF cdc THEN Mishap ELSE UNCHANGED bounds
        /\ Send(id, Insert(f))
        /\ announced' = announced \cup {f}
        /\ UNCHANGED table
     \/ /\ Mishap
        /\ UNCHANGED <<table, queue, announced>>
  /\ UNCHANGED <<indexing, late, served, crossed, givenUp, kept, risky, unheard, withdrawn>>

(* delete_document_record: Canal publishes one event for every row deleted,*)
(* which may be none, and the API takes it for published all the same.     *)
PublishDelete(s) ==
  LET rows == {r \in table : r.source = s} IN
  /\ \/ /\ cdc
        /\ table' = table \ rows
        /\ queue' = [queue EXCEPT ![Canal] = @ \o [i \in 1..Cardinality(rows) |-> Delete(s)]]
        /\ unheard' = IF rows = {} THEN unheard \cup {s} ELSE unheard
        /\ UNCHANGED bounds
     \/ /\ IF cdc THEN Mishap ELSE UNCHANGED bounds
        /\ Send(s, Delete(s))
        /\ UNCHANGED <<table, unheard>>
     \/ /\ Mishap
        /\ unheard' = unheard \cup {s}
        /\ UNCHANGED <<table, queue>>
  /\ withdrawn' = withdrawn \cup {f \in announced : SourceOf[f] = s}
  /\ UNCHANGED <<indexing, late, served, crossed, givenUp, kept, announced, risky>>

-----------------------------------------------------------------------------
(* upload_document                                                         *)

(* Mutant: SET without NX.                                                 *)
AcquireAlways(s) == lock' = [lock EXCEPT ![s] = TRUE]

Acquire(s) == ~lock[s] /\ lock' = [lock EXCEPT ![s] = TRUE]

(* acquire_lock; a Redis error counts as success, a held lock is a 409.    *)
AcquireLock(f) ==
  LET s == SourceOf[f] IN
  /\ \/ Acquire(s) /\ Goes(f, "new", "locked") /\ UNCHANGED <<lapsed, bounds>>
     \/ lock[s] /\ Goes(f, "new", "refused") /\ UNCHANGED <<lock, lapsed, bounds>>
     \/ Mishap /\ Goes(f, "new", "locked") /\ lapsed' = lapsed \cup {s} /\ UNCHANGED lock
  /\ UNCHANGED <<config, uploads, tasks, status, deletion, events, promise>>

Saved(f) ==
  /\ uploads' = uploads \cup {f}
  /\ kept' = kept \cup {f}
  /\ risky' = IF DeleteUnderWay(SourceOf[f]) THEN risky \cup {f} ELSE risky
  /\ UNCHANGED <<announced, unheard, withdrawn>>

(* save_upload, add_pdf and the record's flush; the PDF cannot be read, or *)
(* the embedding or the flush fails when its chunks are in already.        *)
IndexUpload(f) ==
  /\ \/ Goes(f, "locked", "indexed") /\ Appended(f) /\ UNCHANGED bounds
     \/ Goes(f, "locked", "failing") /\ Mishap /\ (UNCHANGED added \/ Appended(f))
  /\ Saved(f)
  /\ UNCHANGED <<config, lock, task, redone, outcome, unrecorded, status, deletion, events,
                 lapsed>>

AnnounceUpload(f) ==
  /\ Goes(f, "indexed", "published")
  /\ PublishInsert(f, DocumentId(f))
  /\ UNCHANGED <<config, uploads, lock, tasks, status, deletion, deletes, lapsed>>

(* The finally clause: a plain DEL, whoever set the key; an error of Redis *)
(* is swallowed.                                                           *)
ReleaseLock(f) ==
  /\ Goes(f, "published", "released") \/ Goes(f, "failing", "failed")
  /\ \/ lock' = [lock EXCEPT ![SourceOf[f]] = FALSE] /\ UNCHANGED bounds
     \/ Mishap /\ UNCHANGED lock
  /\ UNCHANGED <<config, uploads, tasks, status, deletion, events, promise, lapsed>>

InCritical(f) == upload[f] \in {"locked", "indexed", "published", "failing"}

(* Thirty seconds are over.                                                *)
LockExpires(s) ==
  /\ lock[s]
  /\ lock' = [lock EXCEPT ![s] = FALSE]
  /\ lapsed' = lapsed \cup {s}
  /\ UNCHANGED <<config, uploads, upload, tasks, status, deletion, events, bounds, promise>>

-----------------------------------------------------------------------------
(* upload_document_async                                                   *)

(* save_upload, and the flush of the pending record, which may fail.       *)
AcceptUpload(f) ==
  /\ \/ Goes(f, "new", "accepted") /\ UNCHANGED bounds
     \/ database /\ Mishap /\ Goes(f, "new", "failed")
  /\ Saved(f)
  /\ UNCHANGED <<config, lock, tasks, status, deletion, events, lapsed>>

Queued(f) == task' = [task EXCEPT ![f] = [at |-> "queued", tries |-> 0]]

(* Mutant: the handler indexes the file although the task was queued.      *)
DispatchedAndIndexed(f) == Queued(f) /\ Appended(f) /\ UNCHANGED redone

Dispatched(f) == Queued(f) /\ UNCHANGED <<added, redone>>

(* delay queues the task, before the record is committed; or it raises -   *)
(* with the task queued or not - and the handler calls add_pdf itself,     *)
(* which may fail, before or after it has appended the chunks.             *)
Dispatch(f) ==
  /\ \/ /\ Goes(f, "accepted", "dispatched")
        /\ Dispatched(f)
        /\ UNCHANGED bounds
     \/ /\ Mishap
        /\ \/ Goes(f, "accepted", "dispatched") /\ f \in uploads /\ Appended(f)
           \/ Goes(f, "accepted", "failed") /\ (UNCHANGED added \/ Appended(f))
        /\ \/ UNCHANGED <<task, redone>>
           \/ Queued(f) /\ Redone(f)
  /\ UNCHANGED <<config, uploads, lock, outcome, unrecorded, status, deletion, events,
                 promise, lapsed>>

CommitRecord(f, st) ==
  status' = IF database THEN [status EXCEPT ![<<f, "api">>] = st] ELSE status

(* Either handler has returned and get_db commits, or fails to.            *)
Commit(f) ==
  /\ \/ Goes(f, "released", "done") /\ CommitRecord(f, "success") /\ UNCHANGED bounds
     \/ Goes(f, "dispatched", "done") /\ CommitRecord(f, "pending") /\ UNCHANGED bounds
     \/ /\ Goes(f, "released", "done") \/ Goes(f, "dispatched", "done")
        /\ database /\ Mishap
        /\ UNCHANGED status
  /\ UNCHANGED <<config, uploads, lock, tasks, deletion, events, promise, lapsed>>

-----------------------------------------------------------------------------
(* process_pdf_task                                                        *)

Steps(f, from, to) == task[f].at = from /\ task' = [task EXCEPT ![f].at = to]
Working(f) == task[f].at \in {"started", "added", "published"}

Named(s) == {r \in Rows : SourceOf[r[1]] = s /\ status[r] # "absent"}

(* Mutant: the status of a task that succeeded is not written.             *)
WrittenUnlessSuccess(f, st) ==
  IF st = "success" \/ Named(SourceOf[f]) = {} THEN {status}
  ELSE {[status EXCEPT ![r] = st] : r \in Named(SourceOf[f])}

(* The first row of that name that the database finds - the query has no   *)
(* order -, or a new row.                                                  *)
Written(f, st) ==
  IF ~database THEN {status}
  ELSE IF Named(SourceOf[f]) = {} THEN {[status EXCEPT ![<<f, "task">>] = st]}
  ELSE {[status EXCEPT ![r] = st] : r \in Named(SourceOf[f])}

(* _update_db_status swallows an error; so far as many mishaps happened in *)
(* this step.                                                              *)
UpdateStatus(f, st, sofar) ==
  /\ \/ /\ status' \in Written(f, st)
        /\ mishaps' = mishaps + sofar
        /\ UNCHANGED unrecorded
     \/ /\ mishaps' = mishaps + sofar + 1
        /\ unrecorded' = unrecorded \cup {SourceOf[f]}
        /\ UNCHANGED status
  /\ mishaps' <= MaxMishaps
  /\ UNCHANGED deletes

Ends(f, result) == outcome' = [outcome EXCEPT ![SourceOf[f]] = result]

StartTask(f) ==
  /\ Steps(f, "queued", "started")
  /\ UpdateStatus(f, "processing", 0)
  /\ Ends(f, "running")
  /\ UNCHANGED <<config, api, added, redone, deletion, events, promise, lapsed>>

AddPdf(f) ==
  /\ f \in uploads
  /\ Steps(f, "started", "added")
  /\ Appended(f)
  /\ UNCHANGED <<config, api, redone, outcome, unrecorded, status, deletion, events, bounds,
                 promise, lapsed>>

AnnounceTask(f) ==
  /\ Steps(f, "added", "published")
  /\ PublishInsert(f, f)
  /\ UNCHANGED <<config, api, added, redone, outcome, unrecorded, status, deletion, deletes,
                 lapsed>>

Succeed(f) ==
  /\ Steps(f, "published", "done")
  /\ UpdateStatus(f, "success", 0)
  /\ Ends(f, "success")
  /\ UNCHANGED <<config, api, added, redone, deletion, events, promise, lapsed>>

(* self.retry, until max_retries is reached.                               *)
NextTry(f) ==
  task' = [task EXCEPT ![f] = IF @.tries < MaxRetries[cdc]
                              THEN [at |-> "queued", tries |-> @.tries + 1]
                              ELSE [@ EXCEPT !.at = "dead"]]

(* An exception: the PDF is gone, it cannot be read or embedded, or the    *)
(* soft time limit strikes, which it may do after add_pdf.                 *)
Fail(f) ==
  /\ Working(f)
  /\ UpdateStatus(f, "failed", IF task[f].at = "started" /\ f \notin uploads THEN 0 ELSE 1)
  /\ NextTry(f)
  /\ Ends(f, "failed")
  /\ Redone(f)
  /\ UNCHANGED <<config, api, added, deletion, events, promise, lapsed>>

(* The worker is lost and the broker delivers the task again (acks_late),  *)
(* or the hard time limit kills it, which acknowledges the task.           *)
WorkerLost(f) ==
  /\ Working(f)
  /\ Mishap
  /\ task' = [task EXCEPT ![f].at = "queued"]
  /\ Redone(f)
  /\ UNCHANGED <<config, api, added, outcome, unrecorded, status, deletion, events, promise,
                 lapsed>>

HardLimit(f) ==
  /\ Working(f)
  /\ Mishap
  /\ task' = [task EXCEPT ![f].at = "dead"]
  /\ Ends(f, "killed")
  /\ UNCHANGED <<config, api, added, redone, unrecorded, status, deletion, events, promise,
                 lapsed>>

(* cleanup_old_tasks_task deletes failed records; the row a task finds     *)
(* first may be as old as that.                                            *)
CleanUp ==
  /\ \E r \in Rows : status[r] = "failed"
  /\ status' = [r \in Rows |-> IF status[r] = "failed" THEN "absent" ELSE status[r]]
  /\ UNCHANGED <<config, api, tasks, deletion, events, bounds, promise, lapsed>>

-----------------------------------------------------------------------------
(* delete_document, and the Sync Service with IndexDocument                *)

Unlinked(s) == {f \in uploads : SourceOf[f] # s}

DeleteDocument(s) ==
  /\ deletion[s] = "idle"
  /\ deletes < MaxDeletes
  /\ deletes' = deletes + 1
  /\ uploads' = Unlinked(s)
  /\ kept' = {f \in kept : SourceOf[f] # s}
  /\ deletion' = [deletion EXCEPT ![s] = "unlinked"]
  /\ UNCHANGED <<config, upload, lock, tasks, status, events, mishaps, announced, risky,
                 unheard, withdrawn, lapsed>>

AnnounceDelete(s) ==
  /\ deletion[s] = "unlinked"
  /\ deletion' = [deletion EXCEPT ![s] = "idle"]
  /\ PublishDelete(s)
  /\ UNCHANGED <<config, api, tasks, status, deletes, lapsed>>

Pending(k, op) == queue[k] # << >> /\ Head(queue[k]).op = op
Done(k) == queue' = [queue EXCEPT ![k] = Tail(@)]
Succeeded(k) == Done(k) /\ UNCHANGED <<late, givenUp, bounds>>
GivenUp(k) == Done(k) /\ givenUp' = givenUp \cup {Head(queue[k])}

(* A lock that is held, a call or an embedding that fails, an answer or a  *)
(* commit that is lost: the Sync Service tries again, or, after its        *)
(* retries, dead-letters the event and passes it.                          *)
Failed(k) == Mishap /\ (GivenUp(k) \/ UNCHANGED <<queue, givenUp>>)

(* A partition's head is applied in order.  An INSERT whose file is gone   *)
(* fails every time.                                                       *)
ReadPdf(k) ==
  /\ Pending(k, "INSERT") /\ indexing[k] = NoEvent
  /\ \/ /\ Head(queue[k]).file \in uploads
        /\ indexing' = [indexing EXCEPT ![k] = Head(queue[k])]
        /\ UNCHANGED <<queue, givenUp, bounds>>
     \/ /\ Head(queue[k]).file \notin uploads
        /\ GivenUp(k)
        /\ UNCHANGED <<indexing, bounds>>
     \/ Failed(k) /\ UNCHANGED indexing
  /\ UNCHANGED <<config, api, tasks, status, deletion, table, late, served, crossed,
                 promise, lapsed>>

Without(s) == {g \in served : SourceOf[g] # s}

(* Mutant: the new chunks are added before the old ones are filtered out.  *)
ReplacedInWrongOrder(s, f) == Without(s)

Replaced(s, f) == Without(s) \cup {f}

(* The call ends, well or badly, or its client gives it up.                *)
UpsertPdf(k) ==
  LET now == Replaced(indexing[k].source, indexing[k].file) IN
  /\ indexing[k] # NoEvent
  /\ \/ served' = now /\ Succeeded(k)
     \/ served' \in {served, now} /\ Failed(k) /\ UNCHANGED late
     \/ late' = late \cup {indexing[k]} /\ Failed(k) /\ UNCHANGED served
  /\ indexing' = [indexing EXCEPT ![k] = NoEvent]
  /\ UNCHANGED <<config, api, tasks, status, deletion, table, crossed, promise, lapsed>>

BeingIndexed(s) ==
  \E f \in Files : SourceOf[f] = s /\ (Insert(f) \in late \/ \E k \in Keys : indexing[k] = Insert(f))

(* Mutant: the index keeps the deleted source.                             *)
DeletedFromNothing(s) == served

DeletedFromIndex(s) == Without(s)

Deleted(s) ==
  /\ uploads' = Unlinked(s)
  /\ served' = DeletedFromIndex(s)
  /\ crossed' = IF BeingIndexed(s) THEN crossed \cup {s} ELSE crossed

(* ... and delete_source may fail before or after it has unlinked the PDFs.*)
DeleteSource(k) ==
  LET s == Head(queue[k]).source IN
  /\ Pending(k, "DELETE")
  /\ \/ Deleted(s) /\ Succeeded(k)
     \/ Deleted(s) /\ Failed(k) /\ UNCHANGED late
     \/ uploads' \in {uploads, Unlinked(s)} /\ Failed(k) /\ UNCHANGED <<late, served, crossed>>
     \/ late' = late \cup {Delete(s)} /\ Failed(k) /\ UNCHANGED <<uploads, served, crossed>>
  /\ withdrawn' = IF queue' = queue THEN withdrawn ELSE {f \in withdrawn : SourceOf[f] # s}
  /\ UNCHANGED <<config, upload, lock, tasks, status, deletion, table, indexing, kept,
                 announced, risky, unheard, lapsed>>

(* A call that nobody waits for any more takes effect.                     *)
LateCall(e) ==
  /\ e \in late
  /\ late' = late \ {e}
  /\ \/ e.op = "INSERT" /\ served' = Replaced(e.source, e.file) /\ UNCHANGED <<uploads, crossed>>
     \/ e.op = "DELETE" /\ Deleted(e.source)
  /\ UNCHANGED <<config, upload, lock, tasks, status, deletion, table, queue, indexing,
                 givenUp, bounds, promise, lapsed>>

-----------------------------------------------------------------------------
SyncUpload(f) ==
  AcquireLock(f) \/ IndexUpload(f) \/ AnnounceUpload(f) \/ ReleaseLock(f)
AsyncUpload(f) == AcceptUpload(f) \/ Dispatch(f) \/ Commit(f)
Task(f) ==
  StartTask(f) \/ AddPdf(f) \/ AnnounceTask(f) \/ Succeed(f) \/ Fail(f)
Consumer(k) == ReadPdf(k) \/ UpsertPdf(k) \/ DeleteSource(k)

Next ==
  \/ \E f \in Files : SyncUpload(f) \/ AsyncUpload(f) \/ Task(f) \/ WorkerLost(f) \/ HardLimit(f)
  \/ \E s \in Sources : LockExpires(s) \/ DeleteDocument(s) \/ AnnounceDelete(s)
  \/ \E k \in Keys : Consumer(k)
  \/ \E e \in late : LateCall(e)
  \/ CleanUp

Spec == Init /\ [][Next]_vars

-----------------------------------------------------------------------------
TypeOK ==
  /\ database \in BOOLEAN
  /\ uploads \subseteq Files /\ served \subseteq Files /\ kept \subseteq Files
  /\ lock \in [Sources -> BOOLEAN]
  /\ deletion \in [Sources -> {"idle", "unlinked"}]
  /\ task \in [Files -> [at : {"none", "queued", "started", "added", "published", "done", "dead"},
                         tries : Nat]]
  /\ status \in [Rows -> {"absent", "pending", "processing", "success", "failed"}]
  /\ \A k \in Keys : indexing[k] # NoEvent => queue[k] # << >> /\ Head(queue[k]) = indexing[k]

Drained ==
  /\ \A k \in Keys : queue[k] = << >>
  /\ late = {}
  /\ \A s \in Sources : deletion[s] = "idle"

(* The lock of cache_service.py:5 keeps two uploads of one name apart as   *)
(* long as no upload outlives its thirty seconds and Redis answers - in    *)
(* particular a refused upload does not free the lock of the other.        *)
UploadsSerialised ==
  \A f, g \in Files :
    InCritical(f) /\ InCritical(g) /\ SourceOf[f] = SourceOf[g] =>
      f = g \/ SourceOf[f] \in lapsed

(* add_pdf appends, so indexing a file again doubles its chunks            *)
(* (document_tasks.py:63).  A file is appended once, unless a task of it   *)
(* was cut off and repeated, or delay raised after it had queued the task. *)
AppendedOnce == \A f \in Files : added[f] <= 1 + redone[f]

(* documents.py:140 and document_tasks.py:123: the task may look for the   *)
(* record before it is committed and takes any record of that name.  Still,*)
(* when the last task of a name has succeeded, some record of it says so.  *)
OutcomeOnRecord ==
  \A s \in Sources :
    /\ database /\ s \notin unrecorded
    /\ outcome[s] = "success"
    /\ \A f \in Files : SourceOf[f] = s => ~Working(f)
    => \E r \in Named(s) : status[r] = "success"

(* Once the events are handled, the gRPC server has no document without    *)
(* its PDF - unless a deletion was not announced (a CDC row that was never *)
(* written gives no DELETE event, documents.py:177), was dead-lettered     *)
(* (service.go:127), or overtook an INSERT that was being indexed (their   *)
(* keys differ, documents.py:181, and a call goes on without its client).  *)
NoOrphans ==
  Drained =>
    \A f \in served :
      \/ f \in uploads
      \/ SourceOf[f] \in unheard \cup crossed
      \/ Delete(SourceOf[f]) \in givenUp

(* A document that was uploaded and not deleted since, with no DELETE of   *)
(* an earlier copy under way when it came, is kept on the disk and, if it  *)
(* was announced and its event was not dead-lettered, served.              *)
UploadsSurvive ==
  Drained =>
    \A f \in kept \ risky :
      /\ f \in uploads
      /\ f \in announced /\ Insert(f) \notin givenUp =>
           \E g \in served : SourceOf[g] = SourceOf[f]

(* docs/architecture.md:21: the keys preserve the order of each document's *)
(* events.  So a DELETE published after an INSERT of its document removes  *)
(* nothing whose INSERT was published after it.                            *)
EventsKeepTheirOrder ==
  [][\A k \in Keys :
       Pending(k, "DELETE") /\ Done(k) =>
         LET copies == {f \in Files : SourceOf[f] = Head(queue[k]).source} IN
         withdrawn \cap copies # {} => (served \ served') \cap copies \subseteq withdrawn]_vars
=============================================================================
