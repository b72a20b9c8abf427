---------------------------- MODULE KnowledgeBase ----------------------------
(***************************************************************************)
(* The vector store of backend/retriever.py as it is deployed: several     *)
(* processes - the API, the gRPC server, Celery workers - each hold a      *)
(* KnowledgeBase in memory and all of them write the same chunks.json, the *)
(* same faiss.index and the same upload directory.                         *)
(*                                                                         *)
(* A chunk list is a sequence of blocks <<source, file>>: what one ingested*)
(* file contributes under a source name.  Every file of the model yields   *)
(* one chunk, so the number of chunks is the length of the list; what the  *)
(* chunks say, how text is split and how vectors are computed is left out. *)
(***************************************************************************)
EXTENDS Naturals, Sequences, FiniteSets

CONSTANTS
  Processes,
  Threads,      \* the requests or tasks that can be under way at once
  Home,         \* [Threads -> Processes]
  Operations,   \* [Processes -> the operations this process offers]
  Files,        \* the PDF files; an upload is always a new file (uuid prefix)
  SourceOf,     \* [Files -> the name the client gave the file]
  DisplayOf,    \* [Files -> the name _display_source_name reads off the file,
                \*           in which save_upload has replaced spaces and the like]
  Listed,       \* the files the glob "*.pdf" finds
  Deployments,  \* the processes that share a data directory, what they do at once, ...
  Nobody,       \* no thread holds the lock
  Torn,         \* the contents of chunks.json while it is being written
  MaxBlocks     \* bound: a redelivered task adds its file only below this

AllOperations == {"upload", "add", "upsert", "rebuild", "delete", "clear"}

ASSUME HomeAssumption == IsFiniteSet(Processes) /\ Home \in [Threads -> Processes]
ASSUME OperationsAssumption == Operations \in [Processes -> SUBSET AllOperations]
ASSUME FilesAssumption ==
  IsFiniteSet(Files) /\ DOMAIN SourceOf = Files /\ DOMAIN DisplayOf = Files
ASSUME ListedAssumption == Listed \subseteq Files

(* A deployment starts with files uploaded and not indexed yet, and bounds *)
(* the crashes of its processes.                                           *)
ASSUME DeploymentsAssumption ==
  \A d \in Deployments :
    /\ d.processes \subseteq Processes /\ d.threads \subseteq Threads
    /\ d.uploaded \subseteq Files /\ d.unused \subseteq Files
    /\ d.crashes \in Nat

(* The API awaits nothing inside the knowledge base and a Celery process   *)
(* runs one task at a time: who rebuilds does nothing else meanwhile.      *)
ASSUME RebuildsAssumption ==
  \A d \in Deployments : \A t, u \in d.threads :
    "rebuild" \in Operations[Home[t]] /\ Home[t] = Home[u] => t = u

Sources == {SourceOf[f] : f \in Files} \cup {DisplayOf[f] : f \in Files}

ASSUME NobodyAssumption == Nobody \notin Threads
ASSUME TornAssumption == Torn \notin Seq(Sources \X Files)
ASSUME BoundsAssumption == MaxBlocks \in Nat

BlocksIn(chunks) == {chunks[i] : i \in DOMAIN chunks}
FilesIn(chunks) == {b[2] : b \in BlocksIn(chunks)}

VARIABLES
  deployment,
  alive,       \* [Processes -> BOOLEAN]
  chunks,      \* [Processes -> self.chunks]
  index,       \* [Processes -> self.index: the chunk list its vectors embed]
  bm25,        \* [Processes -> self.bm25]
  holder,      \* [Processes -> the thread that holds self._lock]
  job,         \* [Threads -> what the thread is doing]
  diskChunks,  \* chunks.json
  diskIndex,   \* faiss.index
  uploads,     \* the upload directory
  unused,      \* the files nobody has uploaded yet
  promised,    \* history: the blocks an answered request put in the index
  withdrawn,   \* history: the files an answered deletion took out
  rebuilt,     \* history: has this process's last rebuild succeeded?
  crashes

memory  == <<alive, chunks, index, bm25, holder>>
disk    == <<diskChunks, diskIndex, uploads, unused>>
history == <<promised, withdrawn, rebuilt>>
vars == <<deployment, memory, job, disk, history, crashes>>

(* Histories of a request - alone: did no other one run meanwhile?         *)
(* copies: the uploads of the document a deletion found.                   *)
Idle == [at |-> "idle", op |-> "none", source |-> "none", parsed |-> << >>,
         copies |-> {}, alone |-> FALSE]

Init ==
  /\ deployment \in Deployments
  /\ uploads = deployment.uploaded
  /\ unused  = deployment.unused
  /\ alive = [p \in Processes |-> p \in deployment.processes]
  /\ chunks = [p \in Processes |-> << >>]
  /\ index  = [p \in Processes |-> << >>]
  /\ bm25   = [p \in Processes |-> << >>]
  /\ holder = [p \in Processes |-> Nobody]
  /\ job = [t \in Threads |-> Idle]
  /\ diskChunks = << >>
  /\ diskIndex  = << >>
  /\ promised = {} /\ withdrawn = {}
  /\ rebuilt = [p \in Processes |-> TRUE]
  /\ crashes = 0

-----------------------------------------------------------------------------
(* Before the lock: parsing, and what touches the upload directory         *)

Offers(t, op) ==
  /\ t \in deployment.threads
  /\ alive[Home[t]]
  /\ op \in Operations[Home[t]]
  /\ job[t].at \in {"idle", "done", "failed"}

(* The uploaded files whose name says they are the document s: sanitising  *)
(* changed nothing in it, and the glob finds them.                         *)
CopiesOf(s) == {f \in Listed \ unused : SourceOf[f] = s /\ DisplayOf[f] = s}

Quiet(t) == \A u \in Threads \ {t} : job[u].at \notin {"parsed", "saving", "saved"}

Begin(t, op, source, parsed) ==
  job' = [[u \in Threads |-> [job[u] EXCEPT !.alone = FALSE]] EXCEPT ![t] =
            [at |-> "parsed", op |-> op, source |-> source, parsed |-> parsed,
             copies |-> IF op = "delete" THEN CopiesOf(source) ELSE {},
             alone |-> Quiet(t)]]

Parse(source, f) == << <<source, f>> >>

(* The upload handler: save_upload, then add_pdf of the saved file.        *)
Upload(t, f) ==
  /\ Offers(t, "upload")
  /\ f \in unused
  /\ uploads' = uploads \cup {f}
  /\ unused'  = unused \ {f}
  /\ Begin(t, "upload", SourceOf[f], Parse(SourceOf[f], f))
  /\ UNCHANGED <<memory, diskChunks, diskIndex, history, crashes>>

(* add_pdf of a file saved earlier, in a task that may be redelivered, and *)
(* upsert_pdf for an INSERT or UPDATE event whose file is still there.     *)
Ingest(t, op, f) ==
  /\ op \in {"add", "upsert"}
  /\ Offers(t, op)
  /\ f \in uploads
  /\ op = "add" => Len(chunks[Home[t]]) < MaxBlocks
  /\ Begin(t, op, SourceOf[f], Parse(SourceOf[f], f))
  /\ UNCHANGED <<memory, disk, history, crashes>>

(* rebuild_from_uploads reads the whole directory before it takes the lock,*)
(* in the order of the file names; the order here is any fixed one.        *)
RebuildFromUploads(t) ==
  /\ Offers(t, "rebuild")
  /\ \E order \in [1..Cardinality(uploads \cap Listed) -> uploads \cap Listed] :
       /\ \A f \in uploads \cap Listed : \E i \in DOMAIN order : order[i] = f
       /\ Begin(t, "rebuild", "none", [i \in DOMAIN order |-> <<DisplayOf[order[i]], order[i]>>])
  /\ UNCHANGED <<memory, disk, history, crashes>>

(* Mutant: the uploaded copy stays.                                        *)
DeleteKeepsUploads(t, s) ==
  /\ Offers(t, "delete")
  /\ Begin(t, "delete", s, << >>)
  /\ UNCHANGED <<memory, disk, history, crashes>>

(* delete_source first unlinks the uploads whose displayed name, or whose  *)
(* name in the directory, is the one asked for.                            *)
DeleteSource(t, s) ==
  /\ Offers(t, "delete")
  /\ uploads' = {f \in uploads : ~(f \in Listed /\ (DisplayOf[f] = s \/ f = s))}
  /\ Begin(t, "delete", s, << >>)
  /\ UNCHANGED <<memory, diskChunks, diskIndex, unused, history, crashes>>

Clear(t) ==
  /\ Offers(t, "clear")
  /\ Begin(t, "clear", "none", << >>)
  /\ UNCHANGED <<memory, disk, history, crashes>>

-----------------------------------------------------------------------------
(* Under the lock: change the list, save it, rebuild the indexes           *)

(* Mutant: the old chunks of the source are kept.                          *)
WithoutNothing(list, source) == list

(* The other chunks, in their order.                                       *)
Without(list, source) ==
  LET kept[n \in 0..Len(list)] ==
        IF n = 0 THEN << >>
        ELSE IF list[n][1] = source THEN kept[n - 1]
        ELSE Append(kept[n - 1], list[n])
  IN  kept[Len(list)]

(* Mutants: an ingest forgets the other documents; a rebuild or a deletion *)
(* keeps the old ones.                                                     *)
NewChunksOnly(list, j) == j.parsed
NewChunksAppended(list, j) == list \o j.parsed

NewChunks(list, j) ==
  CASE j.op \in {"upload", "add"}    -> list \o j.parsed
    [] j.op = "upsert"               -> Without(list, j.source) \o j.parsed
    [] j.op = "delete"               -> Without(list, j.source)
    [] j.op \in {"rebuild", "clear"} -> j.parsed

(* The promises that outlive the change: a rebuild has to keep what is     *)
(* still uploaded, under the name it reads off the file.                   *)
Kept(j) ==
  CASE j.op \in {"upload", "add"}    -> promised
    [] j.op \in {"upsert", "delete"} -> {b \in promised : b[1] # j.source}
    [] j.op = "rebuild"              ->
         {<<DisplayOf[b[2]], b[2]>> : b \in {c \in promised : c[2] \in uploads \cap Listed}}
    [] j.op = "clear"                -> {}

MayEnter(p) == holder[p] = Nobody

(* write_text truncates chunks.json before it writes it.                   *)
ChangeChunks(t) ==
  LET p == Home[t] IN
  /\ job[t].at = "parsed"
  /\ MayEnter(p)
  /\ holder' = [holder EXCEPT ![p] = t]
  /\ chunks' = [chunks EXCEPT ![p] = NewChunks(@, job[t])]
  /\ promised' = Kept(job[t])
  /\ diskChunks' = Torn
  /\ job' = [job EXCEPT ![t].at = "saving"]
  /\ UNCHANGED <<alive, index, bm25, diskIndex, uploads, unused, withdrawn, rebuilt, crashes>>

SaveChunks(t) ==
  /\ job[t].at = "saving"
  /\ diskChunks' = chunks[Home[t]]
  /\ job' = [job EXCEPT ![t].at = "saved"]
  /\ UNCHANGED <<memory, diskIndex, uploads, unused, history, crashes>>

(* Mutant: BM25 is not rebuilt.                                            *)
ReindexVectorsOnly(p) ==
  index' = [index EXCEPT ![p] = chunks[p]] /\ UNCHANGED bm25

Reindex(p) ==
  /\ index' = [index EXCEPT ![p] = chunks[p]]
  /\ bm25'  = [bm25 EXCEPT ![p] = chunks[p]]

(* _rebuild_index embeds everything anew, writes faiss.index and rebuilds  *)
(* BM25; then the lock is released and the request is answered.  What a    *)
(* deletion found is withdrawn, but for a file another request has parsed  *)
(* already and is about to add.                                            *)
RebuildIndex(t) ==
  LET p == Home[t] IN
  /\ job[t].at = "saved"
  /\ diskIndex' = chunks[p]
  /\ Reindex(p)
  /\ holder' = [holder EXCEPT ![p] = Nobody]
  /\ rebuilt' = [rebuilt EXCEPT ![p] = TRUE]
  /\ promised' = promised \cup (IF job[t].op = "rebuild" THEN {} ELSE BlocksIn(job[t].parsed))
  /\ withdrawn' = withdrawn \cup
       {f \in job[t].copies :
          \A u \in Threads \ {t} : job[u].at = "parsed" => f \notin FilesIn(job[u].parsed)}
  /\ job' = [job EXCEPT ![t] = [Idle EXCEPT !.at = "done"]]
  /\ UNCHANGED <<alive, chunks, diskChunks, uploads, unused, crashes>>

(* The embedding call raises: the new list is saved, the indexes are old.  *)
EmbedFails(t) ==
  LET p == Home[t] IN
  /\ job[t].at = "saved"
  /\ holder' = [holder EXCEPT ![p] = Nobody]
  /\ rebuilt' = [rebuilt EXCEPT ![p] = FALSE]
  /\ job' = [job EXCEPT ![t] = [Idle EXCEPT !.at = "failed"]]
  /\ UNCHANGED <<alive, chunks, index, bm25, disk, promised, withdrawn, crashes>>

-----------------------------------------------------------------------------
(* Processes                                                               *)

Crash(p) ==
  /\ alive[p]
  /\ crashes < deployment.crashes
  /\ crashes' = crashes + 1
  /\ alive'  = [alive EXCEPT ![p] = FALSE]
  /\ holder' = [holder EXCEPT ![p] = Nobody]
  /\ job' = [t \in Threads |-> IF Home[t] = p THEN Idle ELSE job[t]]
  /\ UNCHANGED <<chunks, index, bm25, disk, history>>

(* __init__: chunks.json must parse; faiss.index is taken as it is if it   *)
(* has as many vectors as there are chunks, else it is rebuilt.            *)
Boot(p) ==
  /\ p \in deployment.processes /\ ~alive[p]
  /\ diskChunks # Torn
  /\ alive'  = [alive EXCEPT ![p] = TRUE]
  /\ chunks' = [chunks EXCEPT ![p] = diskChunks]
  /\ bm25'   = [bm25 EXCEPT ![p] = diskChunks]
  /\ \/ /\ diskChunks # << >>
        /\ Len(diskIndex) = Len(diskChunks)
        /\ index'   = [index EXCEPT ![p] = diskIndex]
        /\ rebuilt' = [rebuilt EXCEPT ![p] = FALSE]
        /\ UNCHANGED diskIndex
     \/ /\ diskChunks = << >> \/ Len(diskIndex) # Len(diskChunks)
        /\ index'   = [index EXCEPT ![p] = diskChunks]
        /\ rebuilt' = [rebuilt EXCEPT ![p] = TRUE]
        /\ diskIndex' = diskChunks
  /\ UNCHANGED <<holder, job, diskChunks, uploads, unused, promised, withdrawn, crashes>>

(* Requests end and the processes wait for the next one.                   *)
Next ==
  /\ \/ \E t \in Threads :
          \/ \E f \in Files : Upload(t, f) \/ \E op \in {"add", "upsert"} : Ingest(t, op, f)
          \/ \E s \in Sources \cup Files : DeleteSource(t, s)
          \/ RebuildFromUploads(t) \/ Clear(t)
          \/ ChangeChunks(t) \/ SaveChunks(t) \/ RebuildIndex(t) \/ EmbedFails(t)
     \/ \E p \in Processes : Crash(p) \/ Boot(p)
  /\ UNCHANGED deployment

Spec == Init /\ [][Next]_vars

-----------------------------------------------------------------------------
(* upsert_pdf's docstring (retriever.py:710) and server.py:102: events are *)
(* applied idempotently.  Where documents come and go by events only,      *)
(* whatever is redelivered, interleaved, or cut off by a crash or a failed *)
(* embedding, no source is indexed twice or from two files - in memory or  *)
(* in what the next process loads.                                         *)
IngestIsIdempotent ==
  (\A p \in deployment.processes : Operations[p] \subseteq {"upsert", "delete"}) =>
    \A list \in {chunks[p] : p \in Processes} \cup ({diskChunks} \ {Torn}) :
      \A i, j \in DOMAIN list : list[i][1] = list[j][1] => i = j

(* search maps positions of the vector index and of BM25 to chunks: outside*)
(* the lock the three describe the same list, once a rebuild has succeeded *)
(* and until one fails - whatever the other processes write to the disk.   *)
SearchAligned ==
  \A p \in Processes :
    (alive[p] /\ holder[p] = Nobody /\ rebuilt[p]) =>
      index[p] = chunks[p] /\ bm25[p] = chunks[p]

SingleWriter == Cardinality(deployment.processes) = 1

(* What an answered request put into the knowledge base is what a restart  *)
(* finds on the disk, until a request takes it out again; a rebuild must   *)
(* not, as long as the file is there.  That takes a process which has the  *)
(* directory for itself (two overwrite each other's lists) and which does  *)
(* not crash inside write_text (retriever.py:655): chunks.json is truncated*)
(* then, everything acknowledged is lost and no process starts again.      *)
AcknowledgedIsDurable ==
  SingleWriter /\ (\A p \in Processes : holder[p] = Nobody) =>
    IF diskChunks = Torn THEN \A p \in deployment.processes : ~alive[p]
    ELSE promised \subseteq BlocksIn(diskChunks)

(* Once a deletion is answered, the files of the document it found         *)
(* (retriever.py:757, 826) are indexed no more, in memory or on the disk:  *)
(* no rebuild from the directory, no redelivered event, retry or restart   *)
(* brings them back.  It spares a file that another thread had parsed when *)
(* the deletion ended, and one whose name sanitising changed.              *)
DeletedStaysDeleted ==
  SingleWriter =>
    \A list \in {chunks[p] : p \in deployment.processes} \cup ({diskChunks} \ {Torn}) :
      withdrawn \cap FilesIn(list) = {}

FinishesAlone(t, op) ==
  job[t].op = op /\ job[t].alone /\ job[t].at = "saved" /\ job'[t].at = "done"

(* scheduled_tasks.py:20: a rebuild "makes sure that the index agrees with *)
(* the PDFs on the disk".  One that runs with nothing else going on leaves *)
(* its process with just the listed uploads - whatever requests, races,    *)
(* failures and crashes came before it.                                    *)
RebuildMatchesUploads ==
  [][\A t \in Threads : FinishesAlone(t, "rebuild") =>
       FilesIn(index'[Home[t]]) = uploads \cap Listed]_vars

(* delete_source's docstring (retriever.py:757): "Delete one indexed       *)
(* document and its uploaded PDF copies."  Violated: the copies are looked *)
(* up by the sanitised name (retriever.py:681, 826), the chunks by the name*)
(* the client gave.                                                        *)
DeletedCopiesGone ==
  [][\A t \in Threads : FinishesAlone(t, "delete") =>
       \A f \in uploads : SourceOf[f] # job[t].source]_vars
=============================================================================
