------------------------ MODULE DocumentPipelineProofs ------------------------
(***************************************************************************)
(* Proofs about the way of a document, for any files, names, configuration *)
(* and number of mishaps, deletions and retries.                           *)
(***************************************************************************)
EXTENDS DocumentPipeline, FiniteSetTheorems, TLAPS

Events == {Insert(f) : f \in Files} \cup {Delete(s) : s \in Sources}

(* TypeOK, with what it leaves open, in three parts.                       *)
RequestStates == {"new", "locked", "refused", "indexed", "published", "failing",
                  "released", "accepted", "dispatched", "done", "failed"}
TaskStates == [at : {"none", "queued", "started", "added", "published", "done", "dead"},
               tries : Nat]
Statuses == {"absent", "pending", "processing", "success", "failed"}

ApiTyped ==
  /\ database \in BOOLEAN
  /\ uploads \subseteq Files /\ kept \subseteq Files
  /\ upload \in [Files -> RequestStates]
  /\ lock \in [Sources -> BOOLEAN]
  /\ deletion \in [Sources -> {"idle", "unlinked"}]

TasksTyped ==
  /\ task \in [Files -> TaskStates]
  /\ status \in [Rows -> Statuses]
  /\ added \in [Files -> Nat] /\ redone \in [Files -> Nat]
  /\ outcome \in [Sources -> {"none", "running", "success", "failed", "killed"}]

EventsTyped ==
  /\ IsFiniteSet(table)
  /\ served \subseteq Files
  /\ late \subseteq Events
  /\ queue \in [Keys -> Seq(Events)]
  /\ indexing \in [Keys -> {Insert(f) : f \in Files} \cup {NoEvent}]
  /\ \A k \in Keys : indexing[k] # NoEvent => queue[k] # << >> /\ Head(queue[k]) = indexing[k]

Typed == ApiTyped /\ TasksTyped /\ EventsTyped

LEMMA NamesAreKeys ==
  /\ \A f \in Files : SourceOf[f] \in Sources /\ f \in Keys /\ DocumentId(f) \in Keys
  /\ Canal \in Keys
  /\ Sources \subseteq Keys
BY DEF Sources, Keys, DocumentId

-----------------------------------------------------------------------------
(* Partitions                                                              *)

In(list, e) == \E i \in DOMAIN list : list[i] = e

(* The event e is under way in one of these partitions.                    *)
Holds(partitions, e) == \E k \in Keys : In(partitions[k], e)

LEMMA EventsDiffer ==
  /\ \A f, g \in Files : Insert(f) = Insert(g) => f = g
  /\ \A s, t \in Sources : Delete(s) = Delete(t) => s = t
  /\ \A f \in Files, s \in Sources : Insert(f) # Delete(s)
BY DEF Insert, Delete

LEMMA SentIsHeld ==
  ASSUME NEW k \in Keys, NEW e \in Events, EventsTyped, Send(k, e)
  PROVE  /\ queue' \in [Keys -> Seq(Events)]
         /\ \A x : Holds(queue', x) <=> Holds(queue, x) \/ x = e
         /\ \A j \in Keys : queue[j] # << >> => queue'[j] # << >> /\ Head(queue'[j]) = Head(queue[j])
<1>1. /\ queue \in [Keys -> Seq(Events)]
      /\ queue' = [queue EXCEPT ![k] = Append(queue[k], e)]
  BY DEF EventsTyped, Send
<1>2. queue' \in [Keys -> Seq(Events)]
  BY <1>1
<1>3. queue'[k] = Append(queue[k], e) /\ \A j \in Keys : j # k => queue'[j] = queue[j]
  BY <1>1
<1>4. ASSUME NEW list \in Seq(Events), NEW x
      PROVE  In(Append(list, e), x) <=> In(list, x) \/ x = e
  <2>1. /\ Len(list) \in Nat /\ DOMAIN list = 1..Len(list)
        /\ DOMAIN Append(list, e) = 1..(Len(list) + 1)
        /\ Append(list, e)[Len(list) + 1] = e
        /\ \A i \in 1..Len(list) : Append(list, e)[i] = list[i]
    OBVIOUS
  <2>2. ASSUME In(list, x) \/ x = e PROVE In(Append(list, e), x)
    BY <2>1, <2>2 DEF In
  <2>3. ASSUME In(Append(list, e), x) PROVE In(list, x) \/ x = e
    <3>1. PICK i \in 1..(Len(list) + 1) : Append(list, e)[i] = x
      BY <2>1, <2>3 DEF In
    <3>2. CASE i = Len(list) + 1
      BY <3>1, <3>2, <2>1
    <3>3. CASE i \in 1..Len(list)
      BY <3>1, <3>3, <2>1 DEF In
    <3>4. QED BY <2>1, <3>2, <3>3
  <2>4. QED BY <2>2, <2>3
<1>5. ASSUME NEW x PROVE Holds(queue', x) <=> Holds(queue, x) \/ x = e
  <2>1. In(queue'[k], x) <=> In(queue[k], x) \/ x = e
    BY <1>1, <1>3, <1>4
  <2>2. QED BY <2>1, <1>3 DEF Holds
<1>6. ASSUME NEW j \in Keys, queue[j] # << >>
      PROVE  queue'[j] # << >> /\ Head(queue'[j]) = Head(queue[j])
  <2>1. queue[j] \in Seq(Events)
    BY <1>1
  <2>2. Append(queue[j], e) # << >> /\ Head(Append(queue[j], e)) = Head(queue[j])
    BY <2>1, <1>6
  <2>3. QED BY <2>2, <1>3, <1>6
<1>7. QED BY <1>2, <1>5, <1>6

LEMMA DoneIsDropped ==
  ASSUME NEW k \in Keys, EventsTyped, queue[k] # << >>, Done(k)
  PROVE  /\ queue' \in [Keys -> Seq(Events)]
         /\ \A x : Holds(queue', x) => Holds(queue, x)
         /\ \A x : Holds(queue, x) => Holds(queue', x) \/ x = Head(queue[k])
         /\ \A j \in Keys : j # k => queue'[j] = queue[j]
<1>1. /\ queue \in [Keys -> Seq(Events)]
      /\ queue' = [queue EXCEPT ![k] = Tail(queue[k])]
  BY DEF EventsTyped, Done
<1>2. queue[k] \in Seq(Events) /\ Tail(queue[k]) \in Seq(Events)
  BY <1>1
<1>3. queue' \in [Keys -> Seq(Events)]
  BY <1>1, <1>2
<1>4. queue'[k] = Tail(queue[k]) /\ \A j \in Keys : j # k => queue'[j] = queue[j]
  BY <1>1
<1> DEFINE list == queue[k]
<1>5. /\ Len(list) \in Nat /\ DOMAIN list = 1..Len(list) /\ Head(list) = list[1]
      /\ DOMAIN Tail(list) = 1..(Len(list) - 1)
      /\ \A i \in 1..(Len(list) - 1) : Tail(list)[i] = list[i + 1]
  BY <1>2
<1>6. ASSUME NEW x, In(Tail(list), x) PROVE In(list, x)
  <2>1. PICK i \in 1..(Len(list) - 1) : list[i + 1] = x
    BY <1>5, <1>6 DEF In
  <2>2. i + 1 \in DOMAIN list
    BY <1>5
  <2>3. QED BY <2>1, <2>2 DEF In
<1>7. ASSUME NEW x, In(list, x), x # Head(list) PROVE In(Tail(list), x)
  <2>1. PICK i \in 1..Len(list) : list[i] = x
    BY <1>5, <1>7 DEF In
  <2>2. i # 1 /\ i - 1 \in 1..(Len(list) - 1) /\ (i - 1) + 1 = i
    BY <1>5, <1>7, <2>1
  <2>3. Tail(list)[i - 1] = x
    BY <1>5, <2>1, <2>2
  <2>4. QED BY <1>5, <2>2, <2>3 DEF In
<1> HIDE DEF list
<1>8. QED
  <2>1. list = queue[k]
    BY DEF list
  <2>2. ASSUME NEW x, Holds(queue', x) PROVE Holds(queue, x)
    BY <2>1, <2>2, <1>4, <1>6 DEF Holds
  <2>3. ASSUME NEW x, Holds(queue, x), x # Head(queue[k]) PROVE Holds(queue', x)
    BY <2>1, <2>3, <1>4, <1>7 DEF Holds
  <2>4. QED BY <1>3, <1>4, <2>2, <2>3

LEMMA DeletesAreHeld ==
  ASSUME NEW s \in Sources, NEW n \in Nat, EventsTyped,
         queue' = [queue EXCEPT ![Canal] = @ \o [i \in 1..n |-> Delete(s)]]
  PROVE  /\ queue' \in [Keys -> Seq(Events)]
         /\ \A x : Holds(queue, x) => Holds(queue', x)
         /\ \A x : Holds(queue', x) => Holds(queue, x) \/ x = Delete(s)
         /\ n # 0 => Holds(queue', Delete(s))
         /\ \A j \in Keys : queue[j] # << >> => queue'[j] # << >> /\ Head(queue'[j]) = Head(queue[j])
<1> DEFINE more == [i \in 1..n |-> Delete(s)]
           list == queue[Canal]
<1>1. /\ queue \in [Keys -> Seq(Events)] /\ Canal \in Keys
      /\ queue' = [queue EXCEPT ![Canal] = list \o more]
  BY NamesAreKeys DEF EventsTyped
<1>2. Delete(s) \in Events
  BY DEF Events
<1>3. /\ list \in Seq(Events) /\ more \in Seq(Events)
      /\ Len(more) = n /\ \A i \in 1..n : more[i] = Delete(s)
  <2>1. list \in Seq(Events)
    BY <1>1
  <2>2. more \in Seq(Events)
    BY <1>2
  <2>3. Len(more) = n
    OBVIOUS
  <2>4. \A i \in 1..n : more[i] = Delete(s)
    OBVIOUS
  <2>5. QED BY <2>1, <2>2, <2>3, <2>4
<1> HIDE DEF more, list
<1>4. /\ list \o more \in Seq(Events)
      /\ Len(list) \in Nat /\ DOMAIN list = 1..Len(list)
      /\ DOMAIN (list \o more) = 1..(Len(list) + n)
      /\ \A i \in 1..Len(list) : (list \o more)[i] = list[i]
      /\ \A i \in 1..n : (list \o more)[Len(list) + i] = Delete(s)
  BY <1>3
<1>5. queue'[Canal] = list \o more /\ \A j \in Keys : j # Canal => queue'[j] = queue[j]
  BY <1>1
<1>6. queue' \in [Keys -> Seq(Events)]
  BY <1>1, <1>4
<1>7. ASSUME NEW x, In(list, x) PROVE In(list \o more, x)
  BY <1>4, <1>7 DEF In
<1>8. ASSUME NEW x, In(list \o more, x) PROVE In(list, x) \/ x = Delete(s)
  <2>1. PICK i \in 1..(Len(list) + n) : (list \o more)[i] = x
    BY <1>4, <1>8 DEF In
  <2>2. CASE i \in 1..Len(list)
    BY <2>1, <2>2, <1>4 DEF In
  <2>3. CASE i > Len(list)
    <3>1. i - Len(list) \in 1..n /\ Len(list) + (i - Len(list)) = i
      BY <1>4, <2>3
    <3>2. QED BY <3>1, <2>1, <1>4
  <2>4. QED BY <1>4, <2>2, <2>3
<1>9. ASSUME n # 0 PROVE In(list \o more, Delete(s))
  <2>1. 1 \in 1..n /\ Len(list) + 1 \in DOMAIN (list \o more)
    BY <1>4, <1>9
  <2>2. QED BY <2>1, <1>4 DEF In
<1>10. list # << >> => list \o more # << >> /\ Head(list \o more) = Head(list)
  BY <1>3
<1>11. list = queue[Canal]
  BY DEF list
<1>12. QED
  <2>1. ASSUME NEW x, Holds(queue, x) PROVE Holds(queue', x)
    BY <2>1, <1>5, <1>7, <1>11 DEF Holds
  <2>2. ASSUME NEW x, Holds(queue', x) PROVE Holds(queue, x) \/ x = Delete(s)
    BY <2>2, <1>5, <1>8, <1>11 DEF Holds
  <2>3. ASSUME n # 0 PROVE Holds(queue', Delete(s))
    BY <2>3, <1>1, <1>5, <1>9 DEF Holds
  <2>4. QED BY <1>5, <1>6, <1>10, <1>11, <2>1, <2>2, <2>3

-----------------------------------------------------------------------------
(* The invariants                                                          *)

(* An upload inside holds its name's lock, alone.                          *)
LockKept ==
  \A f \in Files :
    InCritical(f) /\ SourceOf[f] \notin lapsed =>
      /\ lock[SourceOf[f]]
      /\ \A g \in Files : InCritical(g) /\ SourceOf[g] = SourceOf[f] => g = f

(* Where the file of an upload or a task has yet to be appended.           *)
Ahead(f) ==
  IF upload[f] \in {"new", "locked", "accepted"} \/ task[f].at \in {"queued", "started"}
  THEN 1 ELSE 0

Appends ==
  \A f \in Files :
    /\ added[f] + Ahead(f) <= 1 + redone[f]
    /\ upload[f] \in {"new", "locked", "accepted"} => task[f].at = "none"

(* A row of the API comes with its commit, once; a recorded success stays. *)
Recorded ==
  /\ \A f \in Files : upload[f] # "done" => status[<<f, "api">>] = "absent"
  /\ \A s \in Sources :
       database /\ s \notin unrecorded /\ outcome[s] = "success" =>
         \E r \in Rows : SourceOf[r[1]] = s /\ status[r] = "success"

(* A document served, or about to be, has its PDF, or a deletion is on its *)
(* way, or is known to have gone wrong.                                    *)
Explained(f) ==
  \/ f \in uploads
  \/ SourceOf[f] \in unheard \cup crossed
  \/ Delete(SourceOf[f]) \in givenUp
  \/ DeleteUnderWay(SourceOf[f])

Accounted ==
  /\ \A f \in served : Explained(f)
  /\ \A f \in Files : Insert(f) \in late => Explained(f)
  /\ \A k \in Keys, f \in Files :
       indexing[k] # NoEvent /\ indexing[k] = Insert(f) => Explained(f)

(* A document kept is on the disk, no deletion of its name is on its way,  *)
(* and what was announced is served, will be, or was dead-lettered.        *)
Kept ==
  \A f \in kept \ risky :
    /\ f \in uploads
    /\ ~DeleteUnderWay(SourceOf[f])
    /\ f \in announced => \/ \E g \in served : SourceOf[g] = SourceOf[f]
                          \/ Holds(queue, Insert(f))
                          \/ Insert(f) \in givenUp

-----------------------------------------------------------------------------
(* What the publishers do                                                  *)

HeadsStay ==
  \A j \in Keys : queue[j] # << >> => queue'[j] # << >> /\ Head(queue'[j]) = Head(queue[j])

LEMMA InsertPublished ==
  ASSUME Typed, NEW f \in Files, NEW id \in Keys, PublishInsert(f, id)
  PROVE  /\ queue' \in [Keys -> Seq(Events)] /\ HeadsStay /\ IsFiniteSet(table')
         /\ \A x : Holds(queue, x) => Holds(queue', x)
         /\ \A x : Holds(queue', x) => Holds(queue, x) \/ x = Insert(f)
         /\ \A g \in announced' : g \in announced \/ (g = f /\ Holds(queue', Insert(f)))
         /\ UNCHANGED <<indexing, late, served, crossed, givenUp, kept, risky, unheard>>
<1>1. Insert(f) \in Events /\ Canal \in Keys
  BY NamesAreKeys DEF Events
<1>2. EventsTyped
  BY DEF Typed
<1>3. UNCHANGED <<indexing, late, served, crossed, givenUp, kept, risky, unheard>>
  BY DEF PublishInsert
<1>4. IsFiniteSet(table')
  <2>1. IsFiniteSet(table)
    BY <1>2 DEF EventsTyped
  <2> DEFINE others == {r \in table : r.id # id}
             row == [source |-> SourceOf[f], file |-> f, id |-> id]
  <2>2. IsFiniteSet(others)
    BY <2>1, FS_Subset
  <2> HIDE DEF others, row
  <2>3. IsFiniteSet(others \cup {row})
    BY <2>2, FS_AddElement
  <2>4. table' = others \cup {row} \/ table' = table
    BY Zenon DEF PublishInsert, others, row
  <2>5. QED BY <2>1, <2>3, <2>4
<1>5. \/ \E k \in Keys : Send(k, Insert(f)) /\ announced' = announced \cup {f}
      \/ UNCHANGED <<queue, announced>>
  BY <1>1 DEF PublishInsert
<1>6. CASE UNCHANGED <<queue, announced>>
  BY <1>6, <1>2, <1>3, <1>4 DEF Holds, HeadsStay, EventsTyped
<1>7. CASE \E k \in Keys : Send(k, Insert(f)) /\ announced' = announced \cup {f}
  <2>1. PICK k \in Keys : Send(k, Insert(f))
    BY <1>7
  <2>2. /\ queue' \in [Keys -> Seq(Events)] /\ HeadsStay
        /\ \A x : Holds(queue', x) <=> Holds(queue, x) \/ x = Insert(f)
    BY <1>1, <1>2, <2>1, SentIsHeld DEF HeadsStay
  <2>3. QED BY <1>3, <1>4, <1>7, <2>2
<1>8. QED BY <1>5, <1>6, <1>7

LEMMA DeletePublished ==
  ASSUME Typed, NEW s \in Sources, PublishDelete(s)
  PROVE  /\ queue' \in [Keys -> Seq(Events)] /\ HeadsStay /\ IsFiniteSet(table')
         /\ \A x : Holds(queue, x) => Holds(queue', x)
         /\ \A x : Holds(queue', x) => Holds(queue, x) \/ x = Delete(s)
         /\ s \in unheard' \/ Holds(queue', Delete(s))
         /\ unheard \subseteq unheard'
         /\ UNCHANGED <<indexing, late, served, crossed, givenUp, kept, announced, risky>>
<1> DEFINE rows == {r \in table : r.source = s}
<1>1. Delete(s) \in Events /\ Canal \in Keys /\ s \in Keys
  BY NamesAreKeys DEF Events
<1>2. EventsTyped /\ IsFiniteSet(table)
  BY DEF Typed, EventsTyped
<1>3. UNCHANGED <<indexing, late, served, crossed, givenUp, kept, announced, risky>>
  BY DEF PublishDelete
<1>4. IsFiniteSet(rows) /\ IsFiniteSet(table \ rows)
  BY <1>2, FS_Subset
<1>5. Cardinality(rows) \in Nat /\ (Cardinality(rows) = 0 => rows = {})
  BY <1>4, FS_CardinalityType, FS_EmptySet
<1> HIDE DEF rows
<1>6. \/ /\ table' = table \ rows
         /\ queue' = [queue EXCEPT ![Canal] = @ \o [i \in 1..Cardinality(rows) |-> Delete(s)]]
         /\ unheard' = IF rows = {} THEN unheard \cup {s} ELSE unheard
      \/ Send(s, Delete(s)) /\ UNCHANGED <<table, unheard>>
      \/ unheard' = unheard \cup {s} /\ UNCHANGED <<table, queue>>
  BY Zenon DEF PublishDelete, rows
<1>7. CASE /\ table' = table \ rows
           /\ queue' = [queue EXCEPT ![Canal] = @ \o [i \in 1..Cardinality(rows) |-> Delete(s)]]
           /\ unheard' = IF rows = {} THEN unheard \cup {s} ELSE unheard
  <2> DEFINE n == Cardinality(rows)
  <2>1. n \in Nat /\ (n = 0 => rows = {})
    BY <1>5
  <2>2. queue' = [queue EXCEPT ![Canal] = @ \o [i \in 1..n |-> Delete(s)]]
    BY <1>7
  <2> HIDE DEF n
  <2>3. /\ queue' \in [Keys -> Seq(Events)] /\ HeadsStay
        /\ \A x : Holds(queue, x) => Holds(queue', x)
        /\ \A x : Holds(queue', x) => Holds(queue, x) \/ x = Delete(s)
        /\ n # 0 => Holds(queue', Delete(s))
    BY <1>2, <2>1, <2>2, DeletesAreHeld DEF HeadsStay
  <2>4. QED BY <1>3, <1>4, <1>7, <2>1, <2>3
<1>8. CASE Send(s, Delete(s)) /\ UNCHANGED <<table, unheard>>
  <2>1. /\ queue' \in [Keys -> Seq(Events)] /\ HeadsStay
        /\ \A x : Holds(queue', x) <=> Holds(queue, x) \/ x = Delete(s)
    BY <1>1, <1>2, <1>8, SentIsHeld DEF HeadsStay
  <2>2. QED BY <1>2, <1>3, <1>8, <2>1
<1>9. CASE unheard' = unheard \cup {s} /\ UNCHANGED <<table, queue>>
  BY <1>2, <1>3, <1>9 DEF Holds, HeadsStay, EventsTyped
<1>10. QED BY <1>6, <1>7, <1>8, <1>9

-----------------------------------------------------------------------------
(* Types                                                                   *)

LEMMA InitTyped == Init => Typed
<1> SUFFICES ASSUME Init PROVE Typed
  OBVIOUS
<1>1. IsFiniteSet({})
  BY FS_EmptySet
<1>2. PICK c \in BOOLEAN \X BOOLEAN : database = c[1] /\ cdc = c[2]
  BY ConfigurationAssumption DEF Init
<1>3. ApiTyped
  BY <1>2 DEF Init, ApiTyped, RequestStates
<1>4. TasksTyped
  BY BoundAssumption DEF Init, TasksTyped, TaskStates, Rows, Statuses
<1>5. EventsTyped
  BY <1>1 DEF Init, EventsTyped, Events
<1>6. QED BY <1>3, <1>4, <1>5 DEF Typed

(* The parts a step leaves alone.                                          *)
LEMMA ApiStays ==
  ASSUME ApiTyped, UNCHANGED <<config, api, deletion, kept>>
  PROVE  ApiTyped'
BY DEF ApiTyped, config, api

LEMMA TasksStay ==
  ASSUME TasksTyped, UNCHANGED <<tasks, status>>
  PROVE  TasksTyped'
BY DEF TasksTyped, tasks

LEMMA EventsStay ==
  ASSUME EventsTyped, UNCHANGED events
  PROVE  EventsTyped'
BY DEF EventsTyped, events

LEMMA InsertTyped ==
  ASSUME Typed, NEW f \in Files, NEW id \in Keys, PublishInsert(f, id)
  PROVE  EventsTyped' /\ kept' = kept
<1>1. /\ queue' \in [Keys -> Seq(Events)] /\ HeadsStay /\ IsFiniteSet(table')
      /\ UNCHANGED <<indexing, late, served, kept>>
  BY InsertPublished
<1>2. QED BY <1>1 DEF Typed, EventsTyped, HeadsStay

LEMMA UploadTyped ==
  ASSUME Typed, NEW f \in Files, SyncUpload(f) \/ AsyncUpload(f)
  PROVE  Typed'
<1> ApiTyped /\ TasksTyped /\ EventsTyped
  BY DEF Typed
<1>1. CASE AcquireLock(f)
  <2>1. UNCHANGED <<config, uploads, tasks, status, deletion, events, promise>>
    BY <1>1 DEF AcquireLock
  <2>2. lock' \in [Sources -> BOOLEAN] /\ upload' \in [Files -> RequestStates]
    BY <1>1, NamesAreKeys DEF AcquireLock, Acquire, Goes, ApiTyped, RequestStates
  <2>3. ApiTyped'
    BY <2>1, <2>2 DEF ApiTyped, config, promise
  <2>4. QED BY <2>1, <2>3, TasksStay, EventsStay DEF Typed
<1>2. CASE IndexUpload(f)
  <2>1. UNCHANGED <<config, lock, task, redone, outcome, status, deletion, events>>
    BY <1>2 DEF IndexUpload
  <2>2. ApiTyped'
    BY <1>2, <2>1 DEF IndexUpload, Saved, Goes, ApiTyped, RequestStates, config
  <2>3. TasksTyped'
    BY <1>2, <2>1 DEF IndexUpload, Appended, TasksTyped
  <2>4. QED BY <2>1, <2>2, <2>3, EventsStay DEF Typed
<1>3. CASE AnnounceUpload(f)
  <2>1. PublishInsert(f, DocumentId(f)) /\ UNCHANGED <<config, uploads, lock, tasks, status, deletion>>
    BY <1>3 DEF AnnounceUpload
  <2>2. EventsTyped' /\ kept' = kept
    BY <2>1, InsertTyped, NamesAreKeys
  <2>3. ApiTyped'
    BY <1>3, <2>1, <2>2 DEF AnnounceUpload, Goes, ApiTyped, RequestStates, config
  <2>4. QED BY <2>1, <2>2, <2>3, TasksStay DEF Typed
<1>4. CASE ReleaseLock(f)
  <2>1. UNCHANGED <<config, uploads, tasks, status, deletion, events, promise>>
    BY <1>4 DEF ReleaseLock
  <2>2. ApiTyped'
    BY <1>4, <2>1, NamesAreKeys DEF ReleaseLock, Goes, ApiTyped, RequestStates, config, promise
  <2>3. QED BY <2>1, <2>2, TasksStay, EventsStay DEF Typed
<1>5. CASE AcceptUpload(f)
  <2>1. UNCHANGED <<config, lock, tasks, status, deletion, events>>
    BY <1>5 DEF AcceptUpload
  <2>2. ApiTyped'
    BY <1>5, <2>1 DEF AcceptUpload, Saved, Goes, ApiTyped, RequestStates, config
  <2>3. QED BY <2>1, <2>2, TasksStay, EventsStay DEF Typed
<1>6. CASE Dispatch(f)
  <2>1. UNCHANGED <<config, uploads, lock, outcome, status, deletion, events, promise>>
    BY <1>6 DEF Dispatch
  <2>2. ApiTyped'
    BY <1>6, <2>1 DEF Dispatch, Goes, ApiTyped, RequestStates, config, promise
  <2>3. (task' = task \/ Queued(f)) /\ (added' = added \/ Appended(f)) /\ (redone' = redone \/ Redone(f))
    BY <1>6 DEF Dispatch, Dispatched
  <2>4. task' \in [Files -> TaskStates]
    BY <2>3, BoundAssumption DEF Queued, TasksTyped, TaskStates
  <2>5. added' \in [Files -> Nat] /\ redone' \in [Files -> Nat]
    BY <2>3 DEF Appended, Redone, TasksTyped
  <2>6. TasksTyped'
    BY <2>1, <2>4, <2>5 DEF TasksTyped
  <2>7. QED BY <2>1, <2>2, <2>6, EventsStay DEF Typed
<1>7. CASE Commit(f)
  <2>1. UNCHANGED <<config, uploads, lock, tasks, deletion, events, promise>>
    BY <1>7 DEF Commit
  <2>2. ApiTyped'
    BY <1>7, <2>1 DEF Commit, Goes, ApiTyped, RequestStates, config, promise
  <2>3. TasksTyped'
    BY <1>7, <2>1 DEF Commit, CommitRecord, TasksTyped, tasks, Statuses, Rows
  <2>4. QED BY <2>1, <2>2, <2>3, EventsStay DEF Typed
<1>8. QED BY <1>1, <1>2, <1>3, <1>4, <1>5, <1>6, <1>7 DEF SyncUpload, AsyncUpload

LEMMA WrittenTyped ==
  ASSUME Typed, NEW f \in Files, NEW st \in {"processing", "success", "failed"},
         NEW now \in Written(f, st)
  PROVE  now \in [Rows -> Statuses]
BY DEF Typed, TasksTyped, Written, Named, Rows, Statuses

LEMMA TaskTyped ==
  ASSUME Typed, NEW f \in Files, Task(f) \/ WorkerLost(f) \/ HardLimit(f)
  PROVE  Typed'
<1> ApiTyped /\ TasksTyped /\ EventsTyped
  BY DEF Typed
<1>1. ASSUME NEW st \in {"processing", "success", "failed"}, NEW n, UpdateStatus(f, st, n)
      PROVE  status' \in [Rows -> Statuses]
  BY <1>1, WrittenTyped DEF UpdateStatus, TasksTyped
<1>2. ASSUME NEW at \in {"queued", "started", "added", "published", "done", "dead"},
             task' = [task EXCEPT ![f].at = at]
      PROVE  task' \in [Files -> TaskStates]
  BY <1>2 DEF TaskStates, TasksTyped
<1>3. ASSUME NEW result \in {"running", "success", "failed", "killed"}, Ends(f, result)
      PROVE  outcome' \in [Sources -> {"none", "running", "success", "failed", "killed"}]
  BY <1>3, NamesAreKeys DEF Ends, TasksTyped
<1>4. CASE StartTask(f) \/ Succeed(f)
  <2>1. UNCHANGED <<config, api, added, redone, deletion, events, promise>>
    BY <1>4 DEF StartTask, Succeed
  <2>2. task' \in [Files -> TaskStates]
    BY <1>2, <1>4 DEF StartTask, Succeed, Steps
  <2>3. status' \in [Rows -> Statuses]
    BY <1>1, <1>4 DEF StartTask, Succeed
  <2>4. outcome' \in [Sources -> {"none", "running", "success", "failed", "killed"}]
    BY <1>3, <1>4 DEF StartTask, Succeed
  <2>5. TasksTyped'
    BY <2>1, <2>2, <2>3, <2>4 DEF TasksTyped
  <2>6. QED BY <2>1, <2>5, ApiStays, EventsStay DEF Typed, promise
<1>5. CASE AddPdf(f)
  <2>1. UNCHANGED <<config, api, redone, outcome, status, deletion, events, promise>>
    BY <1>5 DEF AddPdf
  <2>2. task' \in [Files -> TaskStates]
    BY <1>2, <1>5 DEF AddPdf, Steps
  <2>3. added' \in [Files -> Nat]
    BY <1>5 DEF AddPdf, Appended, TasksTyped
  <2>4. TasksTyped'
    BY <2>1, <2>2, <2>3 DEF TasksTyped
  <2>5. QED BY <2>1, <2>4, ApiStays, EventsStay DEF Typed, promise
<1>6. CASE AnnounceTask(f)
  <2>1. /\ PublishInsert(f, f)
        /\ UNCHANGED <<config, api, added, redone, outcome, status, deletion>>
    BY <1>6 DEF AnnounceTask
  <2>2. EventsTyped' /\ kept' = kept
    BY <2>1, InsertTyped, NamesAreKeys
  <2>3. task' \in [Files -> TaskStates]
    BY <1>2, <1>6 DEF AnnounceTask, Steps
  <2>4. TasksTyped'
    BY <2>1, <2>3 DEF TasksTyped
  <2>5. QED BY <2>1, <2>2, <2>4, ApiStays DEF Typed
<1>7. CASE Fail(f)
  <2>1. UNCHANGED <<config, api, added, deletion, events, promise>> /\ Redone(f) /\ NextTry(f)
    BY <1>7 DEF Fail
  <2>2. task' \in [Files -> TaskStates]
    BY <2>1, BoundAssumption DEF NextTry, TasksTyped, TaskStates
  <2>3. status' \in [Rows -> Statuses]
    BY <1>1, <1>7 DEF Fail
  <2>4. outcome' \in [Sources -> {"none", "running", "success", "failed", "killed"}]
    BY <1>3, <1>7 DEF Fail
  <2>5. redone' \in [Files -> Nat]
    BY <2>1 DEF Redone, TasksTyped
  <2>6. TasksTyped'
    BY <2>1, <2>2, <2>3, <2>4, <2>5 DEF TasksTyped
  <2>7. QED BY <2>1, <2>6, ApiStays, EventsStay DEF Typed, promise
<1>8. CASE WorkerLost(f)
  <2>1. UNCHANGED <<config, api, added, outcome, status, deletion, events, promise>>
    BY <1>8 DEF WorkerLost
  <2>2. task' \in [Files -> TaskStates]
    BY <1>2, <1>8 DEF WorkerLost
  <2>3. redone' \in [Files -> Nat]
    BY <1>8 DEF WorkerLost, Redone, TasksTyped
  <2>4. TasksTyped'
    BY <2>1, <2>2, <2>3 DEF TasksTyped
  <2>5. QED BY <2>1, <2>4, ApiStays, EventsStay DEF Typed, promise
<1>9. CASE HardLimit(f)
  <2>1. UNCHANGED <<config, api, added, redone, status, deletion, events, promise>>
    BY <1>9 DEF HardLimit
  <2>2. task' \in [Files -> TaskStates]
    BY <1>2, <1>9 DEF HardLimit
  <2>3. outcome' \in [Sources -> {"none", "running", "success", "failed", "killed"}]
    BY <1>3, <1>9 DEF HardLimit
  <2>4. TasksTyped'
    BY <2>1, <2>2, <2>3 DEF TasksTyped
  <2>5. QED BY <2>1, <2>4, ApiStays, EventsStay DEF Typed, promise
<1>10. QED BY <1>4, <1>5, <1>6, <1>7, <1>8, <1>9 DEF Task

LEMMA DeletionTyped ==
  ASSUME Typed, NEW s \in Sources, LockExpires(s) \/ DeleteDocument(s) \/ AnnounceDelete(s)
  PROVE  Typed'
<1> ApiTyped /\ TasksTyped /\ EventsTyped
  BY DEF Typed
<1>1. CASE LockExpires(s)
  <2>1. UNCHANGED <<config, uploads, upload, tasks, status, deletion, events, promise>>
    BY <1>1 DEF LockExpires
  <2>2. ApiTyped'
    BY <1>1, <2>1 DEF LockExpires, ApiTyped, config, promise
  <2>3. QED BY <2>1, <2>2, TasksStay, EventsStay DEF Typed
<1>2. CASE DeleteDocument(s)
  <2>1. UNCHANGED <<config, upload, lock, tasks, status, events>>
    BY <1>2 DEF DeleteDocument
  <2>2. ApiTyped'
    BY <1>2, <2>1 DEF DeleteDocument, Unlinked, ApiTyped, config
  <2>3. QED BY <2>1, <2>2, TasksStay, EventsStay DEF Typed
<1>3. CASE AnnounceDelete(s)
  <2>1. PublishDelete(s) /\ UNCHANGED <<config, api, tasks, status>>
    BY <1>3 DEF AnnounceDelete
  <2>2. /\ queue' \in [Keys -> Seq(Events)] /\ HeadsStay /\ IsFiniteSet(table')
        /\ UNCHANGED <<indexing, late, served, kept>>
    BY <2>1, DeletePublished
  <2>3. EventsTyped'
    BY <2>2 DEF EventsTyped, HeadsStay
  <2>4. ApiTyped'
    BY <1>3, <2>1, <2>2 DEF AnnounceDelete, ApiTyped, config, api
  <2>5. QED BY <2>1, <2>3, <2>4, TasksStay DEF Typed
<1>4. QED BY <1>1, <1>2, <1>3

(* The event a partition comes to next.                                    *)
LEMMA HeadIsEvent ==
  ASSUME EventsTyped, NEW k \in Keys, queue[k] # << >>
  PROVE  /\ Head(queue[k]) \in Events
         /\ In(queue[k], Head(queue[k]))
         /\ Head(queue[k]).op = "INSERT" =>
              \E f \in Files : Head(queue[k]) = Insert(f) /\ Head(queue[k]).file = f
                                 /\ Head(queue[k]).source = SourceOf[f]
         /\ Head(queue[k]).op = "DELETE" =>
              \E s \in Sources : Head(queue[k]) = Delete(s) /\ Head(queue[k]).source = s
<1>1. queue[k] \in Seq(Events)
  BY DEF EventsTyped
<1>2. Head(queue[k]) \in Events /\ 1 \in DOMAIN queue[k] /\ queue[k][1] = Head(queue[k])
  BY <1>1
<1>3. QED BY <1>2 DEF Events, In, Insert, Delete

(* What the consumer does to its partition.                                *)
LEMMA ConsumerStep ==
  ASSUME EventsTyped, NEW k \in Keys, Consumer(k)
  PROVE  /\ queue[k] # << >>
         /\ Done(k) \/ UNCHANGED queue
         /\ ReadPdf(k) => indexing[k] = NoEvent /\ Head(queue[k]).op = "INSERT"
         /\ UpsertPdf(k) => indexing[k] = Head(queue[k]) /\ Head(queue[k]).op = "INSERT"
         /\ DeleteSource(k) => indexing[k] = NoEvent /\ Head(queue[k]).op = "DELETE"
<1>1. ASSUME indexing[k] # NoEvent
      PROVE  queue[k] # << >> /\ Head(queue[k]) = indexing[k] /\ Head(queue[k]).op = "INSERT"
  BY <1>1 DEF EventsTyped, Insert
<1>2. CASE ReadPdf(k)
  BY <1>1, <1>2 DEF ReadPdf, Pending, GivenUp, Failed, UpsertPdf, DeleteSource
<1>3. CASE UpsertPdf(k)
  BY <1>1, <1>3 DEF UpsertPdf, Succeeded, Failed, GivenUp, ReadPdf, DeleteSource, Pending
<1>4. CASE DeleteSource(k)
  BY <1>1, <1>4 DEF DeleteSource, Succeeded, Failed, GivenUp, ReadPdf, UpsertPdf, Pending
<1>5. QED BY <1>2, <1>3, <1>4 DEF Consumer

LEMMA ConsumerTyped ==
  ASSUME Typed, NEW k \in Keys, Consumer(k)
  PROVE  Typed'
<1> ApiTyped /\ TasksTyped /\ EventsTyped
  BY DEF Typed
<1>1. /\ queue' \in [Keys -> Seq(Events)]
      /\ \A j \in Keys : j # k => queue'[j] = queue[j]
  BY ConsumerStep, DoneIsDropped DEF EventsTyped
<1>2. CASE ReadPdf(k)
  <2>1. UNCHANGED <<config, api, tasks, status, deletion, table, late, served, promise>>
    BY <1>2 DEF ReadPdf
  <2>2. queue[k] # << >> /\ indexing[k] = NoEvent /\ Head(queue[k]).op = "INSERT"
    BY <1>2, ConsumerStep
  <2>3. \/ UNCHANGED queue /\ indexing' = [indexing EXCEPT ![k] = Head(queue[k])]
        \/ UNCHANGED indexing
    BY <1>2 DEF ReadPdf
  <2>4. PICK f \in Files : Head(queue[k]) = Insert(f)
    BY <2>2, HeadIsEvent
  <2>5. EventsTyped'
    BY <1>1, <2>1, <2>2, <2>3, <2>4 DEF EventsTyped
  <2>6. QED BY <2>1, <2>5, ApiStays, TasksStay DEF Typed, promise
<1>3. CASE UpsertPdf(k)
  <2>1. UNCHANGED <<config, api, tasks, status, deletion, table, promise>>
    BY <1>3 DEF UpsertPdf
  <2>2. queue[k] # << >> /\ indexing[k] = Head(queue[k]) /\ Head(queue[k]).op = "INSERT"
    BY <1>3, ConsumerStep
  <2>3. PICK f \in Files : indexing[k] = Insert(f) /\ indexing[k].file = f
    BY <2>2, HeadIsEvent
  <2>4. served' \subseteq Files /\ indexing' = [indexing EXCEPT ![k] = NoEvent]
    BY <1>3, <2>3 DEF UpsertPdf, Replaced, Without, EventsTyped
  <2>5. late' \subseteq Events
    BY <1>3, <2>3 DEF UpsertPdf, Succeeded, EventsTyped, Events
  <2>6. EventsTyped'
    BY <1>1, <2>1, <2>4, <2>5 DEF EventsTyped
  <2>7. QED BY <2>1, <2>6, ApiStays, TasksStay DEF Typed, promise
<1>4. CASE DeleteSource(k)
  <2>1. UNCHANGED <<config, upload, lock, tasks, status, deletion, table, indexing, kept>>
    BY <1>4 DEF DeleteSource
  <2>2. queue[k] # << >> /\ indexing[k] = NoEvent /\ Head(queue[k]).op = "DELETE"
    BY <1>4, ConsumerStep
  <2>3. PICK s \in Sources : Head(queue[k]).source = s
    BY <2>2, HeadIsEvent
  <2>4. served' \subseteq Files /\ uploads' \subseteq Files
    BY <1>4 DEF DeleteSource, Deleted, DeletedFromIndex, Without, Unlinked, EventsTyped, ApiTyped
  <2>5. late' \subseteq Events
    BY <1>4, <2>3 DEF DeleteSource, Succeeded, EventsTyped, Events
  <2>6. EventsTyped'
    BY <1>1, <2>1, <2>2, <2>4, <2>5 DEF EventsTyped
  <2>7. ApiTyped'
    BY <2>1, <2>4 DEF ApiTyped, config
  <2>8. QED BY <2>1, <2>6, <2>7, TasksStay DEF Typed
<1>5. QED BY <1>2, <1>3, <1>4 DEF Consumer

LEMMA LateTyped ==
  ASSUME Typed, NEW e \in late, LateCall(e)
  PROVE  Typed'
<1> ApiTyped /\ TasksTyped /\ EventsTyped
  BY DEF Typed
<1>1. UNCHANGED <<config, upload, lock, tasks, status, deletion, table, queue, indexing, promise>>
  BY DEF LateCall
<1>2. e.op = "INSERT" => e.file \in Files
  BY DEF EventsTyped, Events, Insert, Delete
<1>3. served' \subseteq Files /\ uploads' \subseteq Files /\ late' \subseteq Events
  BY <1>2 DEF LateCall, Deleted, DeletedFromIndex, Replaced, Without, Unlinked, EventsTyped, ApiTyped
<1>4. EventsTyped'
  BY <1>1, <1>3 DEF EventsTyped
<1>5. ApiTyped'
  BY <1>1, <1>3 DEF ApiTyped, config, promise
<1>6. QED BY <1>1, <1>4, <1>5, TasksStay DEF Typed

LEMMA NextTyped == Typed /\ [Next]_vars => Typed'
<1> SUFFICES ASSUME Typed, [Next]_vars PROVE Typed'
  OBVIOUS
<1>1. CASE CleanUp
  <2>1. ApiTyped /\ TasksTyped /\ EventsTyped /\ UNCHANGED <<config, api, tasks, deletion, events, promise>>
    BY <1>1 DEF CleanUp, Typed
  <2>2. TasksTyped'
    BY <1>1, <2>1 DEF CleanUp, TasksTyped, tasks, Statuses
  <2>3. QED BY <2>1, <2>2, ApiStays, EventsStay DEF Typed, promise
<1>2. CASE UNCHANGED vars
  BY <1>2, ApiStays, TasksStay, EventsStay DEF Typed, vars, promise
<1>3. QED BY <1>1, <1>2, UploadTyped, TaskTyped, DeletionTyped, ConsumerTyped, LateTyped DEF Next

(* The variables stay in their types, and a PDF that was read is that of   *)
(* the event its partition is at.                                          *)
THEOREM Types == Spec => []TypeOK
<1>1. Typed => TypeOK
  BY DEF Typed, ApiTyped, TasksTyped, EventsTyped, TypeOK, TaskStates, Statuses
<1>2. QED BY <1>1, InitTyped, NextTyped, PTL DEF Spec

-----------------------------------------------------------------------------
(* The upload lock                                                         *)

LEMMA GoesOn ==
  ASSUME ApiTyped, NEW f \in Files, NEW from, NEW to, Goes(f, from, to)
  PROVE  upload[f] = from /\ \A g \in Files : upload'[g] = IF g = f THEN to ELSE upload[g]
BY DEF ApiTyped, Goes

(* Who is inside stays inside and nobody comes in.                         *)
LEMMA LockStays ==
  ASSUME LockKept, UNCHANGED <<lock, lapsed>>,
         \A f \in Files : InCritical(f)' => InCritical(f)
  PROVE  LockKept'
BY DEF LockKept

LEMMA LockNext ==
  ASSUME Typed, LockKept, [Next]_vars
  PROVE  LockKept'
<1> ApiTyped
  BY DEF Typed
<1>1. ASSUME NEW f \in Files, SyncUpload(f) PROVE LockKept'
  <2> DEFINE s == SourceOf[f]
  <2>1. s \in Sources
    BY NamesAreKeys
  <2>2. CASE AcquireLock(f)
    <3>1. CASE Acquire(s) /\ Goes(f, "new", "locked") /\ UNCHANGED lapsed
      <4>1. ASSUME NEW g \in Files, SourceOf[g] = s, InCritical(g) PROVE s \in lapsed
        BY <3>1, <4>1 DEF Acquire, LockKept
      <4>2. /\ lock'[s] /\ \A t \in Sources : t # s => lock'[t] = lock[t]
            /\ \A g \in Files : g # f => (InCritical(g)' <=> InCritical(g))
        BY <2>1, <3>1, GoesOn DEF Acquire, ApiTyped, InCritical
      <4>3. QED BY <3>1, <4>1, <4>2, NamesAreKeys DEF LockKept
    <3>2. CASE Goes(f, "new", "refused") /\ UNCHANGED <<lock, lapsed>>
      <4>1. \A g \in Files : InCritical(g)' => InCritical(g)
        BY <3>2, GoesOn DEF InCritical
      <4>2. QED BY <3>2, <4>1, LockStays
    <3>3. CASE Goes(f, "new", "locked") /\ lapsed' = lapsed \cup {s} /\ UNCHANGED lock
      <4>1. \A g \in Files : g # f => (InCritical(g)' <=> InCritical(g))
        BY <3>3, GoesOn DEF InCritical
      <4>2. QED BY <3>3, <4>1 DEF LockKept
    <3>4. QED BY <2>2, <3>1, <3>2, <3>3 DEF AcquireLock
  <2>3. CASE IndexUpload(f) \/ AnnounceUpload(f)
    <3>1. UNCHANGED <<lock, lapsed>>
      BY <2>3 DEF IndexUpload, AnnounceUpload
    <3>2. \A g \in Files : InCritical(g)' => InCritical(g)
      BY <2>3, GoesOn DEF IndexUpload, AnnounceUpload, InCritical
    <3>3. QED BY <3>1, <3>2, LockStays
  <2>4. CASE ReleaseLock(f)
    <3>1. /\ InCritical(f) /\ UNCHANGED lapsed
          /\ \A g \in Files : InCritical(g)' => InCritical(g) /\ g # f
      BY <2>4, GoesOn DEF ReleaseLock, InCritical
    <3>2. \A t \in Sources : t # s => lock'[t] = lock[t]
      BY <2>4 DEF ReleaseLock, ApiTyped
    <3>3. QED BY <3>1, <3>2, NamesAreKeys DEF LockKept
  <2>5. QED BY <1>1, <2>2, <2>3, <2>4 DEF SyncUpload
<1>2. ASSUME NEW f \in Files, AsyncUpload(f) PROVE LockKept'
  <2>1. UNCHANGED <<lock, lapsed>>
    BY <1>2 DEF AsyncUpload, AcceptUpload, Dispatch, Commit
  <2>2. \A g \in Files : InCritical(g)' => InCritical(g)
    BY <1>2, GoesOn DEF AsyncUpload, AcceptUpload, Dispatch, Commit, InCritical
  <2>3. QED BY <2>1, <2>2, LockStays
<1>3. ASSUME NEW s \in Sources, LockExpires(s) PROVE LockKept'
  BY <1>3, NamesAreKeys DEF LockExpires, LockKept, InCritical, ApiTyped
<1>4. ASSUME UNCHANGED <<upload, lock, lapsed>> PROVE LockKept'
  BY <1>4, LockStays DEF InCritical
<1>5. ASSUME NEW f \in Files, Task(f) \/ WorkerLost(f) \/ HardLimit(f) PROVE LockKept'
  BY <1>4, <1>5 DEF Task, StartTask, AddPdf, AnnounceTask, Succeed, Fail, WorkerLost, HardLimit, api
<1>6. ASSUME NEW s \in Sources, DeleteDocument(s) \/ AnnounceDelete(s) PROVE LockKept'
  BY <1>4, <1>6 DEF DeleteDocument, AnnounceDelete, api
<1>7. ASSUME NEW k \in Keys, Consumer(k) PROVE LockKept'
  BY <1>4, <1>7 DEF Consumer, ReadPdf, UpsertPdf, DeleteSource, api
<1>8. ASSUME CleanUp \/ (\E e \in late : LateCall(e)) \/ UNCHANGED vars PROVE LockKept'
  BY <1>4, <1>8 DEF CleanUp, LateCall, vars, api
<1>9. QED BY <1>1, <1>2, <1>3, <1>5, <1>6, <1>7, <1>8 DEF Next

(* Two uploads of one name are never inside together, unless a lock of the *)
(* name ran out or Redis failed (documents.py, cache_service.py).          *)
THEOREM UploadsAreSerialised == Spec => []UploadsSerialised
<1>1. Init => LockKept
  BY DEF Init, LockKept, InCritical
<1>2. LockKept => UploadsSerialised
  BY DEF LockKept, UploadsSerialised
<1>3. Typed /\ LockKept /\ [Next]_vars => LockKept'
  BY LockNext
<1>4. QED BY <1>1, <1>2, <1>3, InitTyped, NextTyped, PTL DEF Spec

-----------------------------------------------------------------------------
(* Appending                                                               *)

LEMMA StepsOn ==
  ASSUME TasksTyped, NEW f \in Files, NEW at, task' = [task EXCEPT ![f].at = at]
  PROVE  \A g \in Files : task'[g].at = IF g = f THEN at ELSE task[g].at
BY DEF TasksTyped, TaskStates

LEMMA AppendsNext ==
  ASSUME Typed, Appends, [Next]_vars
  PROVE  Appends'
<1> ApiTyped /\ TasksTyped
  BY DEF Typed
<1>1. ASSUME NEW f \in Files,
             \A g \in Files \ {f} : /\ upload'[g] = upload[g] /\ task'[g].at = task[g].at
                                    /\ added'[g] = added[g] /\ redone'[g] = redone[g],
             added'[f] + Ahead(f)' <= 1 + redone'[f],
             upload'[f] \in {"new", "locked", "accepted"} => task'[f].at = "none"
      PROVE  Appends'
  BY <1>1 DEF Appends, Ahead
<1> DEFINE Counted(f, a, r) ==
             /\ \A g \in Files : added'[g] = IF g = f THEN added[g] + a ELSE added[g]
             /\ \A g \in Files : redone'[g] = IF g = f THEN redone[g] + r ELSE redone[g]
<1>2. ASSUME NEW f \in Files
      PROVE  /\ UNCHANGED <<added, redone>> => Counted(f, 0, 0)
             /\ Appended(f) /\ UNCHANGED redone => Counted(f, 1, 0)
             /\ UNCHANGED added /\ Redone(f) => Counted(f, 0, 1)
             /\ Appended(f) /\ Redone(f) => Counted(f, 1, 1)
  BY DEF TasksTyped, Appended, Redone
<1>3. ASSUME NEW f \in Files
      PROVE  added[f] \in Nat /\ redone[f] \in Nat /\ added[f] + Ahead(f) <= 1 + redone[f]
  BY DEF TasksTyped, Appends
<1> HIDE DEF Counted
<1>4. ASSUME NEW f \in Files, NEW from, NEW to, NEW a \in 0..1, NEW r \in 0..1,
             Goes(f, from, to), Counted(f, a, r), task'[f].at = task[f].at,
             \A g \in Files \ {f} : task'[g].at = task[g].at,
             a = 1 => from \in {"locked", "accepted"} /\ to \notin {"new", "locked", "accepted"},
             to \in {"new", "locked", "accepted"} => from \in {"new", "locked", "accepted"}
      PROVE  Appends'
  <2>1. upload[f] = from /\ \A g \in Files : upload'[g] = IF g = f THEN to ELSE upload[g]
    BY <1>4, GoesOn
  <2>2. added'[f] + Ahead(f)' <= 1 + redone'[f]
    <3>1. added'[f] = added[f] + a /\ redone'[f] = redone[f] + r
      BY <1>4 DEF Counted
    <3>2. a = 1 => task[f].at = "none" /\ Ahead(f) = 1 /\ Ahead(f)' = 0
      BY <1>4, <2>1 DEF Appends, Ahead
    <3>3. a = 0 => Ahead(f)' <= Ahead(f)
      BY <1>4, <2>1 DEF Ahead
    <3>4. Ahead(f) \in 0..1 /\ Ahead(f)' \in 0..1
      BY DEF Ahead
    <3>5. CASE a = 1
      BY <1>3, <3>1, <3>2, <3>5
    <3>6. CASE a = 0
      BY <1>3, <3>1, <3>3, <3>4, <3>6
    <3>7. QED BY <3>5, <3>6
  <2>3. upload'[f] \in {"new", "locked", "accepted"} => task'[f].at = "none"
    BY <1>4, <2>1 DEF Appends
  <2>4. QED BY <1>1, <1>4, <2>1, <2>2, <2>3 DEF Counted
<1>5. ASSUME NEW f \in Files, SyncUpload(f) PROVE Appends'
  <2>1. UNCHANGED task
    BY <1>5 DEF SyncUpload, AcquireLock, IndexUpload, AnnounceUpload, ReleaseLock, tasks
  <2>2. CASE AcquireLock(f)
    BY <1>2, <1>4, <2>1, <2>2 DEF AcquireLock, tasks
  <2>3. CASE IndexUpload(f)
    BY <1>2, <1>4, <2>1, <2>3 DEF IndexUpload
  <2>4. CASE AnnounceUpload(f)
    BY <1>2, <1>4, <2>1, <2>4 DEF AnnounceUpload, tasks
  <2>5. CASE ReleaseLock(f)
    BY <1>2, <1>4, <2>1, <2>5 DEF ReleaseLock, tasks
  <2>6. QED BY <1>5, <2>2, <2>3, <2>4, <2>5 DEF SyncUpload
<1>6. ASSUME NEW f \in Files, AsyncUpload(f) PROVE Appends'
  <2>1. CASE AcceptUpload(f)
    BY <1>2, <1>4, <2>1 DEF AcceptUpload, tasks
  <2>2. CASE Commit(f)
    BY <1>2, <1>4, <2>2 DEF Commit, tasks
  <2>3. CASE Dispatch(f)
    <3>1. CASE UNCHANGED task
      <4>1. /\ Goes(f, "accepted", "dispatched") \/ Goes(f, "accepted", "failed")
            /\ UNCHANGED added \/ Appended(f)
            /\ UNCHANGED redone \/ Redone(f)
        BY <2>3 DEF Dispatch, Dispatched
      <4>2. QED BY <1>2, <1>4, <3>1, <4>1
    <3>2. CASE Queued(f)
      <4>1. \A g \in Files : task'[g].at = IF g = f THEN "queued" ELSE task[g].at
        BY <3>2 DEF Queued, TasksTyped
      <4>2. /\ upload[f] = "accepted"
            /\ \A g \in Files : g # f => upload'[g] = upload[g]
            /\ upload'[f] \in {"dispatched", "failed"}
        BY <2>3, GoesOn DEF Dispatch
      <4>3. Ahead(f) = 1 /\ Ahead(f)' = 1
        BY <4>1, <4>2 DEF Ahead
      <4>4. Counted(f, 0, 0) \/ Counted(f, 0, 1) \/ Counted(f, 1, 1) \/ UNCHANGED task
        BY <2>3, <1>2 DEF Dispatch, Dispatched
      <4>5. CASE Counted(f, 0, 0) \/ Counted(f, 0, 1) \/ Counted(f, 1, 1)
        <5>1. /\ \/ added'[f] = added[f] /\ redone'[f] = redone[f]
                 \/ added'[f] = added[f] /\ redone'[f] = redone[f] + 1
                 \/ added'[f] = added[f] + 1 /\ redone'[f] = redone[f] + 1
              /\ \A g \in Files \ {f} : added'[g] = added[g] /\ redone'[g] = redone[g]
          BY <4>5, <1>3 DEF Counted
        <5>2. added'[f] + Ahead(f)' <= 1 + redone'[f]
          BY <5>1, <4>3, <1>3
        <5>3. QED BY <1>1, <4>1, <4>2, <5>1, <5>2
      <4>6. QED BY <3>1, <4>4, <4>5
    <3>3. QED BY <2>3, <3>1, <3>2 DEF Dispatch, Dispatched
  <2>4. QED BY <1>6, <2>1, <2>2, <2>3 DEF AsyncUpload
<1>7. ASSUME NEW f \in Files, NEW from, NEW to, NEW a \in 0..1, NEW r \in 0..1,
             UNCHANGED upload, Counted(f, a, r),
             task[f].at = from, from # "none",
             \A g \in Files : task'[g].at = IF g = f THEN to ELSE task[g].at,
             a = 1 => r = 0 /\ from = "started" /\ to \notin {"queued", "started"},
             a = 0 /\ r = 0 /\ to \in {"queued", "started"} => from \in {"queued", "started"}
      PROVE  Appends'
  <2>1. upload[f] \notin {"new", "locked", "accepted"}
    BY <1>7 DEF Appends
  <2>2. added'[f] = added[f] + a /\ redone'[f] = redone[f] + r
    BY <1>7 DEF Counted
  <2>3. Ahead(f) = (IF from \in {"queued", "started"} THEN 1 ELSE 0)
    BY <1>7, <2>1 DEF Ahead
  <2>4. Ahead(f)' = (IF to \in {"queued", "started"} THEN 1 ELSE 0)
    BY <1>7, <2>1 DEF Ahead
  <2>5. a = 1 => Ahead(f) = 1 /\ Ahead(f)' = 0 /\ r = 0
    BY <1>7, <2>3, <2>4
  <2>6. a = 0 /\ r = 0 => Ahead(f)' <= Ahead(f)
    BY <1>7, <2>3, <2>4
  <2>7. Ahead(f) \in 0..1 /\ Ahead(f)' \in 0..1
    BY DEF Ahead
  <2>8. added'[f] + Ahead(f)' <= 1 + redone'[f]
    <3>1. CASE a = 1
      BY <1>3, <2>2, <2>5, <3>1
    <3>2. CASE a = 0 /\ r = 0
      BY <1>3, <2>2, <2>6, <2>7, <3>2
    <3>3. CASE a = 0 /\ r = 1
      BY <1>3, <2>2, <2>7, <3>3
    <3>4. QED BY <3>1, <3>2, <3>3
  <2>9. QED BY <1>1, <1>7, <2>1, <2>8 DEF Counted
<1>8. ASSUME NEW f \in Files, Task(f) \/ WorkerLost(f) \/ HardLimit(f) PROVE Appends'
  <2>1. UNCHANGED upload
    BY <1>8 DEF Task, StartTask, AddPdf, AnnounceTask, Succeed, Fail, WorkerLost, HardLimit, api
  <2>2. ASSUME NEW at, task' = [task EXCEPT ![f].at = at]
        PROVE  \A g \in Files : task'[g].at = IF g = f THEN at ELSE task[g].at
    BY <2>2, StepsOn
  <2>3. CASE StartTask(f)
    <3>1. Counted(f, 0, 0) /\ Steps(f, "queued", "started")
      BY <1>2, <2>3 DEF StartTask
    <3>2. QED BY <1>7, <2>1, <2>2, <3>1 DEF Steps
  <2>4. CASE AddPdf(f)
    <3>1. Counted(f, 1, 0) /\ Steps(f, "started", "added")
      BY <1>2, <2>4 DEF AddPdf
    <3>2. \A g \in Files : task'[g].at = IF g = f THEN "added" ELSE task[g].at
      BY <2>2, <3>1 DEF Steps
    <3>3. task[f].at = "started"
      BY <3>1 DEF Steps
    <3>4. QED BY <1>7, <2>1, <3>1, <3>2, <3>3
  <2>5. CASE AnnounceTask(f)
    <3>1. Counted(f, 0, 0) /\ Steps(f, "added", "published")
      BY <1>2, <2>5 DEF AnnounceTask
    <3>2. QED BY <1>7, <2>1, <2>2, <3>1 DEF Steps
  <2>6. CASE Succeed(f)
    <3>1. Counted(f, 0, 0) /\ Steps(f, "published", "done")
      BY <1>2, <2>6 DEF Succeed
    <3>2. QED BY <1>7, <2>1, <2>2, <3>1 DEF Steps
  <2>7. CASE Fail(f)
    <3>1. Counted(f, 0, 1) /\ Working(f) /\ NextTry(f)
      BY <1>2, <2>7 DEF Fail
    <3>2. \E to : \A g \in Files : task'[g].at = IF g = f THEN to ELSE task[g].at
      BY <3>1 DEF NextTry, TasksTyped, TaskStates
    <3>3. QED BY <1>7, <2>1, <3>1, <3>2 DEF Working
  <2>8. CASE WorkerLost(f)
    <3>1. Counted(f, 0, 1) /\ Working(f) /\ task' = [task EXCEPT ![f].at = "queued"]
      BY <1>2, <2>8 DEF WorkerLost
    <3>2. QED BY <1>7, <2>1, <2>2, <3>1 DEF Working
  <2>9. CASE HardLimit(f)
    <3>1. Counted(f, 0, 0) /\ Working(f) /\ task' = [task EXCEPT ![f].at = "dead"]
      BY <1>2, <2>9 DEF HardLimit
    <3>2. QED BY <1>7, <2>1, <2>2, <3>1 DEF Working
  <2>10. QED BY <1>8, <2>3, <2>4, <2>5, <2>6, <2>7, <2>8, <2>9 DEF Task
<1>9. ASSUME UNCHANGED <<upload, tasks>> PROVE Appends'
  BY <1>9 DEF Appends, Ahead, tasks
<1>10. ASSUME NEW s \in Sources, LockExpires(s) \/ DeleteDocument(s) \/ AnnounceDelete(s)
       PROVE  Appends'
  BY <1>9, <1>10 DEF LockExpires, DeleteDocument, AnnounceDelete, api
<1>11. ASSUME NEW k \in Keys, Consumer(k) PROVE Appends'
  BY <1>9, <1>11 DEF Consumer, ReadPdf, UpsertPdf, DeleteSource, api
<1>12. ASSUME CleanUp \/ (\E e \in late : LateCall(e)) \/ UNCHANGED vars PROVE Appends'
  BY <1>9, <1>12 DEF CleanUp, LateCall, vars, api
<1>13. QED BY <1>5, <1>6, <1>8, <1>10, <1>11, <1>12 DEF Next

(* A file is appended once, and once more for every time its work was      *)
(* repeated (document_tasks.py:63).                                        *)
THEOREM FilesAreAppendedOnce == Spec => []AppendedOnce
<1>1. Init => Appends
  BY DEF Init, Appends, Ahead
<1>2. Typed /\ Appends => AppendedOnce
  <2> SUFFICES ASSUME Typed, Appends, NEW f \in Files PROVE added[f] <= 1 + redone[f]
    BY DEF AppendedOnce
  <2>1. /\ added[f] \in Nat /\ redone[f] \in Nat /\ Ahead(f) \in 0..1
        /\ added[f] + Ahead(f) <= 1 + redone[f]
    BY DEF Typed, TasksTyped, Appends, Ahead
  <2>2. QED BY <2>1
<1>3. Typed /\ Appends /\ [Next]_vars => Appends'
  BY AppendsNext
<1>4. QED BY <1>1, <1>2, <1>3, InitTyped, NextTyped, PTL DEF Spec

-----------------------------------------------------------------------------
(* Records                                                                 *)

LEMMA RecordedStays ==
  ASSUME Recorded, UNCHANGED <<database, status, unrecorded>>,
         \A f \in Files : upload'[f] # "done" => upload[f] # "done",
         \A s \in Sources : outcome'[s] = "success" => outcome[s] = "success"
  PROVE  Recorded'
BY DEF Recorded

(* A row that turns up at the commit was not there before.                 *)
LEMMA CommitRecorded ==
  ASSUME Typed, Recorded, NEW f \in Files, NEW from, from # "done", Goes(f, from, "done"),
         NEW st, st # "absent", CommitRecord(f, st), UNCHANGED <<config, tasks>>
  PROVE  Recorded'
<1> ApiTyped /\ TasksTyped
  BY DEF Typed
<1>1. upload[f] = from /\ \A g \in Files : upload'[g] = IF g = f THEN "done" ELSE upload[g]
  BY GoesOn
<1>2. \A r \in Rows : r # <<f, "api">> => status'[r] = status[r]
  BY DEF CommitRecord, TasksTyped
<1>3. status[<<f, "api">>] = "absent"
  BY <1>1 DEF Recorded
<1>4. ASSUME NEW g \in Files, upload'[g] # "done" PROVE status'[<<g, "api">>] = "absent"
  <2>1. g # f /\ upload[g] # "done" /\ <<g, "api">> \in Rows /\ <<g, "api">> # <<f, "api">>
    BY <1>1, <1>4 DEF Rows
  <2>2. QED BY <1>2, <2>1 DEF Recorded
<1>5. ASSUME NEW s \in Sources, database', s \notin unrecorded', outcome'[s] = "success"
      PROVE  \E r \in Rows : SourceOf[r[1]] = s /\ status'[r] = "success"
  <2>1. PICK r \in Rows : SourceOf[r[1]] = s /\ status[r] = "success"
    BY <1>5 DEF Recorded, config, tasks
  <2>2. r # <<f, "api">>
    BY <1>3, <2>1
  <2>3. QED BY <1>2, <2>1, <2>2
<1>6. QED BY <1>4, <1>5 DEF Recorded

(* A task writes to rows of its own name only, and to none of the API's    *)
(* that is absent.                                                         *)
LEMMA UpdateRecorded ==
  ASSUME Typed, Recorded, NEW f \in Files, NEW st \in {"processing", "success", "failed"}, NEW n,
         UpdateStatus(f, st, n), UNCHANGED <<database, upload>>,
         NEW result, result = "success" => st = "success", Ends(f, result)
  PROVE  Recorded'
<1> TasksTyped
  BY DEF Typed
<1> DEFINE s == SourceOf[f]
<1>1. s \in Sources
  BY NamesAreKeys
<1>2. outcome'[s] = result /\ \A t \in Sources : t # s => outcome'[t] = outcome[t]
  BY <1>1 DEF Ends, TasksTyped
<1>3. CASE UNCHANGED status /\ unrecorded' = unrecorded \cup {s}
  BY <1>2, <1>3 DEF Recorded
<1>4. CASE status' \in Written(f, st) /\ UNCHANGED unrecorded
  <2>1. CASE ~database
    BY <1>4, <2>1 DEF Written, Recorded
  <2>2. CASE database
    <3>1. PICK q \in Rows : /\ SourceOf[q[1]] = s
                            /\ status' = [status EXCEPT ![q] = st]
                            /\ status[q] # "absent" \/ q = <<f, "task">>
      BY <1>4, <2>2 DEF Written, Named, Rows
    <3>2. status'[q] = st /\ \A r \in Rows : r # q => status'[r] = status[r]
      BY <3>1 DEF TasksTyped
    <3>3. ASSUME NEW g \in Files, upload'[g] # "done" PROVE status'[<<g, "api">>] = "absent"
      <4>1. status[<<g, "api">>] = "absent" /\ <<g, "api">> \in Rows /\ <<g, "api">> # <<f, "task">>
        BY <3>3 DEF Recorded, Rows
      <4>2. <<g, "api">> # q
        BY <3>1, <4>1
      <4>3. QED BY <3>2, <4>1, <4>2
    <3>4. ASSUME NEW t \in Sources, t \notin unrecorded', outcome'[t] = "success"
          PROVE  \E r \in Rows : SourceOf[r[1]] = t /\ status'[r] = "success"
      <4>1. CASE t = s
        BY <1>2, <3>1, <3>2, <3>4, <4>1
      <4>2. CASE t # s
        <5>1. PICK r \in Rows : SourceOf[r[1]] = t /\ status[r] = "success"
          BY <1>2, <1>4, <2>2, <3>4, <4>2 DEF Recorded
        <5>2. r # q
          BY <3>1, <4>2, <5>1
        <5>3. QED BY <3>2, <5>1, <5>2
      <4>3. QED BY <4>1, <4>2
    <3>5. QED BY <3>3, <3>4 DEF Recorded
  <2>3. QED BY <2>1, <2>2
<1>5. QED BY <1>3, <1>4 DEF UpdateStatus

LEMMA RecordedNext ==
  ASSUME Typed, Recorded, [Next]_vars
  PROVE  Recorded'
<1> ApiTyped /\ TasksTyped
  BY DEF Typed
<1>1. ASSUME NEW f \in Files, SyncUpload(f) \/ AsyncUpload(f) PROVE Recorded'
  <2>1. CASE /\ Commit(f)
             /\ \/ Goes(f, "released", "done") /\ CommitRecord(f, "success")
                \/ Goes(f, "dispatched", "done") /\ CommitRecord(f, "pending")
    BY <2>1, CommitRecorded DEF Commit
  <2>2. CASE /\ Commit(f) /\ UNCHANGED status
             /\ Goes(f, "released", "done") \/ Goes(f, "dispatched", "done")
    <3>1. UNCHANGED <<database, status, unrecorded, outcome>>
      BY <2>2 DEF Commit, config, tasks
    <3>2. \E from : from # "done" /\ Goes(f, from, "done")
      BY <2>2
    <3>3. \A g \in Files : upload'[g] # "done" => upload[g] # "done"
      BY <3>2, GoesOn
    <3>4. QED BY <3>1, <3>3, RecordedStays
  <2>3. CASE \/ AcquireLock(f) \/ IndexUpload(f) \/ AnnounceUpload(f) \/ ReleaseLock(f)
             \/ AcceptUpload(f) \/ Dispatch(f)
    <3>1. UNCHANGED <<database, status, unrecorded, outcome>>
      BY <2>3 DEF AcquireLock, IndexUpload, AnnounceUpload, ReleaseLock, AcceptUpload, Dispatch,
                  config, tasks
    <3>2. \E from, to : from # "done" /\ Goes(f, from, to)
      BY <2>3 DEF AcquireLock, IndexUpload, AnnounceUpload, ReleaseLock, AcceptUpload, Dispatch
    <3>3. \A g \in Files : upload'[g] # "done" => upload[g] # "done"
      BY <3>2, GoesOn
    <3>4. QED BY <3>1, <3>3, RecordedStays
  <2>4. QED BY <1>1, <2>1, <2>2, <2>3 DEF SyncUpload, AsyncUpload, Commit
<1>2. ASSUME NEW f \in Files, Task(f) \/ WorkerLost(f) PROVE Recorded'
  <2>1. CASE StartTask(f) \/ Succeed(f) \/ Fail(f)
    <3>1. UNCHANGED <<database, upload>>
      BY <2>1 DEF StartTask, Succeed, Fail, config, api
    <3>2. CASE StartTask(f)
      BY <3>1, <3>2, UpdateRecorded DEF StartTask
    <3>3. CASE Succeed(f)
      BY <3>1, <3>3, UpdateRecorded DEF Succeed
    <3>4. CASE Fail(f)
      BY <3>1, <3>4, UpdateRecorded DEF Fail
    <3>5. QED BY <2>1, <3>2, <3>3, <3>4
  <2>2. CASE AddPdf(f) \/ AnnounceTask(f) \/ WorkerLost(f)
    <3>1. UNCHANGED <<database, status, unrecorded, outcome, upload>>
      BY <2>2 DEF AddPdf, AnnounceTask, WorkerLost, config, api
    <3>2. QED BY <3>1, RecordedStays
  <2>3. QED BY <1>2, <2>1, <2>2 DEF Task
<1>3. ASSUME NEW f \in Files, HardLimit(f) PROVE Recorded'
  <2>1. UNCHANGED <<database, status, unrecorded, upload>>
    BY <1>3 DEF HardLimit, config, api
  <2>2. \A s \in Sources : outcome'[s] = "success" => outcome[s] = "success"
    BY <1>3 DEF HardLimit, Ends, TasksTyped
  <2>3. QED BY <2>1, <2>2, RecordedStays
<1>4. ASSUME CleanUp PROVE Recorded'
  BY <1>4, ZenonT(30) DEF CleanUp, Recorded, Rows, config, api, tasks
<1>5. ASSUME UNCHANGED <<database, status, unrecorded, outcome, upload>> PROVE Recorded'
  BY <1>5, RecordedStays
<1>6. ASSUME NEW s \in Sources, LockExpires(s) \/ DeleteDocument(s) \/ AnnounceDelete(s)
      PROVE  Recorded'
  BY <1>5, <1>6 DEF LockExpires, DeleteDocument, AnnounceDelete, config, api, tasks
<1>7. ASSUME NEW k \in Keys, Consumer(k) PROVE Recorded'
  BY <1>5, <1>7 DEF Consumer, ReadPdf, UpsertPdf, DeleteSource, config, api, tasks
<1>8. ASSUME (\E e \in late : LateCall(e)) \/ UNCHANGED vars PROVE Recorded'
  BY <1>5, <1>8 DEF LateCall, vars, config, api, tasks
<1>9. QED BY <1>1, <1>2, <1>3, <1>4, <1>6, <1>7, <1>8 DEF Next

(* When the last task of a name has succeeded, a record of the name says   *)
(* so, although the task takes any record it finds and the API commits its *)
(* own later (documents.py:140, document_tasks.py:123).                    *)
THEOREM OutcomesAreRecorded == Spec => []OutcomeOnRecord
<1>1. Init => Recorded
  BY DEF Init, Recorded, Rows
<1>2. Recorded => OutcomeOnRecord
  BY DEF Recorded, OutcomeOnRecord, Named
<1>3. Typed /\ Recorded /\ [Next]_vars => Recorded'
  BY RecordedNext
<1>4. QED BY <1>1, <1>2, <1>3, InitTyped, NextTyped, PTL DEF Spec

-----------------------------------------------------------------------------
(* The index that is kept up to date by the events                         *)

(* No file is announced before it is saved.                                *)
SavedFirst == \A f \in Files : f \in announced => upload[f] \notin {"new", "locked"}

Synchronised == Accounted /\ Kept /\ SavedFirst

LEMMA UnderWay ==
  \A s \in Sources :
    DeleteUnderWay(s) <=> deletion[s] # "idle" \/ Holds(queue, Delete(s)) \/ Delete(s) \in late
BY DEF DeleteUnderWay, Holds, In

LEMMA StillUnderWay ==
  \A s \in Sources :
    DeleteUnderWay(s)' <=> deletion'[s] # "idle" \/ Holds(queue', Delete(s)) \/ Delete(s) \in late'
BY DEF DeleteUnderWay, Holds, In

(* A step that has nothing to do with the events, but may save a file.     *)
LEMMA SavedSynchronised ==
  ASSUME Typed, Synchronised, UNCHANGED <<events, deletion, announced, unheard>>,
         \A f \in Files : upload'[f] \in {"new", "locked"} => upload[f] \in {"new", "locked"},
         \/ UNCHANGED <<kept, risky, uploads>>
         \/ \E f \in Files : /\ Saved(f)
                             /\ uploads' = uploads \cup {f}
                             /\ upload[f] \in {"new", "locked"}
  PROVE  Synchronised'
<1>1. \A s : DeleteUnderWay(s)' <=> DeleteUnderWay(s)
  BY DEF DeleteUnderWay, events
<1>2. \A x : Holds(queue', x) <=> Holds(queue, x)
  BY DEF Holds, events
<1>3. Accounted'
  BY <1>1 DEF Synchronised, Accounted, Explained, Saved, events
<1>5. SavedFirst'
  BY DEF Synchronised, SavedFirst
<1>4. kept' \subseteq Files
  BY DEF Typed, ApiTyped, Saved
<1>6. ASSUME NEW f \in kept' \ risky'
      PROVE  /\ f \in uploads' /\ ~DeleteUnderWay(SourceOf[f])
             /\ f \in announced => \/ \E g \in served : SourceOf[g] = SourceOf[f]
                                   \/ Holds(queue, Insert(f))
                                   \/ Insert(f) \in givenUp
  <2>1. CASE f \in kept \ risky
    BY <2>1 DEF Synchronised, Kept, Saved
  <2>2. CASE f \notin kept \ risky
    BY <1>4, <1>6, <2>2 DEF Synchronised, SavedFirst, Saved
  <2>3. QED BY <2>1, <2>2
<1>7. Kept'
  BY <1>1, <1>2, <1>6 DEF Kept, events
<1>8. QED BY <1>3, <1>5, <1>7 DEF Synchronised

LEMMA InsertSynchronised ==
  ASSUME Typed, Synchronised, NEW f \in Files, NEW id \in Keys, PublishInsert(f, id),
         UNCHANGED <<uploads, deletion>>, upload[f] \notin {"new", "locked"},
         \A g \in Files : upload'[g] \in {"new", "locked"} => upload[g] \in {"new", "locked"}
  PROVE  Synchronised'
<1>1. /\ \A x : Holds(queue, x) => Holds(queue', x)
      /\ \A x : Holds(queue', x) => Holds(queue, x) \/ x = Insert(f)
      /\ \A g \in announced' : g \in announced \/ (g = f /\ Holds(queue', Insert(f)))
      /\ UNCHANGED <<indexing, late, served, crossed, givenUp, kept, risky, unheard>>
  BY InsertPublished
<1>2. \A s \in Sources : DeleteUnderWay(s)' <=> DeleteUnderWay(s)
  <2>1. \A s \in Sources : Delete(s) # Insert(f)
    BY EventsDiffer
  <2>2. QED BY <1>1, <2>1, StillUnderWay, UnderWay
<1>3. served \subseteq Files /\ kept \subseteq Files /\ \A g \in Files : SourceOf[g] \in Sources
  BY NamesAreKeys DEF Typed, ApiTyped, EventsTyped
<1>4. Accounted'
  BY <1>1, <1>2, <1>3 DEF Synchronised, Accounted, Explained
<1>5. SavedFirst'
  <2>1. ASSUME NEW g \in Files, g \in announced' PROVE upload'[g] \notin {"new", "locked"}
    <3>1. g \in announced \/ g = f
      BY <1>1, <2>1
    <3>2. upload[g] \notin {"new", "locked"}
      BY <3>1 DEF Synchronised, SavedFirst
    <3>3. QED BY <3>2
  <2>2. QED BY <2>1 DEF SavedFirst
<1>6. Kept'
  <2>1. ASSUME NEW g \in kept \ risky
        PROVE  /\ g \in uploads /\ ~DeleteUnderWay(SourceOf[g])'
               /\ g \in announced' => \/ \E h \in served : SourceOf[h] = SourceOf[g]
                                      \/ Holds(queue', Insert(g))
                                      \/ Insert(g) \in givenUp
    BY <1>1, <1>2, <1>3 DEF Synchronised, Kept
  <2>2. QED BY <1>1, <2>1 DEF Kept
<1>7. QED BY <1>4, <1>5, <1>6 DEF Synchronised

LEMMA DeletionSynchronised ==
  ASSUME Typed, Synchronised, NEW s \in Sources, DeleteDocument(s) \/ AnnounceDelete(s)
  PROVE  Synchronised'
<1>1. UNCHANGED <<upload, announced, risky, late, served, indexing, crossed, givenUp>>
  BY DeletePublished DEF DeleteDocument, AnnounceDelete, api, events
<1>2. SavedFirst'
  BY <1>1 DEF Synchronised, SavedFirst
<1>3. served \subseteq Files /\ kept \subseteq Files /\ \A g \in Files : SourceOf[g] \in Sources
  BY NamesAreKeys DEF Typed, ApiTyped, EventsTyped
<1>4. CASE DeleteDocument(s)
  <2>1. /\ UNCHANGED <<queue, unheard>>
        /\ uploads' = {f \in uploads : SourceOf[f] # s}
        /\ kept' = {f \in kept : SourceOf[f] # s}
        /\ deletion'[s] = "unlinked"
        /\ \A t \in Sources : t # s => deletion'[t] = deletion[t]
    BY <1>4 DEF DeleteDocument, Unlinked, events, Typed, ApiTyped
  <2>2. /\ DeleteUnderWay(s)'
        /\ \A t \in Sources : t # s => (DeleteUnderWay(t)' <=> DeleteUnderWay(t))
    BY <1>1, <2>1, UnderWay, StillUnderWay
  <2>3. \A f \in Files : Explained(f) => Explained(f)'
    BY <1>1, <1>3, <2>1, <2>2 DEF Explained
  <2>4. Accounted'
    BY <1>1, <1>3, <2>3 DEF Synchronised, Accounted
  <2>5. Kept'
    BY <1>1, <1>3, <2>1, <2>2 DEF Synchronised, Kept
  <2>6. QED BY <1>2, <2>4, <2>5 DEF Synchronised
<1>5. CASE AnnounceDelete(s)
  <2>1. /\ UNCHANGED <<uploads, kept>>
        /\ deletion[s] = "unlinked"
        /\ \A t \in Sources : t # s => deletion'[t] = deletion[t]
    BY <1>5, DeletePublished DEF AnnounceDelete, api, Typed, ApiTyped
  <2>2. /\ \A x : Holds(queue, x) => Holds(queue', x)
        /\ \A x : Holds(queue', x) => Holds(queue, x) \/ x = Delete(s)
        /\ s \in unheard' \/ Holds(queue', Delete(s))
        /\ unheard \subseteq unheard'
    BY <1>5, DeletePublished DEF AnnounceDelete
  <2>3. /\ DeleteUnderWay(s)
        /\ DeleteUnderWay(s)' \/ s \in unheard'
        /\ \A t \in Sources : t # s => (DeleteUnderWay(t)' <=> DeleteUnderWay(t))
    BY <1>1, <2>1, <2>2, UnderWay, StillUnderWay, EventsDiffer
  <2>4. \A f \in Files : Explained(f) => Explained(f)'
    BY <1>1, <1>3, <2>1, <2>2, <2>3 DEF Explained
  <2>5. Accounted'
    BY <1>1, <1>3, <2>4 DEF Synchronised, Accounted
  <2>6. Kept'
    <3>1. ASSUME NEW f \in kept \ risky
          PROVE  /\ f \in uploads /\ ~DeleteUnderWay(SourceOf[f])'
                 /\ f \in announced => \/ \E g \in served : SourceOf[g] = SourceOf[f]
                                       \/ Holds(queue', Insert(f))
                                       \/ Insert(f) \in givenUp
      <4>1. ~DeleteUnderWay(SourceOf[f]) /\ SourceOf[f] # s /\ SourceOf[f] \in Sources
        BY <1>3, <2>3 DEF Synchronised, Kept
      <4>2. QED BY <2>2, <2>3, <4>1 DEF Synchronised, Kept
    <3>2. QED BY <1>1, <2>1, <3>1 DEF Kept
  <2>7. QED BY <1>2, <2>5, <2>6 DEF Synchronised
<1>6. QED BY <1>4, <1>5

(* An INSERT takes effect, or fails, or is dropped.                        *)
LEMMA InsertStep ==
  ASSUME Typed, Synchronised, NEW f \in Files,
         UNCHANGED <<upload, announced, risky, kept, deletion, unheard, uploads, crossed>>,
         givenUp \subseteq givenUp',
         \A x : Holds(queue', x) => Holds(queue, x),
         \A x : Holds(queue, x) => Holds(queue', x) \/ x = Insert(f),
         \A s \in Sources : Delete(s) \in late' <=> Delete(s) \in late,
         \A g \in Files : Insert(g) \in late' => Explained(g),
         \A j \in Keys, g \in Files :
           indexing'[j] # NoEvent /\ indexing'[j] = Insert(g) => Explained(g),
         UNCHANGED served \/ (served' = Without(SourceOf[f]) \cup {f} /\ Explained(f)),
         Holds(queue, Insert(f)) =>
           \/ Holds(queue', Insert(f)) \/ Insert(f) \in givenUp' \/ f \in served'
  PROVE  Synchronised'
<1>1. served \subseteq Files /\ kept \subseteq Files /\ \A g \in Files : SourceOf[g] \in Sources
  BY NamesAreKeys DEF Typed, ApiTyped, EventsTyped
<1>2. \A s \in Sources : DeleteUnderWay(s)' <=> DeleteUnderWay(s)
  BY UnderWay, StillUnderWay, EventsDiffer
<1>3. \A g \in Files : Explained(g) => Explained(g)'
  BY <1>1, <1>2 DEF Explained
<1>4. SavedFirst'
  BY DEF Synchronised, SavedFirst
<1>5. Accounted'
  <2>1. ASSUME NEW g \in served' PROVE g \in Files /\ Explained(g)
    BY <1>1, <2>1 DEF Without, Synchronised, Accounted
  <2>2. \A g \in served' : Explained(g)'
    BY <1>3, <2>1
  <2>3. \A g \in Files : Insert(g) \in late' => Explained(g)'
    BY <1>3
  <2>4. \A j \in Keys, g \in Files :
          indexing'[j] # NoEvent /\ indexing'[j] = Insert(g) => Explained(g)'
    BY <1>3
  <2>5. QED BY <2>2, <2>3, <2>4 DEF Accounted
<1>6. ASSUME NEW g \in kept \ risky
      PROVE  /\ g \in uploads /\ ~DeleteUnderWay(SourceOf[g])'
             /\ g \in announced => \/ \E h \in served' : SourceOf[h] = SourceOf[g]
                                   \/ Holds(queue', Insert(g))
                                   \/ Insert(g) \in givenUp'
  <2>1. /\ g \in uploads /\ ~DeleteUnderWay(SourceOf[g]) /\ g \in Files
        /\ g \in announced => \/ \E h \in served : SourceOf[h] = SourceOf[g]
                              \/ Holds(queue, Insert(g))
                              \/ Insert(g) \in givenUp
    BY <1>1 DEF Synchronised, Kept
  <2>2. (\E h \in served : SourceOf[h] = SourceOf[g]) => \E h \in served' : SourceOf[h] = SourceOf[g]
    BY <1>1, <2>1 DEF Without
  <2>3. Holds(queue, Insert(g)) => \/ Holds(queue', Insert(g)) \/ Insert(g) \in givenUp'
                                   \/ \E h \in served' : SourceOf[h] = SourceOf[g]
    BY <2>1, EventsDiffer
  <2>4. QED BY <1>1, <1>2, <2>1, <2>2, <2>3
<1>7. Kept'
  BY <1>6 DEF Kept
<1>8. QED BY <1>4, <1>5, <1>7 DEF Synchronised

(* A DELETE takes effect, fails - perhaps when the PDFs are unlinked - and *)
(* is tried again, goes on without its client, or is given up.             *)
LEMMA DeleteStep ==
  ASSUME Typed, Synchronised, NEW s \in Sources, DeleteUnderWay(s),
         UNCHANGED <<upload, announced, risky, kept, deletion, unheard, indexing>>,
         givenUp \subseteq givenUp',
         \A x : Holds(queue', x) => Holds(queue, x),
         \A x : Holds(queue, x) => Holds(queue', x) \/ x = Delete(s),
         \A x : x # Delete(s) => (x \in late' <=> x \in late),
         uploads' = uploads \/ uploads' = Unlinked(s),
         \/ /\ served' = Without(s)
            /\ crossed' = IF BeingIndexed(s) THEN crossed \cup {s} ELSE crossed
         \/ UNCHANGED <<served, crossed>> /\ (Delete(s) \in givenUp' \/ DeleteUnderWay(s)')
  PROVE  Synchronised'
<1>1. served \subseteq Files /\ kept \subseteq Files /\ \A g \in Files : SourceOf[g] \in Sources
  BY NamesAreKeys DEF Typed, ApiTyped, EventsTyped
<1>2. \A t \in Sources : t # s => (DeleteUnderWay(t)' <=> DeleteUnderWay(t))
  BY UnderWay, StillUnderWay, EventsDiffer
<1>3. SavedFirst'
  BY DEF Synchronised, SavedFirst
<1>4. \A f \in Files : SourceOf[f] # s => (Explained(f) => Explained(f)')
  BY <1>1, <1>2 DEF Explained, Unlinked
<1>5. Accounted'
  <2>1. CASE /\ served' = Without(s)
             /\ crossed' = IF BeingIndexed(s) THEN crossed \cup {s} ELSE crossed
    <3>1. \A g \in served' : Explained(g)'
      BY <1>1, <1>4, <2>1 DEF Without, Synchronised, Accounted
    <3>2. ASSUME NEW g \in Files, SourceOf[g] = s, BeingIndexed(s) PROVE Explained(g)'
      BY <2>1, <3>2 DEF Explained
    <3>3. ASSUME NEW g \in Files, Insert(g) \in late' PROVE Explained(g)'
      <4>1. Insert(g) \in late
        BY <3>3, EventsDiffer
      <4>2. CASE SourceOf[g] = s
        <5>1. BeingIndexed(s)
          BY <4>1, <4>2 DEF BeingIndexed
        <5>2. QED BY <3>2, <4>2, <5>1
      <4>3. CASE SourceOf[g] # s
        BY <1>4, <4>1, <4>3 DEF Synchronised, Accounted
      <4>4. QED BY <4>2, <4>3
    <3>4. ASSUME NEW j \in Keys, NEW g \in Files, indexing'[j] # NoEvent, indexing'[j] = Insert(g)
          PROVE  Explained(g)'
      <4>1. CASE SourceOf[g] = s
        <5>1. BeingIndexed(s)
          BY <3>4, <4>1 DEF BeingIndexed
        <5>2. QED BY <3>2, <4>1, <5>1
      <4>2. CASE SourceOf[g] # s
        BY <1>4, <3>4, <4>2 DEF Synchronised, Accounted
      <4>3. QED BY <4>1, <4>2
    <3>5. QED BY <3>1, <3>3, <3>4 DEF Accounted
  <2>2. CASE UNCHANGED <<served, crossed>> /\ (Delete(s) \in givenUp' \/ DeleteUnderWay(s)')
    <3>1. \A f \in Files : Explained(f) => Explained(f)'
      BY <1>4, <2>2 DEF Explained
    <3>2. \A g \in Files : Insert(g) \in late' => Insert(g) \in late
      BY EventsDiffer
    <3>3. QED BY <1>1, <2>2, <3>1, <3>2 DEF Synchronised, Accounted
  <2>3. QED BY <2>1, <2>2
<1>6. ASSUME NEW g \in kept \ risky
      PROVE  /\ g \in uploads' /\ ~DeleteUnderWay(SourceOf[g])'
             /\ g \in announced => \/ \E h \in served' : SourceOf[h] = SourceOf[g]
                                   \/ Holds(queue', Insert(g))
                                   \/ Insert(g) \in givenUp'
  <2>1. /\ g \in uploads /\ ~DeleteUnderWay(SourceOf[g]) /\ g \in Files
        /\ g \in announced => \/ \E h \in served : SourceOf[h] = SourceOf[g]
                              \/ Holds(queue, Insert(g))
                              \/ Insert(g) \in givenUp
    BY <1>1 DEF Synchronised, Kept
  <2>2. SourceOf[g] # s /\ SourceOf[g] \in Sources /\ Insert(g) # Delete(s)
    BY <1>1, <2>1, EventsDiffer
  <2>3. QED BY <1>1, <1>2, <2>1, <2>2 DEF Without, Unlinked
<1>7. Kept'
  BY <1>6 DEF Kept
<1>8. QED BY <1>3, <1>5, <1>7 DEF Synchronised

LEMMA ConsumerSynchronised ==
  ASSUME Typed, Synchronised, NEW k \in Keys, Consumer(k)
  PROVE  Synchronised'
<1> DEFINE e == Head(queue[k])
<1> EventsTyped /\ ApiTyped
  BY DEF Typed
<1>1. UNCHANGED <<upload, announced, risky, kept, deletion, unheard>>
  BY DEF Consumer, ReadPdf, UpsertPdf, DeleteSource, api, promise
<1>2. /\ queue[k] # << >>
      /\ \A x : Holds(queue', x) => Holds(queue, x)
      /\ \A x : Holds(queue, x) => Holds(queue', x) \/ x = e
  BY ConsumerStep, DoneIsDropped
<1>3. Holds(queue, e)
  BY <1>2, HeadIsEvent DEF Holds
<1>4. givenUp \subseteq givenUp'
  BY DEF Consumer, ReadPdf, UpsertPdf, DeleteSource, Succeeded, Failed, GivenUp
<1>5. Failed(k) => UNCHANGED queue \/ e \in givenUp'
  BY DEF Failed, GivenUp
<1>6. CASE ReadPdf(k)
  <2>1. /\ indexing[k] = NoEvent /\ e.op = "INSERT"
        /\ UNCHANGED <<uploads, late, served, crossed>>
    BY <1>6, ConsumerStep DEF ReadPdf, api
  <2>2. PICK f \in Files : e = Insert(f) /\ e.file = f
    BY <1>2, <2>1, HeadIsEvent
  <2>3. \/ f \in uploads /\ indexing' = [indexing EXCEPT ![k] = e] /\ UNCHANGED queue
        \/ UNCHANGED indexing /\ (UNCHANGED queue \/ e \in givenUp')
    BY <1>5, <1>6, <2>2 DEF ReadPdf, GivenUp
  <2>4. ASSUME NEW j \in Keys, NEW g \in Files, indexing'[j] # NoEvent, indexing'[j] = Insert(g)
        PROVE  Explained(g)
    <3>1. CASE indexing'[j] = indexing[j]
      BY <2>4, <3>1 DEF Synchronised, Accounted
    <3>2. CASE indexing'[j] # indexing[j]
      <4>1. f \in uploads /\ indexing'[j] = Insert(f)
        BY <2>2, <2>3, <3>2 DEF EventsTyped
      <4>2. g = f
        BY <2>4, <4>1, EventsDiffer
      <4>3. QED BY <4>1, <4>2 DEF Explained
    <3>3. QED BY <3>1, <3>2
  <2>5. \A g \in Files : Insert(g) \in late' => Explained(g)
    BY <2>1 DEF Synchronised, Accounted
  <2>6. Holds(queue, Insert(f)) => Holds(queue', Insert(f)) \/ Insert(f) \in givenUp'
    BY <2>2, <2>3
  <2>7. QED BY <1>1, <1>2, <1>4, <2>1, <2>2, <2>4, <2>5, <2>6, InsertStep
<1>7. CASE UpsertPdf(k)
  <2>1. indexing[k] = e /\ indexing[k] # NoEvent /\ e.op = "INSERT" /\ UNCHANGED <<uploads, crossed>>
    BY <1>7, ConsumerStep DEF UpsertPdf, api
  <2>2. PICK f \in Files : e = Insert(f) /\ e.file = f /\ e.source = SourceOf[f]
    BY <1>2, <2>1, HeadIsEvent
  <2>3. /\ UNCHANGED served \/ served' = Without(SourceOf[f]) \cup {f}
        /\ UNCHANGED late \/ late' = late \cup {e}
        /\ \/ served' = Without(SourceOf[f]) \cup {f}
           \/ UNCHANGED queue \/ e \in givenUp'
    BY <1>5, <1>7, <2>1, <2>2 DEF UpsertPdf, Replaced, Succeeded
  <2>4. indexing' = [indexing EXCEPT ![k] = NoEvent]
    BY <1>7 DEF UpsertPdf
  <2>5. Explained(f)
    BY <2>1, <2>2 DEF Synchronised, Accounted
  <2>6. ASSUME NEW j \in Keys, NEW g \in Files, indexing'[j] # NoEvent, indexing'[j] = Insert(g)
        PROVE  Explained(g)
    <3>1. j # k /\ indexing'[j] = indexing[j]
      BY <2>4, <2>6 DEF EventsTyped
    <3>2. QED BY <2>6, <3>1 DEF Synchronised, Accounted
  <2>7. \A g \in Files : Insert(g) \in late' => Explained(g)
    BY <2>2, <2>3, <2>5, EventsDiffer DEF Synchronised, Accounted
  <2>8. \A s \in Sources : Delete(s) \in late' <=> Delete(s) \in late
    BY <2>2, <2>3, EventsDiffer
  <2>9. Holds(queue, Insert(f)) =>
          Holds(queue', Insert(f)) \/ Insert(f) \in givenUp' \/ f \in served'
    BY <2>2, <2>3
  <2>10. QED BY <1>1, <1>2, <1>4, <2>1, <2>2, <2>3, <2>5, <2>6, <2>7, <2>8, <2>9, InsertStep
<1>8. CASE DeleteSource(k)
  <2>1. e.op = "DELETE" /\ UNCHANGED indexing
    BY <1>8, ConsumerStep DEF DeleteSource
  <2>2. PICK s \in Sources : e = Delete(s) /\ e.source = s
    BY <1>2, <2>1, HeadIsEvent
  <2>3. DeleteUnderWay(s)
    BY <1>3, <2>2, UnderWay
  <2>4. /\ uploads' = uploads \/ uploads' = Unlinked(s)
        /\ UNCHANGED late \/ late' = late \cup {Delete(s)}
        /\ \/ /\ served' = Without(s)
              /\ crossed' = IF BeingIndexed(s) THEN crossed \cup {s} ELSE crossed
           \/ UNCHANGED <<served, crossed>> /\ (UNCHANGED queue \/ e \in givenUp')
    BY <1>5, <1>8, <2>2 DEF DeleteSource, Deleted, DeletedFromIndex, Succeeded
  <2>5. UNCHANGED queue => DeleteUnderWay(s)'
    BY <1>3, <2>2, StillUnderWay
  <2>6. QED BY <1>1, <1>2, <1>4, <2>1, <2>2, <2>3, <2>4, <2>5, DeleteStep
<1>9. QED BY <1>6, <1>7, <1>8 DEF Consumer

LEMMA LateSynchronised ==
  ASSUME Typed, Synchronised, NEW e \in late, LateCall(e)
  PROVE  Synchronised'
<1>1. /\ UNCHANGED <<upload, announced, risky, kept, deletion, unheard, queue, indexing, givenUp>>
      /\ late' = late \ {e}
  BY DEF LateCall, promise
<1>2. \A x : Holds(queue', x) <=> Holds(queue, x)
  BY <1>1
<1>3. e \in Events
  BY DEF Typed, EventsTyped
<1>4. CASE e.op = "INSERT"
  <2>1. PICK f \in Files : e = Insert(f) /\ e.file = f /\ e.source = SourceOf[f]
    BY <1>3, <1>4 DEF Events, Insert, Delete
  <2>2. served' = Without(SourceOf[f]) \cup {f} /\ UNCHANGED <<uploads, crossed>>
    BY <1>4, <2>1 DEF LateCall, Replaced
  <2>3. Explained(f)
    BY <2>1 DEF Synchronised, Accounted
  <2>4. /\ \A s \in Sources : Delete(s) \in late' <=> Delete(s) \in late
        /\ \A g \in Files : Insert(g) \in late' => Explained(g)
        /\ \A j \in Keys, g \in Files :
             indexing'[j] # NoEvent /\ indexing'[j] = Insert(g) => Explained(g)
    BY <1>1, <2>1, EventsDiffer DEF Synchronised, Accounted
  <2>5. QED BY <1>1, <1>2, <2>2, <2>3, <2>4, InsertStep
<1>5. CASE e.op = "DELETE"
  <2>1. PICK s \in Sources : e = Delete(s) /\ e.source = s
    BY <1>3, <1>5 DEF Events, Insert, Delete
  <2>2. /\ uploads' = Unlinked(s) /\ served' = Without(s)
        /\ crossed' = IF BeingIndexed(s) THEN crossed \cup {s} ELSE crossed
    BY <1>5, <2>1 DEF LateCall, Deleted, DeletedFromIndex
  <2>3. DeleteUnderWay(s)
    BY <2>1, UnderWay
  <2>4. QED BY <1>1, <1>2, <2>1, <2>2, <2>3, DeleteStep
<1>6. QED BY <1>4, <1>5 DEF LateCall

LEMMA SynchronisedNext ==
  ASSUME Typed, Appends, Synchronised, [Next]_vars
  PROVE  Synchronised'
<1> ApiTyped /\ TasksTyped /\ EventsTyped
  BY DEF Typed
<1>1. ASSUME UNCHANGED <<events, deletion, announced, unheard, kept, risky, uploads>>,
             \A f \in Files : upload'[f] \in {"new", "locked"} => upload[f] \in {"new", "locked"}
      PROVE  Synchronised'
  BY <1>1, SavedSynchronised
<1>2. ASSUME NEW f \in Files, SyncUpload(f) \/ AsyncUpload(f) PROVE Synchronised'
  <2>1. /\ upload[f] \in {"new", "locked"} \/ upload'[f] \notin {"new", "locked"}
        /\ \A g \in Files \ {f} : upload'[g] = upload[g]
    BY <1>2, GoesOn DEF SyncUpload, AsyncUpload, AcquireLock, IndexUpload, AnnounceUpload,
                        ReleaseLock, AcceptUpload, Dispatch, Commit
  <2>2. \A g \in Files : upload'[g] \in {"new", "locked"} => upload[g] \in {"new", "locked"}
    BY <2>1
  <2>3. CASE AcquireLock(f) \/ ReleaseLock(f) \/ Dispatch(f) \/ Commit(f)
    BY <1>1, <2>2, <2>3 DEF AcquireLock, ReleaseLock, Dispatch, Commit, promise
  <2>4. CASE IndexUpload(f) \/ AcceptUpload(f)
    <3>1. /\ Saved(f) /\ UNCHANGED <<events, deletion>>
          /\ upload[f] \in {"new", "locked"}
      BY <2>4, GoesOn DEF IndexUpload, AcceptUpload
    <3>2. QED BY <2>2, <3>1, SavedSynchronised DEF Saved
  <2>5. CASE AnnounceUpload(f)
    <3>1. /\ PublishInsert(f, DocumentId(f)) /\ UNCHANGED <<uploads, deletion>>
          /\ upload[f] = "indexed"
      BY <2>5, GoesOn DEF AnnounceUpload
    <3>2. QED BY <2>2, <3>1, InsertSynchronised, NamesAreKeys
  <2>6. QED BY <1>2, <2>3, <2>4, <2>5 DEF SyncUpload, AsyncUpload
<1>3. ASSUME NEW f \in Files, AnnounceTask(f) PROVE Synchronised'
  <2>1. PublishInsert(f, f) /\ UNCHANGED <<uploads, upload, deletion>> /\ task[f].at = "added"
    BY <1>3 DEF AnnounceTask, Steps, api
  <2>2. upload[f] \notin {"new", "locked"}
    BY <2>1 DEF Appends
  <2>3. QED BY <2>1, <2>2, InsertSynchronised, NamesAreKeys
<1>4. ASSUME NEW f \in Files,
             \/ StartTask(f) \/ AddPdf(f) \/ Succeed(f) \/ Fail(f) \/ WorkerLost(f) \/ HardLimit(f)
      PROVE  Synchronised'
  <2>1. UNCHANGED <<api, deletion, events, promise>>
    BY <1>4 DEF StartTask, AddPdf, Succeed, Fail, WorkerLost, HardLimit
  <2>2. QED BY <1>1, <2>1 DEF api, promise
<1>5. ASSUME NEW s \in Sources, LockExpires(s) PROVE Synchronised'
  BY <1>1, <1>5 DEF LockExpires, promise
<1>6. ASSUME CleanUp \/ UNCHANGED vars PROVE Synchronised'
  BY <1>1, <1>6 DEF CleanUp, vars, api, promise
<1>7. QED BY <1>2, <1>3, <1>4, <1>5, <1>6, DeletionSynchronised, ConsumerSynchronised,
          LateSynchronised DEF Next, Task

LEMMA EventsStaySynchronised == Spec => [](Typed /\ Synchronised)
<1>1. Init => Appends /\ Synchronised
  <2> SUFFICES ASSUME Init PROVE Appends /\ Synchronised
    OBVIOUS
  <2>1. Appends /\ SavedFirst /\ Kept
    BY DEF Init, Appends, Ahead, SavedFirst, Kept
  <2>2. Accounted
    BY DEF Init, Accounted
  <2>3. QED BY <2>1, <2>2 DEF Synchronised
<1>2. Typed /\ Appends /\ Synchronised /\ [Next]_vars => Appends' /\ Synchronised'
  BY AppendsNext, SynchronisedNext
<1>3. QED BY <1>1, <1>2, InitTyped, NextTyped, PTL DEF Spec

(* Nothing is under way.                                                   *)
LEMMA NothingUnderWay ==
  ASSUME Typed, Drained
  PROVE  /\ \A s \in Sources : ~DeleteUnderWay(s)
         /\ \A x : ~Holds(queue, x)
<1>1. \A k \in Keys : DOMAIN queue[k] = {}
  BY DEF Drained
<1>2. QED BY <1>1, UnderWay DEF Drained, Holds, In

(* Once the events are handled, whatever the gRPC server has indexed has   *)
(* its PDF on the disk, unless a deletion was not announced, was           *)
(* dead-lettered or crossed an INSERT that was being indexed.              *)
THEOREM IndexHasNoOrphans == Spec => []NoOrphans
<1>1. Typed /\ Synchronised => NoOrphans
  <2> SUFFICES ASSUME Typed, Synchronised, Drained, NEW f \in served
      PROVE \/ f \in uploads
            \/ SourceOf[f] \in unheard \cup crossed
            \/ Delete(SourceOf[f]) \in givenUp
    BY DEF NoOrphans
  <2>1. Explained(f) /\ SourceOf[f] \in Sources
    BY NamesAreKeys DEF Synchronised, Accounted, Typed, EventsTyped
  <2>2. QED BY <2>1, NothingUnderWay DEF Explained
<1>2. QED BY <1>1, EventsStaySynchronised, PTL

(* A document that is uploaded, not deleted since, and came when no        *)
(* deletion of an earlier copy was under way, stays on the disk and, if it *)
(* was announced, ends up served or its event in the dead-letter topic.    *)
THEOREM UploadsAreKept == Spec => []UploadsSurvive
<1>1. Typed /\ Synchronised => UploadsSurvive
  BY NothingUnderWay DEF UploadsSurvive, Synchronised, Kept
<1>2. QED BY <1>1, EventsStaySynchronised, PTL
=============================================================================
