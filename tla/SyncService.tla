----------------------------- MODULE SyncService -----------------------------
(***************************************************************************)
(* The Kafka consumers of sync-service/internal: a consumer group reads one*)
(* partition of the document topic, applies every row of a record through  *)
(* the gRPC method IndexDocument under a Redis lock per document, retries, *)
(* transfers what keeps failing to a dead-letter topic, and commits the    *)
(* offset.                                                                 *)
(*                                                                         *)
(* Records are numbered 1, 2, ...; the committed offset is modelled as the *)
(* number of records it covers.  Kafka, Redis and the RAG server are the   *)
(* environment: they answer, fail, or answer too late.                     *)
(***************************************************************************)
EXTENDS DocumentChanges, Integers, FiniteSets

CONSTANTS
  Consumers,          \* the replicas of the Sync Service
  Documents,          \* the document ids
  Tokens,             \* lock tokens; a random token is one nobody knows yet
  Log,                \* the partition: a sequence of records
  Retries,            \* cfg.Retries
  NoOne, NoToken,     \* no owner, no token
  DlqMayFail,         \* may the publication to the dead-letter topic fail?
  MaxCrashes,         \* bound: crashes and graceful stops
  MaxRebalances       \* bound: reassignments away from a live owner

Offsets    == DOMAIN Log
DecodedLog == [m \in Offsets |-> decodeDocumentChanges(Log[m])]
Decoded(m) == DecodedLog[m]
RowsOf(m)  == DOMAIN Decoded(m).changes
DocumentOf(m, r) == Decoded(m).changes[r].document_id
SourceAt(m, r)   == Decoded(m).changes[r].source
Sources          == UNION {{SourceAt(m, r) : r \in RowsOf(m)} : m \in Offsets}

ASSUME ConsumersAssumption == NoOne \notin Consumers
ASSUME TokensAssumption    == NoToken \notin Tokens
ASSUME RetriesAssumption   == Retries \in Nat \ {0}
ASSUME BoundsAssumption    == MaxCrashes \in Nat /\ MaxRebalances \in Nat
ASSUME SwitchesAssumption  == DlqMayFail \in BOOLEAN
(* decodeDocumentChanges gives each record a verdict; an accepted record   *)
(* has at least one row and every row names a document.                    *)
ASSUME LogAssumption ==
  /\ Len(Log) \in Nat /\ Offsets = 1..Len(Log)
  /\ \A m \in Offsets :
       /\ Decoded(m).verdict \in {"changes", "error", "ignored"}
       /\ Decoded(m).verdict = "changes" =>
            /\ Len(Decoded(m).changes) \in Nat \ {0}
            /\ RowsOf(m) = 1..Len(Decoded(m).changes)
            /\ \A r \in RowsOf(m) : DocumentOf(m, r) \in Documents

NoCall == [m |-> 0, r |-> 0]

VARIABLES
  pc,         \* what each consumer is doing
  stopping,   \* consumers whose context SIGTERM has cancelled
  msg,        \* the record each consumer holds
  row,        \* the row of it being applied
  attempt,    \* the attempt of handleWithRetry
  token,      \* the token of the lock the consumer took
  succeeded,  \* did the RPC of this row succeed?
  owner,      \* the consumer the partition is assigned to
  position,   \* how far the owner's reader has fetched
  committed,  \* the group's committed offset
  dlq,        \* the records in the dead-letter topic
  lock,       \* the Redis key of each document
  call,       \* the IndexDocument call made under each token, if it still runs
  applied,    \* history: the rows IndexDocument reported as applied
  index,      \* the last record whose row took effect on each source
  lost,       \* history: records abandoned when their dead-lettering failed
  overdue,    \* history: the running calls whose lease is over, or whose client
              \*   stopped waiting after its five minutes
  disturbed,  \* history: did a call become overdue, or did a consumer lose the
              \*   partition with a record in its hands?
  crashes, rebalances

consumerVars == <<pc, stopping, msg, row, attempt, token, succeeded>>
kafkaVars    == <<owner, position, committed, dlq>>
serverVars   == <<call, applied, index>>
timeVars     == <<overdue, disturbed>>
boundVars    == <<crashes, rebalances>>
vars == <<consumerVars, kafkaVars, lock, serverVars, lost, timeVars, boundVars>>

Live(c)  == pc[c] # "down"
Busy(c)  == pc[c] \notin {"down", "idle"}

(* A 128-bit random token is never one that is still referred to.          *)
Fresh(t) ==
  /\ call[t] = NoCall
  /\ \A d \in Documents : lock[d] # t
  /\ \A c \in Consumers : token[c] # t

Init ==
  /\ pc        = [c \in Consumers |-> "idle"]
  /\ stopping  = [c \in Consumers |-> FALSE]
  /\ msg       = [c \in Consumers |-> 0]
  /\ row       = [c \in Consumers |-> 0]
  /\ attempt   = [c \in Consumers |-> 0]
  /\ token     = [c \in Consumers |-> NoToken]
  /\ succeeded = [c \in Consumers |-> FALSE]
  /\ owner = NoOne
  /\ position = 0
  /\ committed = 0
  /\ dlq = {}
  /\ lock = [d \in Documents |-> NoToken]
  /\ call = [t \in Tokens |-> NoCall]
  /\ applied = {}
  /\ index = [s \in Sources |-> 0]
  /\ lost = {}
  /\ overdue = {}
  /\ disturbed = FALSE
  /\ crashes = 0
  /\ rebalances = 0

-----------------------------------------------------------------------------
(* Consume and handleWithRetry                                             *)

(* FetchMessage advances the reader whether or not anything is committed.  *)
FetchMessage(c) ==
  /\ pc[c] = "idle"
  /\ ~stopping[c]
  /\ owner = c
  /\ position + 1 \in Offsets
  /\ position' = position + 1
  /\ msg'      = [msg EXCEPT ![c] = position + 1]
  /\ attempt'  = [attempt EXCEPT ![c] = 1]
  /\ pc'       = [pc EXCEPT ![c] = "process"]
  /\ UNCHANGED <<stopping, row, token, succeeded, owner, committed, dlq, lock,
                 serverVars, lost, timeVars, boundVars>>

(* The loop goes round: the locals of this record are out of scope.        *)
NextIteration(c, where) ==
  /\ pc'      = [pc EXCEPT ![c] = where]
  /\ msg'     = [msg EXCEPT ![c] = 0]
  /\ attempt' = [attempt EXCEPT ![c] = 0]
  /\ row'     = [row EXCEPT ![c] = 0]
  /\ succeeded' = [succeeded EXCEPT ![c] = FALSE]

(* Mutants: a failing record is committed, forgotten, retried for ever.    *)
AfterFailureCommits(c) == "commit"
AfterFailureForgets(c) == "idle"
AfterFailureRetries(c) == "backoff"

(* Where an attempt that failed leads.                                     *)
AfterFailure(c) == IF attempt[c] < Retries THEN "backoff" ELSE "dlq"

(* process decodes the record on every attempt, and starts at its first row.*)
Process(c) ==
  /\ pc[c] = "process"
  /\ \/ /\ Decoded(msg[c]).verdict = "changes"
        /\ row' = [row EXCEPT ![c] = 1]
        /\ pc'  = [pc EXCEPT ![c] = "lock"]
     \/ /\ Decoded(msg[c]).verdict = "ignored"
        /\ pc' = [pc EXCEPT ![c] = "commit"]
        /\ UNCHANGED row
     \/ /\ Decoded(msg[c]).verdict = "error"
        /\ pc' = [pc EXCEPT ![c] = AfterFailure(c)]
        /\ UNCHANGED row
  /\ UNCHANGED <<stopping, msg, attempt, token, succeeded, kafkaVars, lock,
                 serverVars, lost, timeVars, boundVars>>

Backoff(c) ==
  /\ pc[c] = "backoff"
  /\ \/ /\ attempt' = [attempt EXCEPT ![c] = @ + 1]
        /\ pc' = [pc EXCEPT ![c] = "process"]
     \/ /\ stopping[c]
        /\ pc' = [pc EXCEPT ![c] = "dlq"]
        /\ UNCHANGED attempt
  /\ UNCHANGED <<stopping, msg, row, token, succeeded, kafkaVars, lock,
                 serverVars, lost, timeVars, boundVars>>

(* sendDLQ wraps the record as raw JSON: one that is not JSON never gets   *)
(* through.  A failed publication may still have reached the broker.       *)
SendDLQ(c) ==
  /\ pc[c] = "dlq"
  /\ ~stopping[c]
  /\ Log[msg[c]].json
  /\ dlq' = dlq \cup {msg[c]}
  /\ pc'  = [pc EXCEPT ![c] = "commit"]
  /\ UNCHANGED <<stopping, msg, row, attempt, token, succeeded, owner, position,
                 committed, lock, serverVars, lost, timeVars, boundVars>>

SendDLQFails(c) ==
  /\ pc[c] = "dlq"
  /\ DlqMayFail \/ stopping[c] \/ ~Log[msg[c]].json
  /\ dlq'  \in {dlq} \cup (IF Log[msg[c]].json THEN {dlq \cup {msg[c]}} ELSE {})
  /\ lost' = IF stopping[c] THEN lost ELSE lost \cup {msg[c]}
  /\ NextIteration(c, "idle")
  /\ UNCHANGED <<stopping, token, owner, position, committed, lock, serverVars,
                 timeVars, boundVars>>

(* The commit is not fenced: a consumer that lost the partition can move   *)
(* the offset too, backwards included.  A failed commit is only logged.    *)
CommitMessages(c) ==
  /\ pc[c] = "commit"
  /\ committed' \in {committed, msg[c]}
  /\ NextIteration(c, "idle")
  /\ UNCHANGED <<stopping, token, owner, position, dlq, lock, serverVars, lost,
                 timeVars, boundVars>>

-----------------------------------------------------------------------------
(* syncDocument: lock, call, unlock                                        *)

Doc(c) == DocumentOf(msg[c], row[c])

(* Mutant: the lock is set without NX.                                     *)
UnlockedAlways(d) == TRUE

Unlocked(d) == lock[d] = NoToken

(* SetNX with a fresh token succeeds, and the RPC goes out.                *)
AcquireAndCall(c, t) ==
  /\ pc[c] = "lock"
  /\ ~stopping[c]
  /\ Fresh(t)
  /\ Unlocked(Doc(c))
  /\ lock'  = [lock EXCEPT ![Doc(c)] = t]
  /\ token' = [token EXCEPT ![c] = t]
  /\ call'  = [call EXCEPT ![t] = [m |-> msg[c], r |-> row[c]]]
  /\ pc'    = [pc EXCEPT ![c] = "wait"]
  /\ UNCHANGED <<stopping, msg, row, attempt, succeeded, kafkaVars, applied, index,
                 lost, timeVars, boundVars>>

(* The key exists, or Redis fails - after it has set the key, perhaps.     *)
AcquireFails(c) ==
  /\ pc[c] = "lock"
  /\ \/ UNCHANGED lock
     \/ /\ Unlocked(Doc(c))
        /\ \E t \in Tokens : Fresh(t) /\ lock' = [lock EXCEPT ![Doc(c)] = t]
  /\ row' = [row EXCEPT ![c] = 0]
  /\ pc'  = [pc EXCEPT ![c] = AfterFailure(c)]
  /\ UNCHANGED <<stopping, msg, attempt, token, succeeded, kafkaVars, serverVars, lost,
                 timeVars, boundVars>>

(* The five minutes are over, or the context is cancelled.  The server's   *)
(* thread does not notice.                                                 *)
GiveUp(c) ==
  /\ pc[c] = "wait"
  /\ succeeded' = [succeeded EXCEPT ![c] = FALSE]
  /\ pc' = [pc EXCEPT ![c] = "release"]
  /\ overdue' = IF stopping[c] THEN overdue ELSE overdue \cup {token[c]}
  /\ disturbed' = (disturbed \/ ~stopping[c])
  /\ UNCHANGED <<stopping, msg, row, attempt, token, kafkaVars, lock, serverVars,
                 lost, boundVars>>

(* Mutant: a plain DEL, without comparing the token.                       *)
DeleteAny(c) == [lock EXCEPT ![Doc(c)] = NoToken]

(* The compare-and-delete script: only the key that holds our token goes.  *)
DeleteIfMine(c) ==
  IF lock[Doc(c)] = token[c] THEN [lock EXCEPT ![Doc(c)] = NoToken] ELSE lock

(* Mutant: process ignores the error of a row and goes on.                 *)
RowDoneRegardless(c) == TRUE

(* Did syncDocument return nil?                                            *)
RowDone(c) == succeeded[c]

(* The deferred Release, then the next row, the commit or the next attempt.*)
Release(c) ==
  /\ pc[c] = "release"
  /\ lock' \in {lock} \cup (IF stopping[c] THEN {} ELSE {DeleteIfMine(c)})
  /\ token' = [token EXCEPT ![c] = NoToken]
  /\ succeeded' = [succeeded EXCEPT ![c] = FALSE]
  /\ \/ /\ ~RowDone(c)
        /\ row' = [row EXCEPT ![c] = 0]
        /\ pc'  = [pc EXCEPT ![c] = AfterFailure(c)]
     \/ /\ RowDone(c)
        /\ row[c] + 1 \in RowsOf(msg[c])
        /\ row' = [row EXCEPT ![c] = @ + 1]
        /\ pc'  = [pc EXCEPT ![c] = "lock"]
     \/ /\ RowDone(c)
        /\ row[c] + 1 \notin RowsOf(msg[c])
        /\ row' = [row EXCEPT ![c] = 0]
        /\ pc'  = [pc EXCEPT ![c] = "commit"]
  /\ UNCHANGED <<stopping, msg, attempt, kafkaVars, serverVars, lost, timeVars, boundVars>>

-----------------------------------------------------------------------------
(* The RAG server and Redis (external)                                     *)

Waits(c, t) == pc[c] = "wait" /\ token[c] = t

(* A call ends: it took effect and says so, or it reports an error before  *)
(* or after it took effect.  A client that gave up hears nothing.          *)
Serve(t) ==
  /\ call[t] # NoCall
  /\ LET m == call[t].m
         r == call[t].r
         took == [index EXCEPT ![SourceAt(m, r)] = m]
     IN  \E ok \in BOOLEAN :
           /\ applied' = IF ok THEN applied \cup {<<m, r>>} ELSE applied
           /\ index' \in {took} \cup (IF ok THEN {} ELSE {index})
           /\ succeeded' = [c \in Consumers |-> IF Waits(c, t) THEN ok ELSE succeeded[c]]
  /\ pc' = [c \in Consumers |-> IF Waits(c, t) THEN "release" ELSE pc[c]]
  /\ call' = [call EXCEPT ![t] = NoCall]
  /\ overdue' = overdue \ {t}
  /\ UNCHANGED <<stopping, msg, row, attempt, token, kafkaVars, lock, lost, disturbed,
                 boundVars>>

(* Mutant: the key is set without a TTL.                                   *)
LockExpiresNever(d) == FALSE /\ UNCHANGED vars

(* Redis drops the key when its TTL is over, whatever its holder is doing. *)
LockExpires(d) ==
  /\ lock[d] # NoToken
  /\ lock' = [lock EXCEPT ![d] = NoToken]
  /\ overdue' = IF call[lock[d]] = NoCall THEN overdue ELSE overdue \cup {lock[d]}
  /\ disturbed' = (disturbed \/ call[lock[d]] # NoCall)
  /\ UNCHANGED <<consumerVars, kafkaVars, serverVars, lost, boundVars>>

-----------------------------------------------------------------------------
(* Processes and the consumer group                                        *)

(* A process ends: its memory is gone and it leaves the group, but its lock*)
(* and its call on the server stay behind.                                 *)
Ends(c) ==
  /\ NextIteration(c, "down")
  /\ stopping' = [stopping EXCEPT ![c] = FALSE]
  /\ token'    = [token EXCEPT ![c] = NoToken]
  /\ owner'    = IF owner = c THEN NoOne ELSE owner
  /\ UNCHANGED <<position, committed, dlq, lock, serverVars, lost, timeVars>>

Crash(c) ==
  /\ Live(c)
  /\ crashes < MaxCrashes
  /\ crashes' = crashes + 1
  /\ Ends(c)
  /\ UNCHANGED rebalances

(* SIGTERM cancels the context the consumer runs under.                    *)
Stop(c) ==
  /\ Live(c)
  /\ ~stopping[c]
  /\ crashes < MaxCrashes
  /\ crashes'  = crashes + 1
  /\ stopping' = [stopping EXCEPT ![c] = TRUE]
  /\ UNCHANGED <<pc, msg, row, attempt, token, succeeded, kafkaVars, lock, serverVars,
                 lost, timeVars, rebalances>>

(* main does not wait for the consumer goroutine.                          *)
Exit(c) ==
  /\ stopping[c]
  /\ Ends(c)
  /\ UNCHANGED boundVars

Restart(c) ==
  /\ ~Live(c)
  /\ pc' = [pc EXCEPT ![c] = "idle"]
  /\ UNCHANGED <<stopping, msg, row, attempt, token, succeeded, kafkaVars, lock,
                 serverVars, lost, timeVars, boundVars>>

(* The group assigns the partition; the reader of the assignee starts at   *)
(* the committed offset, even if it had fetched further.                   *)
AssignTo(c) ==
  /\ Live(c)
  /\ ~stopping[c]
  /\ owner'    = c
  /\ position' = committed
  /\ UNCHANGED <<consumerVars, committed, dlq, lock, serverVars, lost, overdue, crashes>>

Assign(c) == owner = NoOne /\ AssignTo(c) /\ UNCHANGED <<rebalances, disturbed>>

(* The owner is alive; it may not know for a while that it is no owner.    *)
Rebalance(c) ==
  /\ owner # NoOne
  /\ rebalances < MaxRebalances
  /\ rebalances' = rebalances + 1
  /\ disturbed' = (disturbed \/ Busy(owner))
  /\ AssignTo(c)

(* Nothing left to fetch or to finish: FetchMessage blocks.                *)
Drained ==
  /\ owner # NoOne
  /\ position + 1 \notin Offsets
  /\ \A c \in Consumers : pc[c] = "idle" /\ ~stopping[c]
  /\ \A t \in Tokens : call[t] = NoCall
  /\ \A d \in Documents : lock[d] = NoToken

AwaitMessage == Drained /\ UNCHANGED vars

Step(c) ==
  \/ FetchMessage(c) \/ Process(c) \/ Backoff(c)
  \/ SendDLQ(c) \/ SendDLQFails(c) \/ CommitMessages(c)
  \/ \E t \in Tokens : AcquireAndCall(c, t)
  \/ AcquireFails(c) \/ Release(c)

Next ==
  \/ \E c \in Consumers :
       Step(c) \/ GiveUp(c) \/ Crash(c) \/ Stop(c) \/ Exit(c) \/ Restart(c)
         \/ Assign(c) \/ Rebalance(c)
  \/ \E t \in Tokens : Serve(t)
  \/ \E d \in Documents : LockExpires(d)
  \/ AwaitMessage

Spec == Init /\ [][Next]_vars

(* The consumer goroutine runs, the server's calls end (or the client's    *)
(* timer fires), Redis expires keys, a stopped pod exits and is replaced,  *)
(* and the group coordinator assigns an unowned partition to a live member.*)
(* Crashes, stops and voluntary rebalances are never forced.               *)
Fairness ==
  /\ \A c \in Consumers : WF_vars(Step(c)) /\ WF_vars(Exit(c)) /\ WF_vars(Restart(c))
  /\ \A t \in Tokens : WF_vars(Serve(t))
  /\ \A d \in Documents : WF_vars(LockExpires(d))
  /\ WF_vars(\E c \in Consumers : Assign(c))

FairSpec == Spec /\ Fairness

-----------------------------------------------------------------------------
(* Type correctness: a busy consumer holds a record and an attempt number  *)
(* within Retries, and inside syncDocument a row of an accepted record.    *)
TypeOK ==
  /\ pc \in [Consumers -> {"down", "idle", "process", "backoff", "lock", "wait",
                            "release", "dlq", "commit"}]
  /\ stopping \in [Consumers -> BOOLEAN]
  /\ msg \in [Consumers -> Offsets \cup {0}]
  /\ row \in [Consumers -> Nat]
  /\ attempt \in [Consumers -> 0..Retries]
  /\ token \in [Consumers -> Tokens \cup {NoToken}]
  /\ succeeded \in [Consumers -> BOOLEAN]
  /\ owner \in Consumers \cup {NoOne}
  /\ {position, committed} \subseteq Offsets \cup {0}
  /\ dlq \subseteq Offsets
  /\ lock \in [Documents -> Tokens \cup {NoToken}]
  /\ call \in [Tokens -> [m : Offsets \cup {0}, r : Nat]]
  /\ applied \subseteq Offsets \X Nat
  /\ index \in [Sources -> Offsets \cup {0}]
  /\ lost \subseteq Offsets
  /\ overdue \subseteq Tokens /\ disturbed \in BOOLEAN
  /\ crashes \in 0..MaxCrashes /\ rebalances \in 0..MaxRebalances
  /\ \A c \in Consumers : Busy(c) => msg[c] \in Offsets /\ attempt[c] >= 1
  /\ \A c \in Consumers : pc[c] \in {"lock", "wait", "release"} => row[c] \in RowsOf(msg[c])
  /\ \A c \in Consumers : pc[c] = "wait" => token[c] \in Tokens
  /\ \A t \in Tokens : call[t] # NoCall =>
       call[t].m \in Offsets /\ call[t].r \in RowsOf(call[t].m)

(* What docs/architecture.md:22 asks of a record before its offset may be  *)
(* committed: every row is indexed, or it is in the dead-letter topic, or  *)
(* there was nothing to index.                                             *)
Settled(m) ==
  \/ Decoded(m).verdict = "ignored"
  \/ Decoded(m).verdict = "changes" /\ \A r \in RowsOf(m) : <<m, r>> \in applied
  \/ m \in dlq

(* The same, or Consume gave the record up after its dead-lettering failed.*)
Handled(m) == Settled(m) \/ m \in lost

(* The comment at service.go:126 and docs/pitfall.md:3: no crash, rebalance*)
(* or failed call lets the committed offset pass a record that is neither  *)
(* indexed nor in the dead-letter topic.                                   *)
CommittedIsSettled == \A m \in 1..committed : Settled(m)

(* The documents a record is about, read off the raw record.               *)
Carried(value) ==
  ({value.compact.source} \ {Missing}) \cup
    {value.data[i].source : i \in IF value.isDdl THEN {} ELSE DOMAIN value.data}

(* document.go:38-40 and docs/pitfall.md:3, end to end: every document that*)
(* a raw record is about has been applied or dead-lettered before the      *)
(* offset passes the record.  No row of a batch falls out between decoding,*)
(* retrying and committing, and no invalid record is passed over.          *)
NoRowLost ==
  \A m \in 1..committed : m \notin dlq =>
     \A s \in Carried(Log[m]) :
       \E x \in applied : x[1] = m /\ Decoded(m).changes[x[2]].source = s

(* What holds of the code without any assumption: a record the committed   *)
(* offset passed is settled, or its own dead-lettering failed.  No other   *)
(* interleaving of retries, crashes, shutdowns and rebalances loses one.   *)
CommittedIsHandled == \A m \in 1..committed : Handled(m)

(* A batched record is applied front to back: no row is reported applied   *)
(* before the rows above it, even by a call its client abandoned.          *)
RowsInOrder ==
  \A x \in applied : \A q \in 1..x[2] : <<x[1], q>> \in applied

(* docs/pitfall.md:5: releasing a lock never removes another consumer's    *)
(* lease.  A key whose holder is inside its critical section goes only by  *)
(* expiry (no consumer moves) or by the holder's own release.              *)
LeaseNotStolen ==
  [][\A c \in Consumers, d \in Documents :
       (token[c] # NoToken /\ lock[d] = token[c] /\ lock'[d] # token[c]) =>
          (pc'[c] # pc[c] \/ UNCHANGED pc)]_vars

(* Everything is fetched and committed, and nobody is at work any more.    *)
Quiescent ==
  /\ owner # NoOne
  /\ position + 1 \notin Offsets
  /\ committed + 1 \notin Offsets
  /\ \A c \in Consumers : ~Busy(c)
  /\ \A t \in Tokens : call[t] = NoCall

Touching(s) == {m \in Offsets : \E r \in RowsOf(m) : SourceAt(m, r) = s}

(* docs/architecture.md:21, "preserving per-document ordering": once the   *)
(* partition is consumed, a source none of whose records became a dead     *)
(* letter is in the state its last record asks for, not in one that an     *)
(* older record brought back.  Crashes, shutdowns, retries, lost replies,  *)
(* redeliveries and reassignments between two records do not break it.     *)
(* What may is a call that outlives its lease or its client's patience, or *)
(* an owner that loses the partition with a record in its hands (disturbed)*)
LastChangeWins ==
  Quiescent /\ ~disturbed =>
     \A s \in Sources :
       Touching(s) \cap (dlq \cup lost) = {} => \A m \in Touching(s) : m <= index[s]

(* README.md:107: the token lock serialises the changes of one document.   *)
(* Two IndexDocument calls for one document run at once in the server only *)
(* if one of them has outlived its lease or its client's five minutes; no  *)
(* crash, stale owner, lost reply or failed release makes them overlap.    *)
DocumentsSerialised ==
  \A t, u \in Tokens :
    (/\ t # u /\ call[t] # NoCall /\ call[u] # NoCall
     /\ DocumentOf(call[t].m, call[t].r) = DocumentOf(call[u].m, call[u].r)) =>
       t \in overdue \/ u \in overdue

(* Every record is dealt with in the end, whatever finite number of        *)
(* crashes, shutdowns and rebalances happens on the way.                   *)
EventuallyHandled == \A m \in Offsets : <>Handled(m)

(* No document stays locked for good: a lock left by a crashed consumer, or*)
(* one whose release failed, is gone in the end.                           *)
LocksFreed == \A d \in Documents : lock[d] # NoToken ~> lock[d] = NoToken

-----------------------------------------------------------------------------
(* The detailed consumer implements AtLeastOnce.                           *)
HandledRecords == {m \in Offsets : Handled(m)}

Abstract == INSTANCE AtLeastOnce WITH
  Last    <- Len(Log),
  AtOnce  <- {m \in Offsets : Decoded(m).verdict = "ignored"},
  handled <- HandledRecords

ImplementsAtLeastOnce == Abstract!Spec
=============================================================================
