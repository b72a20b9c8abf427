-------------------------- MODULE SyncServiceProofs --------------------------
(***************************************************************************)
(* Proofs about the Sync Service, for every number of consumers, every     *)
(* partition, every retry bound and every combination of faults.           *)
(***************************************************************************)
EXTENDS SyncService, TLAPS

USE DEF Live, Busy, Unlocked, RowDone, timeVars

(* TypeOK needs one fact of its own: a consumer that backs off has an      *)
(* attempt left.                                                           *)
AttemptLeft == \A c \in Consumers : pc[c] = "backoff" => attempt[c] < Retries

TypeInv == TypeOK /\ AttemptLeft

LEMMA InitTyped == Init => TypeInv
<1>1. Init => /\ index \in [Sources -> Offsets \cup {0}]
              /\ overdue \subseteq Tokens /\ disturbed \in BOOLEAN
  BY DEF Init
<1>2. QED
  BY <1>1, ConsumersAssumption, TokensAssumption, RetriesAssumption, BoundsAssumption
     DEF Init, TypeInv, TypeOK, AttemptLeft, NoCall

(* An accepted record has a first row.                                     *)
LEMMA FirstRow ==
  ASSUME NEW m \in Offsets, Decoded(m).verdict = "changes"
  PROVE  1 \in RowsOf(m)
  BY LogAssumption

LEMMA FetchTyped ==
  ASSUME TypeInv, NEW c \in Consumers, FetchMessage(c)
  PROVE  TypeInv'
  BY RetriesAssumption
     DEF TypeInv, TypeOK, AttemptLeft, FetchMessage, serverVars, boundVars

LEMMA ProcessTyped ==
  ASSUME TypeInv, NEW c \in Consumers, Process(c)
  PROVE  TypeInv'
<1>1. Decoded(msg[c]).verdict = "changes" => 1 \in RowsOf(msg[c])
  BY FirstRow DEF Process, TypeInv, TypeOK
<1>2. QED
  BY <1>1, RetriesAssumption
     DEF TypeInv, TypeOK, AttemptLeft, Process, AfterFailure, kafkaVars, serverVars, boundVars

LEMMA BackoffTyped ==
  ASSUME TypeInv, NEW c \in Consumers, Backoff(c)
  PROVE  TypeInv'
  BY RetriesAssumption
     DEF TypeInv, TypeOK, AttemptLeft, Backoff, kafkaVars, serverVars, boundVars

LEMMA SendDLQTyped ==
  ASSUME TypeInv, NEW c \in Consumers, SendDLQ(c)
  PROVE  TypeInv'
  BY DEF TypeInv, TypeOK, AttemptLeft, SendDLQ, serverVars, boundVars

LEMMA SendDLQFailsTyped ==
  ASSUME TypeInv, NEW c \in Consumers, SendDLQFails(c)
  PROVE  TypeInv'
  BY RetriesAssumption
     DEF TypeInv, TypeOK, AttemptLeft, SendDLQFails, NextIteration, serverVars, boundVars

LEMMA CommitTyped ==
  ASSUME TypeInv, NEW c \in Consumers, CommitMessages(c)
  PROVE  TypeInv'
  BY RetriesAssumption
     DEF TypeInv, TypeOK, AttemptLeft, CommitMessages, NextIteration, serverVars, boundVars

LEMMA AcquireTyped ==
  ASSUME TypeInv, NEW c \in Consumers, NEW t \in Tokens, AcquireAndCall(c, t)
  PROVE  TypeInv'
  BY DEF TypeInv, TypeOK, AttemptLeft, AcquireAndCall, kafkaVars, boundVars

LEMMA AcquireFailsTyped ==
  ASSUME TypeInv, NEW c \in Consumers, AcquireFails(c)
  PROVE  TypeInv'
  BY DEF TypeInv, TypeOK, AttemptLeft, AcquireFails, AfterFailure, kafkaVars, serverVars,
         boundVars

LEMMA GiveUpTyped ==
  ASSUME TypeInv, NEW c \in Consumers, GiveUp(c)
  PROVE  TypeInv'
  BY DEF TypeInv, TypeOK, AttemptLeft, GiveUp, kafkaVars, serverVars, boundVars

LEMMA ReleaseTyped ==
  ASSUME TypeInv, NEW c \in Consumers, Release(c)
  PROVE  TypeInv'
  BY DEF TypeInv, TypeOK, AttemptLeft, Release, DeleteIfMine, AfterFailure, kafkaVars,
         serverVars, boundVars

LEMMA ServeTyped ==
  ASSUME TypeInv, NEW t \in Tokens, Serve(t)
  PROVE  TypeInv'
  BY DEF TypeInv, TypeOK, AttemptLeft, Serve, Waits, NoCall, kafkaVars, boundVars

LEMMA ExpiryTyped ==
  ASSUME TypeInv, NEW d \in Documents, LockExpires(d)
  PROVE  TypeInv'
  BY DEF TypeInv, TypeOK, AttemptLeft, LockExpires, consumerVars, kafkaVars, serverVars,
         boundVars

LEMMA EndsTyped ==
  ASSUME TypeInv, NEW c \in Consumers, Ends(c),
         crashes' \in 0..MaxCrashes, rebalances' \in 0..MaxRebalances
  PROVE  TypeInv'
  BY RetriesAssumption DEF TypeInv, TypeOK, AttemptLeft, Ends, NextIteration, serverVars

LEMMA CrashTyped ==
  ASSUME TypeInv, NEW c \in Consumers, Crash(c) \/ Stop(c) \/ Exit(c) \/ Restart(c)
  PROVE  TypeInv'
<1>1. CASE Crash(c)
  BY <1>1, EndsTyped, BoundsAssumption DEF Crash, TypeInv, TypeOK
<1>2. CASE Stop(c)
  BY <1>2, BoundsAssumption
     DEF Stop, TypeInv, TypeOK, AttemptLeft, kafkaVars, serverVars
<1>3. CASE Exit(c)
  BY <1>3, EndsTyped DEF Exit, TypeInv, TypeOK, boundVars
<1>4. CASE Restart(c)
  BY <1>4 DEF Restart, TypeInv, TypeOK, AttemptLeft, kafkaVars, serverVars, boundVars
<1>5. QED BY <1>1, <1>2, <1>3, <1>4

LEMMA AssignTyped ==
  ASSUME TypeInv, NEW c \in Consumers, Assign(c) \/ Rebalance(c)
  PROVE  TypeInv'
<1>1. AssignTo(c) /\ rebalances' \in 0..MaxRebalances
  BY BoundsAssumption DEF Assign, Rebalance, TypeInv, TypeOK
<1>2. disturbed' \in BOOLEAN
  <2>1. disturbed \in BOOLEAN
    BY DEF TypeInv, TypeOK
  <2>2. CASE Assign(c)
    <3>1. disturbed' = disturbed
      BY <2>2 DEF Assign
    <3>2. QED BY <2>1, <3>1
  <2>3. CASE Rebalance(c)
    BY <2>3 DEF Rebalance
  <2>4. QED BY <2>2, <2>3
<1>3. QED
  BY <1>1, <1>2 DEF AssignTo, TypeInv, TypeOK, AttemptLeft, consumerVars, serverVars

LEMMA NextTyped ==
  ASSUME TypeInv, [Next]_vars
  PROVE  TypeInv'
<1>1. CASE UNCHANGED vars
  BY <1>1 DEF vars, consumerVars, kafkaVars, serverVars, boundVars, TypeInv, TypeOK, AttemptLeft
<1>2. ASSUME NEW c \in Consumers, Step(c) PROVE TypeInv'
  BY <1>2, FetchTyped, ProcessTyped, BackoffTyped, SendDLQTyped, SendDLQFailsTyped,
     CommitTyped, AcquireTyped, AcquireFailsTyped, ReleaseTyped DEF Step
<1>3. QED
  BY <1>1, <1>2, GiveUpTyped, CrashTyped, AssignTyped, ServeTyped, ExpiryTyped
     DEF Next, AwaitMessage

(* Type correctness of the Sync Service, for every value of the constants. *)
THEOREM TypeCorrect == Spec => []TypeOK
<1>1. TypeInv => TypeOK
  BY DEF TypeInv
<1>2. QED
  BY <1>1, InitTyped, NextTyped, PTL DEF Spec

-----------------------------------------------------------------------------
(***************************************************************************)
(* CommittedIsHandled is not inductive: a commit covers every record below *)
(* it, whoever processed those.  The strengthening follows a record through*)
(* a consumer: everything the reader has passed is handled or in the hands *)
(* of the owner, everything below a record somebody holds is handled, and a*)
(* record about to be committed has had all its rows applied, one by one.  *)
(***************************************************************************)
Syncing(c) == pc[c] \in {"lock", "wait", "release"}

FetchedHandled ==
  (owner # NoOne /\ ~stopping[owner]) =>
    \A m \in 1..position : Handled(m) \/ (Busy(owner) /\ msg[owner] = m)

BelowHandled ==
  \A c \in Consumers : Busy(c) => \A m \in 1..(msg[c] - 1) : Handled(m)

CommitReady == \A c \in Consumers : pc[c] = "commit" => Handled(msg[c])

SyncingAccepted ==
  \A c \in Consumers : Syncing(c) => Decoded(msg[c]).verdict = "changes"

RowsAboveApplied ==
  \A c \in Consumers : Syncing(c) => \A q \in 1..(row[c] - 1) : <<msg[c], q>> \in applied

SuccessApplied ==
  \A c \in Consumers : (pc[c] = "release" /\ succeeded[c]) => <<msg[c], row[c]>> \in applied

CallOfWaiter ==
  \A c \in Consumers : pc[c] = "wait" =>
    /\ token[c] \in Tokens
    /\ call[token[c]] \in {NoCall, [m |-> msg[c], r |-> row[c]]}

CallsInOrder ==
  \A t \in Tokens : call[t] # NoCall =>
    \A q \in 1..(call[t].r - 1) : <<call[t].m, q>> \in applied

ConsumerInv == SyncingAccepted /\ RowsAboveApplied /\ SuccessApplied /\ CallOfWaiter
RowInv      == ConsumerInv /\ CallsInOrder /\ RowsInOrder
RecordInv   == CommittedIsHandled /\ FetchedHandled /\ BelowHandled /\ CommitReady

(* Nothing that was applied, dead-lettered or given up is taken back.      *)
Grows ==
  /\ applied \subseteq applied' /\ dlq \subseteq dlq' /\ lost \subseteq lost'
  /\ disturbed => disturbed'

LEMMA NextGrows == [Next]_vars => Grows
<1>1. ASSUME NEW c \in Consumers, Step(c) PROVE Grows
  BY <1>1 DEF Step, Grows, FetchMessage, Process, Backoff, SendDLQ, SendDLQFails,
     CommitMessages, AcquireAndCall, AcquireFails, Release, kafkaVars, serverVars
<1>2. ASSUME NEW c \in Consumers,
             GiveUp(c) \/ Crash(c) \/ Stop(c) \/ Exit(c) \/ Restart(c) \/ Assign(c) \/ Rebalance(c)
      PROVE  Grows
  <2>1. UNCHANGED <<applied, dlq, lost>>
    BY <1>2 DEF GiveUp, Crash, Stop, Exit, Ends, Restart, Assign, Rebalance, AssignTo,
       kafkaVars, serverVars
  <2>2. disturbed => disturbed'
    BY <1>2, Zenon DEF GiveUp, Crash, Stop, Exit, Ends, Restart, Assign, Rebalance
  <2>3. QED BY <2>1, <2>2 DEF Grows
<1>3. ASSUME NEW t \in Tokens, Serve(t) PROVE Grows
  BY <1>3 DEF Serve, Grows, kafkaVars
<1>4. ASSUME NEW d \in Documents, LockExpires(d) PROVE Grows
  BY <1>4 DEF LockExpires, Grows, kafkaVars, serverVars
<1>5. CASE UNCHANGED vars
  BY <1>5 DEF vars, Grows, kafkaVars, serverVars
<1>6. QED
  BY <1>1, <1>2, <1>3, <1>4, <1>5 DEF Next, AwaitMessage

LEMMA HandledStays ==
  ASSUME NEW m, Handled(m), Grows
  PROVE  Handled(m)'
  BY DEF Handled, Settled, Grows

(* The rows: what a consumer has reported applied is applied, in order.    *)
LEMMA InitRows == Init => RowInv
  BY DEF Init, RowInv, ConsumerInv, SyncingAccepted, RowsAboveApplied, SuccessApplied,
     CallOfWaiter, CallsInOrder, RowsInOrder, Syncing

(* Adding the next row of a record to an ordered set keeps it ordered.     *)
LEMMA NextRowInOrder ==
  ASSUME NEW S, NEW m, NEW r \in Nat,
         \A x \in S : \A q \in 1..x[2] : <<x[1], q>> \in S,
         \A q \in 1..(r - 1) : <<m, q>> \in S
  PROVE  \A x \in S \cup {<<m, r>>} : \A q \in 1..x[2] : <<x[1], q>> \in S \cup {<<m, r>>}
<1>1. \A q \in 1..r : q = r \/ q \in 1..(r - 1)
  OBVIOUS
<1>2. ASSUME NEW q \in 1..<<m, r>>[2]
      PROVE  <<<<m, r>>[1], q>> \in S \cup {<<m, r>>}
  <2>1. <<m, r>>[1] = m /\ <<m, r>>[2] = r
    OBVIOUS
  <2>2. CASE q = r
    BY <2>1, <2>2
  <2>3. CASE q \in 1..(r - 1)
    BY <2>1, <2>3
  <2>4. QED BY <1>1, <2>1, <2>2, <2>3
<1>3. QED
  BY <1>2

LEMMA NextRows ==
  ASSUME TypeInv, RowInv, [Next]_vars
  PROVE  RowInv'
<1> USE DEF RowInv, ConsumerInv, SyncingAccepted, RowsAboveApplied, SuccessApplied,
        CallOfWaiter, CallsInOrder, RowsInOrder, Syncing, TypeInv, TypeOK
<1>1. ASSUME NEW c \in Consumers, FetchMessage(c) \/ Backoff(c) \/ SendDLQ(c)
                                   \/ SendDLQFails(c) \/ CommitMessages(c)
      PROVE  RowInv'
  BY <1>1 DEF FetchMessage, Backoff, SendDLQ, SendDLQFails, CommitMessages, NextIteration,
     kafkaVars, serverVars
<1>2. ASSUME NEW c \in Consumers, Process(c) PROVE RowInv'
  BY <1>2 DEF Process, AfterFailure, serverVars
<1>3. ASSUME NEW c \in Consumers, NEW t \in Tokens, AcquireAndCall(c, t) PROVE RowInv'
  BY <1>3 DEF AcquireAndCall, Fresh, NoCall
<1>4. ASSUME NEW c \in Consumers, AcquireFails(c) PROVE RowInv'
  BY <1>4 DEF AcquireFails, AfterFailure, serverVars
<1>5. ASSUME NEW c \in Consumers, GiveUp(c) PROVE RowInv'
  BY <1>5 DEF GiveUp, serverVars
<1>6. ASSUME NEW c \in Consumers, Release(c) PROVE RowInv'
  <2>1. applied' = applied /\ call' = call /\ msg' = msg
    BY <1>6 DEF Release, serverVars
  <2>2. \A e \in Consumers \ {c} : pc'[e] = pc[e] /\ row'[e] = row[e] /\ token'[e] = token[e]
                                   /\ succeeded'[e] = succeeded[e]
    BY <1>6 DEF Release
  <2>3. pc'[c] \notin {"wait", "release"} /\ (pc'[c] = "lock" => row'[c] = row[c] + 1)
    BY <1>6 DEF Release, AfterFailure
  <2>4. pc[c] = "release" /\ row[c] \in Nat /\ (pc'[c] = "lock" => succeeded[c])
    BY <1>6 DEF Release, AfterFailure
  <2>5. RowsAboveApplied'
    <3>1. /\ \A q \in 1..(row[c] - 1) : <<msg[c], q>> \in applied
          /\ succeeded[c] => <<msg[c], row[c]>> \in applied
      BY <2>4
    <3>2. \A e \in Consumers \ {c} : Syncing(e)' =>
            \A q \in 1..(row'[e] - 1) : <<msg[e], q>> \in applied
      BY <2>2
    <3> HIDE DEF TypeInv, TypeOK, RowInv, ConsumerInv
    <3>3. pc'[c] = "lock" => \A q \in 1..(row'[c] - 1) : q = row[c] \/ q \in 1..(row[c] - 1)
      BY <2>3, <2>4
    <3>4. QED BY <2>1, <2>3, <2>4, <3>1, <3>2, <3>3
  <2>6. QED
    BY <2>1, <2>2, <2>3, <2>4, <2>5
<1>7. ASSUME NEW c \in Consumers, Crash(c) \/ Exit(c) PROVE RowInv'
  <2>1. applied' = applied /\ call' = call /\ pc'[c] = "down"
    BY <1>7 DEF Crash, Exit, Ends, NextIteration, serverVars
  <2>2. \A e \in Consumers \ {c} :
          /\ pc'[e] = pc[e] /\ msg'[e] = msg[e] /\ row'[e] = row[e]
          /\ token'[e] = token[e] /\ succeeded'[e] = succeeded[e]
    BY <1>7 DEF Crash, Exit, Ends, NextIteration
  <2>3. QED
    BY <2>1, <2>2
<1>8. ASSUME NEW c \in Consumers, Stop(c) \/ Restart(c) \/ Assign(c) \/ Rebalance(c)
      PROVE  RowInv'
  BY <1>8 DEF Stop, Restart, Assign, Rebalance, AssignTo, consumerVars, serverVars
<1>9. ASSUME NEW t \in Tokens, Serve(t) PROVE RowInv'
  <2>1. msg' = msg /\ row' = row /\ token' = token /\ applied \subseteq applied'
    BY <1>9 DEF Serve, kafkaVars
  <2>2. call' = [call EXCEPT ![t] = NoCall] /\ call[t] # NoCall
    BY <1>9 DEF Serve
  <2>3. PICK ok \in BOOLEAN :
          /\ applied' = IF ok THEN applied \cup {<<call[t].m, call[t].r>>} ELSE applied
          /\ succeeded' = [c \in Consumers |-> IF Waits(c, t) THEN ok ELSE succeeded[c]]
    BY <1>9 DEF Serve
  <2>4. pc' = [c \in Consumers |-> IF Waits(c, t) THEN "release" ELSE pc[c]]
    BY <1>9 DEF Serve
  <2>5. SyncingAccepted' /\ RowsAboveApplied'
    BY <2>1, <2>4 DEF Waits
  <2>6. SuccessApplied'
    BY <2>1, <2>2, <2>3, <2>4 DEF Waits
  <2>7. CallOfWaiter'
    BY <2>1, <2>2, <2>4 DEF Waits
  <2>8. CallsInOrder'
    BY <2>1, <2>2
  <2>9. RowsInOrder'
    <3>1. CASE ~ok
      BY <2>3, <3>1
    <3>2. CASE ok
      <4>1. call[t].r \in Nat /\ \A q \in 1..(call[t].r - 1) : <<call[t].m, q>> \in applied
        BY <2>2
      <4>2. QED
        BY <4>1, <2>3, <3>2, NextRowInOrder
    <3>3. QED BY <3>1, <3>2
  <2>10. QED
    BY <2>5, <2>6, <2>7, <2>8, <2>9
<1>10. ASSUME NEW d \in Documents, LockExpires(d) PROVE RowInv'
  BY <1>10 DEF LockExpires, consumerVars, serverVars
<1>11. CASE UNCHANGED vars
  BY <1>11 DEF vars, consumerVars, serverVars
<1>12. QED
  BY <1>1, <1>2, <1>3, <1>4, <1>5, <1>6, <1>7, <1>8, <1>9, <1>10, <1>11
     DEF Next, Step, AwaitMessage

-----------------------------------------------------------------------------
(* The records: what the reader or the committed offset has passed.        *)
LEMMA InitRecords == Init => RecordInv
  BY ConsumersAssumption
     DEF Init, RecordInv, CommittedIsHandled, FetchedHandled, BelowHandled, CommitReady

LEMMA OffsetsAreNaturals ==
  ASSUME TypeInv
  PROVE  /\ position \in Nat /\ committed \in Nat
         /\ \A c \in Consumers : msg[c] \in Nat
  BY LogAssumption DEF TypeInv, TypeOK

(* A step inside the handling of a record, which takes up no other one.    *)
LEMMA RecordFrame ==
  ASSUME RecordInv, Grows,
         owner \in Consumers \cup {NoOne},
         UNCHANGED <<owner, position, committed, msg>>,
         \A c \in Consumers : (Busy(c)' <=> Busy(c)) /\ (stopping[c] => stopping'[c]),
         \A c \in Consumers : pc'[c] = "commit" => (pc[c] = "commit" \/ Handled(msg[c])')
  PROVE  RecordInv'
<1>1. \A m : Handled(m) => Handled(m)'
  BY HandledStays
<1>2. CommittedIsHandled'
  BY <1>1 DEF RecordInv, CommittedIsHandled
<1>3. FetchedHandled'
  BY <1>1, ConsumersAssumption DEF RecordInv, FetchedHandled
<1>4. BelowHandled'
  BY <1>1 DEF RecordInv, BelowHandled
<1>5. CommitReady'
  BY <1>1 DEF RecordInv, CommitReady
<1>6. QED
  BY <1>2, <1>3, <1>4, <1>5 DEF RecordInv

(* A consumer that is done with a record leaves it handled behind.         *)
LEMMA RecordDone ==
  ASSUME TypeInv, RecordInv, Grows, NEW c \in Consumers, Busy(c),
         NEW h, h = msg[c], Handled(h)' \/ stopping[c],
         committed' = committed \/ (committed' = msg[c] /\ pc[c] = "commit"),
         UNCHANGED <<owner, position, stopping>>,
         NextIteration(c, "idle")
  PROVE  RecordInv'
<1>1. \A m : Handled(m) => Handled(m)'
  BY HandledStays
<1>2. \A e \in Consumers \ {c} : pc'[e] = pc[e] /\ msg'[e] = msg[e]
  BY DEF NextIteration, TypeInv, TypeOK
<1>3. msg[c] \in Nat /\ \A m \in 1..msg[c] : m = msg[c] \/ m \in 1..(msg[c] - 1)
  BY OffsetsAreNaturals
<1>4. CommittedIsHandled'
  <2>1. CASE committed' = committed
    BY <1>1, <2>1 DEF RecordInv, CommittedIsHandled
  <2>2. CASE committed' = msg[c] /\ pc[c] = "commit"
    BY <1>1, <1>3, <2>2 DEF RecordInv, CommittedIsHandled, BelowHandled, CommitReady
  <2>3. QED BY <2>1, <2>2
<1>5. FetchedHandled'
  <2>1. SUFFICES ASSUME owner \in Consumers, ~stopping[owner], NEW m \in 1..position,
                        ~Handled(m)'
                 PROVE  Busy(owner)' /\ msg'[owner] = m
    BY DEF FetchedHandled, TypeInv, TypeOK
  <2>2. Busy(owner) /\ msg[owner] = m
    BY <1>1, <2>1, ConsumersAssumption DEF RecordInv, FetchedHandled
  <2>3. owner # c
    BY <2>1, <2>2
  <2>4. QED BY <1>2, <2>1, <2>2, <2>3
<1>6. pc'[c] = "idle"
  BY DEF NextIteration, TypeInv, TypeOK
<1>7. BelowHandled'
  BY <1>1, <1>2, <1>6 DEF RecordInv, BelowHandled
<1>8. CommitReady'
  BY <1>1, <1>2, <1>6 DEF RecordInv, CommitReady
<1>9. QED
  BY <1>4, <1>5, <1>7, <1>8 DEF RecordInv

LEMMA FetchRecords ==
  ASSUME TypeInv, RecordInv, Grows, NEW c \in Consumers, FetchMessage(c)
  PROVE  RecordInv'
<1>1. \A m : Handled(m) => Handled(m)'
  BY HandledStays
<1>2. position \in Nat /\ \A m \in 1..(position + 1) : m = position + 1 \/ m \in 1..position
  BY OffsetsAreNaturals
<1>3. \A m \in 1..position : Handled(m)
  BY ConsumersAssumption DEF FetchMessage, RecordInv, FetchedHandled
<1>4. /\ owner' = c /\ position' = position + 1 /\ committed' = committed
      /\ msg'[c] = position + 1 /\ pc'[c] = "process"
      /\ \A e \in Consumers \ {c} : pc'[e] = pc[e] /\ msg'[e] = msg[e]
  BY DEF FetchMessage, TypeInv, TypeOK
<1>5. CommittedIsHandled'
  BY <1>1, <1>4 DEF RecordInv, CommittedIsHandled
<1>6. FetchedHandled'
  BY <1>1, <1>2, <1>3, <1>4 DEF FetchedHandled
<1>7. BelowHandled'
  <2>1. (position + 1) - 1 = position
    BY <1>2
  <2>2. QED BY <1>1, <1>3, <1>4, <2>1 DEF RecordInv, BelowHandled
<1>8. CommitReady'
  BY <1>1, <1>4 DEF RecordInv, CommitReady
<1>9. QED
  BY <1>5, <1>6, <1>7, <1>8 DEF RecordInv

LEMMA AssignRecords ==
  ASSUME TypeInv, RecordInv, Grows, NEW c \in Consumers, AssignTo(c)
  PROVE  RecordInv'
<1>1. \A m : Handled(m) => Handled(m)'
  BY HandledStays
<1>2. owner' = c /\ position' = committed /\ committed' = committed /\ pc' = pc /\ msg' = msg
  BY DEF AssignTo, consumerVars
<1>3. CommittedIsHandled' /\ FetchedHandled'
  BY <1>1, <1>2 DEF RecordInv, CommittedIsHandled, FetchedHandled
<1>4. BelowHandled' /\ CommitReady'
  BY <1>1, <1>2 DEF RecordInv, BelowHandled, CommitReady
<1>5. QED
  BY <1>3, <1>4 DEF RecordInv

(* After its last row, every row of the record is applied.                 *)
LEMMA ReleaseHandles ==
  ASSUME TypeInv, RowInv, NEW c \in Consumers, Release(c), pc'[c] = "commit"
  PROVE  Handled(msg[c])'
<1>1. succeeded[c] /\ row[c] + 1 \notin RowsOf(msg[c]) /\ applied' = applied
  BY DEF Release, AfterFailure, TypeInv, TypeOK, serverVars
<1>2. pc[c] = "release" /\ Decoded(msg[c]).verdict = "changes"
  BY DEF Release, RowInv, ConsumerInv, SyncingAccepted, Syncing
<1>3. msg[c] \in Offsets /\ row[c] \in RowsOf(msg[c]) /\ row[c] \in Nat
  BY <1>2 DEF TypeInv, TypeOK
<1>4. \A q \in RowsOf(msg[c]) : q = row[c] \/ q \in 1..(row[c] - 1)
  BY <1>1, <1>2, <1>3, LogAssumption
<1>5. \A q \in RowsOf(msg[c]) : <<msg[c], q>> \in applied
  BY <1>1, <1>2, <1>4 DEF RowInv, ConsumerInv, RowsAboveApplied, SuccessApplied, Syncing
<1>6. QED
  BY <1>1, <1>2, <1>5 DEF Handled, Settled, Release

LEMMA NextRecords ==
  ASSUME TypeInv, RowInv, RecordInv, [Next]_vars
  PROVE  RecordInv'
<1>1. Grows
  BY NextGrows
<1>2. owner \in Consumers \cup {NoOne}
  BY DEF TypeInv, TypeOK
<1>3. ASSUME NEW c \in Consumers, Process(c) PROVE RecordInv'
  <2>1. pc'[c] = "commit" => Handled(msg[c])'
    BY <1>3, RetriesAssumption DEF Process, AfterFailure, Handled, Settled, TypeInv, TypeOK
  <2>2. QED
    BY <1>1, <1>2, <1>3, <2>1, RecordFrame
       DEF Process, AfterFailure, TypeInv, TypeOK, kafkaVars
<1>4. ASSUME NEW c \in Consumers, Backoff(c) \/ AcquireFails(c) \/ GiveUp(c) PROVE RecordInv'
  BY <1>1, <1>2, <1>4, RecordFrame
     DEF Backoff, AcquireFails, GiveUp, AfterFailure, TypeInv, TypeOK, kafkaVars
<1>5. ASSUME NEW c \in Consumers, SendDLQ(c) PROVE RecordInv'
  <2>1. Handled(msg[c])'
    BY <1>5 DEF SendDLQ, Handled, Settled
  <2>2. QED
    BY <1>1, <1>2, <1>5, <2>1, RecordFrame DEF SendDLQ, TypeInv, TypeOK
<1>6. ASSUME NEW c \in Consumers, SendDLQFails(c) PROVE RecordInv'
  <2>1. Handled(msg[c]) \/ msg[c] \in lost' \/ stopping'[c]
    BY <1>6 DEF SendDLQFails
  <2>2. PICK h : h = msg[c]
    OBVIOUS
  <2>3. Handled(h)' \/ stopping'[c]
    BY <1>1, <2>1, <2>2, HandledStays DEF Handled
  <2>4. QED
    BY <1>1, <1>6, <2>2, <2>3, RecordDone DEF SendDLQFails, NextIteration, TypeInv, TypeOK
<1>7. ASSUME NEW c \in Consumers, CommitMessages(c) PROVE RecordInv'
  <2>1. PICK h : h = msg[c]
    OBVIOUS
  <2>2. Handled(h)'
    BY <1>1, <1>7, <2>1, HandledStays DEF CommitMessages, RecordInv, CommitReady
  <2>3. QED
    BY <1>1, <1>7, <2>1, <2>2, RecordDone DEF CommitMessages, NextIteration, TypeInv, TypeOK
<1>8. ASSUME NEW c \in Consumers, NEW t \in Tokens, AcquireAndCall(c, t) PROVE RecordInv'
  BY <1>1, <1>2, <1>8, RecordFrame DEF AcquireAndCall, TypeInv, TypeOK, kafkaVars
<1>9. ASSUME NEW c \in Consumers, Release(c) PROVE RecordInv'
  BY <1>1, <1>2, <1>9, RecordFrame, ReleaseHandles
     DEF Release, AfterFailure, TypeInv, TypeOK, kafkaVars
<1>10. ASSUME NEW t \in Tokens, Serve(t) PROVE RecordInv'
  BY <1>1, <1>2, <1>10, RecordFrame DEF Serve, Waits, TypeInv, TypeOK, kafkaVars
<1>11. ASSUME NEW d \in Documents, LockExpires(d) PROVE RecordInv'
  BY <1>1, <1>2, <1>11, RecordFrame DEF LockExpires, consumerVars, kafkaVars
<1>12. ASSUME NEW c \in Consumers, Stop(c) \/ Restart(c) PROVE RecordInv'
  BY <1>1, <1>2, <1>12, RecordFrame DEF Stop, Restart, TypeInv, TypeOK, kafkaVars
<1>13. ASSUME NEW c \in Consumers, Ends(c) PROVE RecordInv'
  <2>1. \A m : Handled(m) => Handled(m)'
    BY <1>1, HandledStays
  <2>2. /\ committed' = committed /\ position' = position /\ owner' \in {owner, NoOne}
        /\ owner' # c /\ pc'[c] = "down"
        /\ \A e \in Consumers \ {c} :
             pc'[e] = pc[e] /\ msg'[e] = msg[e] /\ stopping'[e] = stopping[e]
    BY <1>13, ConsumersAssumption DEF Ends, NextIteration, TypeInv, TypeOK
  <2>3. FetchedHandled'
    BY <1>2, <2>1, <2>2 DEF RecordInv, FetchedHandled
  <2>4. CommittedIsHandled' /\ BelowHandled' /\ CommitReady'
    BY <2>1, <2>2 DEF RecordInv, CommittedIsHandled, BelowHandled, CommitReady
  <2>5. QED
    BY <2>3, <2>4 DEF RecordInv
<1>14. ASSUME NEW c \in Consumers, Assign(c) \/ Rebalance(c) PROVE RecordInv'
  BY <1>1, <1>14, AssignRecords DEF Assign, Rebalance
<1>15. ASSUME NEW c \in Consumers, FetchMessage(c) PROVE RecordInv'
  BY <1>1, <1>15, FetchRecords
<1>16. CASE UNCHANGED vars
  BY <1>1, <1>2, <1>16, RecordFrame DEF vars, consumerVars, kafkaVars
<1>17. QED
  BY <1>3, <1>4, <1>5, <1>6, <1>7, <1>8, <1>9, <1>10, <1>11, <1>12, <1>13, <1>14, <1>15, <1>16
     DEF Next, Step, Crash, Exit, AwaitMessage

-----------------------------------------------------------------------------
(* The inductive invariant.                                                *)
IInv == TypeInv /\ RowInv /\ RecordInv

LEMMA Inductive == Spec => []IInv
<1>1. Init => IInv
  BY InitTyped, InitRows, InitRecords DEF IInv
<1>2. IInv /\ [Next]_vars => IInv'
  BY NextTyped, NextRows, NextRecords DEF IInv
<1>3. QED
  BY <1>1, <1>2, PTL DEF Spec

(* No interleaving of retries, crashes, shutdowns, late answers, expired   *)
(* locks and rebalances lets the committed offset pass a record that is    *)
(* neither settled nor one whose own dead-lettering failed.                *)
THEOREM CommitsAreHandled == Spec => []CommittedIsHandled
<1>1. IInv => CommittedIsHandled
  BY DEF IInv, RecordInv
<1>2. QED
  BY <1>1, Inductive, PTL

(* The rows of a batched record are applied front to back.                 *)
THEOREM BatchesInOrder == Spec => []RowsInOrder
<1>1. IInv => RowsInOrder
  BY DEF IInv, RowInv
<1>2. QED
  BY <1>1, Inductive, PTL

NothingLost == lost = {}

(* What the documentation promises holds if publishing to the dead-letter  *)
(* topic never fails for a running consumer and every record is JSON.      *)
THEOREM CommitsAreSettled ==
  ASSUME ~DlqMayFail, \A m \in Offsets : Log[m].json
  PROVE  Spec => []CommittedIsSettled
<1>1. Init => NothingLost
  BY DEF Init, NothingLost
<1>2. IInv /\ NothingLost /\ [Next]_vars => NothingLost'
  <2>1. SUFFICES ASSUME IInv, lost = {}, [Next]_vars
                 PROVE  lost' = {}
    BY DEF NothingLost
  <2>2. ASSUME NEW c \in Consumers, SendDLQFails(c) PROVE lost' = {}
    BY <2>1, <2>2 DEF SendDLQFails, IInv, TypeInv, TypeOK
  <2>3. ASSUME NEW c \in Consumers,
               \/ FetchMessage(c) \/ Process(c) \/ Backoff(c) \/ SendDLQ(c) \/ CommitMessages(c)
               \/ \E t \in Tokens : AcquireAndCall(c, t)
               \/ AcquireFails(c) \/ Release(c)
        PROVE  lost' = lost
    BY <2>3 DEF FetchMessage, Process, Backoff, SendDLQ, CommitMessages, AcquireAndCall,
       AcquireFails, Release
  <2>4. ASSUME NEW c \in Consumers,
               GiveUp(c) \/ Crash(c) \/ Stop(c) \/ Exit(c) \/ Restart(c) \/ Assign(c) \/ Rebalance(c)
        PROVE  lost' = lost
    BY <2>4 DEF GiveUp, Crash, Stop, Exit, Ends, Restart, Assign, Rebalance, AssignTo
  <2>5. ASSUME \/ \E t \in Tokens : Serve(t)
               \/ \E d \in Documents : LockExpires(d)
               \/ UNCHANGED vars
        PROVE  lost' = lost
    BY <2>5 DEF Serve, LockExpires, vars
  <2>6. QED
    BY <2>1, <2>2, <2>3, <2>4, <2>5 DEF Next, Step, AwaitMessage
<1>3. IInv /\ NothingLost => CommittedIsSettled
  BY DEF IInv, RecordInv, CommittedIsHandled, CommittedIsSettled, Handled, NothingLost
<1>4. QED
  BY <1>1, <1>2, <1>3, Inductive, PTL DEF Spec

-----------------------------------------------------------------------------
(* The refinement of AtLeastOnce.                                          *)
AbstractVars == <<HandledRecords, committed>>

LEMMA SameHandled ==
  ASSUME UNCHANGED <<applied, dlq, lost>>
  PROVE  HandledRecords' = HandledRecords
  BY DEF HandledRecords, Handled, Settled

(* A step that adds to one record only handles that record, or nothing.    *)
LEMMA OneHandled ==
  ASSUME NEW m \in Offsets, UNCHANGED committed, Grows,
         \A o \in Offsets \ {m} : Handled(o)' => Handled(o)
  PROVE  [Abstract!Next]_AbstractVars
<1>1. \A o \in Offsets : Handled(o) => Handled(o)'
  BY HandledStays
<1>2. HandledRecords' = HandledRecords \/ HandledRecords' = HandledRecords \cup {m}
  BY <1>1 DEF HandledRecords
<1>3. m \in 1..Len(Log)
  BY LogAssumption
<1>4. CASE HandledRecords' = HandledRecords
  BY <1>4 DEF AbstractVars
<1>5. CASE HandledRecords' # HandledRecords
  BY <1>2, <1>3, <1>5 DEF Abstract!Next, Abstract!Handle
<1>6. QED BY <1>4, <1>5

LEMMA StepRefines ==
  ASSUME IInv, [Next]_vars
  PROVE  [Abstract!Next]_AbstractVars
<1>1. Grows
  BY NextGrows
<1>2. ASSUME UNCHANGED <<applied, dlq, lost, committed>>
      PROVE  [Abstract!Next]_AbstractVars
  BY <1>2, SameHandled DEF AbstractVars
<1>3. ASSUME NEW c \in Consumers,
             \/ FetchMessage(c) \/ Process(c) \/ Backoff(c)
             \/ \E t \in Tokens : AcquireAndCall(c, t)
             \/ AcquireFails(c) \/ Release(c) \/ GiveUp(c)
      PROVE  [Abstract!Next]_AbstractVars
  BY <1>2, <1>3 DEF FetchMessage, Process, Backoff, AcquireAndCall, AcquireFails, Release,
     GiveUp, kafkaVars, serverVars
<1>4. ASSUME NEW c \in Consumers,
             Crash(c) \/ Stop(c) \/ Exit(c) \/ Restart(c) \/ Assign(c) \/ Rebalance(c)
      PROVE  [Abstract!Next]_AbstractVars
  BY <1>2, <1>4 DEF Crash, Stop, Exit, Ends, Restart, Assign, Rebalance, AssignTo,
     kafkaVars, serverVars
<1>5. ASSUME NEW c \in Consumers, SendDLQ(c) \/ SendDLQFails(c)
      PROVE  [Abstract!Next]_AbstractVars
  <2>1. msg[c] \in Offsets /\ UNCHANGED committed
    BY <1>5 DEF SendDLQ, SendDLQFails, IInv, TypeInv, TypeOK
  <2>2. \A o \in Offsets \ {msg[c]} : Handled(o)' => Handled(o)
    BY <1>5 DEF SendDLQ, SendDLQFails, Handled, Settled, serverVars
  <2>3. QED
    BY <1>1, <2>1, <2>2, OneHandled
<1>6. ASSUME NEW c \in Consumers, CommitMessages(c)
      PROVE  [Abstract!Next]_AbstractVars
  <2>1. UNCHANGED <<applied, dlq, lost>>
    BY <1>6 DEF CommitMessages, serverVars
  <2>2. HandledRecords' = HandledRecords
    BY <2>1, SameHandled
  <2>3. msg[c] \in Offsets /\ pc[c] = "commit"
    BY <1>6 DEF CommitMessages, IInv, TypeInv, TypeOK
  <2>4. msg[c] \in 1..Len(Log) /\ Offsets = 1..Len(Log) /\ Len(Log) \in Nat
    BY <2>3, LogAssumption
  <2>5. 1..msg[c] \subseteq HandledRecords
    <3>1. \A m \in 1..(msg[c] - 1) : Handled(m)
      BY <2>3 DEF IInv, RecordInv, BelowHandled
    <3>2. Handled(msg[c])
      BY <2>3 DEF IInv, RecordInv, CommitReady
    <3>3. \A m \in 1..msg[c] : m \in Offsets /\ (m = msg[c] \/ m \in 1..(msg[c] - 1))
      BY <2>4
    <3>4. QED
      BY <3>1, <3>2, <3>3 DEF HandledRecords
  <2>6. committed' = committed \/ committed' = msg[c]
    BY <1>6 DEF CommitMessages
  <2>7. QED
    BY <2>2, <2>4, <2>5, <2>6 DEF AbstractVars, Abstract!Next, Abstract!Commit
<1>7. ASSUME NEW t \in Tokens, Serve(t)
      PROVE  [Abstract!Next]_AbstractVars
  <2>1. call[t].m \in Offsets /\ UNCHANGED <<committed, dlq, lost>>
    BY <1>7 DEF Serve, kafkaVars, IInv, TypeInv, TypeOK
  <2>2. applied' \subseteq applied \cup {<<call[t].m, call[t].r>>}
    BY <1>7 DEF Serve
  <2>3. \A o \in Offsets \ {call[t].m} : Handled(o)' => Handled(o)
    BY <2>1, <2>2 DEF Handled, Settled
  <2>4. QED
    BY <1>1, <2>1, <2>3, OneHandled
<1>8. ASSUME (\E d \in Documents : LockExpires(d)) \/ UNCHANGED vars
      PROVE  [Abstract!Next]_AbstractVars
  BY <1>2, <1>8 DEF LockExpires, vars, kafkaVars, serverVars
<1>9. QED
  BY <1>3, <1>4, <1>5, <1>6, <1>7, <1>8 DEF Next, Step, AwaitMessage

LEMMA InitRefines == Init => Abstract!Init
<1>1. SUFFICES ASSUME Init
               PROVE  HandledRecords = {m \in Offsets : Decoded(m).verdict = "ignored"}
  BY DEF Init, Abstract!Init
<1>2. \A m \in Offsets : Decoded(m).verdict = "changes" => 1 \in RowsOf(m)
  BY FirstRow
<1>3. QED
  BY <1>1, <1>2 DEF Init, HandledRecords, Handled, Settled

(* The consumer with its retries, locks, crashes and rebalances implements *)
(* the promise of AtLeastOnce.                                             *)
THEOREM Refinement == Spec => ImplementsAtLeastOnce
<1>1. Init => Abstract!Init
  BY InitRefines
<1>2. IInv /\ [Next]_vars => [Abstract!Next]_AbstractVars
  BY StepRefines
<1>3. QED
  BY <1>1, <1>2, Inductive, PTL DEF Spec, ImplementsAtLeastOnce, Abstract!Spec, AbstractVars

-----------------------------------------------------------------------------
(* The locks                                                               *)

TokensDiffer ==
  \A c, e \in Consumers : token[c] # NoToken /\ token[c] = token[e] => c = e

LEMMA NextTokens ==
  ASSUME TypeInv, TokensDiffer, [Next]_vars
  PROVE  TokensDiffer'
<1> USE DEF TypeInv, TypeOK, TokensDiffer
<1>1. ASSUME \A c \in Consumers : token'[c] \in {token[c], NoToken}
      PROVE  TokensDiffer'
  BY <1>1
<1>2. ASSUME NEW c \in Consumers, NEW t \in Tokens, AcquireAndCall(c, t)
      PROVE  TokensDiffer'
  BY <1>2 DEF AcquireAndCall, Fresh
<1>3. ASSUME NEW c \in Consumers,
             \/ FetchMessage(c) \/ Process(c) \/ Backoff(c) \/ SendDLQ(c) \/ SendDLQFails(c)
             \/ CommitMessages(c) \/ AcquireFails(c) \/ Release(c)
      PROVE  TokensDiffer'
  BY <1>1, <1>3 DEF FetchMessage, Process, Backoff, SendDLQ, SendDLQFails, CommitMessages,
     AcquireFails, Release
<1>4. ASSUME NEW c \in Consumers,
             GiveUp(c) \/ Crash(c) \/ Stop(c) \/ Exit(c) \/ Restart(c) \/ Assign(c) \/ Rebalance(c)
      PROVE  TokensDiffer'
  BY <1>1, <1>4 DEF GiveUp, Crash, Stop, Exit, Ends, Restart, Assign, Rebalance, AssignTo,
     consumerVars
<1>5. ASSUME \/ \E t \in Tokens : Serve(t)
             \/ \E d \in Documents : LockExpires(d)
             \/ UNCHANGED vars
      PROVE  TokensDiffer'
  BY <1>1, <1>5 DEF Serve, LockExpires, vars, consumerVars
<1>6. QED
  BY <1>2, <1>3, <1>4, <1>5 DEF Next, Step, AwaitMessage

LEMMA Tokened == Spec => []TokensDiffer
<1>1. Init => TokensDiffer
  BY DEF Init, TokensDiffer
<1>2. IInv /\ TokensDiffer /\ [Next]_vars => TokensDiffer'
  BY NextTokens DEF IInv
<1>3. QED BY <1>1, <1>2, Inductive, PTL DEF Spec

(* A key that a consumer still holds goes by that consumer's own release   *)
(* or by its TTL, whatever the other replicas do (docs/pitfall.md:5).      *)
THEOREM LeasesAreKept == Spec => LeaseNotStolen
<1> DEFINE Kept == \A c \in Consumers, d \in Documents :
             (token[c] # NoToken /\ lock[d] = token[c] /\ lock'[d] # token[c]) =>
                (pc'[c] # pc[c] \/ UNCHANGED pc)
<1>1. IInv /\ TokensDiffer /\ [Next]_vars => [Kept]_vars
  <2> SUFFICES ASSUME IInv, TokensDiffer, [Next]_vars, NEW c \in Consumers, NEW d \in Documents,
                      token[c] # NoToken, lock[d] = token[c], lock'[d] # token[c]
               PROVE  pc'[c] # pc[c] \/ UNCHANGED pc
    OBVIOUS
  <2> USE DEF IInv, TypeInv, TypeOK
  <2>1. ASSUME NEW e \in Consumers,
               \/ FetchMessage(e) \/ Process(e) \/ Backoff(e)
               \/ SendDLQ(e) \/ SendDLQFails(e) \/ CommitMessages(e)
        PROVE  FALSE
    BY <2>1 DEF FetchMessage, Process, Backoff, SendDLQ, SendDLQFails, CommitMessages
  <2>2. ASSUME NEW e \in Consumers, AcquireFails(e) \/ \E t \in Tokens : AcquireAndCall(e, t)
        PROVE  FALSE
    BY <2>2 DEF AcquireFails, AcquireAndCall
  <2>3. ASSUME NEW e \in Consumers, Release(e) PROVE pc'[c] # pc[c]
    <3>1. lock[Doc(e)] = token[e] /\ d = Doc(e)
      BY <2>3 DEF Release, DeleteIfMine
    <3>2. c = e
      BY <3>1 DEF TokensDiffer
    <3>3. pc[e] = "release" /\ pc'[e] \in {"backoff", "dlq", "lock", "commit"}
      BY <2>3 DEF Release, AfterFailure
    <3>4. QED BY <3>2, <3>3
  <2>4. ASSUME NEW e \in Consumers,
               \/ GiveUp(e) \/ Crash(e) \/ Stop(e) \/ Exit(e)
               \/ Restart(e) \/ Assign(e) \/ Rebalance(e)
        PROVE  FALSE
    BY <2>4 DEF GiveUp, Crash, Stop, Exit, Ends, Restart, Assign, Rebalance, AssignTo
  <2>5. ASSUME \/ \E t \in Tokens : Serve(t)
               \/ \E b \in Documents : LockExpires(b)
               \/ UNCHANGED vars
        PROVE  UNCHANGED pc
    BY <2>5 DEF Serve, LockExpires, vars, consumerVars
  <2>6. QED
    BY <2>1, <2>2, <2>3, <2>4, <2>5 DEF Next, Step, AwaitMessage
<1>2. QED BY <1>1, Inductive, Tokened, PTL DEF Spec, LeaseNotStolen

-----------------------------------------------------------------------------
(* One call per document: a running call that is not overdue has the lock  *)
(* of its document, a release that still reaches Redis comes after the call*)
(* or after the client's patience, and nothing is overdue while nothing was*)
(* disturbed.                                                              *)
CallDoc(t)    == DocumentOf(call[t].m, call[t].r)
CallSource(t) == SourceAt(call[t].m, call[t].r)
Source(c)     == SourceAt(msg[c], row[c])

LeaseHeld ==
  \A t \in Tokens : call[t] # NoCall /\ t \notin overdue => lock[CallDoc(t)] = t

CallOver ==
  \A c \in Consumers : (pc[c] = "release" /\ ~stopping[c] /\ token[c] # NoToken) =>
     call[token[c]] = NoCall \/ token[c] \in overdue

SerialInv == LeaseHeld /\ CallOver /\ (~disturbed => overdue = {})

(* Only an accepted record has rows.                                       *)
LEMMA RowsOnlyOfChanges ==
  ASSUME NEW m \in Offsets, Decoded(m).verdict # "changes"
  PROVE  RowsOf(m) = {}
BY DEF RowsOf, Decoded, DecodedLog, decodeDocumentChanges, Validated, Accepted, Rejected,
       MessageIgnored

LEMMA CallDocs ==
  ASSUME TypeInv
  PROVE  /\ \A t \in Tokens : call[t] # NoCall =>
              /\ CallDoc(t) \in Documents
              /\ call[t].m \in Offsets /\ call[t].r \in RowsOf(call[t].m)
         /\ \A c \in Consumers : Syncing(c) => msg[c] \in Offsets /\ row[c] \in RowsOf(msg[c])
         /\ RowInv => \A c \in Consumers : Syncing(c) => Doc(c) \in Documents
<1>1. ASSUME NEW t \in Tokens, call[t] # NoCall
      PROVE  /\ CallDoc(t) \in Documents
             /\ call[t].m \in Offsets /\ call[t].r \in RowsOf(call[t].m)
  <2>1. call[t].m \in Offsets /\ call[t].r \in RowsOf(call[t].m)
    BY <1>1 DEF TypeInv, TypeOK
  <2>2. Decoded(call[t].m).verdict = "changes"
    BY <2>1, LogAssumption, RowsOnlyOfChanges
  <2>3. QED BY <2>1, <2>2, LogAssumption DEF CallDoc
<1>2. \A c \in Consumers : Syncing(c) => msg[c] \in Offsets /\ row[c] \in RowsOf(msg[c])
  BY DEF TypeInv, TypeOK, Syncing
<1>3. RowInv => \A c \in Consumers : Syncing(c) => Doc(c) \in Documents
  BY <1>2, LogAssumption DEF RowInv, ConsumerInv, SyncingAccepted, Doc
<1>4. QED BY <1>1, <1>2, <1>3

LEMMA NextSerial ==
  ASSUME IInv, SerialInv, [Next]_vars
  PROVE  SerialInv'
<1>1. TypeInv /\ TypeInv' /\ RowInv
  BY NextTyped DEF IInv
<1>2. ASSUME UNCHANGED <<lock, call, overdue>>, disturbed => disturbed',
             \A c \in Consumers : pc'[c] = "release" /\ ~stopping'[c] =>
               pc[c] = "release" /\ ~stopping[c] /\ token'[c] = token[c]
      PROVE  SerialInv'
  BY <1>2 DEF SerialInv, LeaseHeld, CallOver, CallDoc
<1>3. ASSUME NEW c \in Consumers,
             \/ FetchMessage(c) \/ Process(c) \/ Backoff(c)
             \/ SendDLQ(c) \/ SendDLQFails(c) \/ CommitMessages(c)
      PROVE  SerialInv'
  BY <1>1, <1>2, <1>3, RetriesAssumption DEF FetchMessage, Process, Backoff, SendDLQ, SendDLQFails, CommitMessages,
     NextIteration, AfterFailure, serverVars, TypeInv, TypeOK
<1>4. ASSUME NEW c \in Consumers,
             Crash(c) \/ Stop(c) \/ Exit(c) \/ Restart(c) \/ Assign(c) \/ Rebalance(c)
      PROVE  SerialInv'
  BY <1>1, <1>2, <1>4 DEF Crash, Stop, Exit, Ends, NextIteration, Restart, Assign, Rebalance,
     AssignTo, consumerVars, serverVars, TypeInv, TypeOK
<1>5. ASSUME NEW c \in Consumers, GiveUp(c) PROVE SerialInv'
  <2>1. /\ UNCHANGED <<lock, call, token, stopping>>
        /\ overdue' = IF stopping[c] THEN overdue ELSE overdue \cup {token[c]}
        /\ disturbed' = (disturbed \/ ~stopping[c])
        /\ \A e \in Consumers \ {c} : pc'[e] = pc[e]
    BY <1>1, <1>5 DEF GiveUp, serverVars, TypeInv, TypeOK
  <2>2. LeaseHeld'
    BY <2>1 DEF SerialInv, LeaseHeld, CallDoc
  <2>3. CallOver'
    BY <2>1 DEF SerialInv, CallOver
  <2>4. ~disturbed' => overdue' = {}
    BY <2>1 DEF SerialInv
  <2>5. QED BY <2>2, <2>3, <2>4 DEF SerialInv
<1>6. ASSUME NEW c \in Consumers, NEW t \in Tokens, AcquireAndCall(c, t) PROVE SerialInv'
  <2> DEFINE d == Doc(c)
  <2>1. /\ d \in Documents /\ lock[d] = NoToken /\ call[t] = NoCall
        /\ msg[c] \in Offsets /\ row[c] \in RowsOf(msg[c])
    BY <1>1, <1>6, CallDocs DEF AcquireAndCall, Fresh, Syncing
  <2>2. /\ lock'[d] = t /\ \A b \in Documents \ {d} : lock'[b] = lock[b]
        /\ call'[t] = [m |-> msg[c], r |-> row[c]]
        /\ \A u \in Tokens \ {t} : call'[u] = call[u]
        /\ pc'[c] = "wait" /\ \A e \in Consumers \ {c} : pc'[e] = pc[e] /\ token'[e] = token[e]
        /\ stopping' = stopping /\ overdue' = overdue /\ disturbed' = disturbed
    BY <1>1, <1>6, <2>1 DEF AcquireAndCall, TypeInv, TypeOK
  <2>3. LeaseHeld'
    <3> SUFFICES ASSUME NEW u \in Tokens, call'[u] # NoCall, u \notin overdue'
                 PROVE  lock'[DocumentOf(call'[u].m, call'[u].r)] = u
      BY DEF LeaseHeld, CallDoc
    <3>1. CASE u = t
      BY <2>2, <3>1 DEF Doc
    <3>2. CASE u # t
      <4>1. call'[u] = call[u] /\ lock[CallDoc(u)] = u /\ CallDoc(u) \in Documents
        BY <1>1, <2>2, <3>2, CallDocs DEF SerialInv, LeaseHeld
      <4>2. CallDoc(u) # d
        BY <2>1, <4>1, TokensAssumption
      <4>3. QED BY <2>2, <4>1, <4>2 DEF CallDoc
    <3>3. QED BY <3>1, <3>2
  <2>4. CallOver'
    <3>1. \A e \in Consumers : token[e] # t
      BY <1>6 DEF AcquireAndCall, Fresh
    <3>2. \A e \in Consumers : token[e] \in Tokens \cup {NoToken}
      BY <1>1 DEF TypeInv, TypeOK
    <3>3. QED BY <2>2, <3>1, <3>2 DEF SerialInv, CallOver
  <2>5. QED BY <2>2, <2>3, <2>4 DEF SerialInv
<1>7. ASSUME NEW c \in Consumers, AcquireFails(c) PROVE SerialInv'
  <2>1. /\ Doc(c) \in Documents /\ call' = call /\ token' = token /\ stopping' = stopping
        /\ \A e \in Consumers : pc'[e] = "release" => pc[e] = "release"
        /\ overdue' = overdue /\ disturbed' = disturbed
    BY <1>1, <1>7, CallDocs
       DEF AcquireFails, AfterFailure, Syncing, serverVars, TypeInv, TypeOK
  <2>2. \A b \in Documents : lock[b] # NoToken => lock'[b] = lock[b]
    BY <1>1, <1>7, <2>1 DEF AcquireFails, TypeInv, TypeOK
  <2>3. LeaseHeld'
    BY <1>1, <2>1, <2>2, CallDocs, TokensAssumption DEF SerialInv, LeaseHeld, CallDoc
  <2>4. CallOver'
    BY <2>1 DEF SerialInv, CallOver
  <2>5. QED BY <2>1, <2>3, <2>4 DEF SerialInv
<1>8. ASSUME NEW c \in Consumers, Release(c) PROVE SerialInv'
  <2>1. /\ Doc(c) \in Documents /\ call' = call /\ stopping' = stopping /\ pc[c] = "release"
        /\ pc'[c] # "release"
        /\ \A e \in Consumers \ {c} : pc'[e] = pc[e] /\ token'[e] = token[e]
        /\ overdue' = overdue /\ disturbed' = disturbed
    BY <1>1, <1>8, CallDocs
       DEF Release, AfterFailure, Syncing, serverVars, TypeInv, TypeOK
  <2>2. CallOver'
    BY <2>1 DEF SerialInv, CallOver
  <2>3. \/ lock' = lock
        \/ /\ lock' = [lock EXCEPT ![Doc(c)] = NoToken] /\ ~stopping[c]
           /\ lock[Doc(c)] = token[c]
    BY <1>8 DEF Release, DeleteIfMine
  <2>4. ASSUME NEW u \in Tokens, call[u] # NoCall, u \notin overdue
        PROVE  lock'[CallDoc(u)] = u
    <3>1. CallDoc(u) \in Documents /\ lock[CallDoc(u)] = u /\ u # NoToken
      BY <1>1, <2>4, CallDocs, TokensAssumption DEF SerialInv, LeaseHeld
    <3>2. ~stopping[c] => token[c] # u
      BY <2>1, <2>4, <3>1 DEF SerialInv, CallOver
    <3>3. QED BY <1>1, <2>3, <3>1, <3>2 DEF TypeInv, TypeOK
  <2>5. LeaseHeld'
    BY <2>1, <2>4 DEF LeaseHeld, CallDoc
  <2>6. QED BY <2>1, <2>2, <2>5 DEF SerialInv
<1>9. ASSUME NEW t \in Tokens, Serve(t) PROVE SerialInv'
  <2>1. /\ lock' = lock /\ call'[t] = NoCall /\ \A u \in Tokens \ {t} : call'[u] = call[u]
        /\ token' = token /\ stopping' = stopping
        /\ overdue' = overdue \ {t} /\ disturbed' = disturbed
        /\ \A c \in Consumers : pc'[c] = "release" => pc[c] = "release" \/ token[c] = t
    BY <1>1, <1>9 DEF Serve, Waits, TypeInv, TypeOK
  <2>2. LeaseHeld'
    BY <2>1 DEF SerialInv, LeaseHeld, CallDoc
  <2>3. CallOver'
    <3>1. \A c \in Consumers : token[c] \in Tokens \cup {NoToken}
      BY <1>1 DEF TypeInv, TypeOK
    <3>2. QED BY <2>1, <3>1 DEF SerialInv, CallOver
  <2>4. QED BY <2>1, <2>2, <2>3 DEF SerialInv
<1>10. ASSUME NEW d \in Documents, LockExpires(d) PROVE SerialInv'
  <2>1. /\ lock' = [lock EXCEPT ![d] = NoToken]
        /\ overdue' = IF call[lock[d]] = NoCall THEN overdue ELSE overdue \cup {lock[d]}
        /\ disturbed' = (disturbed \/ call[lock[d]] # NoCall)
        /\ UNCHANGED <<call, token, stopping, pc>>
    BY <1>10 DEF LockExpires, consumerVars, serverVars
  <2>2. LeaseHeld'
    <3> SUFFICES ASSUME NEW u \in Tokens, call[u] # NoCall, u \notin overdue'
                 PROVE  lock'[CallDoc(u)] = u
      BY <2>1 DEF LeaseHeld, CallDoc
    <3>1. u \notin overdue /\ u # lock[d]
      BY <2>1
    <3>2. lock[CallDoc(u)] = u /\ CallDoc(u) \in Documents
      BY <1>1, <3>1, CallDocs DEF SerialInv, LeaseHeld
    <3>3. QED BY <1>1, <2>1, <3>1, <3>2 DEF TypeInv, TypeOK
  <2>3. CallOver'
    BY <2>1 DEF SerialInv, CallOver
  <2>4. QED BY <2>1, <2>2, <2>3 DEF SerialInv
<1>11. CASE UNCHANGED vars
  BY <1>2, <1>11 DEF vars, consumerVars, serverVars
<1>12. QED
  BY <1>3, <1>4, <1>5, <1>6, <1>7, <1>8, <1>9, <1>10, <1>11 DEF Next, Step, AwaitMessage

LEMMA Serial == Spec => []SerialInv
<1>1. Init => SerialInv
  BY DEF Init, SerialInv, LeaseHeld, CallOver
<1>2. IInv /\ SerialInv /\ [Next]_vars => SerialInv'
  BY NextSerial
<1>3. QED BY <1>1, <1>2, Inductive, PTL DEF Spec

(* The token lock serialises the calls for a document (README.md:107):     *)
(* whatever crashes, is stopped, reassigned or left without an answer, two *)
(* calls for one document overlap only if one has outlived its lease or    *)
(* its client's patience.                                                  *)
THEOREM CallsAreSerialised == Spec => []DocumentsSerialised
<1>1. SerialInv => DocumentsSerialised
  BY DEF SerialInv, LeaseHeld, CallDoc, DocumentsSerialised
<1>2. QED BY <1>1, Serial, PTL

-----------------------------------------------------------------------------
(* No row is lost between the raw record and the offset.                   *)

(* A record is a compact event or an envelope, as the producer and Canal   *)
(* write them: an event carries no rows, an envelope no event.             *)
OneShape(value) ==
  IF IsCompact(value) THEN value.isDdl \/ value.data = << >>
                      ELSE value.compact.source = Missing

LEMMA EveryRowDecoded ==
  ASSUME NEW Text, NEW m \in Offsets,
         Log[m] \in Values(Text, Seq(Rows(Text))), OneShape(Log[m]), Log[m].json
  PROVE  /\ Decoded(m).verdict = "ignored" => Carried(Log[m]) = {}
         /\ Decoded(m).verdict = "changes" =>
              \A s \in Carried(Log[m]) : \E r \in RowsOf(m) : Decoded(m).changes[r].source = s
<1> DEFINE value == Log[m]
<1>1. /\ value.compact \in Changes(Text) /\ value.data \in Seq(Rows(Text))
      /\ Decoded(m) = decodeDocumentChanges(value)
  BY DEF Values, Decoded, DecodedLog
<1>2. \A change \in Changes(Text) : Normalised(change).source = change.source
  BY DEF Normalised, Changes
<1>3. ASSUME NEW changes, Decoded(m) = Validated(changes)
      PROVE  /\ Decoded(m).verdict # "ignored"
             /\ Decoded(m).verdict = "changes" =>
                  /\ RowsOf(m) = DOMAIN changes
                  /\ \A i \in DOMAIN changes : Decoded(m).changes[i] = Normalised(changes[i])
  BY <1>3 DEF Validated, Accepted, Rejected, RowsOf
<1>4. CASE IsCompact(value)
  <2>1. Decoded(m) = Validated(<<value.compact>>)
    BY <1>1, <1>4 DEF decodeDocumentChanges
  <2>2. Carried(value) \subseteq {value.compact.source}
    BY <1>4 DEF Carried, OneShape
  <2>3. 1 \in DOMAIN <<value.compact>> /\ <<value.compact>>[1] = value.compact
    OBVIOUS
  <2>4. QED BY <1>1, <1>2, <1>3, <2>1, <2>2, <2>3
<1>5. CASE ~IsCompact(value) /\ (value.isDdl \/ value.data = << >>)
  <2>1. Decoded(m) = MessageIgnored
    BY <1>1, <1>5 DEF decodeDocumentChanges
  <2>2. Carried(value) = {}
    BY <1>5 DEF Carried, OneShape
  <2>3. QED BY <2>1, <2>2 DEF MessageIgnored
<1>6. CASE ~IsCompact(value) /\ ~value.isDdl /\ value.data # << >>
  <2>1. Decoded(m) = Validated(CanalRows(value))
    BY <1>1, <1>6 DEF decodeDocumentChanges
  <2>2. Carried(value) = {value.data[i].source : i \in DOMAIN value.data}
    BY <1>6 DEF Carried, OneShape
  <2>3. /\ DOMAIN CanalRows(value) = DOMAIN value.data
        /\ \A i \in DOMAIN value.data :
             Normalised(CanalRows(value)[i]).source = value.data[i].source
    BY DEF CanalRows, RowChange, Normalised
  <2>4. QED BY <1>3, <2>1, <2>2, <2>3
<1>7. QED BY <1>4, <1>5, <1>6

(* Every document a raw record is about is applied, or the record is in    *)
(* the dead-letter topic, before the offset passes it: neither decoding,   *)
(* retries, crashes nor reassignments drop a row of a batch                *)
(* (document.go:38, docs/pitfall.md:3).                                    *)
THEOREM RowsAreNotLost ==
  ASSUME ~DlqMayFail, NEW Text,
         \A m \in Offsets :
           Log[m].json /\ Log[m] \in Values(Text, Seq(Rows(Text))) /\ OneShape(Log[m])
  PROVE  Spec => []NoRowLost
<1>1. IInv /\ CommittedIsSettled => NoRowLost
  <2> SUFFICES ASSUME IInv, CommittedIsSettled, NEW m \in 1..committed, m \notin dlq,
                      NEW s \in Carried(Log[m])
               PROVE  \E x \in applied : x[1] = m /\ Decoded(m).changes[x[2]].source = s
    BY DEF NoRowLost
  <2>1. m \in Offsets
    BY LogAssumption DEF IInv, TypeInv, TypeOK
  <2>2. Decoded(m).verdict = "changes" /\ \A r \in RowsOf(m) : <<m, r>> \in applied
    BY <2>1, EveryRowDecoded DEF CommittedIsSettled, Settled
  <2>3. PICK r \in RowsOf(m) : Decoded(m).changes[r].source = s
    BY <2>1, <2>2, EveryRowDecoded
  <2>4. <<m, r>> \in applied /\ <<m, r>>[1] = m /\ <<m, r>>[2] = r
    BY <2>2
  <2>5. QED BY <2>3, <2>4
<1>2. Spec => []CommittedIsSettled
  BY CommitsAreSettled
<1>3. QED BY <1>1, <1>2, Inductive, PTL

-----------------------------------------------------------------------------
(* The order of a source's changes.    Records below the frontier have been*)
(* applied since the owner's reader started at the committed offset, or    *)
(* before; an older state can come back only from a record at the frontier *)
(* or beyond, which will be applied again.                                 *)
Frontier ==
  IF owner = NoOne THEN committed + 1
  ELSE IF Busy(owner) THEN msg[owner]
  ELSE IF stopping[owner] THEN committed + 1 ELSE position + 1

OneWorker == \A c \in Consumers : Busy(c) => owner = c

InHand ==
  owner # NoOne =>
    IF Busy(owner) THEN msg[owner] = position /\ committed < position ELSE committed <= position

(* No change of the source was given up.                                   *)
Clean(s) == Touching(s) \cap (dlq \cup lost) = {}

Passed ==
  \A s \in Sources : Clean(s) => \A m \in Touching(s) : m < Frontier => m <= index[s]

Ahead == \A t \in Tokens : call[t] # NoCall /\ Clean(CallSource(t)) => Frontier <= call[t].m

(* The source of row q has the state of the record in hand, and no call for*)
(* the document of the row is running but the consumer's own.              *)
Taken(c, q) ==
  /\ msg[c] <= index[SourceAt(msg[c], q)]
  /\ \A t \in Tokens : call[t] # NoCall /\ CallDoc(t) = DocumentOf(msg[c], q) =>
       pc[c] = "wait" /\ t = token[c]

(* The row in hand may yet be followed by the next one.                    *)
Applying(c) == pc[c] \in {"lock", "wait"} \/ (pc[c] = "release" /\ succeeded[c])

RowsTaken ==
  \A c \in Consumers : Applying(c) =>
    \A q \in 1..(row[c] - 1) : Clean(SourceAt(msg[c], q)) => Taken(c, q)

SuccessTaken ==
  \A c \in Consumers : pc[c] = "release" /\ succeeded[c] /\ Clean(Source(c)) => Taken(c, row[c])

CommitTaken ==
  \A c \in Consumers : pc[c] = "commit" =>
    \A q \in RowsOf(msg[c]) : Clean(SourceAt(msg[c], q)) => Taken(c, q)

HandInv  == OneWorker /\ InHand
TakenInv == RowsTaken /\ SuccessTaken /\ CommitTaken
OrderInv == HandInv /\ Passed /\ Ahead /\ TakenInv

LEMMA Numbers ==
  ASSUME TypeInv
  PROVE  /\ position \in Nat /\ committed \in Nat /\ \A c \in Consumers : msg[c] \in Nat
         /\ \A s \in Sources : index[s] \in Nat
         /\ \A t \in Tokens : call[t].m \in Nat
         /\ \A s : Touching(s) \subseteq Nat
BY LogAssumption DEF TypeInv, TypeOK, Touching

(* Who is at work, and on what.                                            *)
LEMMA NextHand ==
  ASSUME TypeInv, HandInv, ~disturbed', [Next]_vars
  PROVE  HandInv' /\ Frontier' \in Nat
<1>1. TypeInv'
  BY NextTyped
<1>2. HandInv'
  <2> USE ConsumersAssumption DEF HandInv, OneWorker, InHand
  <2>1. position \in Nat /\ committed \in Nat
    BY Numbers
  <2>2. ASSUME UNCHANGED <<owner, position, committed>>,
               \A c \in Consumers : (Busy(c)' <=> Busy(c)) /\ (Busy(c) => msg'[c] = msg[c])
        PROVE  HandInv'
    BY <2>2 DEF TypeInv, TypeOK
  <2>3. ASSUME NEW c \in Consumers, FetchMessage(c) PROVE HandInv'
    BY <2>1, <2>3 DEF FetchMessage, TypeInv, TypeOK
  <2>4. ASSUME NEW c \in Consumers,
               \/ Process(c) \/ Backoff(c) \/ SendDLQ(c) \/ \E t \in Tokens : AcquireAndCall(c, t)
               \/ AcquireFails(c) \/ Release(c) \/ GiveUp(c) \/ Stop(c) \/ Restart(c)
        PROVE  HandInv'
    BY <2>2, <2>4 DEF Process, Backoff, SendDLQ, AcquireAndCall, AcquireFails, Release, GiveUp,
       Stop, Restart, AfterFailure, kafkaVars, TypeInv, TypeOK
  <2>5. ASSUME NEW c \in Consumers, SendDLQFails(c) \/ CommitMessages(c) PROVE HandInv'
    <3>1. Busy(c) /\ owner = c /\ msg[c] = position /\ committed < position
      BY <2>5 DEF SendDLQFails, CommitMessages
    <3>2. /\ UNCHANGED <<owner, position>> /\ committed' \in {committed, msg[c]}
          /\ pc'[c] = "idle" /\ \A e \in Consumers \ {c} : pc'[e] = pc[e]
      BY <2>5 DEF SendDLQFails, CommitMessages, NextIteration, TypeInv, TypeOK
    <3>3. QED BY <2>1, <3>1, <3>2
  <2>6. ASSUME NEW c \in Consumers, Ends(c) PROVE HandInv'
    <3>1. /\ UNCHANGED <<position, committed>> /\ owner' = IF owner = c THEN NoOne ELSE owner
          /\ pc'[c] = "down"
          /\ \A e \in Consumers \ {c} : pc'[e] = pc[e] /\ msg'[e] = msg[e]
      BY <2>6 DEF Ends, NextIteration, TypeInv, TypeOK
    <3>2. QED BY <3>1 DEF TypeInv, TypeOK
  <2>7. ASSUME NEW c \in Consumers, Assign(c) PROVE HandInv'
    BY <2>1, <2>7 DEF Assign, AssignTo, consumerVars
  <2>8. ASSUME NEW c \in Consumers, Rebalance(c) PROVE HandInv'
    <3>1. /\ ~Busy(owner) /\ owner' = c /\ position' = committed
          /\ UNCHANGED <<committed, pc, msg>>
      BY <2>8 DEF Rebalance, AssignTo, consumerVars
    <3>2. \A e \in Consumers : ~Busy(e)
      BY <3>1
    <3>3. QED BY <2>1, <3>1, <3>2
  <2>9. ASSUME NEW t \in Tokens, Serve(t) PROVE HandInv'
    BY <2>2, <2>9 DEF Serve, Waits, kafkaVars, TypeInv, TypeOK
  <2>10. ASSUME (\E d \in Documents : LockExpires(d)) \/ UNCHANGED vars PROVE HandInv'
    BY <2>2, <2>10 DEF LockExpires, vars, consumerVars, kafkaVars
  <2>11. QED
    BY <2>3, <2>4, <2>5, <2>6, <2>7, <2>8, <2>9, <2>10 DEF Next, Step, Crash, Exit, AwaitMessage
<1>3. Frontier' \in Nat
  <2>1. /\ position' \in Nat /\ committed' \in Nat
        /\ position' + 1 \in Nat /\ committed' + 1 \in Nat
    BY <1>1, LogAssumption DEF TypeInv, TypeOK
  <2>2. \A c \in Consumers : msg'[c] \in Nat
    BY <1>1, LogAssumption DEF TypeInv, TypeOK
  <2>3. owner' \in Consumers \cup {NoOne}
    BY <1>1 DEF TypeInv, TypeOK
  <2>4. Frontier' \in {committed' + 1, position' + 1} \/ (owner' # NoOne /\ Frontier' = msg'[owner'])
    BY DEF Frontier
  <2>5. QED BY <2>1, <2>2, <2>3, <2>4
<1>4. QED BY <1>2, <1>3

LEMMA CleanBefore == ASSUME Grows, NEW s, Clean(s)' PROVE Clean(s)
BY DEF Clean, Grows, Touching

LEMMA FrontierTyped ==
  ASSUME TypeInv
  PROVE  Frontier \in Nat /\ \A c \in Consumers : Busy(c) /\ owner = c => Frontier = msg[c]
<1>1. /\ position \in Nat /\ committed \in Nat
      /\ position + 1 \in Nat /\ committed + 1 \in Nat
  BY Numbers
<1>2. \A c \in Consumers : msg[c] \in Nat
  BY Numbers
<1>3. owner \in Consumers \cup {NoOne}
  BY DEF TypeInv, TypeOK
<1>4. Frontier \in {committed + 1, position + 1} \/ (owner # NoOne /\ Frontier = msg[owner])
  BY DEF Frontier
<1>5. \A c \in Consumers : Busy(c) /\ owner = c => Frontier = msg[c]
  BY ConsumersAssumption DEF Frontier
<1>6. QED BY <1>1, <1>2, <1>3, <1>4, <1>5

(* Nothing is applied and the frontier stays or falls back.                *)
LEMMA PassedStays ==
  ASSUME TypeInv, OrderInv, Grows, UNCHANGED <<index, call>>,
         Frontier' \in Nat, Frontier' <= Frontier
  PROVE  Passed' /\ Ahead'
<1>1. Frontier \in Nat /\ \A s \in Sources : Clean(s)' => Clean(s)
  BY FrontierTyped, CleanBefore
<1>2. Passed'
  <2> SUFFICES ASSUME NEW s \in Sources, Clean(s)', NEW m \in Touching(s), m < Frontier'
               PROVE  m <= index[s]
    BY DEF Passed, Touching
  <2>1. m \in Nat
    BY Numbers
  <2>2. m < Frontier
    BY <1>1, <2>1
  <2>3. QED BY <1>1, <2>2 DEF OrderInv, Passed
<1>3. Ahead'
  <2> SUFFICES ASSUME NEW t \in Tokens, call[t] # NoCall, Clean(CallSource(t))'
               PROVE  Frontier' <= call[t].m
    BY DEF Ahead
  <2>1. CallSource(t)' = CallSource(t) /\ CallSource(t) \in Sources /\ call[t].m \in Nat
    BY CallDocs, Numbers DEF CallSource, Sources
  <2>2. Frontier <= call[t].m
    BY <1>1, <2>1 DEF OrderInv, Ahead, CallSource, Clean
  <2>3. QED BY <1>1, <2>1, <2>2
<1>4. QED BY <1>2, <1>3

(* Clean and Taken after the step.                                         *)
StillClean(s) == Touching(s) \cap (dlq' \cup lost') = {}
StillTaken(c, q) ==
  /\ msg'[c] <= index'[SourceAt(msg'[c], q)]
  /\ \A t \in Tokens :
       call'[t] # NoCall /\ DocumentOf(call'[t].m, call'[t].r) = DocumentOf(msg'[c], q) =>
         pc'[c] = "wait" /\ t = token'[c]

LEMMA TakenAfter ==
  ASSUME \A c \in Consumers :
           /\ pc'[c] \in {"lock", "wait"} \/ (pc'[c] = "release" /\ succeeded'[c]) =>
                \A q \in 1..(row'[c] - 1) :
                  StillClean(SourceAt(msg'[c], q)) => StillTaken(c, q)
           /\ pc'[c] = "release" /\ succeeded'[c] /\ StillClean(SourceAt(msg'[c], row'[c])) =>
                StillTaken(c, row'[c])
           /\ pc'[c] = "commit" =>
                \A q \in RowsOf(msg'[c]) :
                  StillClean(SourceAt(msg'[c], q)) => StillTaken(c, q)
  PROVE  TakenInv'
BY DEF TakenInv, RowsTaken, SuccessTaken, CommitTaken, Applying, Clean, Taken, StillClean,
       StillTaken, Touching, CallDoc, Source

(* No row is taken, unless of a record that is given up or has none.       *)
LEMMA TakenStays ==
  ASSUME TypeInv, OrderInv, Grows, UNCHANGED <<index, call>>,
         \A c \in Consumers :
           \/ /\ pc'[c] = pc[c] /\ msg'[c] = msg[c] /\ row'[c] = row[c] /\ token'[c] = token[c]
              /\ succeeded'[c] = succeeded[c]
           \/ pc'[c] = "lock" /\ row'[c] = 1
           \/ /\ pc'[c] = "commit"
              /\ \A q \in RowsOf(msg'[c]) : ~StillClean(SourceAt(msg'[c], q))
           \/ pc'[c] = "release" /\ ~succeeded'[c]
           \/ pc'[c] \in {"down", "idle", "process", "backoff", "dlq"}
  PROVE  TakenInv'
<1>1. \A s : StillClean(s) => Clean(s)
  BY DEF StillClean, Clean, Grows
<1>2. ASSUME NEW c \in Consumers, NEW q, Taken(c, q), pc'[c] = pc[c], msg'[c] = msg[c],
             token'[c] = token[c]
      PROVE  StillTaken(c, q)
  BY <1>2 DEF Taken, StillTaken, CallDoc
<1>3. ASSUME NEW c \in Consumers,
             pc'[c] = pc[c], msg'[c] = msg[c], row'[c] = row[c], token'[c] = token[c],
             succeeded'[c] = succeeded[c]
      PROVE  /\ pc'[c] \in {"lock", "wait"} \/ (pc'[c] = "release" /\ succeeded'[c]) =>
                  \A q \in 1..(row'[c] - 1) :
                    StillClean(SourceAt(msg'[c], q)) => StillTaken(c, q)
             /\ pc'[c] = "release" /\ succeeded'[c] /\ StillClean(SourceAt(msg'[c], row'[c])) =>
                StillTaken(c, row'[c])
             /\ pc'[c] = "commit" =>
                  \A q \in RowsOf(msg'[c]) :
                    StillClean(SourceAt(msg'[c], q)) => StillTaken(c, q)
  BY <1>1, <1>2, <1>3 DEF OrderInv, TakenInv, RowsTaken, SuccessTaken, CommitTaken, Applying, Source
<1>4. QED BY <1>3, TakenAfter

(* A step that takes up or finishes no record never advances the frontier. *)
LEMMA FrontierFalls ==
  ASSUME TypeInv, HandInv, UNCHANGED <<owner, position, committed>>,
         \A c \in Consumers : /\ Busy(c)' <=> Busy(c)
                              /\ Busy(c) => msg'[c] = msg[c]
                              /\ stopping[c] => stopping'[c]
  PROVE  Frontier' <= Frontier
<1>1. /\ position \in Nat /\ committed \in Nat
      /\ owner \in Consumers \cup {NoOne}
  BY Numbers DEF TypeInv, TypeOK
<1>2. Frontier \in Nat
  BY FrontierTyped
<1>3. CASE owner = NoOne \/ Busy(owner)
  <2>1. Frontier' = Frontier
    BY <1>1, <1>3 DEF Frontier
  <2>2. QED BY <1>2, <2>1
<1>4. CASE owner # NoOne /\ ~Busy(owner)
  <2>1. committed <= position
    BY <1>4 DEF HandInv, InHand
  <2>2. \/ Frontier' = Frontier
        \/ Frontier' = committed + 1 /\ Frontier = position + 1
    BY <1>1, <1>4 DEF Frontier
  <2>3. QED BY <1>1, <1>2, <2>1, <2>2
<1>5. QED BY <1>3, <1>4

LEMMA QuietOrder ==
  ASSUME IInv, OrderInv, [Next]_vars, Grows, ~disturbed',
         UNCHANGED <<index, call>>, Frontier' <= Frontier,
         \A c \in Consumers :
           \/ /\ pc'[c] = pc[c] /\ msg'[c] = msg[c] /\ row'[c] = row[c] /\ token'[c] = token[c]
              /\ succeeded'[c] = succeeded[c]
           \/ pc'[c] = "lock" /\ row'[c] = 1
           \/ /\ pc'[c] = "commit"
              /\ \A q \in RowsOf(msg'[c]) : ~StillClean(SourceAt(msg'[c], q))
           \/ pc'[c] = "release" /\ ~succeeded'[c]
           \/ pc'[c] \in {"down", "idle", "process", "backoff", "dlq"}
  PROVE  OrderInv'
<1>1. TypeInv
  BY DEF IInv
<1>2. HandInv' /\ Frontier' \in Nat
  BY <1>1, NextHand DEF OrderInv
<1>3. Passed' /\ Ahead'
  BY <1>1, <1>2, PassedStays
<1>4. TakenInv'
  BY <1>1, TakenStays
<1>5. QED BY <1>2, <1>3, <1>4 DEF OrderInv

LEMMA QuietSteps ==
  ASSUME IInv, OrderInv, [Next]_vars, Grows, ~disturbed', NEW c \in Consumers,
         \/ FetchMessage(c) \/ Process(c) \/ Backoff(c) \/ SendDLQ(c) \/ AcquireFails(c)
         \/ GiveUp(c) \/ Stop(c) \/ Restart(c) \/ Ends(c) \/ Assign(c) \/ Rebalance(c)
  PROVE  OrderInv'
<1>1. TypeInv /\ HandInv
  BY DEF IInv, OrderInv
<1>2. Frontier \in Nat /\ position \in Nat /\ committed \in Nat
  BY <1>1, FrontierTyped, Numbers
<1>3. UNCHANGED <<index, call>>
  BY DEF FetchMessage, Process, Backoff, SendDLQ, AcquireFails, GiveUp, Stop, Restart, Ends,
     Assign, Rebalance, AssignTo, serverVars
<1>4. CASE FetchMessage(c)
  <2>1. Frontier = position + 1
    BY <1>4, ConsumersAssumption DEF FetchMessage, Frontier
  <2>2. owner' = c /\ msg'[c] = position + 1 /\ pc'[c] = "process"
    BY <1>1, <1>4 DEF FetchMessage, TypeInv, TypeOK
  <2>3. Frontier' = position + 1
    BY <2>2, ConsumersAssumption DEF Frontier
  <2>4. \A e \in Consumers : e # c =>
          /\ pc'[e] = pc[e] /\ msg'[e] = msg[e] /\ row'[e] = row[e] /\ token'[e] = token[e]
          /\ succeeded'[e] = succeeded[e]
    BY <1>1, <1>4 DEF FetchMessage, TypeInv, TypeOK
  <2>5. Frontier' <= Frontier
    BY <1>2, <2>1, <2>3
  <2>6. QED BY <1>3, <2>2, <2>4, <2>5, QuietOrder
<1>5. CASE Process(c) \/ Backoff(c) \/ SendDLQ(c) \/ AcquireFails(c) \/ GiveUp(c)
  <2>1. Frontier' <= Frontier
    BY <1>1, <1>5, FrontierFalls
       DEF Process, Backoff, SendDLQ, AcquireFails, GiveUp, AfterFailure, kafkaVars, TypeInv, TypeOK
  <2>2. \A e \in Consumers : e # c =>
          /\ pc'[e] = pc[e] /\ msg'[e] = msg[e] /\ row'[e] = row[e] /\ token'[e] = token[e]
          /\ succeeded'[e] = succeeded[e]
    BY <1>1, <1>5 DEF Process, Backoff, SendDLQ, AcquireFails, GiveUp, TypeInv, TypeOK
  <2>3. msg'[c] = msg[c] /\ msg[c] \in Offsets
    BY <1>1, <1>5 DEF Process, Backoff, SendDLQ, AcquireFails, GiveUp, TypeInv, TypeOK
  <2>4. \/ pc'[c] = "lock" /\ row'[c] = 1
        \/ /\ pc'[c] = "commit"
           /\ Decoded(msg[c]).verdict = "ignored" \/ msg[c] \in dlq'
        \/ pc'[c] = "release" /\ ~succeeded'[c]
        \/ pc'[c] \in {"down", "idle", "process", "backoff", "dlq"}
    BY <1>1, <1>5 DEF Process, Backoff, SendDLQ, AcquireFails, GiveUp, AfterFailure, TypeInv, TypeOK
  <2>5. Decoded(msg[c]).verdict = "ignored" => RowsOf(msg[c]) = {}
    BY <2>3, RowsOnlyOfChanges
  <2>6. msg[c] \in dlq' => \A q \in RowsOf(msg[c]) : ~StillClean(SourceAt(msg[c], q))
    BY <2>3 DEF StillClean, Touching
  <2>7. QED BY <1>3, <2>1, <2>2, <2>3, <2>4, <2>5, <2>6, QuietOrder
<1>6. CASE Stop(c) \/ Restart(c)
  <2>1. Frontier' <= Frontier
    BY <1>1, <1>6, FrontierFalls DEF Stop, Restart, kafkaVars, TypeInv, TypeOK
  <2>2. \A e \in Consumers :
          \/ /\ pc'[e] = pc[e] /\ msg'[e] = msg[e] /\ row'[e] = row[e] /\ token'[e] = token[e]
             /\ succeeded'[e] = succeeded[e]
          \/ pc'[e] = "idle"
    BY <1>1, <1>6 DEF Stop, Restart, TypeInv, TypeOK
  <2>3. QED BY <1>3, <2>1, <2>2, QuietOrder
<1>7. CASE Ends(c)
  <2>1. pc'[c] = "down" /\ \A e \in Consumers : e # c =>
          /\ pc'[e] = pc[e] /\ msg'[e] = msg[e] /\ row'[e] = row[e] /\ token'[e] = token[e]
          /\ succeeded'[e] = succeeded[e] /\ stopping'[e] = stopping[e]
    BY <1>1, <1>7 DEF Ends, NextIteration, TypeInv, TypeOK
  <2>2. UNCHANGED <<position, committed>> /\ owner' = IF owner = c THEN NoOne ELSE owner
    BY <1>7 DEF Ends
  <2>3. Frontier' <= Frontier
    <3>1. CASE owner = c
      <4>1. Frontier' = committed + 1
        BY <2>2, <3>1 DEF Frontier
      <4>2. committed + 1 <= Frontier
        <5>1. CASE Busy(c)
          BY <1>1, <1>2, <3>1, <5>1, ConsumersAssumption DEF Frontier, HandInv, InHand
        <5>2. CASE ~Busy(c)
          BY <1>1, <1>2, <3>1, <5>2, ConsumersAssumption DEF Frontier, HandInv, InHand
        <5>3. QED BY <5>1, <5>2
      <4>3. QED BY <4>1, <4>2
    <3>2. CASE owner # c
      <4>1. owner' = owner /\ (owner # NoOne => owner \in Consumers)
        BY <1>1, <2>2, <3>2 DEF TypeInv, TypeOK
      <4>2. Frontier' = Frontier
        BY <2>1, <2>2, <3>2, <4>1 DEF Frontier
      <4>3. QED BY <1>2, <4>2
    <3>3. QED BY <3>1, <3>2
  <2>4. QED BY <1>3, <2>1, <2>3, QuietOrder
<1>8. CASE Assign(c) \/ Rebalance(c)
  <2>1. /\ owner = NoOne \/ ~Busy(owner)
        /\ owner' = c /\ position' = committed /\ ~stopping[c]
        /\ UNCHANGED <<pc, stopping, msg, row, token, succeeded, committed>>
    BY <1>8 DEF Assign, Rebalance, AssignTo, consumerVars
  <2>2. ~Busy(c)
    BY <1>1, <2>1, ConsumersAssumption DEF HandInv, OneWorker
  <2>3. Frontier' = committed + 1
    BY <2>1, <2>2, ConsumersAssumption DEF Frontier
  <2>4. committed + 1 <= Frontier
    BY <1>1, <1>2, <2>1 DEF Frontier, HandInv, InHand
  <2>5. QED BY <1>3, <2>1, <2>3, <2>4, QuietOrder
<1>9. QED BY <1>4, <1>5, <1>6, <1>7, <1>8

(* The record in hand is done with: committed, or given up.                *)
LEMMA FinishingSteps ==
  ASSUME IInv, OrderInv, [Next]_vars, Grows, ~disturbed', NEW c \in Consumers,
         SendDLQFails(c) \/ CommitMessages(c)
  PROVE  OrderInv'
<1> DEFINE m == msg[c]
<1>1. TypeInv /\ HandInv /\ Busy(c) /\ owner = c /\ m \in Offsets /\ m = position
      /\ committed < position
  <2>1. TypeInv /\ HandInv /\ Busy(c)
    BY DEF IInv, OrderInv, SendDLQFails, CommitMessages
  <2>2. owner = c /\ owner # NoOne
    BY <2>1, ConsumersAssumption DEF HandInv, OneWorker
  <2>3. m = position /\ committed < position
    BY <2>1, <2>2 DEF HandInv, InHand
  <2>4. m \in Offsets
    BY <2>1 DEF TypeInv, TypeOK
  <2>5. QED BY <2>1, <2>2, <2>3, <2>4
<1>2. Frontier = m /\ m \in Nat /\ position \in Nat /\ committed \in Nat
  BY <1>1, FrontierTyped, Numbers
<1>3. HandInv' /\ Frontier' \in Nat
  BY <1>1, NextHand
<1>4. /\ UNCHANGED <<owner, position, stopping, index, call>>
      /\ committed' \in {committed, m} /\ pc'[c] = "idle"
      /\ \A e \in Consumers : e # c =>
          /\ pc'[e] = pc[e] /\ msg'[e] = msg[e] /\ row'[e] = row[e] /\ token'[e] = token[e]
          /\ succeeded'[e] = succeeded[e]
  BY <1>1 DEF SendDLQFails, CommitMessages, NextIteration, serverVars, TypeInv, TypeOK
<1>5. TakenInv'
  BY <1>1, <1>4, TakenStays
<1>6. Frontier' = IF stopping[c] THEN committed' + 1 ELSE position + 1
  BY <1>1, <1>4, ConsumersAssumption DEF Frontier
<1>7. Frontier' <= m + 1
  <2>1. committed' \in Nat /\ committed' <= m /\ position = m
    BY <1>1, <1>2, <1>4
  <2>2. Frontier' = committed' + 1 \/ Frontier' = m + 1
    BY <1>6, <2>1
  <2> HIDE DEF m
  <2>3. QED BY <1>2, <2>1, <2>2
<1>8. \A s : StillClean(s) => Clean(s)
  BY DEF StillClean, Clean, Grows
<1>9. ASSUME NEW q \in RowsOf(m), StillClean(SourceAt(m, q)), Frontier' = m + 1
      PROVE  Taken(c, q) /\ pc[c] # "wait"
  <2>1. CASE CommitMessages(c)
    <3>1. pc[c] = "commit" /\ Clean(SourceAt(m, q))
      BY <1>8, <1>9, <2>1 DEF CommitMessages
    <3>2. QED BY <3>1 DEF OrderInv, TakenInv, CommitTaken
  <2>2. CASE SendDLQFails(c)
    <3>1. committed' = committed
      BY <2>2 DEF SendDLQFails
    <3>2. ~stopping[c]
      BY <1>1, <1>2, <1>6, <1>9, <3>1
    <3>3. m \in lost'
      BY <2>2, <3>2 DEF SendDLQFails
    <3>4. QED BY <1>1, <1>9, <3>3 DEF StillClean, Touching
  <2>3. QED BY <2>1, <2>2
<1>10. Passed'
  <2> SUFFICES ASSUME NEW s \in Sources, StillClean(s), NEW n \in Touching(s),
                      n < Frontier'
               PROVE  n <= index[s]
    BY <1>4 DEF Passed, Touching, Clean, StillClean
  <2>1. n \in Nat
    BY <1>1, Numbers
  <2>2. CASE n < m
    BY <1>2, <1>8, <2>2 DEF OrderInv, Passed
  <2>3. CASE n = m
    <3>1. Frontier' = m + 1
      BY <1>2, <1>3, <1>7, <2>3
    <3>2. PICK q \in RowsOf(m) : SourceAt(m, q) = s
      BY <2>3 DEF Touching
    <3>3. QED BY <1>9, <2>3, <3>1, <3>2 DEF Taken
  <2>4. QED BY <1>2, <1>3, <1>7, <2>1, <2>2, <2>3
<1>11. Ahead'
  <2> SUFFICES ASSUME NEW t \in Tokens, call[t] # NoCall, StillClean(CallSource(t))
               PROVE  Frontier' <= call[t].m
    BY <1>4 DEF Ahead, CallSource, Clean, StillClean, Touching
  <2>1. call[t].m \in Nat /\ call[t].r \in RowsOf(call[t].m)
    BY <1>1, CallDocs, Numbers
  <2>2. Clean(CallSource(t))
    BY <1>8
  <2>3. m <= call[t].m
    BY <1>2, <2>2 DEF OrderInv, Ahead
  <2>4. CASE call[t].m # m
    BY <1>2, <1>3, <1>7, <2>1, <2>3, <2>4
  <2>5. CASE call[t].m = m
    <3>1. Frontier' # m + 1
      <4>1. SUFFICES ASSUME Frontier' = m + 1 PROVE FALSE
        OBVIOUS
      <4>2. Taken(c, call[t].r) /\ pc[c] # "wait"
        BY <1>9, <2>1, <2>5, <4>1 DEF CallSource
      <4>3. QED BY <2>5, <4>2 DEF Taken, CallDoc
    <3>2. QED BY <1>2, <1>3, <1>7, <2>5, <3>1
  <2>6. QED BY <2>4, <2>5
<1>12. QED BY <1>3, <1>5, <1>10, <1>11 DEF OrderInv

(* The rows of an accepted record, each with its document.                 *)
LEMMA RowDocs ==
  ASSUME NEW m \in Offsets, NEW r \in RowsOf(m)
  PROVE  /\ r \in Nat \ {0}
         /\ \A q \in RowsOf(m) : q \in Nat \ {0} /\ DocumentOf(m, q) \in Documents
         /\ \A q \in RowsOf(m) : SourceAt(m, q) \in Sources
         /\ 1..r \subseteq RowsOf(m)
<1>1. Decoded(m).verdict = "changes"
  BY RowsOnlyOfChanges, LogAssumption
<1>2. \A q \in RowsOf(m) : SourceAt(m, q) \in Sources
  BY DEF Sources
<1>3. QED BY <1>1, <1>2, LogAssumption

(* The row in hand is called for: the taken documents are not its own.     *)
LEMMA AcquireStep ==
  ASSUME IInv, OrderInv, [Next]_vars, ~disturbed',
         NEW c \in Consumers, NEW t \in Tokens, AcquireAndCall(c, t)
  PROVE  OrderInv'
<1>1. TypeInv /\ HandInv /\ Busy(c) /\ owner = c
  BY ConsumersAssumption DEF IInv, OrderInv, HandInv, OneWorker, AcquireAndCall
<1>2. Frontier \in Nat /\ Frontier = msg[c]
  BY <1>1, FrontierTyped
<1>3. HandInv'
  BY <1>1, NextHand
<1>4. /\ UNCHANGED <<owner, msg, row, index, dlq, lost>>
      /\ pc[c] = "lock" /\ pc'[c] = "wait" /\ token'[c] = t
      /\ call' = [call EXCEPT ![t] = [m |-> msg[c], r |-> row[c]]]
      /\ \A e \in Consumers : e # c => pc'[e] = pc[e]
  BY <1>1 DEF AcquireAndCall, kafkaVars, TypeInv, TypeOK
<1>5. Frontier' = Frontier
  BY <1>1, <1>2, <1>4, ConsumersAssumption DEF Frontier
<1>6. /\ call'[t] = [m |-> msg[c], r |-> row[c]]
      /\ \A u \in Tokens : u # t => call'[u] = call[u]
  BY <1>1, <1>4 DEF TypeInv, TypeOK
<1>7. Passed'
  BY <1>4, <1>5 DEF OrderInv, Passed, Clean, Touching
<1>8. Ahead'
  <2> SUFFICES ASSUME NEW u \in Tokens, call'[u] # NoCall, Clean(CallSource(u))'
               PROVE  Frontier <= call'[u].m
    BY <1>5 DEF Ahead
  <2>1. CASE u = t
    BY <1>2, <1>6, <2>1
  <2>2. CASE u # t
    BY <1>4, <1>6, <2>2 DEF OrderInv, Ahead, Clean, CallSource, Touching
  <2>3. QED BY <2>1, <2>2
<1>9. TakenInv'
  <2>1. \A e \in Consumers : e # c => pc'[e] \in {"down", "idle"}
    BY <1>1, <1>4 DEF HandInv, OneWorker
  <2>2. ASSUME NEW q \in 1..(row'[c] - 1), StillClean(SourceAt(msg'[c], q))
        PROVE  StillTaken(c, q)
    <3> DEFINE d == DocumentOf(msg[c], q)
    <3>1. Clean(SourceAt(msg[c], q))
      BY <1>4, <2>2 DEF StillClean, Clean
    <3>2. Taken(c, q)
      BY <1>4, <2>2, <3>1 DEF OrderInv, TakenInv, RowsTaken, Applying
    <3>3. \A u \in Tokens : u # t => ~(call'[u] # NoCall /\ DocumentOf(call'[u].m, call'[u].r) = d)
      BY <1>4, <1>6, <3>2 DEF Taken, CallDoc
    <3>4. QED BY <1>4, <3>2, <3>3 DEF Taken, StillTaken
  <2>3. QED BY <1>4, <2>1, <2>2, TakenAfter
<1>10. QED BY <1>3, <1>7, <1>8, <1>9 DEF OrderInv

(* A row that is done joins the taken ones.                                *)
LEMMA ReleaseStep ==
  ASSUME IInv, OrderInv, [Next]_vars, Grows, ~disturbed', NEW c \in Consumers, Release(c)
  PROVE  OrderInv'
<1>1. TypeInv /\ HandInv /\ Busy(c) /\ owner = c
  BY ConsumersAssumption DEF IInv, OrderInv, HandInv, OneWorker, Release
<1>2. /\ UNCHANGED <<owner, position, committed, msg, stopping, index, call, dlq, lost>>
      /\ pc[c] = "release" /\ succeeded'[c] = FALSE
      /\ \A e \in Consumers : e # c => pc'[e] = pc[e]
  BY <1>1 DEF Release, kafkaVars, serverVars, TypeInv, TypeOK
<1>3. \/ pc'[c] \in {"backoff", "dlq"}
      \/ pc'[c] = "lock" /\ row'[c] = row[c] + 1 /\ succeeded[c]
      \/ pc'[c] = "commit" /\ row[c] + 1 \notin RowsOf(msg[c]) /\ succeeded[c]
  BY <1>1 DEF Release, RowDone, AfterFailure, TypeInv, TypeOK
<1>4. HandInv' /\ Frontier' \in Nat
  BY <1>1, NextHand
<1>5. \A e \in Consumers : Busy(e)' <=> Busy(e)
  BY <1>2, <1>3
<1>6. Passed' /\ Ahead'
  <2>1. Frontier' <= Frontier
    BY <1>1, <1>2, <1>5, FrontierFalls
  <2>2. QED BY <1>1, <1>2, <1>4, <2>1, PassedStays
<1>7. msg[c] \in Offsets /\ row[c] \in RowsOf(msg[c])
  BY <1>1, <1>2 DEF TypeInv, TypeOK
<1>8. ASSUME NEW q \in 1..row[c], StillClean(SourceAt(msg'[c], q)), succeeded[c]
      PROVE  StillTaken(c, q)
  <2>1. Clean(SourceAt(msg[c], q))
    BY <1>2, <1>8 DEF StillClean, Clean
  <2>2. q = row[c] \/ q \in 1..(row[c] - 1)
    BY <1>7, RowDocs
  <2>3. Taken(c, q)
    BY <1>2, <1>8, <2>1, <2>2
       DEF OrderInv, TakenInv, RowsTaken, SuccessTaken, Applying, Source
  <2>4. QED BY <1>2, <2>3 DEF Taken, StillTaken, CallDoc
<1>9. TakenInv'
  <2>1. \A e \in Consumers : e # c => pc'[e] \in {"down", "idle"}
    BY <1>1, <1>2 DEF HandInv, OneWorker
  <2>2. ASSUME pc'[c] = "lock", NEW q \in 1..(row'[c] - 1) PROVE q \in 1..row[c]
    BY <1>3, <1>7, <2>2, RowDocs
  <2>3. ASSUME pc'[c] = "commit", NEW q \in RowsOf(msg'[c]) PROVE q \in 1..row[c]
    <3>1. RowsOf(msg[c]) = 1..Len(Decoded(msg[c]).changes) /\ row[c] + 1 \notin RowsOf(msg[c])
          /\ Len(Decoded(msg[c]).changes) \in Nat
      BY <1>3, <1>7, <2>3, RowsOnlyOfChanges, LogAssumption
    <3>2. row[c] \in Nat /\ row[c] <= Len(Decoded(msg[c]).changes)
      BY <1>7, <3>1
    <3>3. row[c] = Len(Decoded(msg[c]).changes)
      BY <3>1, <3>2
    <3>4. QED BY <1>2, <2>3, <3>1, <3>3
  <2>4. QED BY <1>2, <1>3, <1>8, <2>1, <2>2, <2>3, TakenAfter
<1>10. QED BY <1>4, <1>6, <1>9 DEF OrderInv

(* A running call is for the record in hand or a later one.                *)
LEMMA ServeStep ==
  ASSUME IInv, SerialInv, OrderInv, [Next]_vars, Grows, ~disturbed',
         NEW t \in Tokens, Serve(t)
  PROVE  OrderInv'
<1> DEFINE s0 == CallSource(t)
<1>1. /\ TypeInv /\ RowInv /\ HandInv /\ s0 \in Sources /\ call[t].m \in Nat
      /\ ~disturbed
  BY CallDocs, Numbers DEF IInv, OrderInv, Serve, CallSource, Sources
<1>2. PICK ok \in BOOLEAN :
        /\ index' = [index EXCEPT ![s0] = call[t].m] \/ (~ok /\ index' = index)
        /\ succeeded' = [c \in Consumers |-> IF Waits(c, t) THEN ok ELSE succeeded[c]]
  BY DEF Serve, CallSource
<1>3. /\ UNCHANGED <<owner, position, committed, stopping, msg, row, token, dlq, lost>>
      /\ call[t] # NoCall /\ call' = [call EXCEPT ![t] = NoCall]
      /\ pc' = [c \in Consumers |-> IF Waits(c, t) THEN "release" ELSE pc[c]]
  BY DEF Serve, kafkaVars
<1>4. /\ call'[t] = NoCall
      /\ \A u \in Tokens : u # t => call'[u] = call[u]
  BY <1>1, <1>3 DEF TypeInv, TypeOK
<1>5. HandInv' /\ Frontier' \in Nat /\ Frontier \in Nat
  BY <1>1, NextHand, FrontierTyped
<1>6. \A e \in Consumers : Busy(e)' <=> Busy(e)
  BY <1>3 DEF Waits
<1>7. Frontier' <= Frontier
  BY <1>1, <1>3, <1>6, FrontierFalls
<1>8. \A s \in Sources :
        index'[s] = index[s] \/ (s = s0 /\ index'[s] = call[t].m)
  BY <1>1, <1>2 DEF TypeInv, TypeOK
<1>9. \A s : StillClean(s) <=> Clean(s)
  BY <1>3 DEF StillClean, Clean
<1>10. Clean(s0) => Frontier <= call[t].m
  BY <1>3 DEF OrderInv, Ahead
<1>11. Passed'
  <2> SUFFICES ASSUME NEW s \in Sources, Clean(s)', NEW m \in Touching(s), m < Frontier'
               PROVE  m <= index'[s]
    BY DEF Passed, Touching
  <2>1. m \in Nat /\ Clean(s)
    BY <1>1, <1>3, Numbers DEF Clean, Touching
  <2>2. m < Frontier
    BY <1>5, <1>7, <2>1
  <2>3. m <= index[s]
    BY <2>1, <2>2 DEF OrderInv, Passed
  <2>4. s = s0 => m <= call[t].m
    BY <1>1, <1>5, <1>10, <2>1, <2>2
  <2>5. QED BY <1>8, <2>3, <2>4
<1>12. Ahead'
  <2> SUFFICES ASSUME NEW u \in Tokens, call'[u] # NoCall, Clean(CallSource(u))'
               PROVE  Frontier' <= call'[u].m
    BY DEF Ahead
  <2>1. u # t /\ call'[u] = call[u] /\ call[u].m \in Nat
    BY <1>1, <1>4, Numbers
  <2>2. Frontier <= call[u].m
    BY <1>3, <2>1 DEF OrderInv, Ahead, Clean, CallSource, Touching
  <2>3. QED BY <1>5, <1>7, <2>1, <2>2
<1>13. ASSUME NEW e \in Consumers, Busy(e), NEW q \in RowsOf(msg[e]), msg[e] \in Offsets,
              Clean(SourceAt(msg[e], q)), Taken(e, q)
       PROVE  /\ msg[e] <= index'[SourceAt(msg[e], q)]
              /\ \A u \in Tokens :
                   call'[u] # NoCall /\ DocumentOf(call'[u].m, call'[u].r) = DocumentOf(msg[e], q) =>
                     pc[e] = "wait" /\ u = token[e] /\ u # t
  <2>1. Frontier = msg[e] /\ SourceAt(msg[e], q) \in Sources
    BY <1>1, <1>13, FrontierTyped DEF HandInv, OneWorker, Sources
  <2>2. msg[e] <= index[SourceAt(msg[e], q)]
    BY <1>13 DEF Taken
  <2>3. msg[e] <= index'[SourceAt(msg[e], q)]
    BY <1>8, <1>10, <1>13, <2>1, <2>2
  <2>4. QED BY <1>4, <1>13, <2>3 DEF Taken, CallDoc
<1>14. ASSUME NEW e \in Consumers, Busy(e), NEW q \in RowsOf(msg[e]), msg[e] \in Offsets,
              Clean(SourceAt(msg[e], q)), Taken(e, q)
       PROVE  StillTaken(e, q)
  <2>1. pc'[e] = pc[e] \/ token[e] = t
    BY <1>3 DEF Waits
  <2>2. QED BY <1>3, <1>13, <1>14, <2>1 DEF StillTaken
<1>15. ASSUME NEW e \in Consumers, Waits(e, t), ok = TRUE
       PROVE  StillTaken(e, row[e])
  <2>1. call[t] = [m |-> msg[e], r |-> row[e]]
    BY <1>1, <1>3, <1>15 DEF Waits, RowInv, ConsumerInv, CallOfWaiter
  <2>2. s0 = SourceAt(msg[e], row[e]) /\ CallDoc(t) = DocumentOf(msg[e], row[e])
        /\ call[t].m = msg[e]
    BY <2>1 DEF CallSource, CallDoc
  <2>3. index'[s0] = msg[e] /\ msg[e] \in Nat
    BY <1>1, <1>2, <1>15, <2>2, Numbers DEF TypeInv, TypeOK
  <2>4. \A u \in Tokens : call[u] # NoCall /\ CallDoc(u) = CallDoc(t) => u = t
    BY <1>1, <1>3 DEF SerialInv, LeaseHeld
  <2>5. \A u \in Tokens : ~(call'[u] # NoCall /\ DocumentOf(call'[u].m, call'[u].r) = CallDoc(t))
    BY <1>4, <2>4 DEF CallDoc
  <2>6. msg'[e] <= index'[s0]
    BY <1>3, <2>3
  <2>7. QED BY <1>3, <2>2, <2>5, <2>6 DEF StillTaken
<1>16. TakenInv'
  <2> SUFFICES ASSUME NEW e \in Consumers
      PROVE  /\ pc'[e] \in {"lock", "wait"} \/ (pc'[e] = "release" /\ succeeded'[e]) =>
                  \A q \in 1..(row'[e] - 1) :
                    StillClean(SourceAt(msg'[e], q)) => StillTaken(e, q)
             /\ pc'[e] = "release" /\ succeeded'[e] /\ StillClean(SourceAt(msg'[e], row'[e])) =>
                  StillTaken(e, row'[e])
             /\ pc'[e] = "commit" =>
                  \A q \in RowsOf(msg'[e]) :
                    StillClean(SourceAt(msg'[e], q)) => StillTaken(e, q)
    BY TakenAfter
  <2>1. msg'[e] = msg[e] /\ row'[e] = row[e]
    BY <1>3
  <2>2. \/ pc'[e] = pc[e] /\ succeeded'[e] = succeeded[e] /\ ~Waits(e, t)
        \/ pc'[e] = "release" /\ succeeded'[e] = ok /\ Waits(e, t)
    BY <1>2, <1>3
  <2>3. Syncing(e) => msg[e] \in Offsets /\ row[e] \in RowsOf(msg[e])
    BY <1>1, CallDocs
  <2>4. ASSUME pc'[e] \in {"lock", "wait"} \/ (pc'[e] = "release" /\ succeeded'[e]),
               NEW q \in 1..(row[e] - 1), Clean(SourceAt(msg[e], q))
        PROVE  StillTaken(e, q)
    <3>1. Applying(e) /\ Syncing(e) /\ Busy(e)
      BY <2>2, <2>4 DEF Applying, Syncing, Waits
    <3>2. msg[e] \in Offsets /\ q \in RowsOf(msg[e])
      BY <2>3, <3>1, RowDocs
    <3>3. Taken(e, q)
      BY <2>4, <3>1 DEF OrderInv, TakenInv, RowsTaken
    <3>4. QED BY <1>14, <2>4, <3>1, <3>2, <3>3
  <2>5. ASSUME pc'[e] = "release", succeeded'[e], Clean(Source(e))
        PROVE  StillTaken(e, row[e])
    <3>1. CASE Waits(e, t)
      BY <1>15, <2>2, <2>5, <3>1
    <3>2. CASE ~Waits(e, t)
      <4>1. pc[e] = "release" /\ succeeded[e] /\ Syncing(e) /\ Busy(e)
        BY <2>2, <2>5, <3>2 DEF Syncing
      <4>2. msg[e] \in Offsets /\ row[e] \in RowsOf(msg[e])
        BY <2>3, <4>1
      <4>3. Taken(e, row[e])
        BY <2>5, <4>1 DEF OrderInv, TakenInv, SuccessTaken
      <4>4. QED BY <1>14, <2>5, <4>1, <4>2, <4>3 DEF Source
    <3>3. QED BY <3>1, <3>2
  <2>6. ASSUME pc'[e] = "commit", NEW q \in RowsOf(msg[e]), Clean(SourceAt(msg[e], q))
        PROVE  StillTaken(e, q)
    <3>1. pc[e] = "commit" /\ Busy(e)
      BY <2>2, <2>6
    <3>2. msg[e] \in Offsets
      BY <1>1, <3>1 DEF TypeInv, TypeOK
    <3>3. Taken(e, q)
      BY <2>6, <3>1 DEF OrderInv, TakenInv, CommitTaken
    <3>4. QED BY <1>14, <2>6, <3>1, <3>2, <3>3
  <2>7. QED BY <1>9, <2>1, <2>4, <2>5, <2>6 DEF Source
<1>17. QED BY <1>5, <1>11, <1>12, <1>16 DEF OrderInv

LEMMA NextOrder ==
  ASSUME IInv, SerialInv, OrderInv, ~disturbed', [Next]_vars
  PROVE  OrderInv'
<1>1. Grows /\ TypeInv /\ HandInv
  BY NextGrows DEF IInv, OrderInv
<1>2. ASSUME (\E d \in Documents : LockExpires(d)) \/ UNCHANGED vars PROVE OrderInv'
  <2>1. UNCHANGED <<consumerVars, kafkaVars, serverVars>>
    BY <1>2 DEF LockExpires, vars
  <2>2. Frontier' <= Frontier
    BY <1>1, <2>1, FrontierFalls DEF consumerVars, kafkaVars
  <2>3. QED BY <1>1, <2>1, <2>2, QuietOrder DEF consumerVars, serverVars
<1>3. QED
  BY <1>1, <1>2, QuietSteps, FinishingSteps, AcquireStep, ReleaseStep, ServeStep
     DEF Next, Step, Crash, Exit, AwaitMessage

LEMMA InitOrder == Init => OrderInv
<1> SUFFICES ASSUME Init PROVE OrderInv
  OBVIOUS
<1>1. HandInv /\ TakenInv
  BY ConsumersAssumption
     DEF Init, HandInv, OneWorker, InHand, TakenInv, RowsTaken, SuccessTaken, CommitTaken, Applying
<1>2. Frontier = 1
  BY DEF Init, Frontier
<1>3. Passed
  <2>1. \A s \in Sources : \A m \in Touching(s) : m \in Nat /\ m # 0
    BY LogAssumption DEF Touching
  <2>2. QED BY <1>2, <2>1 DEF Passed
<1>4. Ahead
  BY DEF Init, Ahead
<1>5. QED BY <1>1, <1>3, <1>4 DEF OrderInv

(* LastChangeWins, docs/architecture.md:21: the order of a source's changes*)
(* survives any number of crashes, shutdowns, retries, redeliveries, lost  *)
(* replies and dead letters, and every reassignment of the partition that  *)
(* finds its owner between two records.  Only a call that outlives its     *)
(* lease or its client's patience, and an owner that loses the partition   *)
(* with a record in its hands, can break it.                               *)
THEOREM LastChangesWin == Spec => []LastChangeWins
<1>1. ASSUME IInv, OrderInv, ~disturbed PROVE LastChangeWins
  <2> SUFFICES ASSUME Quiescent, NEW s \in Sources, Clean(s), NEW m \in Touching(s)
               PROVE  m <= index[s]
    BY DEF LastChangeWins, Clean
  <2>1. TypeInv /\ owner \in Consumers
    BY <1>1 DEF IInv, TypeInv, TypeOK, Quiescent
  <2>2. Frontier \in {committed + 1, position + 1}
    BY <2>1 DEF Frontier, Quiescent
  <2>3. committed + 1 \notin Offsets /\ position + 1 \notin Offsets
    BY DEF Quiescent
  <2>4. Len(Log) \in Nat /\ Offsets = 1..Len(Log) /\ m \in 1..Len(Log)
    BY LogAssumption DEF Touching
  <2>5. committed \in Nat /\ position \in Nat
    BY <2>1, Numbers
  <2>6. m < Frontier
    BY <2>2, <2>3, <2>4, <2>5
  <2>7. QED BY <1>1, <2>6 DEF OrderInv, Passed
<1>2. disturbed => LastChangeWins
  BY DEF LastChangeWins
<1>3. IInv /\ SerialInv /\ (disturbed \/ OrderInv) /\ [Next]_vars => (disturbed \/ OrderInv)'
  <2>1. ASSUME [Next]_vars, disturbed PROVE disturbed'
    BY <2>1, NextGrows DEF Grows
  <2>2. QED BY <2>1, NextOrder
<1>4. Spec => []SerialInv
  BY Serial
<1>5. Spec => [](disturbed \/ OrderInv)
  BY <1>3, <1>4, Inductive, InitOrder, PTL DEF Spec
<1>6. QED BY <1>1, <1>2, <1>5, Inductive, PTL
=============================================================================
