---------------------------- MODULE MemoriesProofs ----------------------------
(***************************************************************************)
(* Proofs about the memories, for any number of overlapping requests, any  *)
(* messages and any candidates of the model.                               *)
(***************************************************************************)
EXTENDS Memories, FiniteSetTheorems, TLAPS

Statuses == {"active", "candidate", "rejected"}

Fields == {"at", "written", "said", "todo", "start", "target", "loaded", "wrote", "others"}

TurnOps(m, llm) ==
  {Store(Stored(m, llm)[i].key, Stored(m, llm)[i].id, "active") : i \in DOMAIN Stored(m, llm)}

ManualOps == {Store(k, "manual", st) : k \in ManualKeys, st \in {"active", "candidate"}}

OpsOfTurns == UNION {UNION {TurnOps(m, llm) : llm \in LlmAnswers} : m \in Messages}

StoreOps == OpsOfTurns \cup ManualOps

OtherOps ==
  {[id |-> i, op |-> "patch", set |-> p] : i \in Ids, p \in Patches}
    \cup {[id |-> i, op |-> "delete"] : i \in Ids} \cup {[op |-> "clear"]}

IsRow(r) == "status" \in DOMAIN r /\ r.status \in Statuses

Table(f, ids) == DOMAIN f \subseteq ids /\ \A i \in DOMAIN f : IsRow(f[i])

-----------------------------------------------------------------------------
(* A transaction.  The deletion of a memory leaves what others have read of*)
(* it stale, and the proof rests on what that can be: the row a turn holds *)
(* of a memory that was deleted is not one it found as a candidate, so the *)
(* attributes it changes do not include the status.                        *)

Shape(x, ids) ==
  /\ DOMAIN x = Fields
  /\ x.at \in {"context", "touch", "next", "found"}
  /\ Table(x.written, ids) /\ Table(x.loaded, ids)

(* What it has loaded is still there.                                      *)
Present(x, base) ==
  \A i \in DOMAIN x.loaded : i \notin DOMAIN x.written => IsRow(base[i])

Planned(x) ==
  \/ x.todo \in Seq(StoreOps)
  \/ x.said = << >> /\ DOMAIN x.written = {} /\ \E o \in OtherOps : x.todo = <<o>>

Staged(x) ==
  /\ x.at \in {"context", "touch"} => DOMAIN x.written = {} /\ x.todo \in Seq(StoreOps)
  /\ x.at = "found" => x.todo # << >> /\ (x.target = Nothing \/ x.target \in DOMAIN x.loaded)

Faithful(x, gone) ==
  x.said # << >> =>
    \A i \in gone :
      /\ i \in DOMAIN x.loaded => x.loaded[i].status # "candidate"
      /\ i \in DOMAIN x.written => x.written[i].status = "rejected"

Trans(x, ids, base, gone) ==
  Shape(x, ids) /\ Present(x, base) /\ Planned(x) /\ Staged(x) /\ Faithful(x, gone)

Committed(base, ids, gone) ==
  /\ ids \subseteq Ids
  /\ DOMAIN base = Ids
  /\ \A i \in Ids : base[i] = Nothing \/ (IsRow(base[i]) /\ i \in ids)
  /\ \A i \in gone : i \in ids /\ IsRow(base[i]) /\ base[i].status = "rejected"

Exclusive(t) ==
  \A s, u \in Slots :
    s # u /\ t[s].at # "idle" /\ t[u].at # "idle" => DOMAIN t[s].written \cap DOMAIN t[u].written = {}

Inv ==
  /\ DOMAIN tx = Slots
  /\ \A s \in Slots : tx[s] = Idle \/ Trans(tx[s], used, rows, forgotten)
  /\ Committed(rows, used, forgotten)
  /\ Exclusive(tx)

LEMMA OpenTrans ==
  ASSUME Inv, NEW s \in Slots
  PROVE  /\ tx[s].at # "idle" <=> tx[s] # Idle
         /\ tx[s].at # "idle" => Trans(tx[s], used, rows, forgotten)
BY DEF Inv, Trans, Shape, Idle

(* One transaction goes on; nothing is committed.                          *)
LEMMA LocalStep ==
  ASSUME Inv, NEW s \in Slots, NEW x, Trans(x, used', rows, forgotten),
         DOMAIN tx' = Slots, tx'[s] = x, \A u \in Slots \ {s} : tx'[u] = tx[u],
         UNCHANGED <<rows, forgotten>>, used \subseteq used', used' \subseteq Ids,
         \A u \in Slots \ {s} : tx[u].at # "idle" =>
           DOMAIN x.written \cap DOMAIN tx[u].written = {}
  PROVE  Inv'
<1>1. \A u \in Slots \ {s} : tx'[u] = Idle \/ Trans(tx'[u], used', rows, forgotten)
  BY DEF Inv, Trans, Shape, Table
<1>2. Exclusive(tx')
  BY DEF Inv, Exclusive
<1>3. Committed(rows, used', forgotten)
  BY DEF Inv, Committed
<1>4. QED BY <1>1, <1>2, <1>3 DEF Inv, Exclusive, Trans, Shape, Present, Planned, Staged, Faithful, Table

-----------------------------------------------------------------------------
(* A request begins                                                        *)

LEMMA OpsTyped ==
  /\ \A o \in StoreOps : o.op = "store" /\ o.status \in {"active", "candidate"}
  /\ \A o \in OtherOps :
       \/ o.op = "patch" /\ ("status" \in DOMAIN o.set => o.set.status = "active")
       \/ o.op \in {"delete", "clear"}
<1>1. \A o \in StoreOps : o.op = "store" /\ o.status \in {"active", "candidate"}
  <2>1. \A m \in Messages, llm \in LlmAnswers : \A o \in TurnOps(m, llm) :
          o.op = "store" /\ o.status = "active"
    BY DEF TurnOps, Store
  <2>2. \A o \in ManualOps : o.op = "store" /\ o.status \in {"active", "candidate"}
    BY DEF ManualOps, Store
  <2>3. ASSUME NEW o \in OpsOfTurns PROVE o.op = "store" /\ o.status \in {"active", "candidate"}
    <3>1. PICK m \in Messages : o \in UNION {TurnOps(m, llm) : llm \in LlmAnswers}
      BY Zenon DEF OpsOfTurns
    <3>2. PICK llm \in LlmAnswers : o \in TurnOps(m, llm)
      BY <3>1, Zenon
    <3>3. QED BY <2>1, <3>2
  <2>4. QED BY <2>2, <2>3 DEF StoreOps
<1>2. \A p \in Patches : "status" \in DOMAIN p => p.status = "active"
  BY DEF Patches
<1>3. QED BY <1>1, <1>2 DEF OtherOps

LEMMA BeginInv ==
  ASSUME Inv, NEW s \in Slots, NEW at \in {"context", "next"}, NEW said, NEW todo,
         \/ todo \in Seq(StoreOps)
         \/ at = "next" /\ said = << >> /\ \E o \in OtherOps : todo = <<o>>,
         Begin(s, at, said, todo)
  PROVE  Inv'
<1> DEFINE x == [at |-> at, written |-> << >>, said |-> said, todo |-> todo, start |-> requests,
                 target |-> Nothing, loaded |-> << >>, wrote |-> {}, others |-> {}]
<1>1. DOMAIN tx' = Slots /\ tx'[s] = x /\ \A u \in Slots \ {s} : tx'[u] = tx[u]
  BY DEF Begin, Inv
<1>2. DOMAIN x.written = {} /\ DOMAIN x.loaded = {}
  OBVIOUS
<1>3. Trans(x, used', rows, forgotten)
  BY <1>2 DEF Trans, Shape, Fields, Table, Present, Planned, Staged, Faithful
<1>4. UNCHANGED <<rows, used, forgotten>>
  BY DEF Begin
<1> HIDE DEF x
<1>5. QED BY <1>1, <1>2, <1>3, <1>4, LocalStep DEF Inv, Committed

Requests(s) ==
  \/ \E m \in Messages, llm \in LlmAnswers : Turn(s, m, llm)
  \/ \E k \in ManualKeys, st \in {"active", "candidate"} : AddMemory(s, k, st)
  \/ \E i \in used : RemoveMemory(s, i) \/ \E p \in Patches : PatchMemory(s, i, p)
  \/ ClearMemories(s)

LEMMA RequestInv ==
  ASSUME Inv, NEW s \in Slots, Requests(s)
  PROVE  Inv'
<1>1. ASSUME NEW m \in Messages, NEW llm \in LlmAnswers, Turn(s, m, llm) PROVE Inv'
  <2> DEFINE list == Stored(m, llm)
             todo == [i \in DOMAIN list |-> Store(list[i].key, list[i].id, "active")]
  <2>1. Len(list) \in Nat /\ DOMAIN list = 1..Len(list)
    BY CandidatesAssumption
  <2>2. \A i \in DOMAIN list : Store(list[i].key, list[i].id, "active") \in StoreOps
    <3>1. \A i \in DOMAIN list : Store(list[i].key, list[i].id, "active") \in TurnOps(m, llm)
      BY DEF TurnOps
    <3>2. TurnOps(m, llm) \subseteq StoreOps
      <4>1. TurnOps(m, llm) \subseteq UNION {TurnOps(m, l) : l \in LlmAnswers}
        BY Zenon
      <4>2. UNION {TurnOps(m, l) : l \in LlmAnswers} \subseteq OpsOfTurns
        BY Zenon DEF OpsOfTurns
      <4>3. QED BY <4>1, <4>2 DEF StoreOps
    <3>3. QED BY <3>1, <3>2
  <2> DEFINE F(i) == Store(list[i].key, list[i].id, "active")
  <2>3. todo \in Seq(StoreOps)
    <3>1. todo = [i \in 1..Len(list) |-> F(i)]
      BY <2>1
    <3>2. \A i \in 1..Len(list) : F(i) \in StoreOps
      BY <2>1, <2>2
    <3> HIDE DEF F, todo, list
    <3>3. QED BY <2>1, <3>1, <3>2
  <2>4. Begin(s, "context", Statements(m, llm), todo)
    BY <1>1 DEF Turn
  <2> HIDE DEF todo
  <2>5. QED BY <2>3, <2>4, BeginInv
<1>2. ASSUME NEW k \in ManualKeys, NEW st \in {"active", "candidate"}, AddMemory(s, k, st)
      PROVE  Inv'
  <2>1. Store(k, "manual", st) \in StoreOps
    <3>1. Store(k, "manual", st) \in ManualOps
      BY DEF ManualOps, Store
    <3>2. QED BY <3>1 DEF StoreOps
  <2>2. <<Store(k, "manual", st)>> \in Seq(StoreOps)
    BY <2>1
  <2>3. QED BY <1>2, <2>2, BeginInv DEF AddMemory
<1>3. ASSUME NEW o \in OtherOps, Begin(s, "next", << >>, <<o>>) PROVE Inv'
  BY <1>3, BeginInv
<1>4. \A i \in used : i \in Ids
  BY DEF Inv, Committed
<1>5. ASSUME NEW i \in used, RemoveMemory(s, i) PROVE Inv'
  BY <1>3, <1>4, <1>5 DEF RemoveMemory, OtherOps
<1>6. ASSUME NEW i \in used, NEW p \in Patches, PatchMemory(s, i, p) PROVE Inv'
  BY <1>3, <1>4, <1>6 DEF PatchMemory, OtherOps
<1>7. CASE ClearMemories(s)
  BY <1>3, <1>7 DEF ClearMemories, OtherOps
<1>8. QED BY <1>1, <1>2, <1>5, <1>6, <1>7 DEF Requests

-----------------------------------------------------------------------------
(* Loading                                                                 *)

(* What a transaction reads of a memory that was deleted is not a candidate*)
(* any more, unless it has written it itself.                              *)
LEMMA SeenRow ==
  ASSUME Inv, NEW s \in Slots, tx[s].at # "idle", NEW i \in Ids, Seen(s, i) # Nothing
  PROVE  /\ i \in used /\ IsRow(Seen(s, i))
         /\ i \notin DOMAIN tx[s].written => IsRow(rows[i])
         /\ tx[s].said # << >> /\ i \in forgotten => Seen(s, i).status = "rejected"
<1>1. Trans(tx[s], used, rows, forgotten)
  BY OpenTrans
<1>2. CASE i \in DOMAIN tx[s].written
  BY <1>1, <1>2 DEF Trans, Shape, Table, Faithful, Seen
<1>3. CASE i \notin DOMAIN tx[s].written
  BY <1>3 DEF Inv, Committed, Seen
<1>4. QED BY <1>2, <1>3

LEMMA LoadedRows ==
  ASSUME Inv, NEW s \in Slots, tx[s].at # "idle", NEW ids, ids \subseteq Visible(s),
         NEW x, DOMAIN x = Fields, x.loaded = Loaded(s, ids),
         x.written = tx[s].written, x.said = tx[s].said
  PROVE  /\ DOMAIN x.loaded = DOMAIN tx[s].loaded \cup ids
         /\ Table(x.loaded, used) /\ Present(x, rows) /\ Faithful(x, forgotten)
<1>1. Trans(tx[s], used, rows, forgotten)
  BY OpenTrans
<1>2. DOMAIN x.loaded = DOMAIN tx[s].loaded \cup ids
  BY DEF Loaded
<1>3. \A i \in DOMAIN tx[s].loaded : x.loaded[i] = tx[s].loaded[i]
  BY DEF Loaded
<1>4. \A i \in ids : i \notin DOMAIN tx[s].loaded => x.loaded[i] = Seen(s, i)
  BY DEF Loaded
<1>5. \A i \in ids : i \in Ids /\ Seen(s, i) # Nothing
  BY DEF Visible
<1>6. Table(x.loaded, used)
  BY <1>1, <1>2, <1>3, <1>4, <1>5, SeenRow DEF Table, Trans, Shape
<1>7. Present(x, rows)
  BY <1>1, <1>2, <1>5, SeenRow DEF Present, Trans
<1>8. Faithful(x, forgotten)
  BY <1>1, <1>2, <1>3, <1>4, <1>5, SeenRow DEF Faithful, Trans
<1>9. QED BY <1>2, <1>6, <1>7, <1>8

LEMMA ContextInv ==
  ASSUME Inv, NEW s \in Slots, Context(s)
  PROVE  Inv'
<1> DEFINE ids == {i \in Visible(s) : Live(Seen(s, i))}
           x == [tx[s] EXCEPT !.at = "touch", !.loaded = Loaded(s, ids)]
<1>1. Trans(tx[s], used, rows, forgotten) /\ tx[s].at = "context"
  BY OpenTrans DEF Context
<1>2. tx' = [tx EXCEPT ![s] = x] /\ UNCHANGED <<rows, used, forgotten>>
  BY DEF Context
<1>3. /\ DOMAIN x = Fields /\ x.at = "touch" /\ x.loaded = Loaded(s, ids)
      /\ x.written = tx[s].written /\ x.said = tx[s].said /\ x.todo = tx[s].todo
  BY <1>1 DEF Trans, Shape, Fields
<1>4. ids \subseteq Visible(s)
  OBVIOUS
<1>5. DOMAIN tx' = Slots /\ tx'[s] = x /\ \A u \in Slots \ {s} : tx'[u] = tx[u]
  BY <1>2 DEF Inv
<1> HIDE DEF ids, x
<1>6. Table(x.loaded, used) /\ Present(x, rows) /\ Faithful(x, forgotten)
  BY <1>1, <1>3, <1>4, LoadedRows
<1>7. Trans(x, used', rows, forgotten)
  BY <1>1, <1>2, <1>3, <1>6 DEF Trans, Shape, Planned, Staged
<1>8. \A u \in Slots \ {s} : tx[u].at # "idle" => DOMAIN x.written \cap DOMAIN tx[u].written = {}
  BY <1>1, <1>3 DEF Inv, Exclusive
<1>9. QED BY <1>2, <1>5, <1>7, <1>8, LocalStep DEF Inv, Committed

LEMMA FindInv ==
  ASSUME Inv, NEW s \in Slots, Find(s)
  PROVE  Inv'
<1> DEFINE op == Head(tx[s].todo)
           named == CASE op.op = "store" -> {i \in Visible(s) : Seen(s, i).key = op.key}
                      [] op.op = "clear" -> {}
                      [] OTHER -> {op.id} \cap Visible(s)
<1>1. Trans(tx[s], used, rows, forgotten) /\ tx[s].at = "next" /\ tx[s].todo # << >>
  BY OpenTrans DEF Find
<1>2. PICK target \in IF named = {} THEN {Nothing} ELSE LatestOf(s, named) :
        tx' = [tx EXCEPT ![s].at = "found", ![s].target = target,
                         ![s].loaded = Loaded(s, {target} \ {Nothing})]
  BY DEF Find
<1>3. named \subseteq Visible(s)
  <2>1. CASE op.op = "store"
    BY <2>1
  <2>2. CASE op.op = "clear"
    BY <2>2
  <2>3. CASE op.op \notin {"store", "clear"}
    BY <2>3
  <2>4. QED BY <2>1, <2>2, <2>3
<1>4. {target} \ {Nothing} \subseteq Visible(s)
  BY <1>2, <1>3 DEF LatestOf
<1> DEFINE ids == {target} \ {Nothing}
           x == [tx[s] EXCEPT !.at = "found", !.target = target, !.loaded = Loaded(s, ids)]
<1>5. tx' = [tx EXCEPT ![s] = x] /\ UNCHANGED <<rows, used, forgotten>>
  BY <1>2 DEF Find
<1>6. /\ DOMAIN x = Fields /\ x.at = "found" /\ x.loaded = Loaded(s, ids) /\ x.target = target
      /\ x.written = tx[s].written /\ x.said = tx[s].said /\ x.todo = tx[s].todo
  BY <1>1 DEF Trans, Shape, Fields
<1>7. DOMAIN tx' = Slots /\ tx'[s] = x /\ \A u \in Slots \ {s} : tx'[u] = tx[u]
  BY <1>5 DEF Inv
<1>8. target = Nothing \/ target \in ids
  OBVIOUS
<1>9. ids \subseteq Visible(s)
  BY <1>4
<1> HIDE DEF ids, x, named, op
<1>10. /\ Table(x.loaded, used) /\ Present(x, rows) /\ Faithful(x, forgotten)
       /\ DOMAIN x.loaded = DOMAIN tx[s].loaded \cup ids
  BY <1>1, <1>6, <1>9, LoadedRows
<1>11. Trans(x, used', rows, forgotten)
  BY <1>1, <1>5, <1>6, <1>8, <1>10 DEF Trans, Shape, Planned, Staged
<1>12. \A u \in Slots \ {s} : tx[u].at # "idle" => DOMAIN x.written \cap DOMAIN tx[u].written = {}
  BY <1>1, <1>6 DEF Inv, Exclusive
<1>13. QED BY <1>5, <1>7, <1>11, <1>12, LocalStep DEF Inv, Committed

-----------------------------------------------------------------------------
(* Writing                                                                 *)

LEMMA WriteStep ==
  ASSUME Inv, NEW s \in Slots, tx[s].at # "idle", NEW new, NEW x,
         DOMAIN x = Fields, x.at = "next", x.written = Write(s, new), x.said = tx[s].said,
         x.todo \in Seq(StoreOps),
         Table(x.loaded, used), DOMAIN x.loaded \subseteq DOMAIN tx[s].loaded,
         used \subseteq used', used' \subseteq Ids, Table(new, used'),
         \A i \in DOMAIN new : \A u \in Slots \ {s} : tx[u].at # "idle" => i \notin DOMAIN tx[u].written,
         tx[s].said # << >> => \A i \in forgotten :
            /\ i \in DOMAIN new => new[i].status = "rejected"
            /\ i \in DOMAIN x.loaded => x.loaded[i].status # "candidate",
         DOMAIN tx' = Slots, tx'[s] = x, \A u \in Slots \ {s} : tx'[u] = tx[u],
         UNCHANGED <<rows, forgotten>>
  PROVE  Inv'
<1>1. Trans(tx[s], used, rows, forgotten)
  BY OpenTrans
<1>2. /\ DOMAIN x.written = DOMAIN new \cup DOMAIN tx[s].written
      /\ \A i \in DOMAIN new : x.written[i] = new[i]
      /\ \A i \in DOMAIN x.written : i \notin DOMAIN new => x.written[i] = tx[s].written[i]
  BY DEF Write
<1>3. Table(x.written, used') /\ Table(x.loaded, used')
  BY <1>1, <1>2 DEF Table, Trans, Shape
<1>4. Present(x, rows)
  BY <1>1, <1>2 DEF Present, Trans
<1>5. Faithful(x, forgotten)
  BY <1>1, <1>2 DEF Faithful, Trans
<1>6. Trans(x, used', rows, forgotten)
  BY <1>3, <1>4, <1>5 DEF Trans, Shape, Planned, Staged
<1>7. \A u \in Slots \ {s} : tx[u].at # "idle" => DOMAIN x.written \cap DOMAIN tx[u].written = {}
  BY <1>2 DEF Inv, Exclusive
<1>8. QED BY <1>6, <1>7, LocalStep

LEMMA NotLocked ==
  ASSUME NEW s, NEW i, ~LockedByOther(s, i)
  PROVE  \A u \in Slots \ {s} : tx[u].at # "idle" => i \notin DOMAIN tx[u].written
BY DEF LockedByOther, Open

(* A row with other attributes is a row.                                   *)
LEMMA Stamped ==
  ASSUME NEW r, IsRow(r), NEW v
  PROVE  IsRow([r EXCEPT !.stamp = v]) /\ [r EXCEPT !.stamp = v].status = r.status
BY DEF IsRow

LEMMA TouchInv ==
  ASSUME Inv, NEW s \in Slots, Touch(s)
  PROVE  Inv'
<1> DEFINE ids == DOMAIN tx[s].loaded
           new == [i \in ids |-> [rows[i] EXCEPT !.stamp = tx[s].start]]
           x == [tx[s] EXCEPT !.at = "next", !.written = Write(s, new)]
<1>1. Trans(tx[s], used, rows, forgotten) /\ tx[s].at = "touch"
  BY OpenTrans DEF Touch
<1>2. tx' = [tx EXCEPT ![s] = x] /\ UNCHANGED <<rows, used, forgotten>>
  BY DEF Touch
<1>3. DOMAIN tx' = Slots /\ tx'[s] = x /\ \A u \in Slots \ {s} : tx'[u] = tx[u]
  BY <1>2 DEF Inv
<1>4. /\ DOMAIN x = Fields /\ x.at = "next" /\ x.written = Write(s, new)
      /\ x.loaded = tx[s].loaded /\ x.said = tx[s].said /\ x.todo = tx[s].todo
  BY <1>1 DEF Trans, Shape, Fields
<1>5. DOMAIN tx[s].written = {} /\ tx[s].todo \in Seq(StoreOps)
  BY <1>1 DEF Trans, Staged
<1>6. \A i \in ids : IsRow(rows[i])
  BY <1>1, <1>5 DEF Trans, Present
<1>7. /\ DOMAIN new = ids /\ \A i \in ids : IsRow(new[i]) /\ new[i].status = rows[i].status
  BY <1>6, Stamped
<1>8. ids \subseteq used /\ Table(tx[s].loaded, used)
  BY <1>1 DEF Trans, Shape, Table
<1>9. \A i \in ids : ~LockedByOther(s, i)
  BY DEF Touch
<1> HIDE DEF ids, x, new
<1>10. Table(new, used)
  BY <1>7, <1>8 DEF Table
<1>11. tx[s].said # << >> => \A i \in forgotten :
            /\ i \in DOMAIN new => new[i].status = "rejected"
            /\ i \in DOMAIN x.loaded => x.loaded[i].status # "candidate"
  BY <1>1, <1>4, <1>7 DEF Trans, Faithful, Inv, Committed
<1>12. used \subseteq Ids
  BY DEF Inv, Committed
<1>13. QED
  BY <1>1, <1>2, <1>3, <1>4, <1>5, <1>7, <1>8, <1>9, <1>10, <1>11, <1>12, NotLocked, WriteStep

LEMMA FlushedStep ==
  ASSUME Inv, NEW s \in Slots, tx[s].at = "found", NEW new, NEW loaded, NEW keys,
         Flushed(s, new, loaded, keys),
         Table(loaded, used), DOMAIN loaded = DOMAIN tx[s].loaded,
         used \subseteq used', used' \subseteq Ids, Table(new, used'),
         \A i \in DOMAIN new : \A u \in Slots \ {s} : tx[u].at # "idle" => i \notin DOMAIN tx[u].written,
         tx[s].said # << >> => \A i \in forgotten :
            /\ i \in DOMAIN new => new[i].status = "rejected"
            /\ i \in DOMAIN loaded => loaded[i].status # "candidate"
  PROVE  Inv'
<1> DEFINE more == Len(tx[s].todo) > 1
           kept == IF more THEN loaded ELSE << >>
           x == [tx[s] EXCEPT !.at = "next", !.todo = Tail(tx[s].todo), !.target = Nothing,
                              !.loaded = kept, !.written = Write(s, new),
                              !.wrote = tx[s].wrote \cup keys]
<1>1. Trans(tx[s], used, rows, forgotten) /\ tx[s].at # "idle"
  BY OpenTrans
<1>2. tx' = [tx EXCEPT ![s] = x] /\ UNCHANGED <<rows, forgotten>>
  BY DEF Flushed
<1>3. DOMAIN tx' = Slots /\ tx'[s] = x /\ \A u \in Slots \ {s} : tx'[u] = tx[u]
  BY <1>2 DEF Inv
<1>4. /\ DOMAIN x = Fields /\ x.at = "next" /\ x.written = Write(s, new)
      /\ x.loaded = kept /\ x.said = tx[s].said /\ x.todo = Tail(tx[s].todo)
  BY <1>1 DEF Trans, Shape, Fields
<1>5. Tail(tx[s].todo) \in Seq(StoreOps)
  <2>1. CASE tx[s].todo \in Seq(StoreOps)
    BY <1>1, <2>1 DEF Trans, Staged
  <2>2. CASE \E o \in OtherOps : tx[s].todo = <<o>>
    BY <2>2
  <2>3. QED BY <1>1, <2>1, <2>2 DEF Trans, Planned
<1>6. DOMAIN << >> = {}
  OBVIOUS
<1>7. Table(kept, used) /\ DOMAIN kept \subseteq DOMAIN tx[s].loaded
      /\ \A i \in DOMAIN kept : i \in DOMAIN loaded /\ kept[i] = loaded[i]
  BY <1>6 DEF Table
<1> HIDE DEF x, kept, more
<1>8. tx[s].said # << >> => \A i \in forgotten :
            /\ i \in DOMAIN new => new[i].status = "rejected"
            /\ i \in DOMAIN x.loaded => x.loaded[i].status # "candidate"
  BY <1>4, <1>7
<1>9. /\ Table(x.loaded, used) /\ DOMAIN x.loaded \subseteq DOMAIN tx[s].loaded
      /\ x.todo \in Seq(StoreOps)
  BY <1>4, <1>5, <1>7
<1>10. tx[s].at # "idle"
  BY <1>1
<1>11. UNCHANGED <<rows, forgotten>>
  BY <1>2
<1>12. QED
  BY <1>3, <1>4, <1>8, <1>9, <1>10, <1>11, WriteStep

(* What a request is doing.                                                *)
LEMMA CurrentOp ==
  ASSUME Inv, NEW s \in Slots, tx[s].at = "found", NEW op, op = Head(tx[s].todo)
  PROVE  /\ op \in StoreOps \/ op \in OtherOps
         /\ op \in StoreOps \/ (tx[s].said = << >> /\ DOMAIN tx[s].written = {})
<1>1. Trans(tx[s], used, rows, forgotten) /\ tx[s].todo # << >>
  BY OpenTrans DEF Trans, Staged
<1>2. CASE tx[s].todo \in Seq(StoreOps)
  BY <1>1, <1>2
<1>3. CASE tx[s].said = << >> /\ DOMAIN tx[s].written = {} /\ \E o \in OtherOps : tx[s].todo = <<o>>
  BY <1>3
<1>4. QED BY <1>1, <1>2, <1>3 DEF Trans, Planned

LEMMA LoadedSeen ==
  ASSUME Inv, NEW s \in Slots, tx[s].at # "idle", NEW i \in DOMAIN tx[s].loaded
  PROVE  /\ IsRow(tx[s].loaded[i]) /\ IsRow(Seen(s, i)) /\ i \in used
         /\ tx[s].said # << >> /\ i \in forgotten =>
              Seen(s, i).status = "rejected" /\ tx[s].loaded[i].status # "candidate"
<1>1. Trans(tx[s], used, rows, forgotten)
  BY OpenTrans
<1>2. IsRow(tx[s].loaded[i]) /\ i \in used
  BY <1>1 DEF Trans, Shape, Table
<1>3. IsRow(Seen(s, i))
  BY <1>1 DEF Trans, Shape, Table, Present, Seen
<1>4. tx[s].said # << >> /\ i \in forgotten =>
        Seen(s, i).status = "rejected" /\ tx[s].loaded[i].status # "candidate"
  BY <1>1 DEF Trans, Faithful, Seen, Inv, Committed
<1>5. QED BY <1>2, <1>3, <1>4

LEMMA FlushInsertInv ==
  ASSUME Inv, NEW s \in Slots, FlushInsert(s)
  PROVE  Inv'
<1> DEFINE op == Head(tx[s].todo)
<1>1. Trans(tx[s], used, rows, forgotten) /\ tx[s].at = "found" /\ op.op = "store"
  BY OpenTrans DEF FlushInsert
<1>2. op.status \in {"active", "candidate"}
  BY <1>1, CurrentOp, OpsTyped
<1> HIDE DEF op
<1>3. PICK i \in Ids :
        /\ used = 1..(i - 1) /\ used' = used \cup {i}
        /\ Flushed(s, Only(i, [key |-> op.key, status |-> op.status, active |-> TRUE,
                              content |-> op.content, stamp |-> tx[s].start]),
                   tx[s].loaded, {op.key})
  BY DEF FlushInsert, op
<1> DEFINE r == [key |-> op.key, status |-> op.status, active |-> TRUE,
                 content |-> op.content, stamp |-> tx[s].start]
           new == Only(i, r)
<1>4. DOMAIN new = {i} /\ new[i] = r
  BY DEF Only
<1>5. IsRow(r)
  BY <1>2 DEF IsRow, Statuses
<1>6. i \notin used /\ used' \subseteq Ids
  BY <1>3, BoundAssumption DEF Ids, Inv, Committed
<1>7. Flushed(s, new, tx[s].loaded, {op.key})
  BY <1>3
<1> HIDE DEF r, new
<1>8. Table(new, used')
  BY <1>3, <1>4, <1>5 DEF Table
<1>9. \A u \in Slots \ {s} : tx[u].at # "idle" => i \notin DOMAIN tx[u].written
  BY <1>6, OpenTrans DEF Trans, Shape, Table
<1>10. tx[s].said # << >> => \A j \in forgotten :
            /\ j \in DOMAIN new => new[j].status = "rejected"
            /\ j \in DOMAIN tx[s].loaded => tx[s].loaded[j].status # "candidate"
  BY <1>1, <1>4, <1>6 DEF Trans, Faithful, Inv, Committed
<1>11. Table(tx[s].loaded, used) /\ used \subseteq used'
  BY <1>1, <1>3 DEF Trans, Shape
<1>12. QED
  BY <1>1, <1>4, <1>6, <1>7, <1>8, <1>9, <1>10, <1>11, FlushedStep

(* Setting attributes of a row.                                            *)
LEMMA UpdatedRow ==
  ASSUME NEW r, IsRow(r), NEW set, "status" \in DOMAIN set => set["status"] \in Statuses
  PROVE  /\ IsRow(Updated(r, set))
         /\ Updated(r, set).status = IF "status" \in DOMAIN set THEN set["status"] ELSE r.status
BY DEF IsRow, Updated

LEMMA WantedStatus ==
  ASSUME NEW op, op \in StoreOps \/ op \in OtherOps, op.op # "clear", NEW r, IsRow(r)
  PROVE  /\ "status" \in DOMAIN Wanted(op, r) => Wanted(op, r)["status"] \in Statuses
         /\ op \in StoreOps /\ r.status = "active" => Wanted(op, r)["status"] = "active"
<1>1. CASE op \in StoreOps
  <2>1. op.op = "store" /\ op.status \in {"active", "candidate"}
    BY <1>1, OpsTyped
  <2>2. Wanted(op, r)["status"] =
          IF r.status = "active" /\ op.status = "candidate" THEN "active" ELSE op.status
    BY <2>1 DEF Wanted
  <2>3. QED BY <2>1, <2>2 DEF Statuses
<1>2. CASE op \in OtherOps /\ op.op = "patch"
  <2>1. Wanted(op, r) = op.set
    BY <1>2 DEF Wanted
  <2>2. "status" \in DOMAIN op.set => op.set.status = "active"
    BY <1>2, OpsTyped
  <2>3. op \notin StoreOps
    BY <1>2, OpsTyped
  <2>4. QED BY <2>1, <2>2, <2>3 DEF Statuses
<1>3. CASE op \in OtherOps /\ op.op = "delete"
  <2>1. Wanted(op, r) = [status |-> "rejected", active |-> FALSE]
    BY <1>3 DEF Wanted, Rejects
  <2>2. op \notin StoreOps
    BY <1>3, OpsTyped
  <2>3. QED BY <2>1, <2>2 DEF Statuses
<1>4. QED BY <1>1, <1>2, <1>3, OpsTyped

LEMMA FlushUpdateInv ==
  ASSUME Inv, NEW s \in Slots, FlushUpdate(s)
  PROVE  Inv'
<1> DEFINE op == Head(tx[s].todo)
           i == tx[s].target
           old == tx[s].loaded[i]
           want == Wanted(op, old)
           changed == Changed(want, old)
           set == [a \in changed |-> want[a]]
           new == [Updated(Seen(s, i), set) EXCEPT !.stamp = tx[s].start]
           keys == {old.key, Seen(s, i).key, new.key} \cup StatedKeys(op)
           fresh == [tx[s].loaded EXCEPT ![i] = Updated(old, want)]
<1>1. Trans(tx[s], used, rows, forgotten) /\ tx[s].at = "found" /\ op.op # "clear"
      /\ (op.op = "store" => old.status # "rejected")
  BY OpenTrans DEF FlushUpdate
<1>2. i \in DOMAIN tx[s].loaded
  BY <1>1 DEF FlushUpdate, Trans, Staged
<1>3. \/ Flushed(s, << >>, tx[s].loaded, keys)
      \/ ~LockedByOther(s, i) /\ Flushed(s, Only(i, new), fresh, keys)
  BY DEF FlushUpdate
<1>4. used' = used /\ used \subseteq Ids
  BY DEF FlushUpdate, Inv, Committed
<1>5. /\ op \in StoreOps \/ op \in OtherOps
      /\ tx[s].said # << >> => op \in StoreOps /\ op.op = "store"
  BY <1>1, CurrentOp, OpsTyped
<1> HIDE DEF op
<1>6. /\ IsRow(old) /\ IsRow(Seen(s, i)) /\ i \in used
      /\ tx[s].said # << >> /\ i \in forgotten =>
           Seen(s, i).status = "rejected" /\ old.status # "candidate"
  BY <1>1, <1>2, LoadedSeen
<1>7. /\ "status" \in DOMAIN want => want["status"] \in Statuses
      /\ op \in StoreOps /\ old.status = "active" => want["status"] = "active"
  BY <1>1, <1>5, <1>6, WantedStatus
<1>8. /\ "status" \in DOMAIN set => "status" \in DOMAIN want /\ set["status"] = want["status"]
      /\ "status" \in DOMAIN set => want["status"] # old["status"]
  BY DEF Changed
<1>9. old["status"] = old.status
  OBVIOUS
<1>10. Table(tx[s].loaded, used)
  BY <1>1 DEF Trans, Shape
<1> HIDE DEF want, changed, set, i, old
<1>11. /\ IsRow(Updated(Seen(s, i), set))
       /\ Updated(Seen(s, i), set).status =
             IF "status" \in DOMAIN set THEN set["status"] ELSE Seen(s, i).status
  BY <1>6, <1>7, <1>8, UpdatedRow
<1>12. /\ IsRow(Updated(old, want))
       /\ Updated(old, want).status = IF "status" \in DOMAIN want THEN want["status"] ELSE old.status
  BY <1>6, <1>7, UpdatedRow
<1>13. IsRow(new) /\ new.status = Updated(Seen(s, i), set).status
  BY <1>11, Stamped
<1> HIDE DEF new, keys
<1>14. ASSUME tx[s].said # << >>, i \in forgotten
       PROVE  new.status = "rejected" /\ Updated(old, want).status # "candidate"
  <2>1. old.status = "active"
    BY <1>1, <1>5, <1>6, <1>14 DEF IsRow, Statuses, old
  <2>2. want["status"] = "active"
    BY <1>5, <1>7, <1>14, <2>1
  <2>3. "status" \notin DOMAIN set
    BY <1>8, <1>9, <2>1, <2>2
  <2>4. QED BY <1>6, <1>11, <1>12, <1>13, <1>14, <2>1, <2>2, <2>3
<1>15. /\ DOMAIN fresh = DOMAIN tx[s].loaded /\ fresh[i] = Updated(old, want)
       /\ \A j \in DOMAIN tx[s].loaded : j # i => fresh[j] = tx[s].loaded[j]
  BY <1>2
<1>16. DOMAIN Only(i, new) = {i} /\ Only(i, new)[i] = new
  BY DEF Only
<1>17. \A j \in forgotten : tx[s].said # << >> /\ j \in DOMAIN tx[s].loaded =>
         tx[s].loaded[j].status # "candidate"
  BY <1>1 DEF Trans, Faithful
<1>18. CASE Flushed(s, << >>, tx[s].loaded, keys)
  <2>1. DOMAIN << >> = {} /\ Table(<< >>, used')
    BY DEF Table
  <2>2. QED BY <1>1, <1>4, <1>10, <1>17, <1>18, <2>1, FlushedStep
<1>19. CASE ~LockedByOther(s, i) /\ Flushed(s, Only(i, new), fresh, keys)
  <2> DEFINE one == Only(i, new)
  <2>1. DOMAIN one = {i} /\ one[i] = new /\ Flushed(s, one, fresh, keys)
    BY <1>16, <1>19
  <2> HIDE DEF one, fresh
  <2>2. Table(one, used') /\ Table(fresh, used)
    BY <1>2, <1>4, <1>6, <1>10, <1>12, <1>13, <1>15, <2>1 DEF Table
  <2>3. \A j \in DOMAIN one : \A u \in Slots \ {s} : tx[u].at # "idle" => j \notin DOMAIN tx[u].written
    BY <1>19, <2>1, NotLocked
  <2>4. tx[s].said # << >> => \A j \in forgotten :
            /\ j \in DOMAIN one => one[j].status = "rejected"
            /\ j \in DOMAIN fresh => fresh[j].status # "candidate"
    BY <1>14, <1>15, <1>17, <2>1
  <2>5. QED BY <1>1, <1>4, <1>15, <2>1, <2>2, <2>3, <2>4, FlushedStep
<1>20. QED BY <1>3, <1>18, <1>19

LEMMA FlushClearInv ==
  ASSUME Inv, NEW s \in Slots, FlushClear(s)
  PROVE  Inv'
<1> DEFINE ids == Visible(s)
           new == [i \in ids |-> [Updated(rows[i], Rejects) EXCEPT !.stamp = tx[s].start]]
<1>1. Trans(tx[s], used, rows, forgotten) /\ tx[s].at = "found"
  BY OpenTrans DEF FlushClear
<1>2. tx[s].said = << >> /\ DOMAIN tx[s].written = {}
  BY <1>1, CurrentOp, OpsTyped DEF FlushClear
<1>3. /\ Flushed(s, new, tx[s].loaded, Keys) /\ used' = used /\ used \subseteq Ids
      /\ \A i \in ids : ~LockedByOther(s, i)
  BY DEF FlushClear, Inv, Committed
<1>4. \A i \in ids : i \in used /\ IsRow(rows[i])
  BY <1>1, <1>2, SeenRow DEF Visible
<1>5. "status" \in DOMAIN Rejects => Rejects["status"] \in Statuses
  BY DEF Rejects, Statuses
<1>6. \A i \in ids : IsRow(new[i])
  BY <1>4, <1>5, UpdatedRow, Stamped
<1>7. DOMAIN new = ids
  OBVIOUS
<1> HIDE DEF new, ids
<1>8. Table(new, used') /\ Table(tx[s].loaded, used)
  BY <1>1, <1>3, <1>4, <1>6, <1>7 DEF Table, Trans, Shape
<1>9. QED BY <1>1, <1>2, <1>3, <1>7, <1>8, NotLocked, FlushedStep

-----------------------------------------------------------------------------
(* A request ends                                                          *)

LEMMA EndFields ==
  ASSUME Inv, NEW s \in Slots, NEW rest, tx' = End(s, rest)
  PROVE  /\ DOMAIN tx' = Slots /\ tx'[s] = Idle
         /\ \A u \in Slots \ {s} : tx[u].at = "idle" => tx'[u] = tx[u]
         /\ \A u \in Slots \ {s} : tx[u].at # "idle" =>
              /\ DOMAIN tx'[u] = Fields /\ tx'[u].at = tx[u].at /\ tx'[u].written = tx[u].written
              /\ tx'[u].said = tx[u].said /\ tx'[u].todo = tx[u].todo
              /\ tx'[u].target = tx[u].target /\ tx'[u].loaded = tx[u].loaded
<1>1. DOMAIN tx' = Slots /\ tx'[s] = Idle
  BY DEF End
<1>2. ASSUME NEW u \in Slots \ {s}, tx[u].at = "idle" PROVE tx'[u] = tx[u]
  BY <1>2 DEF End, Open
<1>3. ASSUME NEW u \in Slots \ {s}, tx[u].at # "idle"
      PROVE  /\ DOMAIN tx'[u] = Fields /\ tx'[u].at = tx[u].at /\ tx'[u].written = tx[u].written
             /\ tx'[u].said = tx[u].said /\ tx'[u].todo = tx[u].todo
             /\ tx'[u].target = tx[u].target /\ tx'[u].loaded = tx[u].loaded
  <2>1. tx'[u] = [tx[u] EXCEPT !.others = @ \cup rest]
    BY <1>3 DEF End, Open
  <2>2. DOMAIN tx[u] = Fields
    BY <1>3, OpenTrans DEF Trans, Shape
  <2>3. QED BY <2>1, <2>2 DEF Fields
<1>4. QED BY <1>1, <1>2, <1>3

LEMMA EndInv ==
  ASSUME Inv, NEW s \in Slots, NEW rest, tx' = End(s, rest), used' = used,
         Committed(rows', used, forgotten'),
         \A u \in Slots \ {s} : tx[u].at # "idle" =>
           Present(tx[u], rows') /\ Faithful(tx[u], forgotten')
  PROVE  Inv'
<1>1. ASSUME NEW u \in Slots \ {s}, tx[u].at # "idle" PROVE Trans(tx'[u], used, rows', forgotten')
  <2>1. Trans(tx[u], used, rows, forgotten)
    BY <1>1, OpenTrans
  <2> DEFINE x == tx'[u]
  <2>2. /\ DOMAIN x = Fields /\ x.at = tx[u].at /\ x.written = tx[u].written
        /\ x.said = tx[u].said /\ x.todo = tx[u].todo
        /\ x.target = tx[u].target /\ x.loaded = tx[u].loaded
    BY <1>1, EndFields
  <2> HIDE DEF x
  <2>3. Trans(x, used, rows', forgotten')
    BY <1>1, <2>1, <2>2 DEF Trans, Shape, Present, Planned, Staged, Faithful
  <2>4. QED BY <2>3 DEF x
<1>2. \A u \in Slots : tx'[u] = Idle \/ Trans(tx'[u], used, rows', forgotten')
  BY <1>1, EndFields, OpenTrans
<1>3. Exclusive(tx')
  BY EndFields DEF Inv, Exclusive, Idle
<1>4. DOMAIN tx' = Slots
  BY EndFields
<1>5. QED
  BY <1>2, <1>3, <1>4
     DEF Inv, Exclusive, Committed, Trans, Shape, Present, Planned, Staged, Faithful, Table

LEMMA CommitInv ==
  ASSUME Inv, NEW s \in Slots, Commit(s)
  PROVE  Inv'
<1>1. tx[s].at # "idle" /\ Trans(tx[s], used, rows, forgotten)
  BY OpenTrans DEF Commit
<1>2. /\ tx' = End(s, tx[s].wrote) /\ used' = used /\ rows' = [i \in Ids |-> Seen(s, i)]
      /\ forgotten' = {i \in forgotten : Seen(s, i).status = "rejected"} \cup
           {i \in Ids : Live(rows[i]) /\ Seen(s, i).status = "rejected" /\ ~ReadUnconfirmed(s, i)}
  BY DEF Commit
<1>3. \A i \in Ids : Seen(s, i) # Nothing => i \in used /\ IsRow(Seen(s, i))
  BY <1>1, SeenRow
<1>4. \A i \in Ids : i \in DOMAIN tx[s].written \/ Seen(s, i) = rows[i]
  BY DEF Seen
<1>5. \A i \in Ids : i \in used /\ IsRow(rows[i]) => IsRow(Seen(s, i))
  BY <1>1 DEF Seen, Trans, Shape, Table
<1>6. \A i \in Ids : rows[i] = Nothing \/ (IsRow(rows[i]) /\ i \in used)
  BY DEF Inv, Committed
<1>7. Committed(rows', used, forgotten')
  <2>1. \A i \in forgotten' : i \in used /\ i \in Ids /\ IsRow(rows[i]) /\ Seen(s, i).status = "rejected"
    BY <1>2, <1>6 DEF Live, Inv, Committed
  <2>2. QED BY <1>2, <1>3, <1>5, <2>1 DEF Inv, Committed
<1>8. ASSUME NEW u \in Slots \ {s}, tx[u].at # "idle"
      PROVE  Present(tx[u], rows') /\ Faithful(tx[u], forgotten')
  <2>1. Trans(tx[u], used, rows, forgotten)
    BY <1>8, OpenTrans
  <2>2. Present(tx[u], rows')
    <3>1. \A i \in DOMAIN tx[u].loaded : i \in used /\ i \in Ids
      BY <2>1 DEF Trans, Shape, Table, Inv, Committed
    <3>2. QED BY <1>2, <1>5, <2>1, <3>1 DEF Trans, Present
  <2>3. ASSUME tx[u].said # << >>, NEW i \in forgotten'
        PROVE  /\ i \in DOMAIN tx[u].loaded => tx[u].loaded[i].status # "candidate"
               /\ i \in DOMAIN tx[u].written => tx[u].written[i].status = "rejected"
    <3>1. CASE i \in forgotten
      BY <2>1, <2>3, <3>1 DEF Trans, Faithful
    <3>2. CASE i \notin forgotten
      <4>1. i \in Ids /\ Live(rows[i]) /\ Seen(s, i).status = "rejected" /\ ~ReadUnconfirmed(s, i)
        BY <1>2, <2>3, <3>2
      <4>2. i \in DOMAIN tx[s].written
        BY <1>4, <4>1 DEF Live
      <4>3. i \notin DOMAIN tx[u].written
        BY <1>1, <1>8, <4>2 DEF Inv, Exclusive
      <4>4. i \in DOMAIN tx[u].loaded => tx[u].loaded[i].status # "candidate"
        BY <1>8, <4>1 DEF ReadUnconfirmed, Open
      <4>5. QED BY <4>3, <4>4
    <3>3. QED BY <3>1, <3>2
  <2>4. QED BY <2>2, <2>3 DEF Faithful
<1>9. QED BY <1>2, <1>7, <1>8, EndInv

LEMMA RollbackInv ==
  ASSUME Inv, NEW s \in Slots, Rollback(s)
  PROVE  Inv'
<1>1. tx' = End(s, {}) /\ UNCHANGED <<used, rows, forgotten>>
  BY DEF Rollback
<1>2. \A u \in Slots \ {s} : tx[u].at # "idle" =>
        Present(tx[u], rows) /\ Faithful(tx[u], forgotten)
  BY OpenTrans DEF Trans
<1>3. QED BY <1>1, <1>2, EndInv DEF Inv

LEMMA NextInv ==
  ASSUME Inv, [Next]_vars
  PROVE  Inv'
<1>1. CASE UNCHANGED vars
  BY <1>1 DEF vars, Inv, Exclusive, Committed, Trans, Shape, Present, Planned, Staged, Faithful, Table
<1>2. ASSUME NEW s \in Slots,
             \/ Requests(s) \/ Context(s) \/ Touch(s) \/ Find(s)
             \/ FlushInsert(s) \/ FlushUpdate(s) \/ FlushClear(s) \/ Commit(s) \/ Rollback(s)
      PROVE  Inv'
  BY <1>2, RequestInv, ContextInv, TouchInv, FindInv, FlushInsertInv, FlushUpdateInv,
     FlushClearInv, CommitInv, RollbackInv
<1>3. CASE Next
  <2>1. PICK s \in Slots :
          \/ Requests(s) \/ Context(s) \/ Touch(s) \/ Find(s)
          \/ FlushInsert(s) \/ FlushUpdate(s) \/ FlushClear(s) \/ Commit(s) \/ Rollback(s)
    BY <1>3 DEF Next, Requests
  <2>2. QED BY <1>2, <2>1
<1>4. QED BY <1>1, <1>3

(* In every reachable state two open transactions have written different   *)
(* rows, and what a turn holds of a deleted memory leaves it rejected.     *)
THEOREM Invariant == Spec => []Inv
<1>1. Init => Inv
  <2>1. SUFFICES ASSUME Init PROVE Inv
    OBVIOUS
  <2>2. Committed(rows, used, forgotten)
    BY <2>1 DEF Init, Committed
  <2>3. Exclusive(tx) /\ DOMAIN tx = Slots /\ \A s \in Slots : tx[s] = Idle
    BY <2>1 DEF Init, Exclusive, Idle
  <2>4. QED BY <2>2, <2>3 DEF Inv
<1>2. QED BY <1>1, NextInv, PTL DEF Spec

(* A memory that its user deleted while it was recalled stays rejected     *)
(* through every overlapping turn, whatever it had loaded before, until a  *)
(* PATCH (memory_service.py:150).                                          *)
THEOREM DeletionsAreFinal == Spec => DeletionIsFinal
<1>1. ASSUME Inv, [Next]_vars
      PROVE  [\A i \in forgotten : rows'[i].status # "rejected" =>
                \E s \in Slots : tx[s].at # "idle" /\ tx'[s].at = "idle" /\ tx[s].said = << >>]_vars
  <2>1. SUFFICES ASSUME Next, NEW i \in forgotten, rows'[i].status # "rejected"
                 PROVE  \E s \in Slots : tx[s].at # "idle" /\ tx'[s].at = "idle" /\ tx[s].said = << >>
    BY <1>1
  <2>2. i \in Ids /\ rows[i].status = "rejected"
    BY <1>1 DEF Inv, Committed
  <2>3. PICK s \in Slots : Commit(s)
    <3>1. PICK s \in Slots :
            \/ Requests(s) \/ Context(s) \/ Touch(s) \/ Find(s)
            \/ FlushInsert(s) \/ FlushUpdate(s) \/ FlushClear(s) \/ Commit(s) \/ Rollback(s)
      BY <2>1 DEF Next, Requests
    <3>a. CASE Requests(s)
      <4>1. UNCHANGED rows
        BY <3>a DEF Requests, Turn, AddMemory, RemoveMemory, PatchMemory, ClearMemories, Begin
      <4>2. QED BY <2>1, <2>2, <4>1
    <3>b. CASE Context(s) \/ Touch(s) \/ Find(s) \/ Rollback(s)
      <4>1. UNCHANGED rows
        BY <3>b DEF Context, Touch, Find, Rollback
      <4>2. QED BY <2>1, <2>2, <4>1
    <3>c. CASE FlushInsert(s) \/ FlushUpdate(s) \/ FlushClear(s)
      <4>1. UNCHANGED rows
        BY <3>c DEF FlushInsert, FlushUpdate, FlushClear, Flushed
      <4>2. QED BY <2>1, <2>2, <4>1
    <3>d. CASE Commit(s)
      BY <3>d
    <3>2. QED BY <3>1, <3>a, <3>b, <3>c, <3>d
  <2>4. tx[s].at # "idle" /\ tx'[s].at = "idle"
    BY <1>1, <2>3, EndFields DEF Commit, Idle
  <2>5. rows'[i] = Seen(s, i)
    BY <2>2, <2>3 DEF Commit
  <2>6. tx[s].said = << >>
    BY <1>1, <2>1, <2>2, <2>4, <2>5, OpenTrans DEF Seen, Trans, Faithful
  <2>7. QED BY <2>4, <2>6
<1>2. QED BY <1>1, Invariant, PTL DEF Spec, DeletionIsFinal
-----------------------------------------------------------------------------
(* What each step does to the transaction it belongs to                    *)

Elsewhere(s) == \A u \in Slots \ {s} : tx'[u] = tx[u]

Kept(x, y) == x.start = y.start /\ x.said = y.said /\ x.others = y.others

LEMMA BeginStep ==
  ASSUME Inv, NEW s \in Slots, NEW at \in {"context", "next"}, NEW said, NEW todo,
         Begin(s, at, said, todo)
  PROVE  /\ tx[s].at = "idle" /\ tx'[s].at = at /\ tx'[s].at # "idle" /\ Elsewhere(s)
         /\ DOMAIN tx'[s].written = {} /\ DOMAIN tx'[s].loaded = {}
         /\ tx'[s].said = said /\ tx'[s].todo = todo /\ tx'[s].start = requests
         /\ tx'[s].wrote = {} /\ tx'[s].others = {}
         /\ requests' = requests + 1 /\ UNCHANGED <<rows, used, mem, muddled>>
BY DEF Begin, Inv, Idle, Elsewhere

LEMMA ContextStep ==
  ASSUME Inv, NEW s \in Slots, Context(s)
  PROVE  /\ tx[s].at = "context" /\ DOMAIN tx[s].written = {} /\ Elsewhere(s)
         /\ tx'[s].at = "touch"
         /\ tx'[s].loaded = Loaded(s, {i \in Visible(s) : Live(Seen(s, i))})
         /\ tx'[s].written = tx[s].written /\ tx'[s].todo = tx[s].todo
         /\ tx'[s].wrote = tx[s].wrote /\ Kept(tx'[s], tx[s])
         /\ UNCHANGED <<rows, used, mem, muddled, requests>>
<1>1. Trans(tx[s], used, rows, forgotten) /\ tx[s].at = "context"
  BY OpenTrans DEF Context
<1>2. DOMAIN tx[s] = Fields /\ DOMAIN tx[s].written = {}
  BY <1>1 DEF Trans, Shape, Staged
<1>3. QED BY <1>1, <1>2 DEF Context, Inv, Elsewhere, Kept, Fields

TouchedRows(s) == [i \in DOMAIN tx[s].loaded |-> [rows[i] EXCEPT !.stamp = tx[s].start]]

LEMMA TouchStep ==
  ASSUME Inv, NEW s \in Slots, Touch(s)
  PROVE  /\ tx[s].at = "touch" /\ DOMAIN tx[s].written = {} /\ Elsewhere(s)
         /\ tx'[s].at = "next" /\ tx'[s].written = Write(s, TouchedRows(s))
         /\ tx'[s].loaded = tx[s].loaded /\ tx'[s].todo = tx[s].todo
         /\ tx'[s].wrote = tx[s].wrote /\ Kept(tx'[s], tx[s])
         /\ \A i \in DOMAIN tx[s].loaded : i \in Ids /\ IsRow(rows[i]) /\ ~LockedByOther(s, i)
         /\ UNCHANGED <<rows, used, mem, requests>>
<1>1. Trans(tx[s], used, rows, forgotten) /\ tx[s].at = "touch"
  BY OpenTrans DEF Touch
<1>2. DOMAIN tx[s] = Fields /\ DOMAIN tx[s].written = {}
  BY <1>1 DEF Trans, Shape, Staged
<1>3. \A i \in DOMAIN tx[s].loaded : i \in Ids /\ IsRow(rows[i])
  BY <1>1, <1>2 DEF Trans, Shape, Table, Present, Inv, Committed
<1>4. QED BY <1>1, <1>2, <1>3 DEF Touch, Inv, Elsewhere, Kept, Fields, TouchedRows

(* The rows an operation looks for.                                        *)
Named(s, op) ==
  CASE op.op = "store" -> {i \in Visible(s) : Seen(s, i).key = op.key}
    [] op.op = "clear" -> {}
    [] OTHER -> {op.id} \cap Visible(s)

LEMMA FindStep ==
  ASSUME Inv, NEW s \in Slots, Find(s), NEW op, op = Head(tx[s].todo)
  PROVE  /\ tx[s].at = "next" /\ tx[s].todo # << >> /\ Elsewhere(s)
         /\ tx'[s].at = "found"
         /\ tx'[s].target \in IF Named(s, op) = {} THEN {Nothing} ELSE LatestOf(s, Named(s, op))
         /\ tx'[s].loaded = Loaded(s, {tx'[s].target} \ {Nothing})
         /\ tx'[s].written = tx[s].written /\ tx'[s].todo = tx[s].todo
         /\ tx'[s].wrote = tx[s].wrote /\ Kept(tx'[s], tx[s])
         /\ Named(s, op) \subseteq Visible(s)
         /\ UNCHANGED <<rows, used, mem, muddled, requests>>
<1>1. Trans(tx[s], used, rows, forgotten) /\ tx[s].at = "next" /\ tx[s].todo # << >>
  BY OpenTrans DEF Find
<1>2. DOMAIN tx[s] = Fields
  BY <1>1 DEF Trans, Shape
<1>3. PICK target \in IF Named(s, op) = {} THEN {Nothing} ELSE LatestOf(s, Named(s, op)) :
        tx' = [tx EXCEPT ![s].at = "found", ![s].target = target,
                         ![s].loaded = Loaded(s, {target} \ {Nothing})]
  BY DEF Find, Named
<1>4. tx'[s] = [tx[s] EXCEPT !.at = "found", !.target = target,
                             !.loaded = Loaded(s, {target} \ {Nothing})] /\ Elsewhere(s)
  BY <1>3 DEF Inv, Elsewhere
<1>5. tx'[s].target = target /\ tx'[s].loaded = Loaded(s, {target} \ {Nothing})
      /\ tx'[s].at = "found" /\ tx'[s].written = tx[s].written /\ tx'[s].todo = tx[s].todo
      /\ tx'[s].wrote = tx[s].wrote /\ Kept(tx'[s], tx[s])
  BY <1>2, <1>4 DEF Fields, Kept
<1>6. Named(s, op) \subseteq Visible(s)
  <2>1. CASE op.op = "store"
    BY <2>1 DEF Named
  <2>2. CASE op.op = "clear"
    BY <2>2 DEF Named
  <2>3. CASE op.op \notin {"store", "clear"}
    BY <2>3 DEF Named
  <2>4. QED BY <2>1, <2>2, <2>3
<1>7. UNCHANGED <<rows, used, mem, muddled, requests>>
  BY DEF Find
<1>8. QED BY <1>1, <1>3, <1>4, <1>5, <1>6, <1>7

LEMMA FlushStep ==
  ASSUME Inv, NEW s \in Slots, tx[s].at = "found", NEW new, NEW loaded, NEW keys,
         Flushed(s, new, loaded, keys)
  PROVE  /\ tx[s].todo # << >> /\ Elsewhere(s)
         /\ tx'[s].at = "next" /\ tx'[s].written = Write(s, new)
         /\ tx'[s].todo = Tail(tx[s].todo) /\ tx'[s].todo \in Seq(StoreOps)
         /\ tx'[s].wrote = tx[s].wrote \cup keys /\ Kept(tx'[s], tx[s])
         /\ \/ tx'[s].loaded = loaded /\ tx[s].todo \in Seq(StoreOps)
            \/ DOMAIN tx'[s].loaded = {}
         /\ UNCHANGED <<rows, mem, requests>>
<1>1. Trans(tx[s], used, rows, forgotten) /\ tx[s].todo # << >> /\ DOMAIN tx[s] = Fields
  BY OpenTrans DEF Trans, Staged, Shape
<1> DEFINE kept == IF Len(tx[s].todo) > 1 THEN loaded ELSE << >>
<1>2. tx'[s] = [tx[s] EXCEPT !.at = "next", !.todo = Tail(tx[s].todo), !.target = Nothing,
                             !.loaded = kept, !.written = Write(s, new),
                             !.wrote = tx[s].wrote \cup keys] /\ Elsewhere(s)
  BY DEF Flushed, Inv, Elsewhere
<1>3. \/ tx[s].todo \in Seq(StoreOps) /\ Tail(tx[s].todo) \in Seq(StoreOps)
      \/ Len(tx[s].todo) = 1 /\ Tail(tx[s].todo) \in Seq(StoreOps)
  <2>1. CASE tx[s].todo \in Seq(StoreOps)
    BY <1>1, <2>1
  <2>2. CASE \E o \in OtherOps : tx[s].todo = <<o>>
    BY <2>2
  <2>3. QED BY <1>1, <2>1, <2>2 DEF Trans, Planned
<1>4. \/ kept = loaded /\ tx[s].todo \in Seq(StoreOps)
      \/ DOMAIN kept = {}
  BY <1>3
<1> HIDE DEF kept
<1>5. /\ tx'[s].at = "next" /\ tx'[s].written = Write(s, new) /\ tx'[s].loaded = kept
      /\ tx'[s].todo = Tail(tx[s].todo)
      /\ tx'[s].wrote = tx[s].wrote \cup keys /\ Kept(tx'[s], tx[s])
  BY <1>1, <1>2 DEF Fields, Kept
<1>6. UNCHANGED <<rows, mem, requests>>
  BY DEF Flushed
<1>7. QED BY <1>1, <1>2, <1>3, <1>4, <1>5, <1>6

LEMMA EndStep ==
  ASSUME Inv, NEW s \in Slots, NEW rest, tx' = End(s, rest)
  PROVE  /\ tx'[s].at = "idle"
         /\ \A u \in Slots \ {s} : tx[u].at = "idle" => tx'[u] = tx[u]
         /\ \A u \in Slots \ {s} : tx[u].at # "idle" =>
              /\ tx'[u].at = tx[u].at /\ tx'[u].written = tx[u].written
              /\ tx'[u].said = tx[u].said /\ tx'[u].todo = tx[u].todo
              /\ tx'[u].target = tx[u].target /\ tx'[u].loaded = tx[u].loaded
              /\ tx'[u].start = tx[u].start /\ tx'[u].wrote = tx[u].wrote
              /\ tx'[u].others = tx[u].others \cup rest
<1>1. ASSUME NEW u \in Slots \ {s}, tx[u].at # "idle"
      PROVE  /\ tx'[u].start = tx[u].start /\ tx'[u].wrote = tx[u].wrote
             /\ tx'[u].others = tx[u].others \cup rest
  <2>1. tx'[u] = [tx[u] EXCEPT !.others = @ \cup rest]
    BY <1>1 DEF End, Open
  <2>2. DOMAIN tx[u] = Fields
    BY <1>1, OpenTrans DEF Trans, Shape
  <2>3. QED BY <2>1, <2>2 DEF Fields
<1>2. QED BY <1>1, EndFields DEF Idle
-----------------------------------------------------------------------------
(* The rows a transaction holds, and their times                           *)

Over(x, base, i) == IF i \in DOMAIN x.written THEN x.written[i] ELSE base[i]

TimedTx(x, base, now) ==
  /\ x.start \in Nat /\ x.start < now
  /\ \A i \in DOMAIN x.written : x.written[i] \in Row /\ x.written[i].stamp = x.start
  /\ \A i \in DOMAIN x.loaded : x.loaded[i] \in Row /\ Over(x, base, i) # Nothing
  /\ x.at = "context" => DOMAIN x.loaded = {}
  /\ x.at = "touch" => \A i \in DOMAIN x.loaded : Live(x.loaded[i])

Timed ==
  /\ requests \in Nat
  /\ \A i \in Ids : rows[i] # Nothing => rows[i] \in Row /\ rows[i].stamp < requests
  /\ \A s \in Slots : tx[s].at # "idle" => TimedTx(tx[s], rows, requests)

LEMMA LocalTimed ==
  ASSUME Inv, Timed, NEW s \in Slots, Elsewhere(s), UNCHANGED <<rows, requests>>,
         TimedTx(tx'[s], rows, requests)
  PROVE  Timed'
<1>1. \A u \in Slots \ {s} : tx'[u].at # "idle" => TimedTx(tx'[u], rows, requests)
  BY DEF Timed, Elsewhere
<1>2. QED BY <1>1 DEF Timed, TimedTx, Over

LEMMA SeenOver ==
  ASSUME NEW s \in Slots, NEW i
  PROVE  Seen(s, i) = Over(tx[s], rows, i)
BY DEF Seen, Over

LEMMA SeenTimed ==
  ASSUME Inv, Timed, NEW s \in Slots, tx[s].at # "idle", NEW i \in Ids, Seen(s, i) # Nothing
  PROVE  Seen(s, i) \in Row /\ Seen(s, i).stamp < requests
BY DEF Timed, TimedTx, Seen

LEMMA LoadedTimed ==
  ASSUME Inv, Timed, NEW s \in Slots, tx[s].at # "idle", NEW i \in DOMAIN tx[s].loaded
  PROVE  /\ i \in Ids /\ i \in used /\ tx[s].loaded[i] \in Row /\ Seen(s, i) \in Row
         /\ Seen(s, i) # Nothing
<1>1. i \in Ids /\ i \in used
  BY OpenTrans DEF Trans, Shape, Table, Inv, Committed
<1>2. tx[s].loaded[i] \in Row /\ Seen(s, i) # Nothing
  BY SeenOver DEF Timed, TimedTx
<1>3. QED BY <1>1, <1>2, SeenTimed

LEMMA RowFields ==
  ASSUME NEW r \in Row
  PROVE  /\ r # Nothing /\ DOMAIN r = {"key", "status", "active", "content", "stamp"}
         /\ r.key \in Keys /\ r.status \in {"active", "candidate", "rejected"}
         /\ r.active \in BOOLEAN /\ r.content \in Contents /\ r.stamp \in Nat
         /\ r.content # Nothing
BY NothingAssumption DEF Row

LEMMA RowOf ==
  ASSUME NEW r, DOMAIN r = {"key", "status", "active", "content", "stamp"},
         r = [a \in DOMAIN r |-> r[a]],
         r["key"] \in Keys, r["status"] \in {"active", "candidate", "rejected"},
         r["active"] \in BOOLEAN, r["content"] \in Contents, r["stamp"] \in Nat
  PROVE  r \in Row
BY DEF Row

LEMMA StampedRow ==
  ASSUME NEW r \in Row, NEW t \in Nat
  PROVE  /\ [r EXCEPT !.stamp = t] \in Row /\ [r EXCEPT !.stamp = t].stamp = t
         /\ [r EXCEPT !.stamp = t].key = r.key /\ [r EXCEPT !.stamp = t].status = r.status
         /\ [r EXCEPT !.stamp = t].active = r.active /\ [r EXCEPT !.stamp = t].content = r.content
BY DEF Row

-----------------------------------------------------------------------------
(* Attributes                                                              *)

(* What an operation may set.                                              *)
Settable(set) ==
  /\ "stamp" \notin DOMAIN set
  /\ "key" \in DOMAIN set => set["key"] \in Keys
  /\ "status" \in DOMAIN set => set["status"] \in {"active", "candidate", "rejected"}
  /\ "active" \in DOMAIN set => set["active"] \in BOOLEAN
  /\ "content" \in DOMAIN set => set["content"] \in Contents

Chosen(set, a, r) == IF a \in DOMAIN set THEN set[a] ELSE r[a]

LEMMA UpdatedRecord ==
  ASSUME NEW r \in Row, NEW set, Settable(set)
  PROVE  /\ Updated(r, set) \in Row /\ Updated(r, set).stamp = r.stamp
         /\ Updated(r, set).key = Chosen(set, "key", r)
         /\ Updated(r, set).status = Chosen(set, "status", r)
         /\ Updated(r, set).active = Chosen(set, "active", r)
         /\ Updated(r, set).content = Chosen(set, "content", r)
<1> DEFINE q == Updated(r, set)
<1>1. DOMAIN r = {"key", "status", "active", "content", "stamp"}
  BY RowFields
<1>2. /\ r["key"] \in Keys /\ r["status"] \in {"active", "candidate", "rejected"}
      /\ r["active"] \in BOOLEAN /\ r["content"] \in Contents /\ r["stamp"] \in Nat
  BY RowFields
<1>3. /\ DOMAIN q = DOMAIN r /\ q = [a \in DOMAIN q |-> q[a]]
      /\ \A a \in DOMAIN r : q[a] = Chosen(set, a, r)
  BY DEF Updated, Chosen
<1> HIDE DEF q
<1>4. /\ q["key"] = Chosen(set, "key", r) /\ q["status"] = Chosen(set, "status", r)
      /\ q["active"] = Chosen(set, "active", r) /\ q["content"] = Chosen(set, "content", r)
      /\ q["stamp"] = Chosen(set, "stamp", r)
  BY <1>1, <1>3
<1>5. /\ Chosen(set, "key", r) \in Keys
      /\ Chosen(set, "status", r) \in {"active", "candidate", "rejected"}
      /\ Chosen(set, "active", r) \in BOOLEAN /\ Chosen(set, "content", r) \in Contents
      /\ Chosen(set, "stamp", r) = r["stamp"]
  BY <1>2 DEF Chosen, Settable
<1>6. q \in Row
  BY <1>1, <1>2, <1>3, <1>4, <1>5, RowOf
<1>7. QED BY <1>4, <1>5, <1>6 DEF q

LEMMA OpsOfRows ==
  /\ \A o \in StoreOps : o.key \in Keys /\ o.content \in Contents
  /\ \A o \in OtherOps : o.op = "patch" => o.set \in Patches
<1>1. ASSUME NEW m \in Messages, NEW llm \in LlmAnswers, NEW o \in TurnOps(m, llm)
      PROVE  o.key \in Keys /\ o.content \in Contents
  <2>1. PICK i \in DOMAIN Stored(m, llm) :
          o = Store(Stored(m, llm)[i].key, Stored(m, llm)[i].id, "active")
    BY <1>1 DEF TurnOps
  <2> DEFINE c == Stored(m, llm)[i]
  <2>2. c \in Candidates
    BY CandidatesAssumption
  <2>3. o.key = c.key /\ o.content = c.id
    BY <2>1 DEF Store
  <2> HIDE DEF c
  <2>4. QED BY <2>2, <2>3 DEF Keys, Contents
<1>2. \A o \in ManualOps : o.key \in Keys /\ o.content \in Contents
  BY DEF ManualOps, Store, Keys, Contents
<1>3. ASSUME NEW o \in OpsOfTurns PROVE o.key \in Keys /\ o.content \in Contents
  <2>1. PICK m \in Messages : o \in UNION {TurnOps(m, llm) : llm \in LlmAnswers}
    BY Zenon DEF OpsOfTurns
  <2>2. PICK llm \in LlmAnswers : o \in TurnOps(m, llm)
    BY <2>1, Zenon
  <2>3. QED BY <1>1, <2>2
<1>4. \A o \in OtherOps : o.op = "patch" => o.set \in Patches
  BY DEF OtherOps
<1>5. QED BY <1>2, <1>3, <1>4 DEF StoreOps

LEMMA PatchSets ==
  ASSUME NEW p \in Patches
  PROVE  /\ Settable(p)
         /\ "status" \in DOMAIN p =>
              p["status"] = "active" /\ "active" \in DOMAIN p /\ p["active"] = TRUE
         /\ "status" \notin DOMAIN p /\ "active" \in DOMAIN p => p["active"] = FALSE
<1>1. CASE p = [status |-> "active", active |-> TRUE]
  BY <1>1 DEF Settable
<1>2. CASE p = [active |-> FALSE]
  BY <1>2 DEF Settable
<1>3. ASSUME NEW k \in ManualKeys, p = [key |-> k, content |-> "edited"]
      PROVE  /\ Settable(p)
             /\ "status" \notin DOMAIN p /\ "active" \notin DOMAIN p
  BY <1>3 DEF Settable, Keys, Contents
<1>4. QED BY <1>1, <1>2, <1>3 DEF Patches

LEMMA WantedSets ==
  ASSUME NEW op, op \in StoreOps \/ op \in OtherOps, op.op # "clear", NEW r \in Row
  PROVE  /\ Settable(Wanted(op, r))
         /\ op.op = "store" =>
              /\ DOMAIN Wanted(op, r) = {"status", "active", "content"}
              /\ Wanted(op, r)["status"] = IF r.status = "active" THEN "active" ELSE op.status
              /\ Wanted(op, r)["active"] = TRUE /\ Wanted(op, r)["content"] = op.content
         /\ op.op = "patch" => Wanted(op, r) = op.set /\ op.set \in Patches
         /\ op.op = "delete" =>
              /\ DOMAIN Wanted(op, r) = {"status", "active"}
              /\ Wanted(op, r)["status"] = "rejected" /\ Wanted(op, r)["active"] = FALSE
         /\ op.op \in {"store", "patch", "delete"}
<1>1. CASE op \in StoreOps
  <2>1. /\ op.op = "store" /\ op.status \in {"active", "candidate"} /\ op.content \in Contents
    BY <1>1, OpsTyped, OpsOfRows
  <2>2. Wanted(op, r) =
          [status |-> IF r.status = "active" /\ op.status = "candidate" THEN "active" ELSE op.status,
           active |-> TRUE, content |-> op.content]
    BY <2>1 DEF Wanted
  <2>3. QED BY <2>1, <2>2, RowFields DEF Settable
<1>2. CASE op \in OtherOps /\ op.op = "patch"
  <2>1. Wanted(op, r) = op.set /\ op.set \in Patches
    BY <1>2, OpsOfRows DEF Wanted
  <2>2. QED BY <1>2, <2>1, PatchSets
<1>3. CASE op \in OtherOps /\ op.op = "delete"
  <2>1. Wanted(op, r) = [status |-> "rejected", active |-> FALSE]
    BY <1>3 DEF Wanted, Rejects
  <2>2. QED BY <1>3, <2>1 DEF Settable
<1>4. QED BY <1>1, <1>2, <1>3, OpsTyped
-----------------------------------------------------------------------------
(* What the flush of an update does                                        *)

Before(s) == tx[s].loaded[tx[s].target]
Setting(s) == Wanted(Head(tx[s].todo), Before(s))
Altered(s) == Changed(Setting(s), Before(s))
Altering(s) == [a \in Altered(s) |-> Setting(s)[a]]
After(s) == [Updated(Seen(s, tx[s].target), Altering(s)) EXCEPT !.stamp = tx[s].start]
KeysOf(s) ==
  {Before(s).key, Seen(s, tx[s].target).key, After(s).key} \cup StatedKeys(Head(tx[s].todo))
Refreshed(s) == [tx[s].loaded EXCEPT ![tx[s].target] = Updated(@, Setting(s))]
Mixed(s) == IF \E k \in KeysOf(s) : k \in muddled \/ Overlaps(s, k) THEN KeysOf(s) ELSE {}

LEMMA UpdateStep ==
  ASSUME Inv, NEW s \in Slots, FlushUpdate(s), NEW op, op = Head(tx[s].todo),
         NEW i, i = tx[s].target
  PROVE  /\ tx[s].at = "found" /\ i \in DOMAIN tx[s].loaded
         /\ op \in StoreOps \/ op \in OtherOps
         /\ op.op # "clear" /\ (op.op = "store" => Before(s).status # "rejected")
         /\ op \in StoreOps \/ DOMAIN tx[s].written = {}
         /\ \/ Altered(s) = {} /\ Flushed(s, << >>, tx[s].loaded, KeysOf(s))
               /\ Wrote(s, KeysOf(s), Mixed(s))
            \/ /\ Altered(s) # {} \/ op.op # "delete"
               /\ ~LockedByOther(s, i)
               /\ Flushed(s, Only(i, After(s)), Refreshed(s), KeysOf(s))
               /\ Wrote(s, KeysOf(s), Mixed(s) \cup IF Doubles(s, i, op, After(s))
                                                    THEN {After(s).key} ELSE {})
         /\ used' = used
<1>1. tx[s].at = "found" /\ i # Nothing /\ used' = used
  BY DEF FlushUpdate
<1>2. i \in DOMAIN tx[s].loaded
  BY <1>1, OpenTrans DEF Trans, Staged
<1>3. op.op # "clear" /\ (op.op = "store" => Before(s).status # "rejected")
  BY DEF FlushUpdate, Before
<1>4. \/ Altered(s) = {} /\ Flushed(s, << >>, tx[s].loaded, KeysOf(s))
         /\ Wrote(s, KeysOf(s), Mixed(s))
      \/ /\ Altered(s) # {} \/ op.op # "delete"
         /\ ~LockedByOther(s, i)
         /\ Flushed(s, Only(i, After(s)), Refreshed(s), KeysOf(s))
         /\ Wrote(s, KeysOf(s), Mixed(s) \cup IF Doubles(s, i, op, After(s))
                                              THEN {After(s).key} ELSE {})
  BY DEF FlushUpdate, Before, Setting, Altered, Altering, After, KeysOf, Refreshed, Mixed
<1>5. QED BY <1>1, <1>2, <1>3, <1>4, CurrentOp

LEMMA UpdateRows ==
  ASSUME Inv, Timed, NEW s \in Slots, FlushUpdate(s), NEW i, i = tx[s].target,
         NEW seen, seen = Seen(s, i)
  PROVE  /\ i \in Ids /\ i \in used /\ Before(s) \in Row /\ seen \in Row /\ seen # Nothing
         /\ Settable(Setting(s)) /\ Settable(Altering(s))
         /\ After(s) \in Row /\ After(s).stamp = tx[s].start
         /\ After(s).key = Chosen(Altering(s), "key", seen)
         /\ After(s).status = Chosen(Altering(s), "status", seen)
         /\ After(s).active = Chosen(Altering(s), "active", seen)
         /\ After(s).content = Chosen(Altering(s), "content", seen)
         /\ DOMAIN Refreshed(s) = DOMAIN tx[s].loaded
         /\ Refreshed(s)[i] = Updated(Before(s), Setting(s)) /\ Refreshed(s)[i] \in Row
         /\ \A j \in DOMAIN tx[s].loaded : j # i => Refreshed(s)[j] = tx[s].loaded[j]
<1> DEFINE op == Head(tx[s].todo)
           base == Updated(seen, Altering(s))
<1>1. /\ tx[s].at = "found" /\ i \in DOMAIN tx[s].loaded
      /\ op \in StoreOps \/ op \in OtherOps
      /\ op.op # "clear"
  BY UpdateStep
<1> HIDE DEF op
<1>2. i \in Ids /\ i \in used /\ Before(s) \in Row /\ seen \in Row /\ seen # Nothing
  BY <1>1, LoadedTimed DEF Before
<1>3. Setting(s) = Wanted(op, Before(s))
  BY DEF Setting, op
<1>4. Settable(Setting(s))
  <2>1. Settable(Wanted(op, Before(s)))
    BY <1>1, <1>2, WantedSets
  <2>2. QED BY <1>3, <2>1
<1>5. DOMAIN Altering(s) = Altered(s) /\ \A a \in Altered(s) : Altering(s)[a] = Setting(s)[a]
  BY DEF Altering
<1>6. Altered(s) \subseteq DOMAIN Setting(s)
  BY DEF Altered, Changed
<1>7. Settable(Altering(s))
  BY <1>4, <1>5, <1>6 DEF Settable
<1>8. /\ base \in Row
      /\ base.key = Chosen(Altering(s), "key", seen)
      /\ base.status = Chosen(Altering(s), "status", seen)
      /\ base.active = Chosen(Altering(s), "active", seen)
      /\ base.content = Chosen(Altering(s), "content", seen)
  BY <1>2, <1>7, UpdatedRecord
<1>9. tx[s].start \in Nat
  BY <1>1 DEF Timed, TimedTx
<1>10. After(s) = [base EXCEPT !.stamp = tx[s].start]
  BY DEF After
<1> HIDE DEF base
<1>11. /\ After(s) \in Row /\ After(s).stamp = tx[s].start
       /\ After(s).key = base.key /\ After(s).status = base.status
       /\ After(s).active = base.active /\ After(s).content = base.content
  BY <1>8, <1>9, <1>10, StampedRow
<1>12. /\ DOMAIN Refreshed(s) = DOMAIN tx[s].loaded
       /\ Refreshed(s)[i] = Updated(Before(s), Setting(s))
       /\ \A j \in DOMAIN tx[s].loaded : j # i => Refreshed(s)[j] = tx[s].loaded[j]
  BY <1>1 DEF Refreshed, Before
<1>13. Updated(Before(s), Setting(s)) \in Row
  BY <1>2, <1>4, UpdatedRecord
<1>14. QED BY <1>2, <1>4, <1>7, <1>8, <1>11, <1>12, <1>13

Inserted(s) ==
  LET op == Head(tx[s].todo) IN
  [key |-> op.key, status |-> op.status, active |-> TRUE, content |-> op.content,
   stamp |-> tx[s].start]

LEMMA InsertStep ==
  ASSUME Inv, Timed, NEW s \in Slots, FlushInsert(s), NEW op, op = Head(tx[s].todo)
  PROVE  /\ tx[s].at = "found" /\ op \in StoreOps /\ op.op = "store"
         /\ op.status \in {"active", "candidate"}
         /\ tx[s].target = Nothing \/ tx[s].loaded[tx[s].target].status = "rejected"
         /\ Inserted(s) \in Row /\ Inserted(s).stamp = tx[s].start
         /\ Inserted(s).key = op.key /\ Inserted(s).status = op.status
         /\ Inserted(s).active = TRUE /\ Inserted(s).content = op.content
         /\ Wrote(s, {op.key}, {})
         /\ \E i \in Ids : /\ i \notin used /\ used' = used \cup {i}
                           /\ Flushed(s, Only(i, Inserted(s)), tx[s].loaded, {op.key})
<1>1. tx[s].at = "found" /\ op.op = "store" /\ Wrote(s, {op.key}, {})
      /\ (tx[s].target = Nothing \/ tx[s].loaded[tx[s].target].status = "rejected")
  BY DEF FlushInsert
<1>2. op \in StoreOps /\ op.status \in {"active", "candidate"}
      /\ op.key \in Keys /\ op.content \in Contents
  BY <1>1, CurrentOp, OpsTyped, OpsOfRows
<1>3. PICK i \in Ids : /\ used = 1..(i - 1) /\ used' = used \cup {i}
                       /\ Flushed(s, Only(i, Inserted(s)), tx[s].loaded, {op.key})
  BY DEF FlushInsert, Inserted
<1>4. i \notin used
  BY <1>3, BoundAssumption DEF Ids
<1>5. tx[s].start \in Nat
  BY <1>1 DEF Timed, TimedTx
<1>6. Inserted(s) = [key |-> op.key, status |-> op.status, active |-> TRUE,
                     content |-> op.content, stamp |-> tx[s].start]
  BY DEF Inserted
<1>7. Inserted(s) \in Row
  BY <1>2, <1>5, <1>6 DEF Row
<1>8. /\ Inserted(s).stamp = tx[s].start /\ Inserted(s).key = op.key
      /\ Inserted(s).status = op.status /\ Inserted(s).active = TRUE
      /\ Inserted(s).content = op.content
  BY <1>6
<1>9. \E j \in Ids : /\ j \notin used /\ used' = used \cup {j}
                    /\ Flushed(s, Only(j, Inserted(s)), tx[s].loaded, {op.key})
  BY <1>3, <1>4
<1>10. QED BY <1>1, <1>2, <1>7, <1>8, <1>9
-----------------------------------------------------------------------------
(* Rows stay rows, and no row is newer than the database                   *)

LEMMA EmptyTable == DOMAIN << >> = {}
OBVIOUS

LEMMA BeginTimed ==
  ASSUME Inv, Timed, NEW s \in Slots, NEW at \in {"context", "next"}, NEW said, NEW todo,
         Begin(s, at, said, todo)
  PROVE  Timed'
<1>1. /\ tx'[s].at = at /\ Elsewhere(s)
      /\ DOMAIN tx'[s].written = {} /\ DOMAIN tx'[s].loaded = {} /\ tx'[s].start = requests
      /\ requests' = requests + 1 /\ rows' = rows
  BY BeginStep
<1>2. TimedTx(tx'[s], rows, requests')
  BY <1>1 DEF Timed, TimedTx
<1>3. \A u \in Slots \ {s} : tx'[u].at # "idle" => TimedTx(tx'[u], rows, requests')
  <2>1. SUFFICES ASSUME NEW u \in Slots \ {s}, tx[u].at # "idle" PROVE TimedTx(tx[u], rows, requests')
    BY <1>1 DEF Elsewhere
  <2>2. QED BY <1>1, <2>1 DEF Timed, TimedTx
<1>4. \A i \in Ids : rows[i] # Nothing => rows[i] \in Row /\ rows[i].stamp < requests'
  <2>1. \A i \in Ids : rows[i] # Nothing => rows[i] \in Row /\ rows[i].stamp < requests
    BY DEF Timed
  <2>2. QED BY <1>1, <2>1, RowFields DEF Timed
<1>5. QED BY <1>1, <1>2, <1>3, <1>4 DEF Timed, TimedTx, Over

LEMMA LoadTimed ==
  ASSUME Inv, Timed, NEW s \in Slots, tx[s].at # "idle", NEW ids, ids \subseteq Visible(s),
         NEW i \in DOMAIN Loaded(s, ids)
  PROVE  Loaded(s, ids)[i] \in Row /\ Seen(s, i) # Nothing
<1>1. CASE i \in DOMAIN tx[s].loaded
  BY <1>1, LoadedTimed DEF Loaded
<1>2. CASE i \notin DOMAIN tx[s].loaded
  <2>1. i \in ids /\ Loaded(s, ids)[i] = Seen(s, i)
    BY <1>2 DEF Loaded
  <2>2. i \in Ids /\ Seen(s, i) # Nothing
    BY <2>1 DEF Visible
  <2>3. QED BY <2>1, <2>2, SeenTimed
<1>3. QED BY <1>1, <1>2

LEMMA ContextTimed ==
  ASSUME Inv, Timed, NEW s \in Slots, Context(s)
  PROVE  Timed'
<1> DEFINE ids == {i \in Visible(s) : Live(Seen(s, i))}
<1>1. /\ tx[s].at = "context" /\ Elsewhere(s) /\ tx'[s].at = "touch"
      /\ tx'[s].loaded = Loaded(s, ids) /\ tx'[s].written = tx[s].written
      /\ Kept(tx'[s], tx[s]) /\ UNCHANGED <<rows, requests>>
  BY ContextStep
<1>2. ids \subseteq Visible(s) /\ \A i \in ids : Live(Seen(s, i))
  OBVIOUS
<1>3. TimedTx(tx[s], rows, requests) /\ DOMAIN tx[s].loaded = {}
  BY <1>1 DEF Timed, TimedTx
<1> HIDE DEF ids
<1>4. \A i \in DOMAIN tx'[s].loaded :
        tx'[s].loaded[i] \in Row /\ Over(tx'[s], rows, i) # Nothing /\ Live(tx'[s].loaded[i])
  <2>1. TAKE i \in DOMAIN tx'[s].loaded
  <2>2. i \in ids /\ tx'[s].loaded[i] = Seen(s, i)
    BY <1>1, <1>3 DEF Loaded
  <2>3. tx'[s].loaded[i] \in Row /\ Seen(s, i) # Nothing
    BY <1>1, <1>2, <2>1, LoadTimed
  <2>4. Over(tx'[s], rows, i) = Seen(s, i)
    BY <1>1 DEF Over, Seen
  <2>5. QED BY <1>2, <2>2, <2>3, <2>4
<1>5. TimedTx(tx'[s], rows, requests)
  BY <1>1, <1>3, <1>4 DEF TimedTx, Kept
<1>6. QED BY <1>1, <1>5, LocalTimed

LEMMA FindTimed ==
  ASSUME Inv, Timed, NEW s \in Slots, Find(s)
  PROVE  Timed'
<1> DEFINE op == Head(tx[s].todo)
           ids == {tx'[s].target} \ {Nothing}
<1>1. /\ tx[s].at = "next" /\ Elsewhere(s) /\ tx'[s].at = "found"
      /\ tx'[s].target \in IF Named(s, op) = {} THEN {Nothing} ELSE LatestOf(s, Named(s, op))
      /\ tx'[s].loaded = Loaded(s, ids) /\ tx'[s].written = tx[s].written
      /\ Kept(tx'[s], tx[s]) /\ Named(s, op) \subseteq Visible(s) /\ UNCHANGED <<rows, requests>>
  BY FindStep
<1>2. ids \subseteq Visible(s)
  BY <1>1 DEF LatestOf
<1> HIDE DEF ids
<1>3. \A i \in DOMAIN tx'[s].loaded : tx'[s].loaded[i] \in Row /\ Over(tx'[s], rows, i) # Nothing
  <2>1. TAKE i \in DOMAIN tx'[s].loaded
  <2>2. tx'[s].loaded[i] \in Row /\ Seen(s, i) # Nothing
    BY <1>1, <1>2, <2>1, LoadTimed
  <2>3. Over(tx'[s], rows, i) = Seen(s, i)
    BY <1>1 DEF Over, Seen
  <2>4. QED BY <2>2, <2>3
<1>4. TimedTx(tx[s], rows, requests)
  BY <1>1 DEF Timed
<1>5. TimedTx(tx'[s], rows, requests)
  BY <1>1, <1>3, <1>4 DEF TimedTx, Kept
<1>6. QED BY <1>1, <1>5, LocalTimed

LEMMA TouchTimed ==
  ASSUME Inv, Timed, NEW s \in Slots, Touch(s)
  PROVE  Timed'
<1>1. /\ tx[s].at = "touch" /\ DOMAIN tx[s].written = {} /\ Elsewhere(s)
      /\ tx'[s].at = "next" /\ tx'[s].written = Write(s, TouchedRows(s))
      /\ tx'[s].loaded = tx[s].loaded /\ Kept(tx'[s], tx[s]) /\ UNCHANGED <<rows, requests>>
  BY TouchStep
<1>2. TimedTx(tx[s], rows, requests)
  BY <1>1 DEF Timed
<1>3. ASSUME NEW i \in DOMAIN tx[s].loaded
      PROVE  TouchedRows(s)[i] \in Row /\ TouchedRows(s)[i].stamp = tx[s].start
  <2>1. rows[i] \in Row
    BY <1>1, LoadedTimed DEF Seen
  <2>2. TouchedRows(s)[i] = [rows[i] EXCEPT !.stamp = tx[s].start]
    BY DEF TouchedRows
  <2>3. QED BY <1>2, <2>1, <2>2, StampedRow DEF TimedTx
<1>4. DOMAIN TouchedRows(s) = DOMAIN tx[s].loaded
  BY DEF TouchedRows
<1>5. DOMAIN tx'[s].written = DOMAIN tx[s].loaded
      /\ \A i \in DOMAIN tx[s].loaded : tx'[s].written[i] = TouchedRows(s)[i]
  BY <1>1, <1>4 DEF Write
<1>6. TimedTx(tx'[s], rows, requests)
  BY <1>1, <1>2, <1>3, <1>5, RowFields DEF TimedTx, Kept, Over
<1>7. QED BY <1>1, <1>6, LocalTimed

LEMMA FlushTimed ==
  ASSUME Inv, Timed, NEW s \in Slots, tx[s].at = "found", NEW new, NEW loaded, NEW keys,
         Flushed(s, new, loaded, keys), DOMAIN loaded = DOMAIN tx[s].loaded,
         \A i \in DOMAIN loaded : loaded[i] \in Row,
         \A i \in DOMAIN new : new[i] \in Row /\ new[i].stamp = tx[s].start
  PROVE  Timed'
<1>1. /\ Elsewhere(s) /\ tx'[s].at = "next" /\ tx'[s].written = Write(s, new)
      /\ Kept(tx'[s], tx[s]) /\ UNCHANGED <<rows, requests>>
      /\ tx'[s].loaded = loaded \/ DOMAIN tx'[s].loaded = {}
  BY FlushStep
<1>2. TimedTx(tx[s], rows, requests)
  BY DEF Timed
<1>3. \A i \in DOMAIN tx'[s].written :
        tx'[s].written[i] \in Row /\ tx'[s].written[i].stamp = tx[s].start
  BY <1>1, <1>2 DEF TimedTx, Write
<1>4. \A i \in DOMAIN tx'[s].loaded : tx'[s].loaded[i] \in Row /\ Over(tx'[s], rows, i) # Nothing
  <2>1. SUFFICES ASSUME NEW i \in DOMAIN loaded
                 PROVE  loaded[i] \in Row /\ Over(tx'[s], rows, i) # Nothing
    BY <1>1
  <2>2. Over(tx[s], rows, i) # Nothing
    BY <1>2 DEF TimedTx
  <2>3. i \in DOMAIN tx'[s].written \/ i \notin DOMAIN tx[s].written
    BY <1>1 DEF Write
  <2>4. QED BY <1>3, <2>2, <2>3, RowFields DEF Over
<1>5. TimedTx(tx'[s], rows, requests)
  BY <1>1, <1>2, <1>3, <1>4 DEF TimedTx, Kept
<1>6. QED BY <1>1, <1>5, LocalTimed

LEMMA InsertTimed ==
  ASSUME Inv, Timed, NEW s \in Slots, FlushInsert(s)
  PROVE  Timed'
<1> DEFINE op == Head(tx[s].todo)
<1>1. tx[s].at = "found" /\ Inserted(s) \in Row /\ Inserted(s).stamp = tx[s].start
  BY InsertStep
<1>2. PICK i \in Ids : Flushed(s, Only(i, Inserted(s)), tx[s].loaded, {op.key})
  BY InsertStep
<1>3. \A j \in DOMAIN Only(i, Inserted(s)) :
        Only(i, Inserted(s))[j] \in Row /\ Only(i, Inserted(s))[j].stamp = tx[s].start
  BY <1>1 DEF Only
<1>4. \A j \in DOMAIN tx[s].loaded : tx[s].loaded[j] \in Row
  BY <1>1, LoadedTimed
<1> HIDE DEF op
<1>5. QED BY <1>1, <1>2, <1>3, <1>4, FlushTimed

LEMMA UpdateTimed ==
  ASSUME Inv, Timed, NEW s \in Slots, FlushUpdate(s)
  PROVE  Timed'
<1> DEFINE i == tx[s].target
<1>1. /\ tx[s].at = "found"
      /\ \/ Flushed(s, << >>, tx[s].loaded, KeysOf(s))
         \/ Flushed(s, Only(i, After(s)), Refreshed(s), KeysOf(s))
  BY UpdateStep
<1>2. \A j \in DOMAIN tx[s].loaded : tx[s].loaded[j] \in Row
  BY <1>1, LoadedTimed
<1>3. /\ After(s) \in Row /\ After(s).stamp = tx[s].start
      /\ DOMAIN Refreshed(s) = DOMAIN tx[s].loaded /\ Refreshed(s)[i] \in Row
      /\ \A j \in DOMAIN tx[s].loaded : j # i => Refreshed(s)[j] = tx[s].loaded[j]
  BY UpdateRows
<1> HIDE DEF i
<1>4. \A j \in DOMAIN Refreshed(s) : Refreshed(s)[j] \in Row
  BY <1>2, <1>3
<1>5. \A j \in DOMAIN Only(i, After(s)) :
        Only(i, After(s))[j] \in Row /\ Only(i, After(s))[j].stamp = tx[s].start
  BY <1>3 DEF Only
<1>6. CASE Flushed(s, << >>, tx[s].loaded, KeysOf(s))
  BY <1>1, <1>2, <1>6, EmptyTable, FlushTimed
<1>7. CASE Flushed(s, Only(i, After(s)), Refreshed(s), KeysOf(s))
  BY <1>1, <1>3, <1>4, <1>5, <1>7, FlushTimed
<1>8. QED BY <1>1, <1>6, <1>7

ClearedRows(s) == [i \in Visible(s) |-> [Updated(rows[i], Rejects) EXCEPT !.stamp = tx[s].start]]

LEMMA ClearStep ==
  ASSUME Inv, Timed, NEW s \in Slots, FlushClear(s)
  PROVE  /\ tx[s].at = "found" /\ DOMAIN tx[s].written = {}
         /\ Flushed(s, ClearedRows(s), tx[s].loaded, Keys) /\ Wrote(s, Keys, {})
         /\ DOMAIN ClearedRows(s) = {i \in Ids : rows[i] # Nothing}
         /\ \A i \in DOMAIN ClearedRows(s) :
              /\ ~LockedByOther(s, i)
              /\ ClearedRows(s)[i] \in Row /\ ClearedRows(s)[i].stamp = tx[s].start
              /\ ClearedRows(s)[i].status = "rejected" /\ ClearedRows(s)[i].active = FALSE
         /\ used' = used /\ Len(tx[s].todo) = 1
<1> DEFINE op == Head(tx[s].todo)
<1>1. /\ tx[s].at = "found" /\ op.op = "clear"
      /\ Flushed(s, ClearedRows(s), tx[s].loaded, Keys) /\ Wrote(s, Keys, {})
      /\ \A i \in Visible(s) : ~LockedByOther(s, i)
      /\ used' = used
  BY DEF FlushClear, ClearedRows
<1>2. op \notin StoreOps /\ Trans(tx[s], used, rows, forgotten) /\ tx[s].todo # << >>
  BY <1>1, OpsTyped, OpenTrans DEF Trans, Staged
<1>3. DOMAIN tx[s].written = {}
  BY <1>1, <1>2, CurrentOp
<1>4. Len(tx[s].todo) = 1
  <2>1. CASE tx[s].todo \in Seq(StoreOps)
    BY <1>2, <2>1
  <2>2. CASE \E o \in OtherOps : tx[s].todo = <<o>>
    BY <2>2
  <2>3. QED BY <1>2, <2>1, <2>2 DEF Trans, Planned
<1>5. Visible(s) = {i \in Ids : rows[i] # Nothing}
  BY <1>3 DEF Visible, Seen
<1>6. DOMAIN ClearedRows(s) = Visible(s)
  BY DEF ClearedRows
<1>7. /\ Settable(Rejects) /\ \A r : Chosen(Rejects, "status", r) = "rejected"
      /\ \A r : Chosen(Rejects, "active", r) = FALSE
  BY DEF Rejects, Settable, Chosen
<1>8. ASSUME NEW i \in DOMAIN ClearedRows(s)
      PROVE  /\ ClearedRows(s)[i] \in Row /\ ClearedRows(s)[i].stamp = tx[s].start
             /\ ClearedRows(s)[i].status = "rejected" /\ ClearedRows(s)[i].active = FALSE
  <2> DEFINE r == Updated(rows[i], Rejects)
  <2>1. rows[i] \in Row /\ tx[s].start \in Nat
    BY <1>1, <1>5, <1>6, <1>8 DEF Timed, TimedTx
  <2>2. r \in Row /\ r.status = "rejected" /\ r.active = FALSE
    BY <1>7, <2>1, UpdatedRecord
  <2>3. ClearedRows(s)[i] = [r EXCEPT !.stamp = tx[s].start]
    BY <1>6, <1>8 DEF ClearedRows
  <2> HIDE DEF r
  <2>4. QED BY <2>1, <2>2, <2>3, StampedRow
<1>9. QED BY <1>1, <1>3, <1>4, <1>5, <1>6, <1>8

LEMMA ClearTimed ==
  ASSUME Inv, Timed, NEW s \in Slots, FlushClear(s)
  PROVE  Timed'
<1>1. /\ tx[s].at = "found" /\ Flushed(s, ClearedRows(s), tx[s].loaded, Keys)
      /\ \A i \in DOMAIN ClearedRows(s) :
           ClearedRows(s)[i] \in Row /\ ClearedRows(s)[i].stamp = tx[s].start
  BY ClearStep
<1>2. \A i \in DOMAIN tx[s].loaded : tx[s].loaded[i] \in Row
  BY <1>1, LoadedTimed
<1>3. QED BY <1>1, <1>2, FlushTimed

LEMMA EndTimed ==
  ASSUME Inv, Timed, NEW s \in Slots, tx[s].at # "idle", NEW rest, tx' = End(s, rest),
         requests' = requests,
         \A i \in Ids : rows'[i] = rows[i] \/ rows'[i] = Seen(s, i)
  PROVE  Timed'
<1>1. \A i \in Ids : rows[i] # Nothing => Seen(s, i) # Nothing
  BY RowFields DEF Timed, TimedTx, Seen
<1>2. \A i \in Ids : rows'[i] # Nothing => rows'[i] \in Row /\ rows'[i].stamp < requests
  BY SeenTimed DEF Timed
<1>3. ASSUME NEW u \in Slots \ {s}, tx[u].at # "idle" PROVE TimedTx(tx'[u], rows', requests)
  <2>1. TimedTx(tx[u], rows, requests)
    BY <1>3 DEF Timed
  <2>2. /\ tx'[u].at = tx[u].at /\ tx'[u].written = tx[u].written
        /\ tx'[u].loaded = tx[u].loaded /\ tx'[u].start = tx[u].start
    BY <1>3, EndStep
  <2>3. \A i \in DOMAIN tx[u].loaded : Over(tx'[u], rows', i) # Nothing
    BY <1>1, <1>3, <2>1, <2>2, LoadedTimed DEF TimedTx, Over
  <2>4. QED BY <2>1, <2>2, <2>3 DEF TimedTx
<1>4. \A u \in Slots : tx'[u].at # "idle" => TimedTx(tx'[u], rows', requests)
  BY <1>3, EndStep
<1>5. QED BY <1>2, <1>4 DEF Timed, TimedTx, Over

LEMMA NextTimed ==
  ASSUME Inv, Timed, [Next]_vars
  PROVE  Timed'
<1>1. CASE UNCHANGED vars
  BY <1>1 DEF vars, Timed, TimedTx, Over
<1>2. ASSUME NEW s \in Slots, Requests(s) PROVE Timed'
  BY <1>2, BeginTimed DEF Requests, Turn, AddMemory, RemoveMemory, PatchMemory, ClearMemories
<1>3. ASSUME NEW s \in Slots, Commit(s) PROVE Timed'
  BY <1>3, EndTimed DEF Commit
<1>4. ASSUME NEW s \in Slots, Rollback(s) PROVE Timed'
  BY <1>4, EndTimed DEF Rollback
<1>5. CASE Next
  BY <1>2, <1>3, <1>4, <1>5, ContextTimed, TouchTimed, FindTimed, InsertTimed, UpdateTimed,
     ClearTimed DEF Next, Requests
<1>6. QED BY <1>1, <1>5
-----------------------------------------------------------------------------
(* One recalled row per key                                                *)
(*                                                                         *)
(* create_memory finds the row that was updated last, so the proof is about*)
(* times: of the rows of a key at most one is not rejected, and it is the  *)
(* newest.  A transaction keeps that when it commits because the rows it   *)
(* has written are newer than every rejected row (Later) and it is the only*)
(* one that holds a row of the key (Alone); what it has loaded, and what it*)
(* has found, is as it was unless another request has written the key since*)
(* (Fresh, Aimed).  All this is for keys that are not muddled.             *)

Has(r, k) == r # Nothing /\ r.key = k

Same(a, b) ==
  a.key = b.key /\ a.status = b.status /\ a.active = b.active /\ a.content = b.content

Holds(x, k) == \E i \in DOMAIN x.written : x.written[i].key = k

Single(x, k) ==
  \A i \in DOMAIN x.written : x.written[i].key = k =>
    /\ x.written[i].status = "rejected" => x.todo = << >> /\ x.written[i].active = FALSE
    /\ \A j \in DOMAIN x.written :
         j # i /\ x.written[j].key = k => x.written[i].status = "rejected"

Alone(x, base, k) ==
  Holds(x, k) =>
    \A i \in Ids : i \notin DOMAIN x.written /\ Has(base[i], k) => base[i].status = "rejected"

Later(x, base, k) ==
  Holds(x, k) \/ k \notin x.others =>
    \A i \in Ids : Has(base[i], k) /\ base[i].status = "rejected" => base[i].stamp < x.start

Fresh(x, base, k) ==
  k \notin x.others =>
    \A i \in DOMAIN x.loaded :
      Has(x.loaded[i], k) \/ Has(Over(x, base, i), k) => Same(x.loaded[i], Over(x, base, i))

(* Rows it has written under other keys it has just counted a use of.      *)
Counted(x, base, k) ==
  k \notin x.wrote =>
    \A i \in DOMAIN x.written :
      x.written[i].key = k \/ Has(base[i], k) =>
        base[i] # Nothing /\ Live(base[i]) /\ Same(x.written[i], base[i])

Aimed(x, base, k) ==
  x.at = "found" /\ Head(x.todo).op = "store" /\ k \notin x.others =>
    /\ Head(x.todo).key = k =>
         \/ x.target = Nothing /\ \A i \in Ids : ~Has(Over(x, base, i), k)
         \/ /\ x.target \in Ids /\ Has(Over(x, base, x.target), k)
            /\ Over(x, base, x.target).status = "rejected" =>
                 \A i \in Ids : Has(Over(x, base, i), k) => Over(x, base, i).status = "rejected"
    /\ x.target # Nothing /\ Has(Over(x, base, x.target), k) => Head(x.todo).key = k

KeyTx(x, base, k) ==
  /\ Single(x, k) /\ Alone(x, base, k) /\ Later(x, base, k)
  /\ Fresh(x, base, k) /\ Counted(x, base, k) /\ Aimed(x, base, k)
  /\ k \in x.wrote => k \notin x.others

Newest(base, k) ==
  \A i, j \in Ids :
    Has(base[i], k) /\ Has(base[j], k) /\ i # j /\ base[j].status # "rejected" =>
      base[i].stamp < base[j].stamp

Sole(t, k) ==
  \A s, u \in Slots :
    s # u /\ t[s].at # "idle" /\ t[u].at # "idle" /\ k \in t[s].wrote => k \notin t[u].wrote

KeyInv(k) ==
  /\ Newest(rows, k)
  /\ \A i \in Ids : Has(rows[i], k) /\ rows[i].status = "rejected" => rows[i].active = FALSE
  /\ \A s \in Slots : tx[s].at # "idle" => KeyTx(tx[s], rows, k)
  /\ Sole(tx, k)

LEMMA LocalKey ==
  ASSUME Inv, NEW k, KeyInv(k), NEW s \in Slots, Elsewhere(s), UNCHANGED rows,
         KeyTx(tx'[s], rows, k),
         \A u \in Slots \ {s} : tx[u].at # "idle" /\ k \in tx'[s].wrote => k \notin tx[u].wrote
  PROVE  KeyInv(k)'
<1>1. \A u \in Slots : tx'[u].at # "idle" => KeyTx(tx'[u], rows, k)
  BY DEF KeyInv, Elsewhere
<1>2. Sole(tx', k)
  BY DEF KeyInv, Sole, Elsewhere
<1>3. Newest(rows, k)
      /\ \A i \in Ids : Has(rows[i], k) /\ rows[i].status = "rejected" => rows[i].active = FALSE
  BY DEF KeyInv
<1>4. rows' = rows
  OBVIOUS
<1>5. QED BY <1>1, <1>2, <1>3, <1>4 DEF KeyInv

(* Also among the rows a transaction sees, its own writes included.        *)
LEMMA SeenNewest ==
  ASSUME Inv, Timed, NEW k, KeyInv(k), NEW s \in Slots, tx[s].at # "idle",
         NEW i \in Ids, NEW j \in Ids, i # j, Has(Seen(s, i), k), Has(Seen(s, j), k),
         Seen(s, j).status # "rejected"
  PROVE  Seen(s, i).stamp < Seen(s, j).stamp
<1>1. KeyTx(tx[s], rows, k) /\ Newest(rows, k)
  BY DEF KeyInv
<1>2. \A m \in DOMAIN tx[s].written : tx[s].written[m].stamp = tx[s].start
  BY DEF Timed, TimedTx
<1>3. CASE i \in DOMAIN tx[s].written /\ j \in DOMAIN tx[s].written
  BY <1>1, <1>3 DEF KeyTx, Single, Seen, Has
<1>4. CASE i \in DOMAIN tx[s].written /\ j \notin DOMAIN tx[s].written
  BY <1>1, <1>4 DEF KeyTx, Alone, Holds, Seen, Has
<1>5. CASE i \notin DOMAIN tx[s].written /\ j \in DOMAIN tx[s].written
  <2>1. Holds(tx[s], k)
    BY <1>5 DEF Holds, Seen, Has
  <2>2. rows[i].stamp < tx[s].start
    BY <1>1, <1>5, <2>1 DEF KeyTx, Alone, Later, Seen, Has
  <2>3. QED BY <1>2, <1>5, <2>2 DEF Seen
<1>6. CASE i \notin DOMAIN tx[s].written /\ j \notin DOMAIN tx[s].written
  BY <1>1, <1>6 DEF Newest, Seen
<1>7. QED BY <1>3, <1>4, <1>5, <1>6

(* So beside a row that is not rejected all others are.                    *)
LEMMA OthersRejected ==
  ASSUME Inv, Timed, NEW k, KeyInv(k), NEW s \in Slots, tx[s].at # "idle",
         NEW j \in Ids, Has(Seen(s, j), k), Seen(s, j).status # "rejected"
  PROVE  \A i \in Ids \ {j} : Has(Seen(s, i), k) => Seen(s, i).status = "rejected"
<1>1. SUFFICES ASSUME NEW i \in Ids \ {j}, Has(Seen(s, i), k), Seen(s, i).status # "rejected"
               PROVE  FALSE
  OBVIOUS
<1>2. Seen(s, i).stamp < Seen(s, j).stamp /\ Seen(s, j).stamp < Seen(s, i).stamp
  BY <1>1, SeenNewest
<1>3. Seen(s, i).stamp \in Nat /\ Seen(s, j).stamp \in Nat
  BY <1>1, SeenTimed, RowFields DEF Has
<1>4. QED BY <1>2, <1>3

-----------------------------------------------------------------------------
(* Each step keeps it                                                      *)

LEMMA BeginKey ==
  ASSUME Inv, Timed, NEW k, KeyInv(k), NEW s \in Slots, NEW at \in {"context", "next"},
         NEW said, NEW todo, Begin(s, at, said, todo)
  PROVE  KeyInv(k)'
<1>1. /\ tx'[s].at = at /\ Elsewhere(s) /\ DOMAIN tx'[s].written = {}
      /\ DOMAIN tx'[s].loaded = {} /\ tx'[s].start = requests
      /\ tx'[s].wrote = {} /\ rows' = rows
  BY BeginStep
<1>2. \A i \in Ids : Has(rows[i], k) => rows[i].stamp < requests
  BY DEF Timed, Has
<1>3. KeyTx(tx'[s], rows, k)
  BY <1>1, <1>2 DEF KeyTx, Single, Alone, Later, Fresh, Counted, Aimed, Holds
<1>4. QED BY <1>1, <1>3, LocalKey

(* What is loaded now is as it is now.                                     *)
LEMMA LoadFresh ==
  ASSUME Inv, NEW k, KeyInv(k), NEW s \in Slots, tx[s].at # "idle", NEW ids, NEW x,
         x.loaded = Loaded(s, ids), x.written = tx[s].written, x.others = tx[s].others
  PROVE  Fresh(x, rows, k)
<1>1. Fresh(tx[s], rows, k)
  BY DEF KeyInv, KeyTx
<1>2. \A i : Over(x, rows, i) = Over(tx[s], rows, i) /\ Seen(s, i) = Over(tx[s], rows, i)
  BY DEF Over, Seen
<1>3. \A i \in DOMAIN x.loaded :
        \/ i \in DOMAIN tx[s].loaded /\ x.loaded[i] = tx[s].loaded[i]
        \/ x.loaded[i] = Seen(s, i)
  BY DEF Loaded
<1>4. QED BY <1>1, <1>2, <1>3 DEF Fresh, Same

LEMMA ContextKey ==
  ASSUME Inv, NEW k, KeyInv(k), NEW s \in Slots, Context(s)
  PROVE  KeyInv(k)'
<1> DEFINE ids == {i \in Visible(s) : Live(Seen(s, i))}
<1>1. /\ tx[s].at = "context" /\ Elsewhere(s) /\ tx'[s].at = "touch"
      /\ tx'[s].loaded = Loaded(s, ids) /\ tx'[s].written = tx[s].written
      /\ tx'[s].todo = tx[s].todo /\ tx'[s].wrote = tx[s].wrote
      /\ Kept(tx'[s], tx[s]) /\ rows' = rows
  BY ContextStep
<1> HIDE DEF ids
<1>2. KeyTx(tx[s], rows, k)
  BY <1>1 DEF KeyInv
<1>3. Fresh(tx'[s], rows, k)
  BY <1>1, LoadFresh DEF Kept
<1>4. KeyTx(tx'[s], rows, k)
  BY <1>1, <1>2, <1>3 DEF KeyTx, Single, Alone, Later, Counted, Aimed, Holds, Kept
<1>5. \A u \in Slots \ {s} : tx[u].at # "idle" /\ k \in tx'[s].wrote => k \notin tx[u].wrote
  BY <1>1 DEF KeyInv, Sole
<1>6. QED BY <1>1, <1>4, <1>5, LocalKey
LEMMA FindKey ==
  ASSUME Inv, Timed, NEW k, KeyInv(k), NEW s \in Slots, Find(s)
  PROVE  KeyInv(k)'
<1> DEFINE op == Head(tx[s].todo)
           x == tx'[s]
<1>1. /\ tx[s].at = "next" /\ Elsewhere(s) /\ x.at = "found"
      /\ x.target \in IF Named(s, op) = {} THEN {Nothing} ELSE LatestOf(s, Named(s, op))
      /\ x.loaded = Loaded(s, {x.target} \ {Nothing}) /\ x.written = tx[s].written
      /\ x.todo = tx[s].todo /\ x.wrote = tx[s].wrote
      /\ Kept(x, tx[s]) /\ Named(s, op) \subseteq Visible(s) /\ rows' = rows
  BY FindStep
<1>2. KeyTx(tx[s], rows, k)
  BY <1>1 DEF KeyInv
<1>3. \A i : Over(x, rows, i) = Seen(s, i)
  BY <1>1 DEF Over, Seen
<1> HIDE DEF x
<1>4. Fresh(x, rows, k)
  BY <1>1, LoadFresh DEF Kept
<1>5. ASSUME op.op = "store" PROVE Named(s, op) = {i \in Ids : Has(Seen(s, i), op.key)}
  BY <1>5 DEF Named, Visible, Has
<1>6. x.todo = tx[s].todo /\ op = Head(x.todo)
  BY <1>1
<1> HIDE DEF op
<1>7. ASSUME op.op = "store", op.key = k
      PROVE  \/ x.target = Nothing /\ \A i \in Ids : ~Has(Seen(s, i), k)
             \/ /\ x.target \in Ids /\ Has(Seen(s, x.target), k)
                /\ Seen(s, x.target).status = "rejected" =>
                     \A i \in Ids : Has(Seen(s, i), k) => Seen(s, i).status = "rejected"
  <2>1. CASE Named(s, op) = {}
    BY <1>1, <1>5, <1>7, <2>1
  <2>2. CASE Named(s, op) # {}
    <3>1. x.target \in Ids /\ Has(Seen(s, x.target), k)
          /\ \A i \in Ids : Has(Seen(s, i), k) => Seen(s, x.target).stamp >= Seen(s, i).stamp
      BY <1>1, <1>5, <1>7, <2>2 DEF LatestOf
    <3>2. ASSUME NEW i \in Ids, Has(Seen(s, i), k), Seen(s, i).status # "rejected",
                 Seen(s, x.target).status = "rejected"
          PROVE  FALSE
      <4>1. Seen(s, x.target).stamp < Seen(s, i).stamp
        BY <1>1, <3>1, <3>2, SeenNewest
      <4>2. Seen(s, x.target).stamp \in Nat /\ Seen(s, i).stamp \in Nat
        BY <1>1, <3>1, <3>2, SeenTimed, RowFields DEF Has
      <4>3. QED BY <3>1, <3>2, <4>1, <4>2
    <3>3. QED BY <3>1, <3>2
  <2>3. QED BY <2>1, <2>2
<1>8. ASSUME op.op = "store", x.target # Nothing, Has(Seen(s, x.target), k)
      PROVE  op.key = k
  BY <1>1, <1>5, <1>8 DEF LatestOf, Has
<1>9. Aimed(x, rows, k)
  BY <1>3, <1>6, <1>7, <1>8 DEF Aimed
<1>10. KeyTx(x, rows, k)
  BY <1>1, <1>2, <1>4, <1>9 DEF KeyTx, Single, Alone, Later, Counted, Holds, Kept
<1>11. \A u \in Slots \ {s} : tx[u].at # "idle" /\ k \in x.wrote => k \notin tx[u].wrote
  BY <1>1 DEF KeyInv, Sole
<1>12. QED BY <1>1, <1>10, <1>11, LocalKey DEF x

LEMMA TouchKey ==
  ASSUME Inv, Timed, NEW k, k \notin muddled', KeyInv(k), NEW s \in Slots, Touch(s)
  PROVE  KeyInv(k)'
<1> DEFINE x == tx'[s]
           ids == DOMAIN tx[s].loaded
<1>1. /\ tx[s].at = "touch" /\ DOMAIN tx[s].written = {} /\ Elsewhere(s)
      /\ x.at = "next" /\ x.written = Write(s, TouchedRows(s)) /\ x.loaded = tx[s].loaded
      /\ x.todo = tx[s].todo /\ x.wrote = tx[s].wrote /\ Kept(x, tx[s])
      /\ \A i \in ids : i \in Ids /\ IsRow(rows[i]) /\ ~LockedByOther(s, i)
      /\ rows' = rows
  BY TouchStep
<1>2. KeyTx(tx[s], rows, k) /\ TimedTx(tx[s], rows, requests)
  BY <1>1 DEF KeyInv, Timed
<1>3. \A i \in ids : Over(tx[s], rows, i) = rows[i] /\ rows[i] \in Row
  BY <1>1, LoadedTimed DEF Over, Seen
<1>4. \A i \in ids : /\ TouchedRows(s)[i].key = rows[i].key
                     /\ TouchedRows(s)[i].status = rows[i].status
                     /\ TouchedRows(s)[i].active = rows[i].active
                     /\ TouchedRows(s)[i].content = rows[i].content
  BY <1>2, <1>3, StampedRow DEF TouchedRows, TimedTx
<1>5. DOMAIN x.written = ids /\ \A i \in ids : x.written[i] = TouchedRows(s)[i]
  BY <1>1 DEF Write, TouchedRows
<1>6. \A i \in ids : Same(x.written[i], rows[i]) /\ rows[i] # Nothing
  BY <1>3, <1>4, <1>5, RowFields DEF Same
(* No row of the key that it touches has changed since it was loaded.      *)
<1>7. ASSUME NEW i \in ids, rows[i].key = k PROVE Live(rows[i]) /\ k \notin tx[s].others
  <2>1. k \notin tx[s].others
    BY <1>7 DEF Touch
  <2>2. Same(tx[s].loaded[i], rows[i])
    BY <1>2, <1>3, <1>7, <2>1, RowFields DEF KeyTx, Fresh, Has
  <2>3. Live(tx[s].loaded[i])
    BY <1>1, <1>2, <1>7 DEF TimedTx
  <2>4. QED BY <1>6, <2>1, <2>2, <2>3 DEF Live, Same
<1>8. ASSUME NEW i \in ids, rows[i].key = k
      PROVE  \A j \in Ids \ {i} : Has(rows[j], k) => rows[j].status = "rejected"
  <2>1. \A j \in Ids : Seen(s, j) = rows[j]
    BY <1>1 DEF Seen
  <2>2. Has(Seen(s, i), k) /\ Seen(s, i).status # "rejected" /\ i \in Ids
    BY <1>1, <1>6, <1>7, <1>8, <2>1 DEF Has, Live
  <2>3. QED BY <1>1, <2>1, <2>2, OthersRejected
<1>9. Holds(x, k) <=> \E i \in ids : rows[i].key = k
  BY <1>5, <1>6 DEF Holds, Same
<1> HIDE DEF x, ids
<1>10. Single(x, k)
  BY <1>5, <1>6, <1>7, <1>8, <1>1 DEF Single, Same, Live, Has
<1>11. Alone(x, rows, k)
  BY <1>8, <1>9, <1>5 DEF Alone
<1>12. Later(x, rows, k)
  BY <1>1, <1>2, <1>7, <1>9 DEF Later, KeyTx, Kept
<1>13. Counted(x, rows, k)
  BY <1>5, <1>6, <1>7 DEF Counted, Same, Has
<1>14. Fresh(x, rows, k)
  BY <1>1, <1>2, <1>3, <1>5, <1>6 DEF Fresh, KeyTx, Over, Same, Kept, Has, ids
<1>15. Aimed(x, rows, k)
  BY <1>1 DEF Aimed
<1>16. KeyTx(x, rows, k)
  BY <1>1, <1>2, <1>10, <1>11, <1>12, <1>13, <1>14, <1>15 DEF KeyTx, Kept
<1>17. \A u \in Slots \ {s} : tx[u].at # "idle" /\ k \in x.wrote => k \notin tx[u].wrote
  BY <1>1 DEF KeyInv, Sole
<1>18. QED BY <1>1, <1>16, <1>17, LocalKey DEF x

-----------------------------------------------------------------------------
(* Flushes                                                                 *)

LEMMA NotOverlapping ==
  ASSUME NEW k, k \notin muddled', NEW s \in Slots, NEW keys, NEW doubled, Wrote(s, keys, doubled)
  PROVE  k \notin muddled /\ k \notin doubled /\ (k \in keys => ~Overlaps(s, k))
BY DEF Wrote

(* A flush that writes one row, or none (r is what was there before).      *)
LEMMA PutKey ==
  ASSUME Inv, Timed, NEW k, KeyInv(k), NEW s \in Slots, tx[s].at = "found",
         NEW i \in Ids, NEW r \in Row, NEW loaded, NEW keys,
         Flushed(s, Only(i, r), loaded, keys),
         k \in keys => ~Overlaps(s, k),
         r.key = k \/ Has(Seen(s, i), k) => k \in keys,
         r.key = k /\ r.status = "rejected" => r.active = FALSE /\ Tail(tx[s].todo) = << >>,
         r.key = k => \A j \in Ids \ {i} : Has(Seen(s, j), k) => Seen(s, j).status = "rejected",
         Fresh(tx'[s], rows, k)
  PROVE  KeyInv(k)'
<1> DEFINE x == tx'[s]
<1>1. /\ tx[s].todo # << >> /\ Elsewhere(s)
      /\ x.at = "next" /\ x.written = Write(s, Only(i, r)) /\ x.todo = Tail(tx[s].todo)
      /\ x.wrote = tx[s].wrote \cup keys /\ Kept(x, tx[s]) /\ rows' = rows
  BY FlushStep
<1>2. KeyTx(tx[s], rows, k)
  BY DEF KeyInv
<1>3. /\ DOMAIN x.written = DOMAIN tx[s].written \cup {i} /\ x.written[i] = r
      /\ \A j \in DOMAIN tx[s].written : j # i => x.written[j] = tx[s].written[j]
  BY <1>1 DEF Write, Only
<1>4. k \in keys => k \notin tx[s].others
                    /\ \A u \in Slots \ {s} : tx[u].at # "idle" => k \notin tx[u].wrote
  BY DEF Overlaps, Open
<1> HIDE DEF x
<1>5. DOMAIN tx[s].written \subseteq Ids
  BY OpenTrans DEF Trans, Shape, Table, Inv, Committed
<1>6. \A j \in DOMAIN tx[s].written : tx[s].written[j].key = k => Has(Seen(s, j), k)
  BY RowFields DEF Timed, TimedTx, Has, Seen
<1>7. ASSUME r.key = k, NEW j \in DOMAIN tx[s].written, j # i, tx[s].written[j].key = k
      PROVE  FALSE
  <2>1. tx[s].written[j].status = "rejected"
    BY <1>5, <1>6, <1>7 DEF Seen
  <2>2. QED BY <1>1, <1>2, <1>7, <2>1 DEF KeyTx, Single
<1>8. Single(x, k)
  <2>1. \A j \in DOMAIN tx[s].written : tx[s].written[j].key = k => tx[s].written[j].status # "rejected"
    BY <1>1, <1>2 DEF KeyTx, Single
  <2>2. QED BY <1>1, <1>2, <1>3, <1>7, <2>1 DEF KeyTx, Single
<1>9. Holds(x, k) => Holds(tx[s], k) \/ r.key = k
  BY <1>3 DEF Holds
<1>10. Alone(x, rows, k)
  <2>1. CASE r.key = k
    BY <1>3, <2>1 DEF Alone, Seen
  <2>2. CASE r.key # k
    BY <1>2, <1>3, <1>9, <2>2 DEF KeyTx, Alone
  <2>3. QED BY <2>1, <2>2
<1>11. Later(x, rows, k)
  BY <1>1, <1>2, <1>4, <1>9 DEF KeyTx, Later, Kept
<1>12. Counted(x, rows, k)
  <2>1. SUFFICES ASSUME k \notin x.wrote, NEW j \in DOMAIN x.written,
                        x.written[j].key = k \/ Has(rows[j], k)
                 PROVE  rows[j] # Nothing /\ Live(rows[j]) /\ Same(x.written[j], rows[j])
    BY DEF Counted
  <2>2. k \notin keys /\ k \notin tx[s].wrote
    BY <1>1, <2>1
  <2>3. Counted(tx[s], rows, k)
    BY <1>2 DEF KeyTx
  <2>4. CASE j = i
    <3>1. r.key # k /\ ~Has(Seen(s, i), k)
      BY <2>2
    <3>2. Has(rows[i], k) /\ i \in DOMAIN tx[s].written
      BY <1>3, <2>1, <2>4, <3>1 DEF Seen
    <3>3. Same(tx[s].written[i], rows[i])
      BY <2>2, <2>3, <3>2 DEF Counted
    <3>4. tx[s].written[i].key = k
      BY <3>2, <3>3 DEF Same, Has
    <3>5. QED BY <1>6, <3>1, <3>2, <3>4
  <2>5. CASE j # i
    BY <1>3, <2>1, <2>2, <2>3, <2>5 DEF Counted
  <2>6. QED BY <2>4, <2>5
<1>13. Aimed(x, rows, k)
  BY <1>1 DEF Aimed
<1>14. k \in x.wrote => k \notin x.others
  BY <1>1, <1>2, <1>4 DEF KeyTx, Kept
<1>15. KeyTx(x, rows, k)
  BY <1>8, <1>10, <1>11, <1>12, <1>13, <1>14 DEF KeyTx, x
<1>16. \A u \in Slots \ {s} : tx[u].at # "idle" /\ k \in x.wrote => k \notin tx[u].wrote
  BY <1>1, <1>4 DEF KeyInv, Sole
<1>17. QED BY <1>1, <1>15, <1>16, LocalKey DEF x
LEMMA NoPutKey ==
  ASSUME Inv, NEW k, KeyInv(k), NEW s \in Slots, tx[s].at = "found", NEW keys,
         Flushed(s, << >>, tx[s].loaded, keys), k \in keys => ~Overlaps(s, k)
  PROVE  KeyInv(k)'
<1> DEFINE x == tx'[s]
<1>1. /\ tx[s].todo # << >> /\ Elsewhere(s)
      /\ x.at = "next" /\ x.written = Write(s, << >>) /\ x.todo = Tail(tx[s].todo)
      /\ x.wrote = tx[s].wrote \cup keys /\ Kept(x, tx[s]) /\ rows' = rows
      /\ x.loaded = tx[s].loaded \/ DOMAIN x.loaded = {}
  BY FlushStep
<1>2. KeyTx(tx[s], rows, k)
  BY DEF KeyInv
<1>3. DOMAIN x.written = DOMAIN tx[s].written
      /\ \A j \in DOMAIN tx[s].written : x.written[j] = tx[s].written[j]
  BY <1>1, EmptyTable DEF Write
<1>4. k \in keys => k \notin tx[s].others
                    /\ \A u \in Slots \ {s} : tx[u].at # "idle" => k \notin tx[u].wrote
  BY DEF Overlaps, Open
<1> HIDE DEF x
<1>5. Single(x, k)
  BY <1>1, <1>2, <1>3 DEF KeyTx, Single
<1>6. Alone(x, rows, k) /\ Later(x, rows, k)
  BY <1>1, <1>2, <1>3 DEF KeyTx, Alone, Later, Holds, Kept
<1>7. Counted(x, rows, k) /\ Aimed(x, rows, k)
  BY <1>1, <1>2, <1>3 DEF KeyTx, Counted, Aimed
<1>8. Fresh(x, rows, k)
  BY <1>1, <1>2, <1>3 DEF KeyTx, Fresh, Kept, Over
<1>9. KeyTx(x, rows, k)
  BY <1>1, <1>2, <1>4, <1>5, <1>6, <1>7, <1>8 DEF KeyTx, Kept
<1>10. \A u \in Slots \ {s} : tx[u].at # "idle" /\ k \in x.wrote => k \notin tx[u].wrote
  BY <1>1, <1>4 DEF KeyInv, Sole
<1>11. QED BY <1>1, <1>9, <1>10, LocalKey DEF x

LEMMA InsertKey ==
  ASSUME Inv, Timed, NEW k, k \notin muddled', KeyInv(k), NEW s \in Slots, FlushInsert(s)
  PROVE  KeyInv(k)'
<1> DEFINE op == Head(tx[s].todo)
           r == Inserted(s)
           x == tx'[s]
<1>1. /\ tx[s].at = "found" /\ op.op = "store" /\ op.status \in {"active", "candidate"}
      /\ tx[s].target = Nothing \/ tx[s].loaded[tx[s].target].status = "rejected"
      /\ r \in Row /\ r.key = op.key /\ r.status = op.status
      /\ Wrote(s, {op.key}, {})
  <2>1. tx[s].at = "found" /\ op.op = "store" /\ op.status \in {"active", "candidate"}
    BY InsertStep
  <2>2. tx[s].target = Nothing \/ tx[s].loaded[tx[s].target].status = "rejected"
    BY InsertStep
  <2>3. r \in Row
    BY InsertStep
  <2>4. r.key = op.key /\ r.status = op.status
    BY DEF Inserted
  <2>5. Wrote(s, {op.key}, {})
    BY InsertStep
  <2>6. QED BY <2>1, <2>2, <2>3, <2>4, <2>5
<1>2. PICK i \in Ids : /\ i \notin used
                       /\ Flushed(s, Only(i, r), tx[s].loaded, {op.key})
  BY InsertStep
<1>3. k \in {op.key} => ~Overlaps(s, k)
  BY <1>1, NotOverlapping
<1>4. KeyTx(tx[s], rows, k) /\ Trans(tx[s], used, rows, forgotten)
  BY <1>1, OpenTrans DEF KeyInv
<1>5. i \notin DOMAIN tx[s].written /\ i \notin DOMAIN tx[s].loaded /\ rows[i] = Nothing
  BY <1>2, <1>4 DEF Trans, Shape, Table, Inv, Committed
<1>6. ~Has(Seen(s, i), k)
  BY <1>5 DEF Seen, Has
<1>7. \A j : Over(tx[s], rows, j) = Seen(s, j)
  BY SeenOver
<1>8. ASSUME r.key = k
      PROVE  \A j \in Ids \ {i} : Has(Seen(s, j), k) => Seen(s, j).status = "rejected"
  <2>1. k \notin tx[s].others
    BY <1>1, <1>3, <1>8 DEF Overlaps
  <2>2. CASE tx[s].target = Nothing
    BY <1>1, <1>4, <1>7, <1>8, <2>1, <2>2, NothingAssumption DEF KeyTx, Aimed
  <2>3. CASE tx[s].target # Nothing
    <3> DEFINE t == tx[s].target
    <3>1. t \in Ids /\ Has(Seen(s, t), k)
          /\ (Seen(s, t).status = "rejected" =>
                \A j \in Ids : Has(Seen(s, j), k) => Seen(s, j).status = "rejected")
      BY <1>1, <1>4, <1>7, <1>8, <2>1, <2>3 DEF KeyTx, Aimed
    <3>2. t \in DOMAIN tx[s].loaded /\ tx[s].loaded[t].status = "rejected"
      BY <1>1, <1>4, <2>3 DEF Trans, Staged
    <3> HIDE DEF t
    <3>3. Same(tx[s].loaded[t], Seen(s, t))
      BY <1>4, <1>7, <2>1, <3>1, <3>2 DEF KeyTx, Fresh
    <3>4. QED BY <3>1, <3>2, <3>3 DEF Same
  <2>4. QED BY <2>2, <2>3
<1>9. /\ x.written = Write(s, Only(i, r)) /\ Kept(x, tx[s])
      /\ x.loaded = tx[s].loaded \/ DOMAIN x.loaded = {}
  BY <1>1, <1>2, FlushStep
<1>10. \A j \in DOMAIN tx[s].loaded : Over(x, rows, j) = Over(tx[s], rows, j)
  BY <1>5, <1>9 DEF Over, Write, Only
<1> HIDE DEF x, r, op
<1>11. Fresh(x, rows, k)
  BY <1>4, <1>9, <1>10 DEF KeyTx, Fresh, Kept
<1>12. r.status # "rejected"
  BY <1>1
<1>13. QED BY <1>1, <1>2, <1>3, <1>6, <1>8, <1>11, <1>12, PutKey DEF x

(* Patches, deletions and clears are the only operation of their request.  *)
LEMMA LastOp ==
  ASSUME Inv, NEW s \in Slots, tx[s].at = "found", Head(tx[s].todo) \notin StoreOps
  PROVE  tx[s].todo \notin Seq(StoreOps) /\ Tail(tx[s].todo) = << >>
<1>1. Trans(tx[s], used, rows, forgotten) /\ tx[s].todo # << >>
  BY OpenTrans DEF Trans, Staged
<1>2. tx[s].todo \notin Seq(StoreOps)
  BY <1>1
<1>3. PICK o \in OtherOps : tx[s].todo = <<o>>
  BY <1>1, <1>2 DEF Trans, Planned
<1>4. QED BY <1>2, <1>3

(* Unless it is stale, what was loaded and what is written end up alike.   *)
LEMMA Effect ==
  ASSUME Inv, Timed, NEW s \in Slots, FlushUpdate(s), NEW i, i = tx[s].target,
         Same(Before(s), Seen(s, i))
  PROVE  /\ After(s).key = Chosen(Setting(s), "key", Before(s))
         /\ After(s).status = Chosen(Setting(s), "status", Before(s))
         /\ After(s).active = Chosen(Setting(s), "active", Before(s))
         /\ After(s).content = Chosen(Setting(s), "content", Before(s))
         /\ Same(Refreshed(s)[i], After(s))
<1> DEFINE seen == Seen(s, i)
<1>1. /\ Before(s) \in Row /\ seen \in Row /\ Settable(Setting(s))
      /\ After(s).key = Chosen(Altering(s), "key", seen)
      /\ After(s).status = Chosen(Altering(s), "status", seen)
      /\ After(s).active = Chosen(Altering(s), "active", seen)
      /\ After(s).content = Chosen(Altering(s), "content", seen)
      /\ Refreshed(s)[i] = Updated(Before(s), Setting(s))
  BY UpdateRows
<1>2. /\ seen["key"] = Before(s)["key"] /\ seen["status"] = Before(s)["status"]
      /\ seen["active"] = Before(s)["active"] /\ seen["content"] = Before(s)["content"]
  BY DEF Same
<1> HIDE DEF seen
<1>3. ASSUME NEW a, seen[a] = Before(s)[a]
      PROVE  Chosen(Altering(s), a, seen) = Chosen(Setting(s), a, Before(s))
  BY <1>3 DEF Chosen, Altering, Altered, Changed
<1>4. /\ Chosen(Altering(s), "key", seen) = Chosen(Setting(s), "key", Before(s))
      /\ Chosen(Altering(s), "status", seen) = Chosen(Setting(s), "status", Before(s))
      /\ Chosen(Altering(s), "active", seen) = Chosen(Setting(s), "active", Before(s))
      /\ Chosen(Altering(s), "content", seen) = Chosen(Setting(s), "content", Before(s))
  BY <1>2, <1>3
<1>5. /\ Refreshed(s)[i].key = Chosen(Setting(s), "key", Before(s))
      /\ Refreshed(s)[i].status = Chosen(Setting(s), "status", Before(s))
      /\ Refreshed(s)[i].active = Chosen(Setting(s), "active", Before(s))
      /\ Refreshed(s)[i].content = Chosen(Setting(s), "content", Before(s))
  BY <1>1, UpdatedRecord
<1>6. QED BY <1>1, <1>4, <1>5 DEF Same
(* An update that writes a key which is still not muddled is not stale.    *)
LEMMA UpdateKnown ==
  ASSUME Inv, Timed, \A c \in Keys \ muddled : KeyInv(c), NEW s \in Slots, FlushUpdate(s),
         NEW k \in KeysOf(s), k \notin muddled', NEW i, i = tx[s].target
  PROVE  /\ \A c \in KeysOf(s) : c \in Keys \ muddled /\ ~Overlaps(s, c)
         /\ Same(Before(s), Seen(s, i))
         /\ Seen(s, i).status = "rejected" => Seen(s, i).active = FALSE
<1> DEFINE old == Before(s)
           seen == Seen(s, i)
<1>1. tx[s].at = "found" /\ i \in DOMAIN tx[s].loaded /\ (\E d : Wrote(s, KeysOf(s), Mixed(s) \cup d))
  <2>1. Mixed(s) \cup {} = Mixed(s)
    OBVIOUS
  <2>2. tx[s].at = "found" /\ i \in DOMAIN tx[s].loaded
        /\ \/ Wrote(s, KeysOf(s), Mixed(s))
           \/ Wrote(s, KeysOf(s), Mixed(s) \cup IF Doubles(s, i, Head(tx[s].todo), After(s))
                                                THEN {After(s).key} ELSE {})
    BY UpdateStep
  <2>3. QED BY <2>1, <2>2
<1>2. /\ i \in Ids /\ old \in Row /\ seen \in Row /\ seen # Nothing /\ After(s) \in Row
  BY UpdateRows
<1>3. k \notin Mixed(s)
  BY <1>1 DEF Wrote
<1>4. \A c \in KeysOf(s) : c \notin muddled /\ ~Overlaps(s, c)
  BY <1>3 DEF Mixed
<1>5. \A c \in KeysOf(s) : c \in Keys
  <2>1. \A c \in StatedKeys(Head(tx[s].todo)) : c \in Keys
    BY <1>1, CurrentOp, OpsTyped, OpsOfRows DEF StatedKeys
  <2>2. QED BY <1>2, <2>1, RowFields DEF KeysOf
<1>6. old.key \in KeysOf(s) /\ old = tx[s].loaded[i] /\ old # Nothing
  BY <1>2, RowFields DEF KeysOf, Before
<1> DEFINE c == old.key
<1>7. KeyInv(c) /\ c \notin tx[s].others
  BY <1>4, <1>5, <1>6 DEF Overlaps
<1> HIDE DEF old, c
<1>8. KeyTx(tx[s], rows, c)
  BY <1>1, <1>7 DEF KeyInv
<1>9. Has(tx[s].loaded[i], c)
  BY <1>6 DEF Has, c
<1>10. Same(old, seen)
  BY <1>1, <1>6, <1>7, <1>8, <1>9, SeenOver DEF KeyTx, Fresh
<1>11. seen.key = c
  BY <1>10 DEF Same, c
<1>12. seen.status = "rejected" => seen.active = FALSE
  <2>1. CASE i \in DOMAIN tx[s].written
    BY <1>8, <1>11, <2>1 DEF KeyTx, Single, Seen
  <2>2. CASE i \notin DOMAIN tx[s].written
    <3>1. seen = rows[i]
      BY <2>2 DEF Seen
    <3>2. QED BY <1>2, <1>7, <1>11, <3>1 DEF KeyInv, Has
  <2>3. QED BY <2>1, <2>2
<1>13. QED BY <1>4, <1>5, <1>10, <1>12 DEF old

(* The row that an update writes is the one of its key, or a rejected one. *)
LEMMA UpdateAlone ==
  ASSUME Inv, Timed, \A c \in Keys \ muddled : KeyInv(c), NEW s \in Slots, FlushUpdate(s),
         NEW k, k \notin muddled', After(s).key = k, NEW i, i = tx[s].target,
         Altered(s) # {} \/ Head(tx[s].todo).op # "delete",
         Wrote(s, KeysOf(s), Mixed(s) \cup IF Doubles(s, i, Head(tx[s].todo), After(s))
                                           THEN {After(s).key} ELSE {})
  PROVE  /\ After(s).status = "rejected" => After(s).active = FALSE /\ Tail(tx[s].todo) = << >>
         /\ \A j \in Ids \ {i} : Has(Seen(s, j), k) => Seen(s, j).status = "rejected"
<1> DEFINE op == Head(tx[s].todo)
           old == Before(s)
           seen == Seen(s, i)
           want == Setting(s)
<1>1. k \in KeysOf(s)
  BY DEF KeysOf
<1>2. /\ k \in Keys \ muddled /\ Same(old, seen)
      /\ seen.status = "rejected" => seen.active = FALSE
  BY <1>1, UpdateKnown
<1>3. KeyInv(k)
  BY <1>2
<1>4. /\ i \in Ids /\ old \in Row /\ seen \in Row /\ seen # Nothing
  BY UpdateRows
<1>5. /\ tx[s].at = "found" /\ (op \in StoreOps \/ op \in OtherOps) /\ op.op # "clear"
      /\ op.op = "store" => old.status # "rejected"
      /\ op \in StoreOps \/ DOMAIN tx[s].written = {}
  BY UpdateStep
<1>6. /\ After(s).key = Chosen(want, "key", old) /\ After(s).status = Chosen(want, "status", old)
      /\ After(s).active = Chosen(want, "active", old)
  BY <1>2, Effect
<1>7. want = Wanted(op, old)
  BY DEF Setting
<1>8. seen.key = old.key /\ seen.status = old.status /\ seen.active = old.active
  BY <1>2 DEF Same
<1>9. k \notin IF Doubles(s, i, op, After(s)) THEN {After(s).key} ELSE {}
  BY DEF Wrote
<1> HIDE DEF op, old, seen, want
<1>10. ASSUME seen.key = k, seen.status # "rejected"
       PROVE  \A j \in Ids \ {i} : Has(Seen(s, j), k) => Seen(s, j).status = "rejected"
  BY <1>3, <1>4, <1>5, <1>10, OthersRejected DEF Has, seen
<1>11. op.op # "store" => Tail(tx[s].todo) = << >>
  BY <1>5, LastOp, OpsTyped DEF op
<1>12. CASE op.op = "store"
  <2>1. /\ DOMAIN want = {"status", "active", "content"}
        /\ want["status"] = IF old.status = "active" THEN "active" ELSE op.status
    BY <1>4, <1>5, <1>7, <1>12, WantedSets
  <2>2. op.status \in {"active", "candidate"}
    BY <1>5, <1>12, OpsTyped
  <2>3. After(s).key = old.key /\ After(s).status # "rejected"
    BY <1>6, <2>1, <2>2 DEF Chosen
  <2>4. QED BY <1>5, <1>8, <1>10, <1>12, <2>3
<1>13. CASE op.op = "delete"
  <2>1. /\ DOMAIN want = {"status", "active"}
        /\ want["status"] = "rejected" /\ want["active"] = FALSE
    BY <1>4, <1>5, <1>7, <1>13, WantedSets
  <2>2. After(s).key = old.key /\ After(s).active = FALSE
    BY <1>6, <2>1 DEF Chosen
  <2>3. Altered(s) # {}
    BY <1>13 DEF op
  <2>4. Altered(s) = {a \in DOMAIN want : want[a] # old[a]}
    BY DEF Altered, Changed, want, old
  <2>5. old["status"] = "rejected" /\ old["active"] = FALSE => Altered(s) = {}
    BY <2>1, <2>4
  <2>6. seen.status # "rejected"
    BY <1>2, <1>8, <2>3, <2>5
  <2>7. QED BY <1>8, <1>10, <1>11, <1>13, <2>2, <2>6
<1>14. CASE op.op = "patch"
  <2>1. want \in Patches
    <3>1. Wanted(op, old) = op.set /\ op.set \in Patches
      BY <1>4, <1>5, <1>14, WantedSets
    <3>2. QED BY <1>7, <3>1
  <2>2. After(s).status = "rejected" => After(s).active = FALSE
    BY <1>2, <1>6, <1>8, <2>1, PatchSets DEF Chosen
  <2>3. ~Doubles(s, i, op, After(s))
    BY <1>9
  <2>4. op \notin StoreOps
    BY <1>14, OpsTyped
  <2>5. \A j \in Ids : Seen(s, j) = rows[j]
    BY <1>5, <2>4 DEF Seen
  <2>6. CASE Live(rows[i]) /\ After(s).key = rows[i].key
    <3>1. seen.key = k /\ seen.status # "rejected"
      BY <1>4, <2>5, <2>6 DEF Live, seen
    <3>2. QED BY <1>10, <1>11, <1>14, <2>2, <3>1
  <2>7. CASE ~(Live(rows[i]) /\ After(s).key = rows[i].key)
    <3>1. \A j \in Ids \ {i} : ~Has(rows[j], k)
      BY <1>14, <2>3, <2>7 DEF Doubles, Has
    <3>2. QED BY <1>11, <1>14, <2>2, <2>5, <3>1
  <2>8. QED BY <2>6, <2>7
<1>15. QED
  <2>1. op.op \in {"store", "patch", "delete"}
    BY <1>4, <1>5, WantedSets
  <2>2. QED BY <2>1, <1>12, <1>13, <1>14

LEMMA UpdateKey ==
  ASSUME Inv, Timed, \A c \in Keys \ muddled : KeyInv(c), NEW s \in Slots, FlushUpdate(s),
         NEW k \in Keys, k \notin muddled'
  PROVE  KeyInv(k)'
<1> DEFINE op == Head(tx[s].todo)
           i == tx[s].target
           x == tx'[s]
<1>1. /\ tx[s].at = "found" /\ i \in DOMAIN tx[s].loaded
      /\ \/ Altered(s) = {} /\ Flushed(s, << >>, tx[s].loaded, KeysOf(s))
            /\ Wrote(s, KeysOf(s), Mixed(s))
         \/ /\ Altered(s) # {} \/ op.op # "delete"
            /\ Flushed(s, Only(i, After(s)), Refreshed(s), KeysOf(s))
            /\ Wrote(s, KeysOf(s), Mixed(s) \cup IF Doubles(s, i, op, After(s))
                                                 THEN {After(s).key} ELSE {})
  BY UpdateStep
<1>2. k \notin muddled /\ (k \in KeysOf(s) => ~Overlaps(s, k))
  BY <1>1, NotOverlapping
<1>3. KeyInv(k)
  BY <1>2
<1>4. CASE Flushed(s, << >>, tx[s].loaded, KeysOf(s))
  BY <1>1, <1>2, <1>3, <1>4, NoPutKey
<1>5. CASE /\ Altered(s) # {} \/ op.op # "delete"
           /\ Flushed(s, Only(i, After(s)), Refreshed(s), KeysOf(s))
           /\ Wrote(s, KeysOf(s), Mixed(s) \cup IF Doubles(s, i, op, After(s))
                                                THEN {After(s).key} ELSE {})
  <2>1. /\ i \in Ids /\ Before(s) \in Row /\ After(s) \in Row
        /\ DOMAIN Refreshed(s) = DOMAIN tx[s].loaded
        /\ Refreshed(s)[i] = Updated(Before(s), Setting(s)) /\ Refreshed(s)[i] \in Row
        /\ \A j \in DOMAIN tx[s].loaded : j # i => Refreshed(s)[j] = tx[s].loaded[j]
    BY UpdateRows
  <2>2. After(s).key = k \/ Has(Seen(s, i), k) => k \in KeysOf(s)
    BY DEF KeysOf, Has
  <2>3. After(s).key = k =>
          /\ After(s).status = "rejected" => After(s).active = FALSE /\ Tail(tx[s].todo) = << >>
          /\ \A j \in Ids \ {i} : Has(Seen(s, j), k) => Seen(s, j).status = "rejected"
    BY <1>5, UpdateAlone
  <2>4. Fresh(x, rows, k)
    <3>1. /\ x.written = Write(s, Only(i, After(s))) /\ Kept(x, tx[s])
          /\ \/ x.loaded = Refreshed(s) /\ tx[s].todo \in Seq(StoreOps) /\ tx[s].todo # << >>
             \/ DOMAIN x.loaded = {}
      BY <1>1, <1>5, FlushStep
    <3>2. Fresh(tx[s], rows, k)
      BY <1>1, <1>3 DEF KeyInv, KeyTx
    <3>3. Over(x, rows, i) = After(s)
          /\ \A j : j # i => Over(x, rows, j) = Over(tx[s], rows, j)
      BY <3>1 DEF Over, Write, Only
    <3>4. CASE DOMAIN x.loaded = {}
      BY <3>4 DEF Fresh
    <3>5. CASE x.loaded = Refreshed(s) /\ tx[s].todo \in Seq(StoreOps) /\ tx[s].todo # << >>
      <4>1. k \notin KeysOf(s) => Refreshed(s)[i].key # k /\ After(s).key # k
        <5>1. op \in StoreOps
          BY <3>5
        <5>2. op.op = "store"
          BY <5>1, OpsTyped
        <5>3. "key" \notin DOMAIN Setting(s) /\ Settable(Setting(s))
          <6>1. Setting(s) = Wanted(op, Before(s))
            BY DEF Setting
          <6> HIDE DEF op
          <6>2. DOMAIN Wanted(op, Before(s)) = {"status", "active", "content"}
                /\ Settable(Wanted(op, Before(s)))
            BY <2>1, <5>1, <5>2, WantedSets
          <6>3. QED BY <6>1, <6>2
        <5>4. Refreshed(s)[i].key = Before(s).key
          BY <2>1, <5>3, UpdatedRecord DEF Chosen
        <5>5. QED BY <5>4 DEF KeysOf
      <4>2. k \in KeysOf(s) => Same(Refreshed(s)[i], After(s))
        <5>1. k \in KeysOf(s) => Same(Before(s), Seen(s, i))
          BY UpdateKnown
        <5>2. QED BY <5>1, Effect
      <4> HIDE DEF x, i
      <4>3. ASSUME k \notin x.others, NEW j \in DOMAIN x.loaded,
                   Has(x.loaded[j], k) \/ Has(Over(x, rows, j), k)
            PROVE  Same(x.loaded[j], Over(x, rows, j))
        <5>1. CASE j = i
          BY <3>3, <3>5, <4>1, <4>2, <4>3, <5>1 DEF Has
        <5>2. CASE j # i
          BY <2>1, <3>1, <3>2, <3>3, <3>5, <4>3, <5>2 DEF Fresh, Kept
        <5>3. QED BY <5>1, <5>2
      <4>4. QED BY <4>3 DEF Fresh
    <3>6. QED BY <3>1, <3>4, <3>5
  <2> HIDE DEF x, i, op
  <2>5. QED BY <1>1, <1>2, <1>3, <1>5, <2>1, <2>2, <2>3, <2>4, PutKey DEF x
<1>6. QED BY <1>1, <1>4, <1>5
LEMMA ClearKey ==
  ASSUME Inv, Timed, NEW k \in Keys, k \notin muddled', KeyInv(k), NEW s \in Slots, FlushClear(s)
  PROVE  KeyInv(k)'
<1> DEFINE x == tx'[s]
<1>1. /\ tx[s].at = "found" /\ DOMAIN tx[s].written = {}
      /\ Flushed(s, ClearedRows(s), tx[s].loaded, Keys) /\ Wrote(s, Keys, {})
      /\ DOMAIN ClearedRows(s) = {i \in Ids : rows[i] # Nothing}
      /\ \A i \in DOMAIN ClearedRows(s) :
           ClearedRows(s)[i].status = "rejected" /\ ClearedRows(s)[i].active = FALSE
  BY ClearStep
<1>2. Head(tx[s].todo) \notin StoreOps
  BY OpsTyped DEF FlushClear
<1>3. tx[s].todo \notin Seq(StoreOps) /\ Tail(tx[s].todo) = << >>
  BY <1>1, <1>2, LastOp
<1>4. /\ Elsewhere(s) /\ x.at = "next" /\ x.written = Write(s, ClearedRows(s))
      /\ x.todo = Tail(tx[s].todo) /\ x.wrote = tx[s].wrote \cup Keys /\ Kept(x, tx[s])
      /\ rows' = rows
      /\ \/ x.loaded = tx[s].loaded /\ tx[s].todo \in Seq(StoreOps)
         \/ DOMAIN x.loaded = {}
  BY <1>1, FlushStep
<1>5. DOMAIN x.written = {i \in Ids : rows[i] # Nothing}
      /\ \A i \in DOMAIN x.written : x.written[i].status = "rejected" /\ x.written[i].active = FALSE
  BY <1>1, <1>4 DEF Write
<1>6. ~Overlaps(s, k)
  BY <1>1, NotOverlapping
<1>7. KeyTx(tx[s], rows, k)
  BY <1>1 DEF KeyInv
<1> HIDE DEF x
<1>8. Single(x, k)
  BY <1>3, <1>4, <1>5 DEF Single
<1>9. Alone(x, rows, k)
  BY <1>5 DEF Alone, Has
<1>10. Later(x, rows, k)
  BY <1>4, <1>6, <1>7 DEF KeyTx, Later, Kept, Overlaps
<1>11. Fresh(x, rows, k) /\ Counted(x, rows, k) /\ Aimed(x, rows, k)
  BY <1>3, <1>4 DEF Fresh, Counted, Aimed
<1>12. KeyTx(x, rows, k)
  BY <1>4, <1>6, <1>8, <1>9, <1>10, <1>11 DEF KeyTx, Kept, Overlaps
<1>13. \A u \in Slots \ {s} : tx[u].at # "idle" /\ k \in x.wrote => k \notin tx[u].wrote
  BY <1>6 DEF Overlaps, Open
<1>14. QED BY <1>4, <1>12, <1>13, LocalKey DEF x

-----------------------------------------------------------------------------
(* The end of a request                                                    *)

(* A commit that has not written a key only counts uses of its row.        *)
LEMMA CommitKeeps ==
  ASSUME Inv, Timed, NEW k, KeyInv(k), NEW s \in Slots, tx[s].at # "idle", k \notin tx[s].wrote,
         NEW i \in Ids
  PROVE  /\ Has(Seen(s, i), k) <=> Has(rows[i], k)
         /\ Has(rows[i], k) => Same(Seen(s, i), rows[i])
         /\ Has(rows[i], k) /\ rows[i].status = "rejected" => Seen(s, i) = rows[i]
<1>1. Counted(tx[s], rows, k)
  BY DEF KeyInv, KeyTx
<1>2. CASE i \in DOMAIN tx[s].written
  <2>1. Seen(s, i) = tx[s].written[i] /\ Seen(s, i) # Nothing
    BY <1>2, RowFields DEF Seen, Timed, TimedTx
  <2>2. QED BY <1>1, <1>2, <2>1 DEF Counted, Has, Same, Live
<1>3. CASE i \notin DOMAIN tx[s].written
  BY <1>3 DEF Seen, Same
<1>4. QED BY <1>2, <1>3

(* Two transactions under way never hold rows of the same key.             *)
LEMMA NotBothHold ==
  ASSUME Inv, Timed, NEW k, KeyInv(k), NEW s \in Slots, NEW u \in Slots, s # u,
         tx[s].at # "idle", tx[u].at # "idle", k \notin tx[u].wrote, Holds(tx[u], k)
  PROVE  ~Holds(tx[s], k)
<1>1. PICK i \in DOMAIN tx[u].written : tx[u].written[i].key = k
  BY DEF Holds
<1>2. i \in Ids
  BY OpenTrans DEF Trans, Shape, Table, Inv, Committed
<1>3. Live(rows[i]) /\ Has(rows[i], k)
  BY <1>1 DEF KeyInv, KeyTx, Counted, Same, Has
<1>4. i \notin DOMAIN tx[s].written
  BY DEF Inv, Exclusive
<1>5. QED BY <1>2, <1>3, <1>4 DEF KeyInv, KeyTx, Alone, Live

LEMMA CommitKey ==
  ASSUME Inv, Timed, NEW k, KeyInv(k), NEW s \in Slots, Commit(s)
  PROVE  KeyInv(k)'
<1>1. /\ tx[s].at # "idle" /\ tx' = End(s, tx[s].wrote)
      /\ DOMAIN rows' = Ids /\ \A i \in Ids : rows'[i] = Seen(s, i)
  BY DEF Commit
<1>2. Newest(rows', k)
  BY <1>1, SeenNewest DEF Newest
<1>3. ASSUME NEW i \in Ids, Has(rows'[i], k), rows'[i].status = "rejected"
      PROVE  rows'[i].active = FALSE
  BY <1>1, <1>3 DEF KeyInv, KeyTx, Single, Seen, Has
<1>4. ASSUME NEW u \in Slots \ {s}, tx[u].at # "idle" PROVE KeyTx(tx'[u], rows', k)
  <2> DEFINE x == tx'[u]
             y == tx[u]
  <2>1. /\ x.at = y.at /\ x.written = y.written /\ x.todo = y.todo
        /\ x.target = y.target /\ x.loaded = y.loaded /\ x.start = y.start
        /\ x.wrote = y.wrote /\ x.others = y.others \cup tx[s].wrote
    BY <1>1, <1>4, EndStep
  <2>2. KeyTx(y, rows, k)
    BY <1>4 DEF KeyInv
  <2>3. \A i \in DOMAIN y.written : i \in Ids /\ rows'[i] = rows[i]
    <3>1. \A i \in DOMAIN y.written : i \in Ids
      BY <1>4, OpenTrans DEF Trans, Shape, Table, Inv, Committed
    <3>2. \A i \in DOMAIN y.written : i \notin DOMAIN tx[s].written
      BY <1>1, <1>4 DEF Inv, Exclusive
    <3>3. QED BY <1>1, <3>1, <3>2 DEF Seen
  <2>4. k \in tx[s].wrote => k \notin y.wrote
    BY <1>1, <1>4 DEF KeyInv, Sole
  <2>5. DOMAIN y.loaded \subseteq Ids
    BY <1>4, OpenTrans DEF Trans, Shape, Table, Inv, Committed
  <2> HIDE DEF x, y
  <2>6. Single(x, k)
    BY <2>1, <2>2 DEF KeyTx, Single
  <2>7. Counted(x, rows', k)
    BY <2>1, <2>2, <2>3 DEF KeyTx, Counted
  <2>8. CASE k \in tx[s].wrote
    <3>1. k \in x.others /\ k \notin x.wrote
      BY <2>1, <2>4, <2>8
    <3>2. Fresh(x, rows', k) /\ Aimed(x, rows', k)
      BY <3>1 DEF Fresh, Aimed
    <3>3. ASSUME Holds(x, k) PROVE Alone(x, rows', k) /\ Later(x, rows', k)
      <4>1. Holds(y, k) /\ k \notin y.wrote
        BY <2>1, <2>4, <2>8, <3>3 DEF Holds
      <4>2. ~Holds(tx[s], k)
        BY <1>1, <1>4, <4>1, NotBothHold DEF y
      <4>3. \A i \in Ids : Has(rows'[i], k) => rows'[i] = rows[i]
        BY <1>1, <4>2 DEF Seen, Holds, Has
      <4>4. QED BY <2>1, <2>2, <4>1, <4>3 DEF KeyTx, Alone, Later
    <3>4. Alone(x, rows', k) /\ Later(x, rows', k)
      BY <3>1, <3>3 DEF Alone, Later
    <3>5. QED BY <2>6, <2>7, <3>1, <3>2, <3>4 DEF KeyTx, x
  <2>9. CASE k \notin tx[s].wrote
    <3>1. \A i \in Ids :
            /\ Has(rows'[i], k) <=> Has(rows[i], k)
            /\ Has(rows[i], k) => Same(rows'[i], rows[i])
            /\ Has(rows[i], k) /\ rows[i].status = "rejected" => rows'[i] = rows[i]
      BY <1>1, <2>9, CommitKeeps
    <3>2. k \in x.others <=> k \in y.others
      BY <2>1, <2>9
    <3>3. \A i \in Ids : /\ Has(Over(x, rows', i), k) <=> Has(Over(y, rows, i), k)
                         /\ Has(Over(y, rows, i), k) => Same(Over(x, rows', i), Over(y, rows, i))
      BY <2>1, <3>1 DEF Over, Same
    <3>4. Alone(x, rows', k)
      BY <2>1, <2>2, <3>1 DEF KeyTx, Alone, Holds, Same
    <3>5. Later(x, rows', k)
      <4>1. \A i \in Ids : Has(rows'[i], k) /\ rows'[i].status = "rejected" =>
                             Has(rows[i], k) /\ rows[i].status = "rejected" /\ rows'[i] = rows[i]
        BY <3>1 DEF Same
      <4>2. QED BY <2>1, <2>2, <3>2, <4>1 DEF KeyTx, Later, Holds
    <3>6. Fresh(x, rows', k)
      <4>1. SUFFICES ASSUME k \notin x.others, NEW i \in DOMAIN x.loaded,
                            Has(x.loaded[i], k) \/ Has(Over(x, rows', i), k)
                     PROVE  Same(x.loaded[i], Over(x, rows', i))
        BY DEF Fresh
      <4>2. i \in Ids /\ i \in DOMAIN y.loaded /\ x.loaded[i] = y.loaded[i]
        BY <2>1, <2>5
      <4>3. Same(y.loaded[i], Over(y, rows, i))
        BY <2>2, <3>2, <3>3, <4>1, <4>2 DEF KeyTx, Fresh
      <4>4. Over(y, rows, i) # Nothing
        BY <1>4, <4>2, SeenOver, LoadedTimed DEF y
      <4>5. Has(Over(y, rows, i), k)
        BY <3>3, <4>1, <4>2, <4>3, <4>4 DEF Same, Has
      <4>6. QED BY <3>3, <4>2, <4>3, <4>5 DEF Same
    <3>7. Aimed(x, rows', k)
      <4>1. Aimed(y, rows, k)
        BY <2>2 DEF KeyTx
      <4>2. \A i \in Ids : Has(Over(y, rows, i), k) =>
                             Over(x, rows', i).status = Over(y, rows, i).status
        BY <3>3 DEF Same
      <4>3. x.at = "found" /\ x.target # Nothing => x.target \in Ids
        BY <1>4, <2>1, <2>5, OpenTrans DEF Trans, Staged, y
      <4>4. QED BY <2>1, <3>2, <3>3, <4>1, <4>2, <4>3 DEF Aimed
    <3>8. k \in x.wrote => k \notin x.others
      BY <2>1, <2>2, <3>2 DEF KeyTx
    <3>9. QED BY <2>6, <2>7, <3>4, <3>5, <3>6, <3>7, <3>8 DEF KeyTx, x
  <2>10. QED BY <2>8, <2>9
<1>5. Sole(tx', k)
  BY <1>1, EndStep DEF KeyInv, Sole
<1>6. \A u \in Slots : tx'[u].at # "idle" => KeyTx(tx'[u], rows', k)
  BY <1>1, <1>4, EndStep
<1>7. QED BY <1>2, <1>3, <1>5, <1>6 DEF KeyInv

LEMMA RollbackKey ==
  ASSUME Inv, NEW k, KeyInv(k), NEW s \in Slots, Rollback(s)
  PROVE  KeyInv(k)'
<1>1. tx[s].at # "idle" /\ tx' = End(s, {}) /\ rows' = rows
  BY DEF Rollback
<1>2. ASSUME NEW u \in Slots \ {s}, tx[u].at # "idle" PROVE KeyTx(tx'[u], rows, k)
  <2>1. /\ tx'[u].at = tx[u].at /\ tx'[u].written = tx[u].written /\ tx'[u].todo = tx[u].todo
        /\ tx'[u].target = tx[u].target /\ tx'[u].loaded = tx[u].loaded
        /\ tx'[u].start = tx[u].start /\ tx'[u].wrote = tx[u].wrote
        /\ tx'[u].others = tx[u].others \cup {}
    <3>1. /\ tx'[u].at = tx[u].at /\ tx'[u].written = tx[u].written
          /\ tx'[u].todo = tx[u].todo /\ tx'[u].target = tx[u].target
      BY <1>1, <1>2, EndStep
    <3>2. tx'[u].loaded = tx[u].loaded /\ tx'[u].start = tx[u].start
      BY <1>1, <1>2, EndStep
    <3>3. tx'[u].wrote = tx[u].wrote /\ tx'[u].others = tx[u].others \cup {}
      BY <1>1, <1>2, EndStep
    <3>4. QED BY <3>1, <3>2, <3>3
  <2>2. KeyTx(tx[u], rows, k)
    BY <1>2 DEF KeyInv
  <2>3. QED
    BY <2>1, <2>2 DEF KeyTx, Single, Alone, Later, Fresh, Counted, Aimed, Holds, Over
<1>3. Sole(tx', k)
  BY <1>1, EndStep DEF KeyInv, Sole
<1>4. \A u \in Slots : tx'[u].at # "idle" => KeyTx(tx'[u], rows, k)
  BY <1>1, <1>2, EndStep
<1>5. Newest(rows, k)
      /\ \A i \in Ids : Has(rows[i], k) /\ rows[i].status = "rejected" => rows[i].active = FALSE
  BY DEF KeyInv
<1>6. QED BY <1>1, <1>3, <1>4, <1>5 DEF KeyInv
KeysInv == \A k \in Keys \ muddled : KeyInv(k)

LEMMA NextKeys ==
  ASSUME Inv, Timed, KeysInv, [Next]_vars
  PROVE  KeysInv'
<1>1. CASE UNCHANGED vars
  BY <1>1
     DEF vars, KeysInv, KeyInv, Newest, Sole, KeyTx, Single, Alone, Later, Fresh, Counted, Aimed,
         Has, Over, Holds, Live
<1>2. ASSUME NEW s \in Slots, Requests(s) PROVE KeysInv'
  <2>1. \A k \in Keys \ muddled : KeyInv(k)'
    BY <1>2, BeginKey
       DEF Requests, Turn, AddMemory, RemoveMemory, PatchMemory, ClearMemories, KeysInv
  <2>2. muddled' = muddled
    BY <1>2 DEF Requests, Turn, AddMemory, RemoveMemory, PatchMemory, ClearMemories, Begin
  <2>3. QED BY <2>1, <2>2 DEF KeysInv
<1>3. ASSUME NEW s \in Slots, Context(s) \/ Find(s) \/ Commit(s) \/ Rollback(s) PROVE KeysInv'
  <2>1. \A k \in Keys \ muddled : KeyInv(k)'
    BY <1>3, ContextKey, FindKey, CommitKey, RollbackKey DEF KeysInv
  <2>2. muddled' = muddled
    BY <1>3 DEF Context, Find, Commit, Rollback
  <2>3. QED BY <2>1, <2>2 DEF KeysInv
<1>4. ASSUME NEW s \in Slots, Touch(s) PROVE KeysInv'
  <2>1. muddled \subseteq muddled'
    BY <1>4 DEF Touch
  <2>2. QED BY <1>4, <2>1, TouchKey DEF KeysInv
<1>5. ASSUME NEW s \in Slots, FlushInsert(s) PROVE KeysInv'
  <2>1. muddled \subseteq muddled'
    BY <1>5 DEF FlushInsert, Wrote
  <2>2. QED BY <1>5, <2>1, InsertKey DEF KeysInv
<1>6. ASSUME NEW s \in Slots, FlushUpdate(s) PROVE KeysInv'
  BY <1>6, UpdateKey DEF KeysInv
<1>7. ASSUME NEW s \in Slots, FlushClear(s) PROVE KeysInv'
  <2>1. muddled \subseteq muddled'
    BY <1>7 DEF FlushClear, Wrote
  <2>2. QED BY <1>7, <2>1, ClearKey DEF KeysInv
<1>8. CASE Next
  BY <1>2, <1>3, <1>4, <1>5, <1>6, <1>7, <1>8 DEF Next, Requests
<1>9. QED BY <1>1, <1>8

LEMMA InitKeys == Init => Timed /\ KeysInv
<1>1. SUFFICES ASSUME Init PROVE Timed /\ KeysInv
  OBVIOUS
<1>2. /\ \A i \in Ids : rows[i] = Nothing
      /\ \A s \in Slots : tx[s].at = "idle"
      /\ requests = 0
  BY <1>1 DEF Init, Idle
<1>3. QED BY <1>2 DEF Timed, KeysInv, KeyInv, Newest, Sole, Has

(* In every reachable state the rows of a key that is not muddled are in   *)
(* order, the one that is not rejected last, also as each open transaction *)
(* sees them; and what a transaction has found is what it writes           *)
(* (create_memory after _find_by_key, memory_service.py:76).               *)
THEOREM KeysInvariant == Spec => [](Timed /\ KeysInv)
<1>1. Inv /\ Timed /\ KeysInv /\ [Next]_vars => (Timed /\ KeysInv)'
  BY NextTimed, NextKeys
<1>2. QED BY <1>1, InitKeys, Invariant, PTL DEF Spec

(* So two rows of a key are never both recalled.                           *)
LEMMA OneLive ==
  ASSUME Timed, NEW k \in Keys \ muddled, KeysInv, NEW i \in Ids, NEW j \in Ids,
         Live(rows[i]), Live(rows[j]), rows[i].key = k, rows[j].key = k
  PROVE  i = j
<1>1. SUFFICES ASSUME i # j PROVE FALSE
  OBVIOUS
<1>2. rows[i].stamp < rows[j].stamp /\ rows[j].stamp < rows[i].stamp
  BY <1>1 DEF KeysInv, KeyInv, Newest, Has, Live
<1>3. rows[i].stamp \in Nat /\ rows[j].stamp \in Nat
  BY RowFields DEF Timed, Live
<1>4. QED BY <1>2, <1>3-----------------------------------------------------------------------------
(* What the recalled rows say                                              *)
(*                                                                         *)
(* A request that states something under a key has yet to flush it         *)
(* (Announced), or has left a row that says it (Done), and writes no other *)
(* key (Meant); so what it commits is what it stated.                      *)

Waiting(todo, k) == {i \in DOMAIN todo : todo[i].op = "store" /\ todo[i].key = k}

Announced(x, k) ==
  \A i \in Waiting(x.todo, k) :
    /\ k \notin x.wrote /\ k \in DOMAIN x.said
    /\ x.said[k].status = x.todo[i].status /\ x.said[k].content = x.todo[i].content
    /\ \A j \in Waiting(x.todo, k) : j = i

Meant(x, k) == k \in x.wrote /\ x.said # << >> => k \in DOMAIN x.said

Owns(base, k) == \E i \in Ids : Has(base[i], k) /\ base[i].status = "active"

(* The row says what was stated; a candidate becomes a row that is recalled*)
(* only where one was.                                                     *)
Says(r, x, base, k) ==
  /\ Has(r, k) /\ r.active = TRUE /\ r.content = x.said[k].content
  /\ r.status = IF x.said[k].status = "active" \/ Owns(base, k) THEN "active" ELSE "candidate"

Done(x, base, k) ==
  k \in DOMAIN x.said /\ Waiting(x.todo, k) = {} =>
    k \in x.wrote /\ \E i \in Ids : Says(Over(x, base, i), x, base, k)

WordTx(x, base, k) == Announced(x, k) /\ Meant(x, k) /\ Done(x, base, k)

Told(base, m, k) ==
  {base[i].content : i \in {j \in Ids : Live(base[j]) /\ base[j].key = k}} = {m[k]} \ {Nothing}

WordInv(k) ==
  /\ Told(rows, mem, k)
  /\ \A s \in Slots : tx[s].at # "idle" => WordTx(tx[s], rows, k)

LEMMA LocalWord ==
  ASSUME Inv, NEW k, WordInv(k), NEW s \in Slots, Elsewhere(s), UNCHANGED <<rows, mem>>,
         WordTx(tx'[s], rows, k)
  PROVE  WordInv(k)'
<1>1. \A u \in Slots : tx'[u].at # "idle" => WordTx(tx'[u], rows, k)
  BY DEF WordInv, Elsewhere
<1>2. Told(rows, mem, k) /\ rows' = rows /\ mem' = mem
  BY DEF WordInv
<1>3. QED BY <1>1, <1>2 DEF WordInv

(* A step that keeps what is planned and said, and the rows of the key.    *)
LEMMA WordKept ==
  ASSUME NEW k, NEW x, NEW y, NEW base, NEW now, WordTx(x, base, k),
         y.todo = x.todo, y.said = x.said, y.wrote = x.wrote,
         k \in x.wrote => (Owns(now, k) <=> Owns(base, k)),
         k \in x.wrote => \A i \in Ids : Has(Over(x, base, i), k) =>
           Has(Over(y, now, i), k) /\ Same(Over(y, now, i), Over(x, base, i))
  PROVE  WordTx(y, now, k)
<1>1. Waiting(y.todo, k) = Waiting(x.todo, k)
  BY DEF Waiting
<1>2. Announced(y, k) /\ Meant(y, k)
  BY <1>1 DEF WordTx, Announced, Meant
<1>3. Done(y, now, k)
  <2>1. SUFFICES ASSUME k \in DOMAIN x.said, Waiting(x.todo, k) = {}
                 PROVE  k \in x.wrote /\ \E i \in Ids : Says(Over(y, now, i), y, now, k)
    BY <1>1 DEF Done
  <2>2. PICK i \in Ids : k \in x.wrote /\ Says(Over(x, base, i), x, base, k)
    BY <2>1 DEF WordTx, Done
  <2>3. Says(Over(y, now, i), y, now, k)
    BY <2>2 DEF Says, Same
  <2>4. QED BY <2>2, <2>3
<1>4. QED BY <1>2, <1>3 DEF WordTx
(* A request has a store waiting for each key it states something under.   *)
Plan(said, todo, k) ==
  LET stores == {i \in DOMAIN todo : todo[i].op = "store" /\ todo[i].key = k} IN
  /\ \A i \in stores :
       /\ k \in DOMAIN said
       /\ said[k].status = todo[i].status /\ said[k].content = todo[i].content
       /\ \A j \in stores : j = i
  /\ k \in DOMAIN said => stores # {}

LEMMA BeginWord ==
  ASSUME Inv, NEW k, WordInv(k), NEW s \in Slots, NEW at \in {"context", "next"},
         NEW said, NEW todo, Begin(s, at, said, todo), Plan(said, todo, k)
  PROVE  WordInv(k)'
<1>1. /\ Elsewhere(s) /\ tx'[s].said = said /\ tx'[s].todo = todo /\ tx'[s].wrote = {}
      /\ rows' = rows /\ mem' = mem
  BY BeginStep
<1>2. WordTx(tx'[s], rows, k)
  BY <1>1 DEF WordTx, Announced, Meant, Done, Waiting, Plan
<1>3. QED BY <1>1, <1>2, LocalWord

LEMMA TurnPlan ==
  ASSUME Extracts, NEW m \in Messages, NEW llm \in LlmAnswers, NEW k
  PROVE  Plan(Statements(m, llm),
              [i \in DOMAIN Stored(m, llm) |->
                 Store(Stored(m, llm)[i].key, Stored(m, llm)[i].id, "active")], k)
<1> DEFINE list == Stored(m, llm)
           said == Statements(m, llm)
           todo == [i \in DOMAIN list |-> Store(list[i].key, list[i].id, "active")]
<1>1. /\ DOMAIN said = {list[i].key : i \in DOMAIN list}
      /\ \A i \in DOMAIN list : /\ said[list[i].key].content = list[i].id
                                /\ \A j \in DOMAIN list : list[j].key = list[i].key => j = i
  BY DEF Extracts
<1>2. \A c \in DOMAIN said : said[c].status = "active"
  BY DEF Statements
<1>3. /\ DOMAIN todo = DOMAIN list
      /\ \A i \in DOMAIN list : /\ todo[i].op = "store" /\ todo[i].key = list[i].key
                                /\ todo[i].content = list[i].id /\ todo[i].status = "active"
  BY DEF Store
<1> HIDE DEF list, said, todo
<1>4. Plan(said, todo, k)
  BY <1>1, <1>2, <1>3 DEF Plan
<1>5. QED BY <1>4 DEF list, said, todo

LEMMA RequestWord ==
  ASSUME Extracts, Inv, NEW k, WordInv(k), NEW s \in Slots, Requests(s)
  PROVE  WordInv(k)'
<1>1. ASSUME NEW m \in Messages, NEW llm \in LlmAnswers, Turn(s, m, llm) PROVE WordInv(k)'
  BY <1>1, TurnPlan, BeginWord DEF Turn
<1>2. ASSUME NEW c \in ManualKeys, NEW st \in {"active", "candidate"}, AddMemory(s, c, st)
      PROVE  WordInv(k)'
  <2> DEFINE said == Only(c, [status |-> st, content |-> "manual"])
             todo == <<Store(c, "manual", st)>>
  <2>1. /\ DOMAIN said = {c} /\ said[c].status = st /\ said[c].content = "manual"
        /\ DOMAIN todo = {1} /\ todo[1].op = "store" /\ todo[1].key = c
        /\ todo[1].status = st /\ todo[1].content = "manual"
    BY DEF Only, Store
  <2>2. Begin(s, "next", said, todo)
    BY <1>2 DEF AddMemory
  <2> HIDE DEF said, todo
  <2>3. Plan(said, todo, k)
    BY <2>1 DEF Plan
  <2>4. QED BY <2>2, <2>3, BeginWord
<1>3. ASSUME NEW o, o.op # "store", Begin(s, "next", << >>, <<o>>) PROVE WordInv(k)'
  <2>1. Plan(<< >>, <<o>>, k)
    BY <1>3 DEF Plan
  <2>2. QED BY <1>3, <2>1, BeginWord
<1>4. ASSUME NEW i \in used, RemoveMemory(s, i) PROVE WordInv(k)'
  BY <1>3, <1>4 DEF RemoveMemory
<1>5. ASSUME NEW i \in used, NEW p \in Patches, PatchMemory(s, i, p) PROVE WordInv(k)'
  BY <1>3, <1>5 DEF PatchMemory
<1>6. ASSUME ClearMemories(s) PROVE WordInv(k)'
  BY <1>3, <1>6 DEF ClearMemories
<1>7. QED BY <1>1, <1>2, <1>4, <1>5, <1>6 DEF Requests

LEMMA LoadWord ==
  ASSUME Inv, NEW k, WordInv(k), NEW s \in Slots, Context(s) \/ Find(s)
  PROVE  WordInv(k)'
<1>1. /\ tx[s].at # "idle" /\ Elsewhere(s) /\ tx'[s].written = tx[s].written
      /\ tx'[s].todo = tx[s].todo /\ tx'[s].wrote = tx[s].wrote /\ tx'[s].said = tx[s].said
      /\ rows' = rows /\ mem' = mem
  <2>1. CASE Context(s)
    BY <2>1, ContextStep DEF Kept
  <2>2. CASE Find(s)
    BY <2>2, FindStep DEF Kept
  <2>3. QED BY <2>1, <2>2
<1>2. WordTx(tx[s], rows, k)
  BY <1>1 DEF WordInv
<1>3. WordTx(tx'[s], rows, k)
  BY <1>1, <1>2, WordKept DEF Over, Same
<1>4. QED BY <1>1, <1>3, LocalWord

LEMMA TouchWord ==
  ASSUME Inv, Timed, NEW k, WordInv(k), NEW s \in Slots, Touch(s)
  PROVE  WordInv(k)'
<1> DEFINE x == tx'[s]
           ids == DOMAIN tx[s].loaded
<1>1. /\ tx[s].at = "touch" /\ DOMAIN tx[s].written = {} /\ Elsewhere(s)
      /\ x.written = Write(s, TouchedRows(s)) /\ x.todo = tx[s].todo
      /\ x.wrote = tx[s].wrote /\ Kept(x, tx[s]) /\ rows' = rows /\ mem' = mem
      /\ DOMAIN TouchedRows(s) = ids
  BY TouchStep DEF TouchedRows
<1>2. \A i \in ids : rows[i] \in Row /\ tx[s].start \in Nat
  BY <1>1, LoadedTimed DEF Seen, Timed, TimedTx
<1>3. \A i \in ids : Same(TouchedRows(s)[i], rows[i]) /\ TouchedRows(s)[i] \in Row
  BY <1>2, StampedRow DEF TouchedRows, Same
<1>4. DOMAIN x.written = ids /\ \A i \in ids : x.written[i] = TouchedRows(s)[i]
  BY <1>1 DEF Write
<1> HIDE DEF x, ids
<1>5. \A i : Over(tx[s], rows, i) = rows[i]
  BY <1>1 DEF Over
<1>6. ASSUME NEW i \in Ids, Has(rows[i], k)
      PROVE  Has(Over(x, rows, i), k) /\ Same(Over(x, rows, i), rows[i])
  BY <1>3, <1>4, <1>6, RowFields DEF Over, Same, Has
<1>7. WordTx(tx[s], rows, k)
  BY <1>1 DEF WordInv
<1>8. WordTx(x, rows, k)
  BY <1>1, <1>5, <1>6, <1>7, WordKept DEF Kept
<1>9. QED BY <1>1, <1>8, LocalWord DEF x
LEMMA TailWaiting ==
  ASSUME NEW todo \in Seq(StoreOps), todo # << >>, NEW k
  PROVE  /\ \A i \in Waiting(Tail(todo), k) :
              i \in Nat \ {0} /\ i + 1 \in Waiting(todo, k) /\ Tail(todo)[i] = todo[i + 1]
         /\ Head(todo).key = k => 1 \in Waiting(todo, k)
         /\ Head(todo).key # k /\ Waiting(Tail(todo), k) = {} => Waiting(todo, k) = {}
<1> DEFINE rest == Tail(todo)
<1>1. /\ DOMAIN todo = 1..Len(todo) /\ Len(todo) \in Nat \ {0}
      /\ DOMAIN rest = 1..(Len(todo) - 1)
      /\ \A i \in DOMAIN rest : rest[i] = todo[i + 1]
      /\ Head(todo) = todo[1] /\ todo[1] \in StoreOps
  OBVIOUS
<1>2. todo[1].op = "store"
  BY <1>1, OpsTyped
<1> HIDE DEF rest
<1>3. ASSUME NEW i \in Waiting(rest, k)
      PROVE  i \in Nat \ {0} /\ i + 1 \in Waiting(todo, k) /\ rest[i] = todo[i + 1]
  BY <1>1, <1>3 DEF Waiting
<1>4. ASSUME NEW i \in Waiting(todo, k), i # 1 PROVE i - 1 \in Waiting(rest, k)
  BY <1>1, <1>4 DEF Waiting
<1>5. Head(todo).key = k <=> 1 \in Waiting(todo, k)
  BY <1>1, <1>2 DEF Waiting
<1>6. /\ \A i \in Waiting(rest, k) :
           i \in Nat \ {0} /\ i + 1 \in Waiting(todo, k) /\ rest[i] = todo[i + 1]
      /\ Head(todo).key = k => 1 \in Waiting(todo, k)
      /\ Head(todo).key # k /\ Waiting(rest, k) = {} => Waiting(todo, k) = {}
  BY <1>3, <1>4, <1>5
<1>7. QED BY <1>6 DEF rest

(* A store leaves a row that says what was stated, and no other key.       *)
LEMMA StoreWord ==
  ASSUME Inv, NEW k, WordInv(k), NEW s \in Slots, tx[s].at = "found",
         NEW op, op = Head(tx[s].todo), op \in StoreOps,
         NEW new, NEW loaded, NEW keys, Flushed(s, new, loaded, keys),
         op.key \in keys, k \in keys => op.key = k,
         op.key = k => \E i \in Ids : Says(Over(tx'[s], rows, i), tx[s], rows, k),
         op.key # k => \A i \in Ids : Has(Over(tx[s], rows, i), k) =>
           Has(Over(tx'[s], rows, i), k) /\ Same(Over(tx'[s], rows, i), Over(tx[s], rows, i))
  PROVE  WordInv(k)'
<1> DEFINE x == tx[s]
           y == tx'[s]
<1>1. /\ x.todo # << >> /\ Elsewhere(s) /\ y.todo = Tail(x.todo)
      /\ y.wrote = x.wrote \cup keys /\ Kept(y, x) /\ rows' = rows /\ mem' = mem
  BY FlushStep
<1>2. x.todo \in Seq(StoreOps)
  <2>1. CASE \E o \in OtherOps : x.todo = <<o>>
    BY <2>1, OpsTyped
  <2>2. QED BY <2>1, OpenTrans DEF Trans, Planned
<1>3. WordTx(x, rows, k)
  BY DEF WordInv
<1> HIDE DEF x, y
<1>4. /\ \A i \in Waiting(y.todo, k) :
           i \in Nat \ {0} /\ i + 1 \in Waiting(x.todo, k) /\ y.todo[i] = x.todo[i + 1]
      /\ op.key = k => 1 \in Waiting(x.todo, k)
      /\ op.key # k /\ Waiting(y.todo, k) = {} => Waiting(x.todo, k) = {}
  <2>1. op = Head(x.todo)
    BY DEF x
  <2>2. x.todo # << >>
    BY <1>1
  <2>3. /\ \A i \in Waiting(Tail(x.todo), k) :
             /\ i \in Nat \ {0} /\ i + 1 \in Waiting(x.todo, k)
             /\ Tail(x.todo)[i] = x.todo[i + 1]
        /\ Head(x.todo).key = k => 1 \in Waiting(x.todo, k)
        /\ Head(x.todo).key # k /\ Waiting(Tail(x.todo), k) = {} => Waiting(x.todo, k) = {}
    BY <1>2, <2>2, TailWaiting
  <2>4. y.todo = Tail(x.todo)
    BY <1>1
  <2>5. QED BY <2>1, <2>3, <2>4, Zenon
<1>5. y.said = x.said
  BY <1>1 DEF Kept
<1>6. ASSUME op.key = k PROVE WordTx(y, rows, k)
  <2>1. k \in DOMAIN x.said /\ \A j \in Waiting(x.todo, k) : j = 1
    BY <1>3, <1>4, <1>6 DEF WordTx, Announced
  <2>2. Waiting(y.todo, k) = {}
    BY <1>4, <2>1
  <2>3. PICK i \in Ids : Says(Over(y, rows, i), x, rows, k)
    BY <1>6 DEF x, y
  <2>4. Says(Over(y, rows, i), y, rows, k)
    BY <1>5, <2>3 DEF Says
  <2>5. k \in y.wrote
    BY <1>1, <1>6
  <2>6. QED BY <1>5, <2>1, <2>2, <2>4, <2>5 DEF WordTx, Announced, Meant, Done
<1>7. ASSUME op.key # k PROVE WordTx(y, rows, k)
  <2>1. k \in y.wrote <=> k \in x.wrote
    BY <1>1, <1>7
  <2>2. Announced(y, k)
    <3>1. SUFFICES ASSUME NEW i \in Waiting(y.todo, k)
                   PROVE  /\ k \notin x.wrote /\ k \in DOMAIN x.said
                          /\ x.said[k].status = y.todo[i].status
                          /\ x.said[k].content = y.todo[i].content
                          /\ \A j \in Waiting(y.todo, k) : j = i
      BY <1>5, <2>1 DEF Announced
    <3>2. \A j \in Waiting(y.todo, k) : j + 1 = i + 1
      BY <1>3, <1>4 DEF WordTx, Announced
    <3>3. \A j \in Waiting(y.todo, k) : j = i
      BY <1>4, <3>2
    <3>4. QED BY <1>3, <1>4, <3>3 DEF WordTx, Announced
  <2>3. Meant(y, k)
    BY <1>3, <1>5, <2>1 DEF WordTx, Meant
  <2>4. Done(y, rows, k)
    <3>1. SUFFICES ASSUME k \in DOMAIN x.said, Waiting(y.todo, k) = {}
                   PROVE  k \in y.wrote /\ \E i \in Ids : Says(Over(y, rows, i), y, rows, k)
      BY <1>5 DEF Done
    <3>2. PICK i \in Ids : k \in x.wrote /\ Says(Over(x, rows, i), x, rows, k)
      BY <1>3, <1>4, <1>7, <3>1 DEF WordTx, Done
    <3>3. Has(Over(y, rows, i), k) /\ Same(Over(y, rows, i), Over(x, rows, i))
      BY <1>7, <3>2 DEF Says, x, y
    <3>4. Says(Over(y, rows, i), y, rows, k)
      BY <1>5, <3>2, <3>3 DEF Says, Same
    <3>5. QED BY <2>1, <3>2, <3>4
  <2>5. QED BY <2>2, <2>3, <2>4 DEF WordTx
<1>8. WordTx(tx'[s], rows, k)
  BY <1>6, <1>7 DEF y
<1>9. QED BY <1>1, <1>8, LocalWord

(* A PATCH, a deletion or a clear states nothing.                          *)
LEMMA OtherWord ==
  ASSUME Inv, NEW k, WordInv(k), NEW s \in Slots, tx[s].at = "found",
         Head(tx[s].todo) \notin StoreOps,
         NEW new, NEW loaded, NEW keys, Flushed(s, new, loaded, keys)
  PROVE  WordInv(k)'
<1>1. /\ Elsewhere(s) /\ tx'[s].todo = Tail(tx[s].todo) /\ Kept(tx'[s], tx[s])
      /\ rows' = rows /\ mem' = mem
  BY FlushStep
<1>2. tx'[s].said = << >> /\ tx'[s].todo = << >>
  BY <1>1, LastOp, CurrentOp DEF Kept
<1>3. WordTx(tx'[s], rows, k)
  BY <1>2, EmptyTable DEF WordTx, Announced, Meant, Done, Waiting
<1>4. QED BY <1>1, <1>3, LocalWord
LEMMA InsertWord ==
  ASSUME Inv, Timed, NEW k, k \notin muddled', KeyInv(k), WordInv(k), NEW s \in Slots,
         FlushInsert(s)
  PROVE  WordInv(k)'
<1> DEFINE op == Head(tx[s].todo)
           r == Inserted(s)
           x == tx'[s]
<1>1. /\ tx[s].at = "found" /\ op \in StoreOps /\ op.op = "store"
      /\ op.status \in {"active", "candidate"}
      /\ r \in Row /\ r.key = op.key /\ r.status = op.status /\ r.active = TRUE
      /\ r.content = op.content
  <2>1. tx[s].at = "found" /\ op \in StoreOps /\ op.op = "store"
        /\ op.status \in {"active", "candidate"}
    BY InsertStep
  <2>2. r \in Row
    BY InsertStep
  <2>3. /\ r.key = op.key /\ r.status = op.status /\ r.active = TRUE
        /\ r.content = op.content
    BY DEF Inserted
  <2>4. QED BY <2>1, <2>2, <2>3
<1>2. PICK i \in Ids : /\ i \notin used
                       /\ Flushed(s, Only(i, r), tx[s].loaded, {op.key})
  BY InsertStep
<1>3. rows[i] = Nothing /\ i \notin DOMAIN tx[s].written
  BY <1>1, <1>2, OpenTrans DEF Trans, Shape, Table, Inv, Committed
<1>4. x.written = Write(s, Only(i, r)) /\ x.at = "next" /\ rows' = rows /\ tx[s].todo # << >>
  BY <1>1, <1>2, FlushStep
<1>5. /\ DOMAIN x.written = DOMAIN tx[s].written \cup {i}
      /\ Over(x, rows, i) = r /\ x.written[i] = r
      /\ \A j : j # i => Over(x, rows, j) = Over(tx[s], rows, j)
      /\ \A j \in DOMAIN tx[s].written : j # i => x.written[j] = tx[s].written[j]
  BY <1>4 DEF Over, Write, Only
<1>6. ASSUME op.key # k, NEW j \in Ids, Has(Over(tx[s], rows, j), k)
      PROVE  Has(Over(x, rows, j), k) /\ Same(Over(x, rows, j), Over(tx[s], rows, j))
  <2>1. j # i
    BY <1>3, <1>6 DEF Over, Has
  <2>2. QED BY <1>5, <1>6, <2>1 DEF Same
<1>7. ASSUME op.key = k PROVE Says(Over(x, rows, i), tx[s], rows, k)
  <2>1. k \notin tx[s].wrote /\ tx[s].said[k].status = op.status
        /\ tx[s].said[k].content = op.content
    <3>1. WordTx(tx[s], rows, k)
      BY <1>1 DEF WordInv
    <3>2. tx[s].todo \in Seq(StoreOps)
      <4>1. CASE \E o \in OtherOps : tx[s].todo = <<o>>
        BY <1>1, <4>1, OpsTyped
      <4>2. QED BY <1>1, <4>1, OpenTrans DEF Trans, Planned
    <3>3. 1 \in Waiting(tx[s].todo, k) /\ tx[s].todo[1] = op
      BY <1>4, <1>7, <3>2, TailWaiting
    <3>4. QED BY <3>1, <3>3 DEF WordTx, Announced
  <2>2. KeyTx(x, rows, k)
    <3>1. KeyInv(k)'
      BY InsertKey
    <3>2. \A u \in Slots : tx'[u].at # "idle" => KeyTx(tx'[u], rows, k)
      BY <1>4, <3>1 DEF KeyInv, KeyTx, Single, Alone, Later, Fresh, Counted, Aimed, Has, Over, Holds, Live
    <3>3. QED BY <1>4, <3>2
  <2> HIDE DEF op, r, x
  <2>3. ASSUME NEW j \in Ids, Has(rows[j], k), rows[j].status = "active" PROVE FALSE
    <3>1. j # i
      BY <1>3, <2>3 DEF Has
    <3>2. Has(Seen(s, j), k)
      BY <1>1, <2>1, <2>3, CommitKeeps
    <3>3. CASE j \in DOMAIN tx[s].written
      <4>1. x.written[j].key = k /\ x.written[i].key = k
        BY <1>1, <1>5, <1>7, <3>1, <3>2, <3>3 DEF Seen, Has
      <4>2. x.written[i].status = "rejected"
        BY <1>5, <2>2, <3>1, <3>3, <4>1 DEF KeyTx, Single
      <4>3. QED BY <1>1, <1>5, <4>2
    <3>4. CASE j \notin DOMAIN tx[s].written
      <4>1. Holds(x, k) /\ j \notin DOMAIN x.written
        BY <1>1, <1>5, <1>7, <3>1, <3>4 DEF Holds
      <4>2. QED BY <2>2, <2>3, <4>1 DEF KeyTx, Alone
    <3>5. QED BY <3>3, <3>4
  <2>4. ~Owns(rows, k)
    BY <2>3 DEF Owns
  <2>5. Has(r, k)
    BY <1>1, <1>7, RowFields DEF Has
  <2>6. QED BY <1>1, <1>5, <2>1, <2>4, <2>5 DEF Says
<1> HIDE DEF op, r, x
<1>8. QED BY <1>1, <1>2, <1>6, <1>7, StoreWord DEF x, op

(* The update of a store whose key is still not muddled writes the row of  *)
(* that key.                                                               *)
LEMMA StoreUpdates ==
  ASSUME Inv, Timed, KeysInv, NEW s \in Slots, FlushUpdate(s), NEW k \in KeysOf(s),
         k \notin muddled', NEW op, op = Head(tx[s].todo), op \in StoreOps,
         NEW i, i = tx[s].target
  PROVE  /\ op.key = k /\ Same(Before(s), Seen(s, i)) /\ Has(Seen(s, i), k)
         /\ k \in Keys \ muddled /\ Before(s).status # "rejected"
         /\ After(s).key = k /\ After(s).active = TRUE /\ After(s).content = op.content
         /\ After(s).status = IF Before(s).status = "active" THEN "active" ELSE op.status
<1> DEFINE old == Before(s)
           want == Setting(s)
<1>1. /\ tx[s].at = "found" /\ op.op = "store" /\ old.status # "rejected"
  BY OpsTyped, UpdateStep
<1>2. /\ \A c \in KeysOf(s) : c \in Keys \ muddled /\ ~Overlaps(s, c)
      /\ Same(old, Seen(s, i))
  BY UpdateKnown DEF KeysInv
<1>3. op.key \in KeysOf(s)
  BY <1>1 DEF KeysOf, StatedKeys
<1>4. KeyTx(tx[s], rows, op.key) /\ op.key \notin tx[s].others
  BY <1>1, <1>2, <1>3 DEF KeysInv, KeyInv, Overlaps
<1>5. i \in Ids /\ old \in Row
  BY UpdateRows
<1>6. Has(Seen(s, i), op.key)
  BY <1>1, <1>4, <1>5, SeenOver, NothingAssumption DEF KeyTx, Aimed
<1>7. /\ After(s).key = Chosen(want, "key", old) /\ After(s).status = Chosen(want, "status", old)
      /\ After(s).active = Chosen(want, "active", old)
      /\ After(s).content = Chosen(want, "content", old)
  BY <1>2, Effect
<1>8. want = Wanted(op, old)
  BY DEF Setting
<1> HIDE DEF old, want
<1>9. /\ DOMAIN Wanted(op, old) = {"status", "active", "content"}
      /\ Wanted(op, old)["status"] = IF old.status = "active" THEN "active" ELSE op.status
      /\ Wanted(op, old)["active"] = TRUE /\ Wanted(op, old)["content"] = op.content
  BY <1>1, <1>5, WantedSets
<1>10. /\ After(s).key = old.key /\ After(s).active = TRUE /\ After(s).content = op.content
       /\ After(s).status = IF old.status = "active" THEN "active" ELSE op.status
  BY <1>7, <1>8, <1>9 DEF Chosen
<1>11. Seen(s, i).key = op.key /\ old.key = op.key
  BY <1>2, <1>6 DEF Same, Has
<1>12. k = op.key
  BY <1>1, <1>10, <1>11 DEF KeysOf, StatedKeys, old
<1>13. QED BY <1>1, <1>2, <1>3, <1>6, <1>10, <1>11, <1>12 DEF old
LEMMA UpdateWord ==
  ASSUME Inv, Timed, KeysInv, NEW k \in Keys, k \notin muddled', WordInv(k), NEW s \in Slots,
         FlushUpdate(s)
  PROVE  WordInv(k)'
<1> DEFINE op == Head(tx[s].todo)
           i == tx[s].target
           x == tx'[s]
<1>1. /\ tx[s].at = "found" /\ (op \in StoreOps \/ op \in OtherOps)
      /\ \/ Altered(s) = {} /\ Flushed(s, << >>, tx[s].loaded, KeysOf(s))
         \/ Flushed(s, Only(i, After(s)), Refreshed(s), KeysOf(s))
  BY UpdateStep
<1>2. \E new, loaded : Flushed(s, new, loaded, KeysOf(s))
  BY <1>1
<1>3. CASE op \notin StoreOps
  BY <1>1, <1>2, <1>3, OtherWord
<1>4. CASE op \in StoreOps
  <2>1. /\ i \in Ids /\ Seen(s, i) \in Row /\ After(s) \in Row
        /\ After(s).key = Chosen(Altering(s), "key", Seen(s, i))
        /\ After(s).status = Chosen(Altering(s), "status", Seen(s, i))
        /\ After(s).active = Chosen(Altering(s), "active", Seen(s, i))
        /\ After(s).content = Chosen(Altering(s), "content", Seen(s, i))
    BY UpdateRows
  <2>2. Altered(s) = {} => Same(After(s), Seen(s, i))
    <3>1. Altered(s) = {} => DOMAIN Altering(s) = {}
      BY DEF Altering
    <3>2. QED BY <2>1, <3>1 DEF Same, Chosen
  <2>3. /\ \A j \in Ids : j # i => Over(x, rows, j) = Over(tx[s], rows, j)
        /\ Over(x, rows, i) = After(s)
             \/ (Over(x, rows, i) = Seen(s, i) /\ Same(After(s), Seen(s, i)))
    <3>1. CASE Altered(s) = {} /\ Flushed(s, << >>, tx[s].loaded, KeysOf(s))
      <4>1. x.written = Write(s, << >>)
        BY <1>1, <3>1, FlushStep
      <4>2. \A j : Over(x, rows, j) = Over(tx[s], rows, j)
        BY <4>1, EmptyTable DEF Over, Write
      <4>3. QED BY <2>2, <3>1, <4>2, SeenOver
    <3>2. CASE Flushed(s, Only(i, After(s)), Refreshed(s), KeysOf(s))
      <4>1. x.written = Write(s, Only(i, After(s)))
        BY <1>1, <3>2, FlushStep
      <4>2. QED BY <4>1 DEF Over, Write, Only
    <3>3. QED BY <1>1, <3>1, <3>2
  <2>4. Over(x, rows, i) # Nothing /\ Same(Over(x, rows, i), After(s))
    BY <2>1, <2>3, RowFields DEF Same
  <2>5. op.key \in KeysOf(s)
    BY <1>4, OpsTyped DEF KeysOf, StatedKeys
  <2>6. ASSUME k \in KeysOf(s)
        PROVE  /\ op.key = k /\ Same(Before(s), Seen(s, i)) /\ Has(Seen(s, i), k)
               /\ k \in Keys \ muddled /\ Before(s).status # "rejected"
               /\ After(s).key = k /\ After(s).active = TRUE /\ After(s).content = op.content
               /\ After(s).status = IF Before(s).status = "active" THEN "active" ELSE op.status
    BY <1>4, <2>6, StoreUpdates
  <2>7. ASSUME op.key = k PROVE Says(Over(x, rows, i), tx[s], rows, k)
    <3>1. tx[s].todo \in Seq(StoreOps) /\ tx[s].todo # << >>
      <4>1. CASE \E o \in OtherOps : tx[s].todo = <<o>>
        BY <1>4, <4>1, OpsTyped
      <4>2. QED BY <1>1, <4>1, OpenTrans DEF Trans, Planned, Staged
    <3>2. 1 \in Waiting(tx[s].todo, k) /\ tx[s].todo[1] = op
      BY <2>7, <3>1, TailWaiting
    <3>3. k \notin tx[s].wrote /\ tx[s].said[k].status = op.status
          /\ tx[s].said[k].content = op.content
      <4>1. WordTx(tx[s], rows, k)
        BY <1>1 DEF WordInv
      <4>2. QED BY <3>2, <4>1 DEF WordTx, Announced
    <3>4. op.status \in {"active", "candidate"}
      BY <1>4, OpsTyped
    <3> HIDE DEF op, i, x
    <3>5. k \in KeysOf(s)
      BY <2>5, <2>7
    <3>6. KeyInv(k)
      BY <2>6, <3>5 DEF KeysInv
    <3>7. \A j \in Ids : /\ Has(Seen(s, j), k) <=> Has(rows[j], k)
                         /\ Has(rows[j], k) => Same(Seen(s, j), rows[j])
      BY <1>1, <3>3, <3>6, CommitKeeps
    <3>8. Before(s).status = "active" => Owns(rows, k)
      BY <2>1, <2>6, <3>5, <3>7 DEF Owns, Same
    <3>9. ASSUME NEW j \in Ids, Has(rows[j], k), rows[j].status = "active"
          PROVE  Before(s).status = "active"
      <4>1. Has(Seen(s, j), k) /\ Seen(s, j).status = "active"
        BY <3>7, <3>9 DEF Same
      <4>2. Has(Seen(s, i), k) /\ Seen(s, i).status # "rejected"
        BY <2>6, <3>5 DEF Same
      <4>3. j = i
        BY <1>1, <2>1, <3>6, <4>1, <4>2, OthersRejected
      <4>4. QED BY <2>6, <3>5, <4>1, <4>3 DEF Same
    <3>10. After(s).status = IF op.status = "active" \/ Owns(rows, k) THEN "active" ELSE "candidate"
      BY <2>6, <3>4, <3>5, <3>8, <3>9 DEF Owns
    <3>11. QED BY <2>4, <2>6, <3>3, <3>5, <3>10 DEF Says, Same, Has
  <2>8. ASSUME op.key # k, NEW j \in Ids, Has(Over(tx[s], rows, j), k)
        PROVE  Has(Over(x, rows, j), k) /\ Same(Over(x, rows, j), Over(tx[s], rows, j))
    <3>1. j # i
      <4>1. Seen(s, i).key \in KeysOf(s)
        BY DEF KeysOf
      <4>2. Seen(s, i).key # k
        BY <2>6, <2>8, <4>1
      <4>3. QED BY <2>8, <4>2, SeenOver DEF Has
    <3>2. QED BY <2>3, <2>8, <3>1 DEF Same
  <2> HIDE DEF op, i
  <2>9. k \in KeysOf(s) => op.key = k
    BY <2>6
  <2>10. op = Head(tx[s].todo)
    BY DEF op
  <2>11. QED BY <1>1, <1>2, <1>4, <2>1, <2>5, <2>7, <2>8, <2>9, <2>10, StoreWord DEF x
<1>5. QED BY <1>3, <1>4

LEMMA ClearWord ==
  ASSUME Inv, Timed, NEW k, WordInv(k), NEW s \in Slots, FlushClear(s)
  PROVE  WordInv(k)'
<1>1. tx[s].at = "found" /\ Flushed(s, ClearedRows(s), tx[s].loaded, Keys)
  BY ClearStep
<1>2. Head(tx[s].todo) \notin StoreOps
  BY OpsTyped DEF FlushClear
<1>3. QED BY <1>1, <1>2, OtherWord
-----------------------------------------------------------------------------
(* A commit tells what was stated                                          *)

Gone(s) == {rows[i].key : i \in {i \in DOMAIN tx[s].written :
                                   Live(rows[i]) /\ ~Live(tx[s].written[i])}}

Moved(s) ==
  {i \in DOMAIN tx[s].written :
     /\ rows[i] # Nothing /\ Live(rows[i]) /\ Live(tx[s].written[i])
     /\ tx[s].written[i].key # rows[i].key}

Holding(s, k) == {i \in DOMAIN tx[s].written : tx[s].written[i].key = k /\ Live(tx[s].written[i])}

LEMMA Restating ==
  ASSUME NEW s \in Slots, NEW k \in Keys
  PROVE  /\ k \in DOMAIN tx[s].said =>
              Restated(s)[k] = IF tx[s].said[k].status = "active" \/ Owns(rows, k)
                               THEN tx[s].said[k].content ELSE Nothing
         /\ k \notin DOMAIN tx[s].said /\ tx[s].said # << >> => Restated(s)[k] = mem[k]
         /\ tx[s].said = << >> =>
              /\ Holding(s, k) # {} =>
                   \E i \in Holding(s, k) : Restated(s)[k] = tx[s].written[i].content
              /\ Holding(s, k) = {} =>
                   Restated(s)[k] = IF k \in Gone(s) \cup {rows[i].key : i \in Moved(s)}
                                    THEN Nothing ELSE mem[k]
<1> DEFINE said == tx[s].said
           some == CHOOSE i \in DOMAIN tx[s].written :
                     tx[s].written[i].key = k /\ Live(tx[s].written[i])
           held == \E i \in DOMAIN tx[s].written :
                     tx[s].written[i].key = k /\ Live(tx[s].written[i])
           owned == \E i \in Ids : rows[i] # Nothing /\ rows[i].key = k /\ rows[i].status = "active"
<1>1. Restated(s)[k] =
        IF k \in DOMAIN said
        THEN IF said[k].status = "active" \/ owned THEN said[k].content ELSE Nothing
        ELSE IF said # << >> THEN mem[k]
        ELSE IF held THEN tx[s].written[some].content
        ELSE IF k \in Gone(s) \cup {rows[i].key : i \in Moved(s)} THEN Nothing ELSE mem[k]
  BY DEF Restated, Gone, Moved
<1>2. owned <=> Owns(rows, k)
  BY DEF Owns, Has
<1>3. held <=> Holding(s, k) # {}
  BY DEF Holding
<1>4. held => some \in Holding(s, k)
  BY DEF Holding
<1> HIDE DEF said, some, held, owned
<1>5. said = << >> => k \notin DOMAIN said
  BY EmptyTable
<1>6. QED BY <1>1, <1>2, <1>3, <1>4, <1>5 DEF said

LEMMA CommitTold ==
  ASSUME Inv, Timed, NEW k \in Keys, KeyInv(k), WordInv(k), NEW s \in Slots, Commit(s)
  PROVE  Told(rows', mem', k)
<1>1. /\ tx[s].at # "idle" /\ tx[s].todo = << >> /\ \A i \in Ids : rows'[i] = Seen(s, i)
      /\ mem' = IF tx[s].wrote = {} THEN mem ELSE Restated(s)
  BY DEF Commit
<1>2. WordTx(tx[s], rows, k) /\ Told(rows, mem, k)
  BY <1>1 DEF WordInv
<1>3. DOMAIN tx[s].written \subseteq Ids
  BY <1>1, OpenTrans DEF Trans, Shape, Table, Inv, Committed
(* The three ways in which a commit can be right.                          *)
<1>4. ASSUME NEW i \in Ids, Live(rows'[i]), rows'[i].key = k, mem'[k] = rows'[i].content
      PROVE  Told(rows', mem', k)
  <2>1. Has(Seen(s, i), k) /\ Seen(s, i).status # "rejected"
    BY <1>1, <1>4 DEF Has, Live
  <2>2. \A j \in Ids : Live(rows'[j]) /\ rows'[j].key = k => j = i
    BY <1>1, <2>1, OthersRejected DEF Has, Live
  <2>3. rows'[i].content # Nothing
    BY <1>1, <2>1, SeenTimed, RowFields DEF Has
  <2>4. {j \in Ids : Live(rows'[j]) /\ rows'[j].key = k} = {i}
    BY <1>4, <2>2
  <2>5. QED BY <1>4, <2>3, <2>4 DEF Told
<1>5. ASSUME \A i \in Ids : Live(rows'[i]) => rows'[i].key # k, mem'[k] = Nothing
      PROVE  Told(rows', mem', k)
  <2>1. {j \in Ids : Live(rows'[j]) /\ rows'[j].key = k} = {}
    BY <1>5
  <2>2. QED BY <1>5, <2>1 DEF Told
<1>6. ASSUME mem'[k] = mem[k],
             \A i \in Ids :
               /\ Live(rows'[i]) /\ rows'[i].key = k <=> Live(rows[i]) /\ rows[i].key = k
               /\ Live(rows[i]) /\ rows[i].key = k => rows'[i].content = rows[i].content
      PROVE  Told(rows', mem', k)
  <2>1. {j \in Ids : Live(rows'[j]) /\ rows'[j].key = k} =
          {j \in Ids : Live(rows[j]) /\ rows[j].key = k}
    BY <1>6
  <2>2. {rows'[i].content : i \in {j \in Ids : Live(rows[j]) /\ rows[j].key = k}} =
          {rows[i].content : i \in {j \in Ids : Live(rows[j]) /\ rows[j].key = k}}
    BY <1>6
  <2>3. QED BY <1>2, <1>6, <2>1, <2>2 DEF Told
<1>7. ASSUME k \notin tx[s].wrote, mem'[k] = mem[k] PROVE Told(rows', mem', k)
  <2>1. \A i \in Ids : /\ Has(rows'[i], k) <=> Has(rows[i], k)
                       /\ Has(rows[i], k) => Same(rows'[i], rows[i])
    BY <1>1, <1>7, CommitKeeps
  <2>2. \A i \in Ids :
          /\ Live(rows'[i]) /\ rows'[i].key = k <=> Live(rows[i]) /\ rows[i].key = k
          /\ Live(rows[i]) /\ rows[i].key = k => rows'[i].content = rows[i].content
    BY <2>1 DEF Has, Same, Live
  <2>3. QED BY <1>6, <1>7, <2>2
<1>8. CASE tx[s].wrote = {}
  BY <1>1, <1>7, <1>8
<1>9. CASE tx[s].wrote # {} /\ k \in DOMAIN tx[s].said
  <2> DEFINE said == tx[s].said
  <2>1. mem'[k] = IF said[k].status = "active" \/ Owns(rows, k) THEN said[k].content ELSE Nothing
    BY <1>1, <1>9, Restating
  <2>2. PICK i \in Ids : Says(rows'[i], tx[s], rows, k)
    <3>1. Waiting(tx[s].todo, k) = {}
      BY <1>1, EmptyTable DEF Waiting
    <3>2. QED BY <1>1, <1>2, <1>9, <3>1, SeenOver DEF WordTx, Done
  <2>3. CASE said[k].status = "active" \/ Owns(rows, k)
    BY <1>4, <2>1, <2>2, <2>3 DEF Says, Has, Live
  <2>4. CASE ~(said[k].status = "active" \/ Owns(rows, k))
    <3>1. rows'[i].status = "candidate" /\ Has(Seen(s, i), k)
      BY <1>1, <2>2, <2>4 DEF Says
    <3>2. \A j \in Ids \ {i} : Has(Seen(s, j), k) => Seen(s, j).status = "rejected"
      BY <1>1, <3>1, OthersRejected
    <3>3. \A j \in Ids : Live(rows'[j]) => rows'[j].key # k
      BY <1>1, <3>1, <3>2 DEF Has, Live
    <3>4. QED BY <1>5, <2>1, <2>4, <3>3
  <2>5. QED BY <2>3, <2>4
<1>10. CASE tx[s].wrote # {} /\ k \notin DOMAIN tx[s].said /\ tx[s].said # << >>
  <2>1. mem'[k] = mem[k]
    BY <1>1, <1>10, Restating
  <2>2. k \notin tx[s].wrote
    BY <1>2, <1>10 DEF WordTx, Meant
  <2>3. QED BY <1>7, <2>1, <2>2
<1>11. CASE tx[s].wrote # {} /\ tx[s].said = << >>
  <2>1. CASE Holding(s, k) # {}
    <3>1. PICK i \in Holding(s, k) : mem'[k] = tx[s].written[i].content
      BY <1>1, <1>11, <2>1, Restating
    <3>2. i \in Ids /\ rows'[i] = tx[s].written[i] /\ Live(rows'[i]) /\ rows'[i].key = k
      BY <1>1, <1>3, <3>1 DEF Holding, Seen
    <3>3. QED BY <1>4, <3>1, <3>2
  <2>2. CASE Holding(s, k) = {} /\ k \in Gone(s) \cup {rows[i].key : i \in Moved(s)}
    <3>1. PICK i \in DOMAIN tx[s].written : Live(rows[i]) /\ rows[i].key = k
      BY <2>2 DEF Gone, Moved
    <3>2. ASSUME NEW j \in Ids, Live(rows'[j]), rows'[j].key = k PROVE FALSE
      <4>1. j \notin DOMAIN tx[s].written /\ rows'[j] = rows[j]
        BY <1>1, <2>2, <3>2 DEF Holding, Seen
      <4>2. i # j /\ i \in Ids /\ Live(rows[j]) /\ rows[j].key = k
        BY <1>3, <3>1, <3>2, <4>1
      <4>3. rows[i].stamp < rows[j].stamp /\ rows[j].stamp < rows[i].stamp
        BY <3>1, <4>2 DEF KeyInv, Newest, Has, Live
      <4>4. rows[i].stamp \in Nat /\ rows[j].stamp \in Nat
        BY <3>1, <4>2, RowFields DEF Timed, Live
      <4>5. QED BY <4>3, <4>4
    <3>3. mem'[k] = Nothing
      BY <1>1, <1>11, <2>2, Restating
    <3>4. QED BY <1>5, <3>2, <3>3
  <2>3. CASE Holding(s, k) = {} /\ k \notin Gone(s) \cup {rows[i].key : i \in Moved(s)}
    <3>1. mem'[k] = mem[k]
      BY <1>1, <1>11, <2>3, Restating
    <3>2. ASSUME NEW i \in Ids
          PROVE  /\ Live(rows'[i]) /\ rows'[i].key = k <=> Live(rows[i]) /\ rows[i].key = k
                 /\ Live(rows[i]) /\ rows[i].key = k => rows'[i].content = rows[i].content
      <4>1. CASE i \notin DOMAIN tx[s].written
        BY <1>1, <4>1 DEF Seen
      <4>2. CASE i \in DOMAIN tx[s].written
        <5>1. rows'[i] = tx[s].written[i]
          BY <1>1, <4>2 DEF Seen
        <5>2. ~(Live(rows'[i]) /\ rows'[i].key = k)
          BY <2>3, <4>2, <5>1 DEF Holding
        <5>3. ~(Live(rows[i]) /\ rows[i].key = k)
          <6>1. SUFFICES ASSUME Live(rows[i]), rows[i].key = k PROVE FALSE
            OBVIOUS
          <6>2. Live(tx[s].written[i])
            BY <2>3, <4>2, <6>1 DEF Gone
          <6>3. i \notin Moved(s)
            BY <2>3, <6>1
          <6>4. tx[s].written[i].key = k
            BY <4>2, <6>1, <6>2, <6>3 DEF Moved, Live
          <6>5. QED BY <5>1, <5>2, <6>2, <6>4
        <5>4. QED BY <5>2, <5>3
      <4>3. QED BY <4>1, <4>2
    <3>3. QED BY <1>6, <3>1, <3>2
  <2>4. QED BY <2>1, <2>2, <2>3
<1>12. QED BY <1>8, <1>9, <1>10, <1>11
LEMMA CommitWord ==
  ASSUME Inv, Timed, NEW k \in Keys, KeyInv(k), WordInv(k), NEW s \in Slots, Commit(s)
  PROVE  WordInv(k)'
<1>1. /\ tx[s].at # "idle" /\ tx' = End(s, tx[s].wrote)
      /\ \A i \in Ids : rows'[i] = Seen(s, i)
  BY DEF Commit
<1>2. Told(rows', mem', k)
  BY CommitTold
<1>3. ASSUME NEW u \in Slots \ {s}, tx[u].at # "idle" PROVE WordTx(tx'[u], rows', k)
  <2> DEFINE x == tx[u]
             y == tx'[u]
  <2>1. /\ y.written = x.written /\ y.todo = x.todo /\ y.said = x.said /\ y.wrote = x.wrote
    BY <1>1, <1>3, EndStep
  <2>2. WordTx(x, rows, k)
    BY <1>3 DEF WordInv
  <2>3. k \in x.wrote => k \notin tx[s].wrote
    BY <1>1, <1>3 DEF KeyInv, Sole
  <2> HIDE DEF x, y
  <2>4. ASSUME k \in x.wrote, NEW i \in Ids
        PROVE  /\ Has(rows'[i], k) <=> Has(rows[i], k)
               /\ Has(rows[i], k) => Same(rows'[i], rows[i])
    BY <1>1, <2>3, <2>4, CommitKeeps
  <2>5. k \in x.wrote => (Owns(rows', k) <=> Owns(rows, k))
    BY <2>4 DEF Owns, Same
  <2>6. k \in x.wrote => \A i \in Ids : Has(Over(x, rows, i), k) =>
          Has(Over(y, rows', i), k) /\ Same(Over(y, rows', i), Over(x, rows, i))
    BY <2>1, <2>4 DEF Over, Same
  <2>7. WordTx(y, rows', k)
    BY <2>1, <2>2, <2>5, <2>6, WordKept
  <2>8. QED BY <2>7 DEF y
<1>4. \A u \in Slots : tx'[u].at # "idle" => WordTx(tx'[u], rows', k)
  BY <1>1, <1>3, EndStep
<1>5. QED BY <1>2, <1>4 DEF WordInv

LEMMA RollbackWord ==
  ASSUME Inv, NEW k, WordInv(k), NEW s \in Slots, Rollback(s)
  PROVE  WordInv(k)'
<1>1. tx[s].at # "idle" /\ tx' = End(s, {}) /\ rows' = rows /\ mem' = mem
  BY DEF Rollback
<1>2. ASSUME NEW u \in Slots \ {s}, tx[u].at # "idle" PROVE WordTx(tx'[u], rows, k)
  <2>1. /\ tx'[u].written = tx[u].written /\ tx'[u].todo = tx[u].todo
        /\ tx'[u].said = tx[u].said /\ tx'[u].wrote = tx[u].wrote
    BY <1>1, <1>2, EndStep
  <2>2. WordTx(tx[u], rows, k)
    BY <1>2 DEF WordInv
  <2>3. QED BY <2>1, <2>2 DEF WordTx, Announced, Meant, Done, Says, Over
<1>3. \A u \in Slots : tx'[u].at # "idle" => WordTx(tx'[u], rows, k)
  BY <1>1, <1>2, EndStep
<1>4. Told(rows, mem, k)
  BY DEF WordInv
<1>5. QED BY <1>1, <1>3, <1>4 DEF WordInv

WordsInv == \A k \in Keys \ muddled : WordInv(k)

LEMMA NextWords ==
  ASSUME Extracts, Inv, Timed, KeysInv, WordsInv, [Next]_vars
  PROVE  WordsInv'
<1>1. CASE UNCHANGED vars
  BY <1>1
     DEF vars, WordsInv, WordInv, Told, WordTx, Announced, Meant, Done, Says, Owns, Waiting, Over,
         Has, Live
<1>2. ASSUME NEW s \in Slots, Requests(s) PROVE WordsInv'
  <2>1. \A k \in Keys \ muddled : WordInv(k)'
    BY <1>2, RequestWord DEF WordsInv
  <2>2. muddled' = muddled
    BY <1>2 DEF Requests, Turn, AddMemory, RemoveMemory, PatchMemory, ClearMemories, Begin
  <2>3. QED BY <2>1, <2>2 DEF WordsInv
<1>3. ASSUME NEW s \in Slots, Context(s) \/ Find(s) \/ Commit(s) \/ Rollback(s) PROVE WordsInv'
  <2>1. \A k \in Keys \ muddled : WordInv(k)'
    BY <1>3, LoadWord, CommitWord, RollbackWord DEF WordsInv, KeysInv
  <2>2. muddled' = muddled
    BY <1>3 DEF Context, Find, Commit, Rollback
  <2>3. QED BY <2>1, <2>2 DEF WordsInv
<1>4. ASSUME NEW s \in Slots, Touch(s) PROVE WordsInv'
  <2>1. muddled \subseteq muddled'
    BY <1>4 DEF Touch
  <2>2. QED BY <1>4, <2>1, TouchWord DEF WordsInv
<1>5. ASSUME NEW s \in Slots, FlushInsert(s) PROVE WordsInv'
  <2>1. muddled \subseteq muddled'
    BY <1>5 DEF FlushInsert, Wrote
  <2>2. QED BY <1>5, <2>1, InsertWord DEF WordsInv, KeysInv
<1>6. ASSUME NEW s \in Slots, FlushUpdate(s) PROVE WordsInv'
  <2>1. muddled \subseteq muddled'
    BY <1>6 DEF FlushUpdate, Wrote
  <2>2. QED BY <1>6, <2>1, UpdateWord DEF WordsInv
<1>7. ASSUME NEW s \in Slots, FlushClear(s) PROVE WordsInv'
  <2>1. muddled \subseteq muddled'
    BY <1>7 DEF FlushClear, Wrote
  <2>2. QED BY <1>7, <2>1, ClearWord DEF WordsInv
<1>8. CASE Next
  BY <1>2, <1>3, <1>4, <1>5, <1>6, <1>7, <1>8 DEF Next, Requests
<1>9. QED BY <1>1, <1>8

LEMMA InitWords == Init => WordsInv
<1>1. SUFFICES ASSUME Init, NEW k \in Keys \ muddled PROVE WordInv(k)
  BY DEF WordsInv
<1>2. /\ \A i \in Ids : rows[i] = Nothing
      /\ \A s \in Slots : tx[s].at = "idle"
      /\ mem[k] = Nothing
  BY <1>1 DEF Init, Idle
<1>3. {j \in Ids : Live(rows[j]) /\ rows[j].key = k} = {}
  BY <1>2 DEF Live
<1>4. QED BY <1>2, <1>3 DEF WordInv, Told

(* The count of what is recalled under a key.                              *)
LEMMA AtMostOne ==
  ASSUME NEW S, \A i, j \in S : i = j
  PROVE  Cardinality(S) <= 1
<1>1. CASE S = {}
  BY <1>1, FS_EmptySet
<1>2. CASE S # {}
  <2>1. PICK i \in S : S = {i}
    BY <1>2
  <2>2. Cardinality({i}) = 1
    BY FS_Singleton
  <2>3. QED BY <2>1, <2>2
<1>3. QED BY <1>1, <1>2

(* However requests of a user overlap, a chat turn is never told two       *)
(* memories of one key, unless the key is muddled: create_memory, which    *)
(* looks for a row before it inserts one (memory_service.py:76), keeps the *)
(* recalled row the one that was updated last.  What turns store may be    *)
(* anything.                                                               *)
THEOREM OneMemoryPerKey ==
  Spec => [](\A k \in Keys \ muddled :
               Cardinality({i \in Ids : Live(rows[i]) /\ rows[i].key = k}) <= 1)
<1>1. Timed /\ KeysInv =>
        \A k \in Keys \ muddled : Cardinality({i \in Ids : Live(rows[i]) /\ rows[i].key = k}) <= 1
  <2>1. SUFFICES ASSUME Timed, KeysInv, NEW k \in Keys \ muddled
                 PROVE  Cardinality({i \in Ids : Live(rows[i]) /\ rows[i].key = k}) <= 1
    OBVIOUS
  <2>2. \A i, j \in {i \in Ids : Live(rows[i]) /\ rows[i].key = k} : i = j
    BY <2>1, OneLive
  <2>3. QED BY <2>2, AtMostOne
<1>2. QED BY <1>1, KeysInvariant, PTL

(* What a chat turn is told is what the user stated last under each key    *)
(* and did not take back, once - if turns store what they state (Extracts):*)
(* no interleaving of requests, rollback or stale read changes that for a  *)
(* key that is not muddled.                                                *)
THEOREM RecallsStatements ==
  ASSUME Extracts
  PROVE  Spec => []RecallsLastStatement
<1>1. Inv /\ Timed /\ KeysInv /\ WordsInv /\ [Next]_vars => WordsInv'
  BY NextWords
<1>2. Timed /\ KeysInv /\ WordsInv => RecallsLastStatement
  <2>1. SUFFICES ASSUME Timed, KeysInv, WordsInv, NEW k \in Keys \ muddled
                 PROVE  LET live == {i \in Ids : Live(rows[i]) /\ rows[i].key = k} IN
                        /\ Cardinality(live) <= 1
                        /\ {rows[i].content : i \in live} = {mem[k]} \ {Nothing}
    BY DEF RecallsLastStatement
  <2>2. \A i, j \in {i \in Ids : Live(rows[i]) /\ rows[i].key = k} : i = j
    BY <2>1, OneLive
  <2>3. Told(rows, mem, k)
    BY <2>1 DEF WordsInv, WordInv
  <2>4. QED BY <2>2, <2>3, AtMostOne DEF Told
<1>3. QED BY <1>1, <1>2, InitWords, Invariant, KeysInvariant, PTL DEF Spec
=============================================================================
