------------------------------- MODULE Memories -------------------------------
(***************************************************************************)
(* The long-term memory of one user: services/memory_service.py behind the *)
(* routes of api/v1/memories.py and at the end of every chat turn.         *)
(*                                                                         *)
(* A request is one database transaction (get_db commits when the handler  *)
(* has returned) on an SQLAlchemy session with autoflush off.  The session *)
(* keeps the rows it has loaded (identity map) and a flush writes just the *)
(* attributes that differ from what was loaded; PostgreSQL locks a written *)
(* row until the commit and other transactions see it afterwards.  The     *)
(* table has no unique key besides its id, and now() is the time at which  *)
(* the transaction began.                                                  *)
(*                                                                         *)
(* A message is a set of extraction rules that match it; a row's content is*)
(* the rule, the model's answer or the route that wrote it.                *)
(***************************************************************************)
EXTENDS Naturals, Sequences, FiniteSets, SequencesExt

CONSTANTS
  Slots,        \* the requests that can be under way at once
  Messages,     \* records [question, fits]: fits tells, for every rule that
                \* matches, if what it captured is "plain", "long" or "unfit"
  LlmAnswers,   \* the candidate lists _llm_extract_candidates may return
  ManualKeys,   \* the keys used in POST and PATCH
  Nothing,      \* no row, no memory
  MaxRows,      \* bound: rows inserted
  MaxRequests   \* bound: requests made

ASSUME BoundAssumption == MaxRows \in Nat /\ MaxRequests \in Nat

-----------------------------------------------------------------------------
(* extract_memory_candidates                                               *)

Rule(id, key, source) == [id |-> id, key |-> key, source |-> source, sure |-> TRUE]

(* In the order of _extract_explicit and _extract_stable_claims; what the  *)
(* user asks to remember is classified by its words.                       *)
Rules ==
  << Rule("remember_name", "identity.display_name", "explicit"),
     Rule("remember_organization", "profile.organization", "explicit"),
     Rule("remember", "preference.general", "explicit"),
     Rule("call", "identity.display_name", "explicit"),
     Rule("forget", "control.forget", "explicit"),
     Rule("name", "identity.display_name", "observed"),
     Rule("like", "preference.general", "observed"),
     Rule("dislike", "preference.dislike", "observed"),
     Rule("organization", "profile.organization", "observed") >>

Fit(m, c) == IF c.id \in DOMAIN m.fits THEN m.fits[c.id] ELSE "plain"

(* The model is asked only when no rule matches.                           *)
Found(m, llm) ==
  LET Matches(r) == r.id \in DOMAIN m.fits
      ruled == SelectSeq(Rules, Matches)
  IN IF m.question THEN << >> ELSE IF ruled # << >> THEN ruled ELSE llm

Yields(old, new) == old.source = "explicit" /\ new.source # "explicit"

(* A dict keeps the place of the first candidate of a key.                 *)
Deduped(m, llm) ==
  LET Put(list, c) ==
        LET same == {i \in DOMAIN list : list[i].key = c.key} IN
        IF Fit(m, c) = "long" THEN list
        ELSE IF same = {} THEN Append(list, c)
        ELSE [i \in DOMAIN list |->
                IF i \in same /\ ~Yields(list[i], c) THEN c ELSE list[i]]
  IN FoldLeft(Put, << >>, Found(m, llm))

FirstFive(list) == SubSeq(list, 1, IF Len(list) < 5 THEN Len(list) ELSE 5)

(* maybe_store_memories_from_turn                                          *)
Stored(m, llm) ==
  LET Keeps(c) == Fit(m, c) = "plain" /\ c.sure
  IN SelectSeq(FirstFive(Deduped(m, llm)), Keeps)

Candidates == ToSet(Rules) \cup UNION {ToSet(l) : l \in LlmAnswers}

(* What extract_memory_candidates returns is a list of them.               *)
ASSUME CandidatesAssumption ==
  \A m \in Messages, llm \in LlmAnswers :
    /\ Len(Stored(m, llm)) \in Nat /\ DOMAIN Stored(m, llm) = 1..Len(Stored(m, llm))
    /\ \A i \in DOMAIN Stored(m, llm) : Stored(m, llm)[i] \in Candidates

-----------------------------------------------------------------------------
VARIABLES
  rows,      \* [1..MaxRows -> the committed row, or Nothing]
  used,      \* the ids taken
  tx,        \* [Slots -> the request and its transaction]
  requests,  \* requests begun: the time of the database
  (* History.                                                              *)
  mem,       \* [keys -> what was stated last and not taken back, or Nothing]
  muddled,   \* the keys of which overlaps or PATCH may have made two rows
  forgotten  \* the ids rejected by a user while they were recalled, and since

vars == <<rows, used, tx, requests, mem, muddled, forgotten>>

Ids == 1..MaxRows
Keys == {c.key : c \in Candidates} \cup ManualKeys
Contents == {c.id : c \in Candidates} \cup {"manual", "edited"}

Row == [key : Keys, status : {"active", "candidate", "rejected"}, active : BOOLEAN,
        content : Contents, stamp : Nat]

ASSUME NothingAssumption == Nothing \notin Row /\ Nothing \notin Ids /\ Nothing \notin Contents

Live(row) == row # Nothing /\ row.status = "active" /\ row.active

Idle == [at |-> "idle"]

Init ==
  /\ rows = [i \in Ids |-> Nothing]
  /\ used = {}
  /\ tx = [s \in Slots |-> Idle]
  /\ requests = 0
  /\ mem = [k \in Keys |-> Nothing]
  /\ muddled = {} /\ forgotten = {}

Open == {s \in Slots : tx[s].at # "idle"}

(* What a transaction sees: its own writes over the committed rows.        *)
Seen(s, i) == IF i \in DOMAIN tx[s].written THEN tx[s].written[i] ELSE rows[i]
Visible(s) == {i \in Ids : Seen(s, i) # Nothing}
LockedByOther(s, i) == \E u \in Open \ {s} : i \in DOMAIN tx[u].written

-----------------------------------------------------------------------------
(* A request begins                                                        *)

Begin(s, at, said, todo) ==
  /\ tx[s] = Idle
  /\ requests < MaxRequests
  /\ requests' = requests + 1
  /\ tx' = [tx EXCEPT ![s] =
       [at |-> at, written |-> << >>, said |-> said, todo |-> todo, start |-> requests,
        target |-> Nothing, loaded |-> << >>, wrote |-> {}, others |-> {}]]
  /\ UNCHANGED <<rows, used, mem, muddled, forgotten>>

Only(x, value) == [y \in {x} |-> value]

Store(key, content, status) ==
  [key |-> key, status |-> status, content |-> content, op |-> "store"]

(* What a turn states, told without the code's order of steps: of the      *)
(* candidates of a key the last explicit one, else the last.               *)
Statements(m, llm) ==
  LET list == Found(m, llm)
      Of(k) == {i \in DOMAIN list : list[i].key = k /\ Fit(m, list[i]) # "long"}
      Explicit(k) == {i \in Of(k) : list[i].source = "explicit"}
      Final(S) == CHOOSE i \in S : \A j \in S : j <= i
      Says(k) == list[Final(IF Explicit(k) # {} THEN Explicit(k) ELSE Of(k))]
  IN [k \in {k \in Keys : Of(k) # {} /\ Fit(m, Says(k)) = "plain" /\ Says(k).sure} |->
        [status |-> "active", content |-> Says(k).id]]

(* What a turn stores is what it states, and once.  (A model that finds six *)
(* keys in a message states one more than FirstFive keeps.)                *)
Extracts ==
  \A m \in Messages, llm \in LlmAnswers :
    LET list == Stored(m, llm) IN
    /\ DOMAIN Statements(m, llm) = {list[i].key : i \in DOMAIN list}
    /\ \A i \in DOMAIN list :
         /\ Statements(m, llm)[list[i].key].content = list[i].id
         /\ \A j \in DOMAIN list : list[j].key = list[i].key => j = i

(* A chat turn; format_memory_context comes first.                         *)
Turn(s, m, llm) ==
  Begin(s, "context", Statements(m, llm),
        [i \in DOMAIN Stored(m, llm) |->
           Store(Stored(m, llm)[i].key, Stored(m, llm)[i].id, "active")])

AddMemory(s, k, st) ==
  Begin(s, "next", Only(k, [status |-> st, content |-> "manual"]), <<Store(k, "manual", st)>>)

Patches == {[status |-> "active", active |-> TRUE], [active |-> FALSE]}
             \cup {[key |-> k, content |-> "edited"] : k \in ManualKeys}

PatchMemory(s, i, p) == Begin(s, "next", << >>, <<[id |-> i, op |-> "patch", set |-> p]>>)

RemoveMemory(s, i) == Begin(s, "next", << >>, <<[id |-> i, op |-> "delete"]>>)

ClearMemories(s) == Begin(s, "next", << >>, <<[op |-> "clear"]>>)

-----------------------------------------------------------------------------
(* Loading and flushing                                                    *)

Loaded(s, ids) ==
  [i \in DOMAIN tx[s].loaded \cup ids |->
     IF i \in DOMAIN tx[s].loaded THEN tx[s].loaded[i] ELSE Seen(s, i)]

(* list_memories of the active ones.                                       *)
Context(s) ==
  /\ tx[s].at = "context"
  /\ tx' = [tx EXCEPT ![s].at = "touch",
                      ![s].loaded = Loaded(s, {i \in Visible(s) : Live(Seen(s, i))})]
  /\ UNCHANGED <<rows, used, requests, mem, muddled, forgotten>>

Write(s, new) == [i \in DOMAIN new \cup DOMAIN tx[s].written |->
                    IF i \in DOMAIN new THEN new[i] ELSE tx[s].written[i]]

(* format_memory_context counts the use of every memory it lists, which    *)
(* locks them all until the turn is over.  It also gives them the time at  *)
(* which the turn began, perhaps an older one than they had.               *)
Touch(s) ==
  LET ids == DOMAIN tx[s].loaded IN
  /\ tx[s].at = "touch"
  /\ \A i \in ids : ~LockedByOther(s, i)
  /\ tx' = [tx EXCEPT ![s].at = "next",
                      ![s].written = Write(s, [i \in ids |-> [rows[i] EXCEPT !.stamp = tx[s].start]])]
  /\ muddled' = muddled \cup ({rows[i].key : i \in ids} \cap tx[s].others)
  /\ UNCHANGED <<rows, used, requests, mem, forgotten>>

(* Mutant: no order by updated_at.                                         *)
AnyOf(s, ids) == ids

LatestOf(s, ids) == {i \in ids : \A j \in ids : Seen(s, i).stamp >= Seen(s, j).stamp}

(* _find_by_key with any status; get_memory by id.                         *)
Find(s) ==
  LET op == Head(tx[s].todo)
      named == CASE op.op = "store" -> {i \in Visible(s) : Seen(s, i).key = op.key}
                 [] op.op = "clear" -> {}
                 [] OTHER -> {op.id} \cap Visible(s)
  IN
  /\ tx[s].at = "next" /\ tx[s].todo # << >>
  /\ op.op = "clear" \/ named # {} \/ op.op = "store"
  /\ \E target \in IF named = {} THEN {Nothing} ELSE LatestOf(s, named) :
       tx' = [tx EXCEPT ![s].at = "found", ![s].target = target,
                        ![s].loaded = Loaded(s, {target} \ {Nothing})]
  /\ UNCHANGED <<rows, used, requests, mem, muddled, forgotten>>

Rejects == [status |-> "rejected", active |-> FALSE]

(* The attributes create_memory, update_memory and delete_memory set.      *)
Wanted(op, row) ==
  CASE op.op = "store" ->
         [status |-> IF row.status = "active" /\ op.status = "candidate" THEN "active" ELSE op.status,
          active |-> TRUE, content |-> op.content]
    [] op.op = "patch"  -> op.set
    [] op.op = "delete" -> Rejects

Updated(row, set) == [a \in DOMAIN row |-> IF a \in DOMAIN set THEN set[a] ELSE row[a]]

(* Keys that this flush writes, and that another request under way, or     *)
(* committed since this one began, writes as well.                         *)
Overlaps(s, k) == k \in tx[s].others \/ \E u \in Open \ {s} : k \in tx[u].wrote

Wrote(s, keys, doubled) == muddled' = muddled \cup doubled \cup {k \in keys : Overlaps(s, k)}

Flushed(s, new, loaded, keys) ==
  /\ tx' = [tx EXCEPT ![s].at = "next", ![s].todo = Tail(@), ![s].target = Nothing,
                      ![s].loaded = IF Len(tx[s].todo) > 1 THEN loaded ELSE << >>,
                      ![s].written = Write(s, new), ![s].wrote = @ \cup keys]
  /\ UNCHANGED <<rows, requests, mem, forgotten>>

FlushInsert(s) ==
  LET op == Head(tx[s].todo) IN
  /\ tx[s].at = "found" /\ op.op = "store"
  /\ \A i \in {tx[s].target} \ {Nothing} : tx[s].loaded[i].status = "rejected"
  /\ \E i \in Ids :
       /\ used = 1..(i - 1)
       /\ used' = used \cup {i}
       /\ Flushed(s, Only(i, [key |-> op.key, status |-> op.status, active |-> TRUE,
                              content |-> op.content, stamp |-> tx[s].start]),
                  tx[s].loaded, {op.key})
  /\ Wrote(s, {op.key}, {})

(* The PATCH of a row that is not recalled, or a new key for one that is,  *)
(* while another row has that key: the one updated last is found later.    *)
Doubles(s, i, op, new) ==
  /\ op.op = "patch"
  /\ ~Live(rows[i]) \/ new.key # rows[i].key
  /\ \E j \in Ids \ {i} : rows[j] # Nothing /\ rows[j].key = new.key

(* Mutant: a flush writes every attribute that was set.                    *)
EverySet(want, row) == DOMAIN want

Changed(want, row) == {a \in DOMAIN want : want[a] # row[a]}

StatedKeys(op) == IF op.op = "store" THEN {op.key} ELSE {}

(* Attributes that are left out here (source, session, category) may differ*)
(* even if none of these does.                                             *)
FlushUpdate(s) ==
  LET op == Head(tx[s].todo)
      i == tx[s].target
      want == Wanted(op, tx[s].loaded[i])
      changed == Changed(want, tx[s].loaded[i])
      new == [Updated(Seen(s, i), [a \in changed |-> want[a]]) EXCEPT !.stamp = tx[s].start]
      keys == {tx[s].loaded[i].key, Seen(s, i).key, new.key} \cup StatedKeys(op)
      mixed == IF \E k \in keys : k \in muddled \/ Overlaps(s, k) THEN keys ELSE {}
  IN
  /\ tx[s].at = "found" /\ op.op # "clear" /\ i # Nothing
  /\ op.op = "store" => tx[s].loaded[i].status # "rejected"
  /\ \/ /\ changed = {}
        /\ Flushed(s, << >>, tx[s].loaded, keys)
        /\ Wrote(s, keys, mixed)
     \/ /\ changed # {} \/ op.op # "delete"
        /\ ~LockedByOther(s, i)
        /\ Flushed(s, Only(i, new), [tx[s].loaded EXCEPT ![i] = Updated(@, want)], keys)
        /\ Wrote(s, keys, mixed \cup IF Doubles(s, i, op, new) THEN {new.key} ELSE {})
  /\ UNCHANGED used

(* deactivate_all_memories is one UPDATE.                                  *)
FlushClear(s) ==
  LET ids == Visible(s) IN
  /\ tx[s].at = "found" /\ Head(tx[s].todo).op = "clear"
  /\ \A i \in ids : ~LockedByOther(s, i)
  /\ Flushed(s, [i \in ids |-> [Updated(rows[i], Rejects) EXCEPT !.stamp = tx[s].start]],
             tx[s].loaded, Keys)
  /\ Wrote(s, Keys, {})
  /\ UNCHANGED used

-----------------------------------------------------------------------------
(* A request ends                                                          *)

(* How the commit changes what the user has stated: a statement sets it, a *)
(* row that is recalled no longer, or newly, changes it under its key.     *)
Restated(s) ==
  LET new(i) == tx[s].written[i]
      gone == {rows[i].key : i \in {i \in DOMAIN tx[s].written : Live(rows[i]) /\ ~Live(new(i))}}
      moved == {i \in DOMAIN tx[s].written :
                  rows[i] # Nothing /\ Live(rows[i]) /\ Live(new(i)) /\ new(i).key # rows[i].key}
      said == tx[s].said
      Owned(k) == \E i \in Ids : /\ rows[i] # Nothing
                                 /\ rows[i].key = k /\ rows[i].status = "active"
  IN [k \in Keys |->
        IF k \in DOMAIN said
        THEN IF said[k].status = "active" \/ Owned(k) THEN said[k].content ELSE Nothing
        ELSE IF said # << >> THEN mem[k]
        ELSE IF \E i \in DOMAIN tx[s].written : new(i).key = k /\ Live(new(i))
        THEN LET i == CHOOSE i \in DOMAIN tx[s].written : new(i).key = k /\ Live(new(i))
             IN new(i).content
        ELSE IF k \in gone \cup {rows[i].key : i \in moved} THEN Nothing ELSE mem[k]]

End(s, rest) == [u \in Slots |-> IF u = s THEN Idle
                                 ELSE IF u \in Open THEN [tx[u] EXCEPT !.others = @ \cup rest]
                                 ELSE tx[u]]

(* Somebody else found the row before a PATCH confirmed it.                *)
ReadUnconfirmed(s, i) ==
  \E u \in Open \ {s} : i \in DOMAIN tx[u].loaded /\ tx[u].loaded[i].status = "candidate"

Commit(s) ==
  /\ tx[s].at = "next" /\ tx[s].todo = << >>
  /\ rows' = [i \in Ids |-> Seen(s, i)]
  /\ mem' = IF tx[s].wrote = {} THEN mem ELSE Restated(s)
  /\ forgotten' = {i \in forgotten : Seen(s, i).status = "rejected"} \cup
       {i \in Ids : Live(rows[i]) /\ Seen(s, i).status = "rejected" /\ ~ReadUnconfirmed(s, i)}
  /\ tx' = End(s, tx[s].wrote)
  /\ UNCHANGED <<used, requests, muddled>>

(* An error in the handler, or no such memory: get_db rolls back.          *)
Rollback(s) ==
  /\ tx[s].at # "idle"
  /\ tx' = End(s, {})
  /\ UNCHANGED <<rows, used, requests, mem, muddled, forgotten>>

Next ==
  \E s \in Slots :
    \/ \E m \in Messages, llm \in LlmAnswers : Turn(s, m, llm)
    \/ \E k \in ManualKeys, st \in {"active", "candidate"} : AddMemory(s, k, st)
    \/ \E i \in used : RemoveMemory(s, i) \/ \E p \in Patches : PatchMemory(s, i, p)
    \/ ClearMemories(s)
    \/ Context(s) \/ Touch(s) \/ Find(s)
    \/ FlushInsert(s) \/ FlushUpdate(s) \/ FlushClear(s)
    \/ Commit(s) \/ Rollback(s)

Spec == Init /\ [][Next]_vars

-----------------------------------------------------------------------------
(* What a chat turn is told is what the user stated last under each key,   *)
(* once, and nothing that was taken back (create_memory finds before it    *)
(* inserts, memory_service.py:76) - for every key except the muddled: two  *)
(* overlapping requests wrote it; a turn counted the use of its row with an*)
(* older time than a request gave it in between; a PATCH used it on a row  *)
(* besides the one recalled, or took the row over from a muddled key.      *)
RecallsLastStatement ==
  \A k \in Keys \ muddled :
    LET live == {i \in Ids : Live(rows[i]) /\ rows[i].key = k} IN
    /\ Cardinality(live) <= 1
    /\ {rows[i].content : i \in live} = {mem[k]} \ {Nothing}

(* memory_service.py:150: a memory that was recalled when its user deleted *)
(* it stays rejected, whatever turn had loaded it before - until a PATCH   *)
(* makes it active.  (A turn that had found it as a candidate, before a    *)
(* PATCH confirmed it, does take it up again: ReadUnconfirmed.)            *)
DeletionIsFinal ==
  [][\A i \in forgotten : rows'[i].status # "rejected" =>
       \E s \in Slots : tx[s].at # "idle" /\ tx'[s].at = "idle" /\ tx[s].said = << >>]_vars
=============================================================================
