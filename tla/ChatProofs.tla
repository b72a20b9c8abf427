------------------------------ MODULE ChatProofs ------------------------------
(***************************************************************************)
(* Proofs about a chat turn, for any pages, users, deployments, numbers of *)
(* turns and sessions.                                                     *)
(***************************************************************************)
EXTENDS Chat, FiniteSetTheorems, TLAPS

Stages == {"lookup", "context", "memories", "graph", "store", "save", "remember", "end", "commit"}
Answers == [told : SUBSET Nat, empty : BOOLEAN]
SessionRecords == [owner : Everyone, count : Nat]
Sessions == Nat \cup {Nothing}

Running ==
  [user : Everyone, session : Sessions, route : {"chat", "stream"}, at : Stages,
   told : SUBSET Nat, answer : Answers \cup {Nothing}, counts : BOOLEAN, wrote : BOOLEAN,
   count : Nat, broken : BOOLEAN, error : BOOLEAN]
Ended == [user : Everyone, session : Sessions, route : {"chat", "stream"}, at : {"done"}]
PageStates ==
  [user : Everyone \cup {Nothing}, session : Sessions, messages : SUBSET Nat, waits : Nat]

TypeOK ==
  /\ page \in [Pages -> PageStates]
  /\ sessions \in Seq(SessionRecords \cup {Nothing})
  /\ turn \in Seq(Running \cup Ended)
  /\ rows \subseteq DOMAIN turn /\ IsFiniteSet(rows)
  /\ cache \in Answers \cup {Nothing}

(* The session is the user's, if it is still there.                        *)
Belongs(id, user) ==
  id # Nothing => id \in DOMAIN sessions /\ (sessions[id] = Nothing \/ sessions[id].owner = user)

Owned ==
  /\ \A p \in Pages : /\ page[p].user = Nothing => page[p].session = Nothing
                      /\ Belongs(page[p].session, page[p].user)
  /\ \A t \in DOMAIN turn : turn[t].route = "stream" => Belongs(turn[t].session, turn[t].user)

(* The turn has the lock of its session, and may yet commit.               *)
Writes(t) == t \in Open /\ turn[t].wrote
Saves(t) == Writes(t) /\ ~turn[t].broken

InSession(t) == turn[t].session # Nothing /\ Exists(turn[t].session)

Counted ==
  /\ \A t \in rows : t \notin Open /\ InSession(t)
  /\ \A t \in DOMAIN turn :
       Saves(t) => InSession(t) /\ turn[t].count = sessions[turn[t].session].count + 1
  /\ \A t, u \in DOMAIN turn :
       Writes(t) /\ Writes(u) /\ turn[t].session = turn[u].session => t = u
  /\ CountIsHistory

(* Turns of one session, and none without personal context.                *)
Within(t, ids) ==
  /\ \A u \in ids : u \in DOMAIN turn /\ turn[u].session = turn[t].session
  /\ ids # {} => UsePersonalContext(t)

Told ==
  /\ cache # Nothing => cache.told = {}
  /\ \A t \in Open : /\ Within(t, turn[t].told)
                     /\ turn[t].answer # Nothing => Within(t, turn[t].answer.told)

(* Nothing has gone wrong before the graph runs.                           *)
Sound == \A t \in Open : turn[t].at = "graph" => ~turn[t].broken

(* Saved, or known not to be.                                              *)
Settled(t) ==
  \/ ~config.db \/ ~InSession(t)
  \/ t \in rows \cup lost

(* Its session is none, or one that has been given out.                    *)
Known(t) == turn[t].session \in DOMAIN sessions \cup {Nothing}

Listing ==
  \A p \in Pages :
    /\ page[p].waits # 0 => /\ page[p].waits \in DOMAIN turn
                            /\ turn[page[p].waits].at \notin {"commit", "done"}
                            /\ turn[page[p].waits].route = "stream"
                            /\ \A q \in Pages : page[q].waits = page[p].waits => q = p
    /\ \A t \in page[p].messages :
         /\ t \in DOMAIN turn /\ Known(t)
         /\ \/ turn[t].at = "commit" /\ ~turn[t].error
            \/ turn[t].at = "done" /\ Settled(t)

-----------------------------------------------------------------------------
(* What a handler does to its turn                                         *)

LEMMA OpenTurns ==
  ASSUME TypeOK
  PROVE  /\ Len(turn) \in Nat /\ DOMAIN turn = 1..Len(turn)
         /\ \A t \in DOMAIN turn : turn[t] \in Running \cup Ended
         /\ \A t \in Open : t \in DOMAIN turn /\ turn[t] \in Running
         /\ \A t \in DOMAIN turn : t \notin Open => turn[t].at = "done"
BY DEF TypeOK, Open, Ended

LEMMA OneChanges ==
  ASSUME NEW S, NEW list \in Seq(S), NEW i \in DOMAIN list, NEW x \in S
  PROVE  /\ [list EXCEPT ![i] = x] \in Seq(S)
         /\ DOMAIN [list EXCEPT ![i] = x] = DOMAIN list
         /\ [list EXCEPT ![i] = x][i] = x
         /\ \A j \in DOMAIN list : j # i => [list EXCEPT ![i] = x][j] = list[j]
OBVIOUS

(* What a step of the handler before the response may change.              *)
Worked(t, r) ==
  /\ turn' = [turn EXCEPT ![t] = r]
  /\ r \in Running
  /\ r.user = turn[t].user /\ r.session = turn[t].session /\ r.route = turn[t].route
  /\ r.at # "commit"
  /\ \/ r.told = turn[t].told \/ r.told = {}
     \/ UsePersonalContext(t) /\ r.told \subseteq SavedIn(turn[t].session)
  /\ \/ r.answer = turn[t].answer \/ r.answer = cache
     \/ r.answer.told = turn[t].told
  /\ \/ r.wrote = turn[t].wrote /\ r.count = turn[t].count
     \/ /\ ~SessionLocked(t) /\ UsePersonalContext(t) /\ InSession(t)
        /\ r.count = sessions[turn[t].session].count + 1
  /\ turn[t].broken => r.broken
  /\ r.at = "graph" => ~r.broken
  /\ UNCHANGED <<config, page, sessions, rows, lost>>

Works(t) ==
  \/ GetCachedAnswer(t) \/ History(t) \/ Memories(t) \/ Generate(t)
  \/ SetCachedAnswer(t) \/ SaveHistory(t) \/ Remember(t)

LEMMA NextStage ==
  ASSUME NEW t \in Open, turn[t] \in Running,
         turn[t].at \in {"graph", "store", "save", "remember"}
  PROVE  /\ After(turn[t].route)[turn[t].at] \in Stages
         /\ After(turn[t].route)[turn[t].at] \notin {"commit", "graph"}
BY DEF Running, After, Stages

LEMMA HandlerWorks ==
  ASSUME TypeOK, Sound, NEW t \in Open, Works(t)
  PROVE  \E r : Worked(t, r)
<1> DEFINE old == turn[t]
           next == After(old.route)[old.at]
<1>1. t \in DOMAIN turn /\ old \in Running /\ cache \in Answers \cup {Nothing}
  BY OpenTurns DEF TypeOK
<1>2. old.at \in {"graph", "store", "save", "remember"} => next \in Stages /\ next \notin {"commit", "graph"}
  BY <1>1, NextStage
<1> DEFINE Local == UNCHANGED <<config, page, sessions, rows, lost>>
<1>3. ASSUME NEW r \in Running, turn' = [turn EXCEPT ![t] = r], Local,
             r.user = old.user, r.session = old.session, r.route = old.route, r.at \notin {"commit", "graph"},
             r.told = old.told, r.answer = old.answer \/ r.answer = cache \/ r.answer.told = old.told,
             r.wrote = old.wrote, r.count = old.count, old.broken => r.broken
      PROVE  \E n : Worked(t, n)
  BY <1>3 DEF Worked
<1>4. ASSUME NEW at \in Stages, at \notin {"commit", "graph"}, turn' = [turn EXCEPT ![t].at = at], Local
      PROVE  \E n : Worked(t, n)
  <2> DEFINE r == [old EXCEPT !.at = at]
  <2>1. turn' = [turn EXCEPT ![t] = r]
    BY <1>4
  <2>2. /\ r \in Running /\ r.user = old.user /\ r.session = old.session /\ r.at = at
        /\ r.route = old.route /\ r.told = old.told /\ r.answer = old.answer
        /\ r.wrote = old.wrote /\ r.count = old.count /\ r.broken = old.broken
    BY <1>1 DEF Running
  <2> HIDE DEF r
  <2>3. QED BY <1>3, <1>4, <2>1, <2>2
<1>5. ASSUME NEW broken \in BOOLEAN, Failing(t, broken), old.broken => broken, Local
      PROVE  \E n : Worked(t, n)
  <2> DEFINE r == [old EXCEPT !.at = "end", !.error = TRUE, !.broken = broken]
  <2>1. turn' = [turn EXCEPT ![t] = r]
    BY <1>5 DEF Failing
  <2>2. /\ r \in Running /\ r.user = old.user /\ r.session = old.session /\ r.at = "end"
        /\ r.route = old.route /\ r.told = old.told /\ r.answer = old.answer
        /\ r.wrote = old.wrote /\ r.count = old.count /\ r.broken = broken
    BY <1>1 DEF Running, Stages
  <2> HIDE DEF r
  <2>3. QED BY <1>3, <1>5, <2>1, <2>2
<1>6. CASE GetCachedAnswer(t)
  <2>1. Local
    BY <1>6 DEF GetCachedAnswer, Frame
  <2>2. CASE turn' = [turn EXCEPT ![t].at = "end", ![t].answer = cache]
    <3> DEFINE r == [old EXCEPT !.at = "end", !.answer = cache]
    <3>1. turn' = [turn EXCEPT ![t] = r]
      BY <2>2
    <3>2. /\ r \in Running /\ r.user = old.user /\ r.session = old.session /\ r.at = "end"
          /\ r.route = old.route /\ r.told = old.told /\ r.answer = cache
          /\ r.wrote = old.wrote /\ r.count = old.count /\ r.broken = old.broken
      BY <1>1 DEF Running, Stages
    <3> HIDE DEF r
    <3>3. QED BY <1>3, <2>1, <3>1, <3>2
  <2>3. CASE turn' = Go(t, "context")
    BY <1>4, <2>1, <2>3 DEF Go, Stages
  <2>4. QED BY <1>6, <2>2, <2>3 DEF GetCachedAnswer
<1>7. CASE History(t)
  <2> DEFINE told == IF UsePersonalContext(t) THEN Newest(SavedIn(old.session)) ELSE {}
  <2>1. Local
    BY <1>7 DEF History, Frame
  <2>2. told \subseteq Nat /\ (told = {} \/ (UsePersonalContext(t) /\ told \subseteq SavedIn(old.session)))
    BY OpenTurns DEF Newest, SavedIn, TypeOK
  <2>3. CASE turn' = [turn EXCEPT ![t].at = "memories", ![t].told = told]
    <3> DEFINE r == [old EXCEPT !.at = "memories", !.told = told]
    <3>1. turn' = [turn EXCEPT ![t] = r]
      BY <2>3
    <3> HIDE DEF told
    <3>2. /\ r \in Running /\ r.user = old.user /\ r.session = old.session /\ r.at = "memories"
          /\ r.route = old.route /\ r.told = told /\ r.answer = old.answer
          /\ r.wrote = old.wrote /\ r.count = old.count /\ r.broken = old.broken
      BY <1>1, <2>2 DEF Running, Stages
    <3> HIDE DEF r
    <3>3. Worked(t, r)
      BY <2>1, <2>2, <3>1, <3>2 DEF Worked
    <3>4. QED BY <3>3
  <2>4. CASE turn' = [turn EXCEPT ![t].at = "memories", ![t].broken = TRUE]
    <3> DEFINE r == [old EXCEPT !.at = "memories", !.broken = TRUE]
    <3>1. turn' = [turn EXCEPT ![t] = r]
      BY <2>4
    <3>2. /\ r \in Running /\ r.user = old.user /\ r.session = old.session /\ r.at = "memories"
          /\ r.route = old.route /\ r.told = old.told /\ r.answer = old.answer
          /\ r.wrote = old.wrote /\ r.count = old.count /\ r.broken = TRUE
      BY <1>1 DEF Running, Stages
    <3> HIDE DEF r
    <3>3. QED BY <1>3, <2>1, <3>1, <3>2
  <2>5. QED BY <1>7, <2>3, <2>4 DEF History
<1>8. CASE Memories(t)
  <2>1. Local
    BY <1>8 DEF Memories, Frame
  <2>2. CASE /\ turn' = [turn EXCEPT ![t].at = "graph", ![t].counts = old.user \in config.memories]
             /\ ~old.broken
    <3> DEFINE counts == old.user \in config.memories
               r == [old EXCEPT !.at = "graph", !.counts = counts]
    <3>1. turn' = [turn EXCEPT ![t] = r]
      BY <2>2
    <3>2. counts \in BOOLEAN
      OBVIOUS
    <3> HIDE DEF counts
    <3>3. /\ r \in Running /\ r.user = old.user /\ r.session = old.session /\ r.at = "graph"
          /\ r.route = old.route /\ r.told = old.told /\ r.answer = old.answer
          /\ r.wrote = old.wrote /\ r.count = old.count /\ r.broken = old.broken
      BY <1>1, <3>2 DEF Running, Stages
    <3> HIDE DEF r
    <3>4. Worked(t, r)
      BY <2>1, <2>2, <3>1, <3>3 DEF Worked
    <3>5. QED BY <3>4
  <2>3. CASE Failing(t, TRUE)
    BY <1>5, <2>1, <2>3
  <2>4. QED BY <1>8, <2>2, <2>3 DEF Memories
<1>9. CASE Generate(t)
  <2>1. Local /\ old.at = "graph"
    BY <1>9 DEF Generate, Frame
  <2>2. ASSUME NEW empty \in BOOLEAN,
               turn' = [Proceed(t) EXCEPT ![t].answer = [told |-> old.told, empty |-> empty]]
        PROVE  \E n : Worked(t, n)
    <3> DEFINE answer == [told |-> old.told, empty |-> empty]
               r == [old EXCEPT !.at = next, !.answer = answer]
    <3>1. turn' = [turn EXCEPT ![t] = r]
      BY <2>2, <1>1 DEF Proceed, Go
    <3>2. answer \in Answers /\ answer.told = old.told /\ next \in Stages /\ next \notin {"commit", "graph"}
      BY <1>1, <1>2, <2>1 DEF Answers, Running
    <3> HIDE DEF answer, next
    <3>3. /\ r \in Running /\ r.user = old.user /\ r.session = old.session /\ r.at = next
          /\ r.route = old.route /\ r.told = old.told /\ r.answer = answer
          /\ r.wrote = old.wrote /\ r.count = old.count /\ r.broken = old.broken
      BY <1>1, <3>2 DEF Running
    <3> HIDE DEF r
    <3>4. QED BY <1>3, <2>1, <3>1, <3>2, <3>3
  <2>3. CASE Failing(t, FALSE)
    <3>1. ~old.broken
      BY <2>1 DEF Sound
    <3>2. QED BY <1>5, <2>1, <2>3, <3>1
  <2>4. QED BY <1>9, <2>2, <2>3 DEF Generate
<1>10. CASE SetCachedAnswer(t)
  BY <1>2, <1>4, <1>10 DEF SetCachedAnswer, Frame, Proceed, Go
<1>11. CASE SaveHistory(t)
  <2>1. Local /\ old.at = "save" /\ next \in Stages /\ next \notin {"commit", "graph"}
    BY <1>2, <1>11 DEF SaveHistory, Frame
  <2>2. CASE turn' = Proceed(t)
    BY <1>4, <2>1, <2>2 DEF Proceed, Go
  <2>3. CASE /\ UsePersonalContext(t) /\ Exists(old.session) /\ ~SessionLocked(t)
             /\ turn' = [Proceed(t) EXCEPT ![t].wrote = TRUE,
                                           ![t].count = sessions[old.session].count + 1]
    <3> DEFINE count == sessions[old.session].count + 1
               r == [old EXCEPT !.at = next, !.wrote = TRUE, !.count = count]
    <3>1. turn' = [turn EXCEPT ![t] = r]
      BY <2>3, <1>1 DEF Proceed, Go
    <3>2. count \in Nat
      <4>1. sessions[old.session] \in SessionRecords
        BY <2>3 DEF TypeOK, Exists
      <4>2. QED BY <4>1 DEF SessionRecords
    <3> HIDE DEF count, next
    <3>3. /\ r \in Running /\ r.user = old.user /\ r.session = old.session /\ r.at = next
          /\ r.route = old.route /\ r.told = old.told /\ r.answer = old.answer
          /\ r.wrote = TRUE /\ r.count = count /\ r.broken = old.broken
      BY <1>1, <2>1, <3>2 DEF Running
    <3> HIDE DEF r
    <3>4. Worked(t, r)
      BY <2>1, <2>3, <3>1, <3>3 DEF Worked, count, InSession, UsePersonalContext
    <3>5. QED BY <3>4
  <2>4. CASE turn' = [Proceed(t) EXCEPT ![t].broken = TRUE]
    <3> DEFINE r == [old EXCEPT !.at = next, !.broken = TRUE]
    <3>1. turn' = [turn EXCEPT ![t] = r]
      BY <2>4, <1>1 DEF Proceed, Go
    <3> HIDE DEF next
    <3>2. /\ r \in Running /\ r.user = old.user /\ r.session = old.session /\ r.at = next
          /\ r.route = old.route /\ r.told = old.told /\ r.answer = old.answer
          /\ r.wrote = old.wrote /\ r.count = old.count /\ r.broken = TRUE
      BY <1>1, <2>1 DEF Running
    <3> HIDE DEF r
    <3>3. QED BY <1>3, <2>1, <3>1, <3>2
  <2>5. QED BY <1>11, <2>2, <2>3, <2>4 DEF SaveHistory
<1>12. CASE Remember(t)
  <2>1. Local /\ old.at = "remember" /\ next \in Stages /\ next \notin {"commit", "graph"}
    BY <1>2, <1>12 DEF Remember, Frame
  <2>2. CASE turn' = Proceed(t)
    BY <1>4, <2>1, <2>2 DEF Proceed, Go
  <2>3. CASE Failing(t, TRUE)
    BY <1>5, <2>1, <2>3
  <2>4. QED BY <1>12, <2>2, <2>3 DEF Remember
<1>13. QED BY <1>6, <1>7, <1>8, <1>9, <1>10, <1>11, <1>12 DEF Works

LEMMA WorksBefore ==
  ASSUME NEW t, Works(t)
  PROVE  /\ turn[t].at # "commit"
         /\ cache' = cache \/ (cache' = turn[t].answer /\ ~UsePersonalContext(t))
BY DEF Works, GetCachedAnswer, History, Memories, Generate, SetCachedAnswer, SaveHistory,
       Remember, Cacheable

-----------------------------------------------------------------------------
(* The invariant                                                           *)

Inv == TypeOK /\ Owned /\ Sound /\ Counted /\ Told /\ Listing

LEMMA InitInv == Init => Inv
<1> SUFFICES ASSUME Init PROVE Inv
  OBVIOUS
<1>1. /\ sessions = << >> /\ turn = << >> /\ rows = {} /\ cache = Nothing
      /\ page = [p \in Pages |-> SignedOut]
  BY DEF Init
<1>2. IsFiniteSet({})
  BY FS_EmptySet
<1>3. SignedOut \in PageStates
  BY DEF SignedOut, PageStates, Sessions
<1>4. TypeOK
  BY <1>1, <1>2, <1>3 DEF TypeOK
<1>5. Open = {}
  BY <1>1 DEF Open
<1>6. Owned /\ Listing
  BY <1>1 DEF Owned, Belongs, Listing, SignedOut
<1>7. Sound /\ Counted /\ Told
  BY <1>1, <1>5 DEF Sound, Counted, CountIsHistory, Told, Saves, Writes
<1>8. QED BY <1>4, <1>6, <1>7 DEF Inv

(* The user, the session and the route of a turn are its for good.         *)
Lasting ==
  /\ DOMAIN turn \subseteq DOMAIN turn'
  /\ \A u \in DOMAIN turn : /\ turn'[u].user = turn[u].user /\ turn'[u].session = turn[u].session
                            /\ turn'[u].route = turn[u].route

LEMMA LastingFacts ==
  ASSUME TypeOK, Lasting, UNCHANGED config
  PROVE  /\ \A u \in DOMAIN turn : UsePersonalContext(u)' <=> UsePersonalContext(u)
         /\ \A ids : \A u \in DOMAIN turn : Within(u, ids) => Within(u, ids)'
         /\ rows' = rows => \A id : SavedIn(id)' = SavedIn(id)
<1>1. \A u \in DOMAIN turn : UsePersonalContext(u)' <=> UsePersonalContext(u)
  BY DEF Lasting, UsePersonalContext
<1>2. \A ids : \A u \in DOMAIN turn : Within(u, ids) => Within(u, ids)'
  BY <1>1 DEF Lasting, Within
<1>3. rows' = rows => \A id : SavedIn(id)' = SavedIn(id)
  BY DEF SavedIn, Lasting, TypeOK
<1>4. QED BY <1>1, <1>2, <1>3

LEMMA WorkedInv ==
  ASSUME Inv, NEW t \in Open, Works(t)
  PROVE  Inv'
<1>1. PICK r : Worked(t, r)
  BY HandlerWorks DEF Inv
<1>2. /\ TypeOK /\ t \in DOMAIN turn /\ turn[t] \in Running
      /\ turn \in Seq(Running \cup Ended) /\ r \in Running
      /\ turn' = [turn EXCEPT ![t] = r]
  BY <1>1, OpenTurns DEF Inv, TypeOK, Worked
<1>3. /\ turn' \in Seq(Running \cup Ended) /\ DOMAIN turn' = DOMAIN turn
      /\ turn'[t] = r /\ \A u \in DOMAIN turn : u # t => turn'[u] = turn[u]
  <2>1. r \in Running \cup Ended
    BY <1>2
  <2>2. QED BY <1>2, <2>1, OneChanges
<1>4. /\ UNCHANGED <<config, page, sessions, rows, lost>>
      /\ r.user = turn[t].user /\ r.session = turn[t].session /\ r.route = turn[t].route
  BY <1>1 DEF Worked
<1>5. Lasting /\ r.at # "done" /\ turn[t].at \notin {"done", "commit"} /\ r.at # "commit"
  BY <1>1, <1>2, <1>3, <1>4, WorksBefore DEF Lasting, Worked, Running, Stages, Open
<1>6. Open' = Open
  BY <1>3, <1>5 DEF Open
<1>7. /\ \A u \in DOMAIN turn : UsePersonalContext(u)' <=> UsePersonalContext(u)
      /\ \A ids : \A u \in DOMAIN turn : Within(u, ids) => Within(u, ids)'
      /\ \A id : SavedIn(id)' = SavedIn(id)
  BY <1>2, <1>4, <1>5, LastingFacts
<1>8. cache' = cache \/ (cache' = turn[t].answer /\ ~UsePersonalContext(t))
  BY WorksBefore
<1>9. TypeOK'
  BY <1>2, <1>3, <1>4, <1>8 DEF TypeOK, Running
<1>10. Owned'
  BY <1>3, <1>4, <1>5 DEF Inv, Owned, Belongs, Lasting
<1>11. Sound'
  BY <1>1, <1>3, <1>6, OpenTurns, <1>2 DEF Inv, Sound, Worked
<1>12. Counted'
  <2>1. \A u \in DOMAIN turn : InSession(u)' <=> InSession(u)
    BY <1>4, <1>5 DEF InSession, Exists, Lasting
  <2>2. \A u \in DOMAIN turn : u # t => (Writes(u)' <=> Writes(u)) /\ (Saves(u)' <=> Saves(u))
    BY <1>3, <1>6 DEF Writes, Saves
  <2>3. \/ (Writes(t)' <=> Writes(t)) /\ (Saves(t)' => Saves(t)) /\ r.count = turn[t].count
        \/ ~SessionLocked(t) /\ InSession(t) /\ r.count = sessions[turn[t].session].count + 1
    BY <1>1, <1>3, <1>6 DEF Worked, Writes, Saves
  <2>4. \A u \in rows : u \notin Open' /\ InSession(u)'
    BY <1>2, <1>6, <2>1 DEF Inv, Counted, TypeOK
  <2>5. ASSUME NEW u \in DOMAIN turn, Saves(u)'
        PROVE  InSession(u)' /\ turn'[u].count = sessions'[turn'[u].session].count + 1
    <3>1. CASE u # t
      BY <1>3, <1>4, <2>1, <2>2, <2>5, <3>1 DEF Inv, Counted
    <3>2. CASE u = t
      BY <1>3, <1>4, <2>1, <2>3, <2>5, <3>2 DEF Inv, Counted
    <3>3. QED BY <3>1, <3>2
  <2>6. ASSUME NEW u \in DOMAIN turn, NEW v \in DOMAIN turn, Writes(u)', Writes(v)',
               turn'[u].session = turn'[v].session
        PROVE  u = v
    <3>1. turn[u].session = turn[v].session
      BY <1>5, <2>6 DEF Lasting
    <3>2. CASE Writes(t)' <=> Writes(t)
      BY <2>2, <2>6, <3>1, <3>2 DEF Inv, Counted
    <3>3. CASE ~SessionLocked(t)
      <4>1. \A w \in DOMAIN turn \ {t} : Writes(w) => turn[w].session # turn[t].session
        BY <3>3 DEF SessionLocked, Writes
      <4>2. QED BY <2>2, <2>6, <3>1, <4>1 DEF Inv, Counted
    <3>4. QED BY <2>3, <3>2, <3>3
  <2>7. CountIsHistory'
    BY <1>4, <1>7 DEF Inv, Counted, CountIsHistory, Exists
  <2>8. QED BY <1>3, <1>4, <2>4, <2>5, <2>6, <2>7 DEF Counted
<1>13. Told'
  <2>1. cache' # Nothing => cache'.told = {}
    BY <1>8 DEF Inv, Told, Within
  <2>2. ASSUME NEW u \in Open
        PROVE  /\ Within(u, turn'[u].told)
               /\ turn'[u].answer # Nothing => Within(u, turn'[u].answer.told)
    <3>1. CASE u # t
      BY <1>3, <2>2, <3>1, OpenTurns, <1>2 DEF Inv, Told
    <3>2. CASE u = t
      <4>1. Within(t, turn[t].told) /\ (turn[t].answer # Nothing => Within(t, turn[t].answer.told))
        BY DEF Inv, Told
      <4>2. Within(t, {})
        BY DEF Within
      <4>3. \A ids : UsePersonalContext(t) /\ ids \subseteq SavedIn(turn[t].session) => Within(t, ids)
        BY <1>2 DEF Within, SavedIn, TypeOK
      <4>4. Within(t, r.told)
        BY <1>1, <4>1, <4>2, <4>3 DEF Worked
      <4>5. r.answer # Nothing => Within(t, r.answer.told)
        BY <1>1, <4>1, <4>2 DEF Worked, Inv, Told
      <4>6. QED BY <1>3, <3>2, <4>4, <4>5
    <3>3. QED BY <3>1, <3>2
  <2>3. ASSUME NEW u \in Open
        PROVE  /\ Within(u, turn[u].told)'
               /\ turn'[u].answer # Nothing => Within(u, turn[u].answer.told)'
    BY <1>2, <1>7, <2>2, OpenTurns
  <2>4. QED BY <1>6, <2>1, <2>3 DEF Told
<1>14. Listing'
  <2>1. \A u \in DOMAIN turn : (Settled(u) => Settled(u)') /\ (Known(u) => Known(u)')
    BY <1>4, <1>5 DEF Settled, InSession, Exists, Known, Lasting
  <2>2. ASSUME NEW p \in Pages, NEW u \in page[p].messages
        PROVE  /\ u \in DOMAIN turn' /\ Known(u)'
               /\ \/ turn'[u].at = "commit" /\ ~turn'[u].error
                  \/ turn'[u].at = "done" /\ Settled(u)'
    BY <1>3, <1>5, <2>1 DEF Inv, Listing
  <2>3. ASSUME NEW p \in Pages, page[p].waits # 0
        PROVE  /\ page[p].waits \in DOMAIN turn'
               /\ turn'[page[p].waits].at \notin {"commit", "done"}
               /\ turn'[page[p].waits].route = "stream"
               /\ \A q \in Pages : page[q].waits = page[p].waits => q = p
    BY <1>3, <1>5, <2>3 DEF Inv, Listing, Lasting
  <2>4. QED BY <1>4, <2>2, <2>3 DEF Listing
<1>15. QED BY <1>9, <1>10, <1>11, <1>12, <1>13, <1>14 DEF Inv

-----------------------------------------------------------------------------
(* Steps that save nothing                                                 *)

Same(u) ==
  /\ u \in Open
  /\ turn'[u].told = turn[u].told /\ turn'[u].answer = turn[u].answer
  /\ turn'[u].wrote = turn[u].wrote /\ turn'[u].count = turn[u].count
  /\ turn'[u].broken = turn[u].broken
  /\ turn'[u].at = "graph" => turn[u].at = "graph"

Begun(u) ==
  /\ u \notin DOMAIN turn
  /\ turn'[u].told = {} /\ turn'[u].answer = Nothing /\ turn'[u].wrote = FALSE
  /\ turn'[u].at = "lookup"

LEMMA QuietStep ==
  ASSUME Inv, TypeOK', Lasting, UNCHANGED <<config, rows>>, cache' \in {cache, Nothing},
         \A id \in DOMAIN sessions : id \in DOMAIN sessions' /\ sessions'[id] = sessions[id],
         \A id \in DOMAIN sessions' \ DOMAIN sessions : id # Nothing /\ sessions'[id].count = 0,
         \A u \in DOMAIN turn' : turn'[u].at # "done" => Same(u) \/ Begun(u)
  PROVE  Sound' /\ Counted' /\ Told'
<1>1. TypeOK /\ Owned /\ Sound /\ Counted /\ Told
  BY DEF Inv
<1>2. /\ \A u \in DOMAIN turn : UsePersonalContext(u)' <=> UsePersonalContext(u)
      /\ \A ids : \A u \in DOMAIN turn : Within(u, ids) => Within(u, ids)'
      /\ \A id : SavedIn(id)' = SavedIn(id)
  BY <1>1, LastingFacts
<1>3. \A u \in Open' : u \in DOMAIN turn' /\ (Same(u) \/ Begun(u))
  BY DEF Open
<1>4. /\ \A u \in Open : u \in DOMAIN turn
      /\ \A u \in rows : u \in DOMAIN turn /\ u \notin Open
  BY <1>1, OpenTurns DEF Counted, TypeOK
<1>5. Sound'
  BY <1>1, <1>3 DEF Sound, Same, Begun
<1>6. \A u \in DOMAIN turn : InSession(u) => InSession(u)'
  BY DEF InSession, Exists, Lasting
<1>7. \A u \in DOMAIN turn' : /\ Writes(u)' => Writes(u) /\ Same(u)
                              /\ Saves(u)' => Saves(u)
  BY <1>3 DEF Writes, Saves, Same, Begun
<1>8. Counted'
  <2>1. \A u \in rows : u \notin Open' /\ InSession(u)'
    BY <1>1, <1>3, <1>4, <1>6 DEF Counted, Same, Begun
  <2>2. ASSUME NEW u \in DOMAIN turn', Saves(u)'
        PROVE  InSession(u)' /\ turn'[u].count = sessions'[turn'[u].session].count + 1
    <3>1. Saves(u) /\ Same(u) /\ u \in DOMAIN turn
      BY <1>4, <1>7, <2>2 DEF Saves, Same
    <3>2. InSession(u) /\ turn[u].count = sessions[turn[u].session].count + 1
      BY <1>1, <3>1 DEF Counted
    <3>3. turn[u].session \in DOMAIN sessions
      BY <3>2 DEF InSession, Exists
    <3>4. QED BY <1>6, <3>1, <3>2, <3>3 DEF Same, Lasting
  <2>3. ASSUME NEW u \in DOMAIN turn', NEW v \in DOMAIN turn', Writes(u)', Writes(v)',
               turn'[u].session = turn'[v].session
        PROVE  u = v
    <3>1. Writes(u) /\ Writes(v) /\ u \in DOMAIN turn /\ v \in DOMAIN turn
      BY <1>4, <1>7, <2>3 DEF Same
    <3>2. turn[u].session = turn[v].session
      BY <2>3, <3>1 DEF Lasting
    <3>3. QED BY <1>1, <3>1, <3>2 DEF Counted
  <2>4. ASSUME NEW id \in DOMAIN sessions', sessions'[id] # Nothing
        PROVE  sessions'[id].count = Cardinality(SavedIn(id)')
    <3>1. CASE id \in DOMAIN sessions
      BY <1>1, <1>2, <2>4, <3>1 DEF Counted, CountIsHistory, Exists
    <3>2. CASE id \notin DOMAIN sessions
      <4>1. \A u \in rows : turn[u].session # id
        BY <1>1, <3>2 DEF Counted, InSession, Exists
      <4>2. SavedIn(id) = {}
        BY <4>1 DEF SavedIn
      <4>3. Cardinality({}) = 0
        BY FS_EmptySet
      <4>4. QED BY <1>2, <2>4, <3>2, <4>2, <4>3
    <3>3. QED BY <3>1, <3>2
  <2>5. QED BY <2>1, <2>2, <2>3, <2>4 DEF Counted, CountIsHistory, Exists
<1>9. Told'
  <2>1. ASSUME NEW u \in Open'
        PROVE  /\ Within(u, turn[u].told)'
               /\ turn'[u].answer # Nothing => Within(u, turn[u].answer.told)'
    <3>1. CASE Same(u)
      <4>1. /\ Within(u, turn[u].told)
            /\ turn[u].answer # Nothing => Within(u, turn[u].answer.told)
        BY <1>1, <3>1 DEF Told, Same
      <4>2. /\ Within(u, turn'[u].told)
            /\ turn'[u].answer # Nothing => Within(u, turn'[u].answer.told)
        BY <3>1, <4>1 DEF Same
      <4>3. QED BY <1>2, <1>4, <3>1, <4>2 DEF Same
    <3>2. CASE Begun(u)
      BY <3>2 DEF Begun, Within
    <3>3. QED BY <1>3, <3>1, <3>2
  <2>2. cache' # Nothing => cache'.told = {}
    BY <1>1 DEF Told
  <2>3. QED BY <2>1, <2>2 DEF Told
<1>10. QED BY <1>5, <1>8, <1>9

-----------------------------------------------------------------------------
(* The end of a turn                                                       *)

LEMMA OverTurn ==
  ASSUME TypeOK, NEW t \in DOMAIN turn, turn' = Over(t)
  PROVE  /\ turn' \in Seq(Running \cup Ended) /\ DOMAIN turn' = DOMAIN turn
         /\ Lasting /\ Open' = Open \ {t} /\ turn'[t].at = "done"
         /\ \A u \in DOMAIN turn : u # t => turn'[u] = turn[u]
<1> DEFINE r == [user |-> turn[t].user, session |-> turn[t].session, route |-> turn[t].route,
                 at |-> "done"]
<1>1. turn \in Seq(Running \cup Ended) /\ turn[t] \in Running \cup Ended
  BY OpenTurns DEF TypeOK
<1>2. r \in Running \cup Ended
  BY <1>1 DEF Running, Ended
<1>3. turn' = [turn EXCEPT ![t] = r]
  BY DEF Over
<1>4. /\ r.user = turn[t].user /\ r.session = turn[t].session /\ r.route = turn[t].route
      /\ r.at = "done"
  OBVIOUS
<1> HIDE DEF r
<1>5. /\ turn' \in Seq(Running \cup Ended) /\ DOMAIN turn' = DOMAIN turn
      /\ turn'[t] = r /\ \A u \in DOMAIN turn : u # t => turn'[u] = turn[u]
  BY <1>1, <1>2, <1>3, OneChanges
<1>6. QED BY <1>4, <1>5 DEF Lasting, Open

LEMMA OthersSame ==
  ASSUME TypeOK, NEW t, DOMAIN turn' = DOMAIN turn,
         \A u \in DOMAIN turn : u # t => turn'[u] = turn[u],
         turn'[t].at = "done" \/ Same(t)
  PROVE  \A u \in DOMAIN turn' : turn'[u].at # "done" => Same(u) \/ Begun(u)
BY DEF Same, Open

LEMMA InterruptInv == ASSUME Inv, NEW p \in Pages, Interrupt(p) PROVE Inv'
<1>1. /\ TypeOK /\ Owned /\ Listing
      /\ UNCHANGED <<config, sessions, rows, cache, lost>>
  BY DEF Inv, Interrupt
<1> DEFINE t == page[p].waits
<1>2. t \in DOMAIN turn /\ turn[t].at \notin {"commit", "done"} /\ t \in Open
  BY <1>1 DEF Interrupt, Ready, Listing, Open
<1>3. page' = [page EXCEPT ![p].waits = 0]
  BY DEF Interrupt
<1>4. /\ page' \in [Pages -> PageStates]
      /\ \A q \in Pages : /\ page'[q].user = page[q].user /\ page'[q].session = page[q].session
                          /\ page'[q].messages = page[q].messages
                          /\ page'[q].waits = IF q = p THEN 0 ELSE page[q].waits
  BY <1>1, <1>3 DEF TypeOK, PageStates
<1>5. turn' = turn \/ turn' = Over(t)
  BY DEF Interrupt
<1>6. /\ turn' \in Seq(Running \cup Ended) /\ DOMAIN turn' = DOMAIN turn /\ Lasting
      /\ \A u \in DOMAIN turn : u # t => turn'[u] = turn[u]
      /\ turn'[t] = turn[t] \/ turn'[t].at = "done"
  BY <1>1, <1>2, <1>5, OverTurn DEF Lasting, TypeOK
<1>7. TypeOK'
  BY <1>1, <1>4, <1>6 DEF TypeOK
<1>8. Owned'
  BY <1>1, <1>4, <1>6 DEF Owned, Belongs, Lasting
<1>9. \A u \in DOMAIN turn' : turn'[u].at # "done" => Same(u) \/ Begun(u)
  BY <1>1, <1>2, <1>6, OthersSame DEF Same
<1>10. Sound' /\ Counted' /\ Told'
  <2>1. \A id \in DOMAIN sessions' \ DOMAIN sessions : id # Nothing /\ sessions'[id].count = 0
    BY <1>1
  <2>2. QED BY <1>1, <1>6, <1>7, <1>9, <2>1, QuietStep
<1>11. Listing'
  <2>1. \A u \in DOMAIN turn : (Settled(u) => Settled(u)') /\ (Known(u) => Known(u)')
    BY <1>1, <1>6 DEF Settled, InSession, Exists, Known, Lasting
  <2>2. ASSUME NEW q \in Pages, page'[q].waits # 0
        PROVE  /\ page'[q].waits \in DOMAIN turn' /\ turn'[page'[q].waits].at \notin {"commit", "done"}
               /\ turn'[page'[q].waits].route = "stream"
               /\ \A o \in Pages : page'[o].waits = page'[q].waits => o = q
    BY <1>1, <1>4, <1>5, <1>6, <2>2 DEF Listing, Lasting
  <2>3. ASSUME NEW q \in Pages, NEW u \in page'[q].messages
        PROVE  /\ u \in DOMAIN turn' /\ Known(u)'
               /\ \/ turn'[u].at = "commit" /\ ~turn'[u].error
                  \/ turn'[u].at = "done" /\ Settled(u)'
    BY <1>1, <1>2, <1>4, <1>6, <2>1 DEF Listing
  <2>4. QED BY <2>2, <2>3 DEF Listing
<1>12. QED BY <1>7, <1>8, <1>10, <1>11 DEF Inv

Answered(w, ids) == [w EXCEPT !.waits = 0, !.messages = ids]

LEMMA AnsweredPage ==
  ASSUME NEW w \in PageStates, NEW ids \in SUBSET Nat
  PROVE  /\ Answered(w, ids) \in PageStates
         /\ Answered(w, ids).user = w.user /\ Answered(w, ids).session = w.session
         /\ Answered(w, ids).waits = 0 /\ Answered(w, ids).messages = ids
BY DEF PageStates, Answered

LEMMA RespondInv == ASSUME Inv, NEW t \in Open, Respond(t) PROVE Inv'
<1>1. /\ TypeOK /\ Owned /\ Listing /\ t \in DOMAIN turn /\ turn[t] \in Running
      /\ UNCHANGED <<config, sessions, rows, cache, lost>> /\ turn[t].at = "end"
  BY OpenTurns DEF Inv, Respond
<1> DEFINE r == [turn[t] EXCEPT !.at = "commit"]
<1>2. /\ r \in Running /\ r.user = turn[t].user /\ r.session = turn[t].session
      /\ r.route = turn[t].route
      /\ r.told = turn[t].told /\ r.answer = turn[t].answer /\ r.wrote = turn[t].wrote
      /\ r.count = turn[t].count /\ r.broken = turn[t].broken /\ r.error = turn[t].error
      /\ r.at = "commit"
  BY <1>1 DEF Running, Stages
<1>3. turn' = [turn EXCEPT ![t] = r]
  BY DEF Respond, Go
<1> HIDE DEF r
<1>4. /\ turn' \in Seq(Running \cup Ended) /\ DOMAIN turn' = DOMAIN turn
      /\ turn'[t] = r /\ \A u \in DOMAIN turn : u # t => turn'[u] = turn[u]
  <2>1. r \in Running \cup Ended /\ turn \in Seq(Running \cup Ended)
    BY <1>1, <1>2 DEF TypeOK
  <2>2. QED BY <1>1, <1>3, <2>1, OneChanges
<1>5. Lasting
  BY <1>2, <1>4 DEF Lasting
<1>6. \A p \in Pages :
        /\ page'[p] \in PageStates
        /\ page'[p].user = page[p].user /\ page'[p].session = page[p].session
        /\ page'[p].waits = IF page[p].waits = t THEN 0 ELSE page[p].waits
        /\ \/ page'[p].messages = page[p].messages
           \/ /\ page'[p].messages = page[p].messages \cup {t}
              /\ page[p].waits = t /\ ~turn[t].error
  <2> SUFFICES ASSUME NEW p \in Pages
               PROVE  /\ page'[p] \in PageStates
                      /\ page'[p].user = page[p].user /\ page'[p].session = page[p].session
                      /\ page'[p].waits = IF page[p].waits = t THEN 0 ELSE page[p].waits
                      /\ \/ page'[p].messages = page[p].messages
                         \/ /\ page'[p].messages = page[p].messages \cup {t}
                            /\ page[p].waits = t /\ ~turn[t].error
    OBVIOUS
  <2>1. page[p] \in PageStates /\ t \in Nat
    BY <1>1, OpenTurns DEF TypeOK
  <2>2. page'[p] = IF page[p].waits # t THEN page[p]
                   ELSE [page[p] EXCEPT !.waits = 0,
                          !.messages = IF Listed(t) THEN page[p].messages \cup {t}
                                       ELSE page[p].messages]
    BY DEF Respond
  <2>3. CASE page[p].waits # t
    BY <2>1, <2>2, <2>3
  <2>4. CASE page[p].waits = t
    <3>1. PICK ids \in SUBSET Nat :
            /\ page'[p] = Answered(page[p], ids)
            /\ ids = page[p].messages \/ (ids = page[p].messages \cup {t} /\ ~turn[t].error)
      <4>1. page[p].messages \in SUBSET Nat /\ page[p].messages \cup {t} \in SUBSET Nat
        BY <2>1 DEF PageStates
      <4>2. QED BY <2>2, <2>4, <4>1 DEF Listed, Answered
    <3>2. /\ page'[p] \in PageStates
          /\ page'[p].user = page[p].user /\ page'[p].session = page[p].session
          /\ page'[p].waits = 0 /\ page'[p].messages = ids
      <4> DEFINE w == Answered(page[p], ids)
      <4>1. /\ w \in PageStates /\ w.user = page[p].user /\ w.session = page[p].session
            /\ w.waits = 0 /\ w.messages = ids
        BY <2>1, AnsweredPage
      <4>2. page'[p] = w
        BY <3>1
      <4> HIDE DEF w
      <4>3. QED BY <4>1, <4>2
    <3>3. QED BY <2>4, <3>1, <3>2
  <2>5. QED BY <2>3, <2>4
<1>7. TypeOK'
  <2>1. page' \in [Pages -> PageStates]
    BY <1>6 DEF Respond
  <2>2. QED BY <1>1, <1>4, <2>1 DEF TypeOK
<1>8. Owned'
  BY <1>1, <1>4, <1>5, <1>6 DEF Owned, Belongs, Lasting
<1>9. Sound' /\ Counted' /\ Told'
  <2>1. Same(t)
    BY <1>2, <1>4 DEF Same
  <2>2. \A u \in DOMAIN turn' : turn'[u].at # "done" => Same(u) \/ Begun(u)
    BY <1>1, <1>4, <2>1, OthersSame
  <2>3. \A id \in DOMAIN sessions' \ DOMAIN sessions : id # Nothing /\ sessions'[id].count = 0
    BY <1>1
  <2>4. QED BY <1>1, <1>5, <1>7, <2>2, <2>3, QuietStep
<1>10. Listing'
  <2>1. \A u \in DOMAIN turn : (Settled(u) => Settled(u)') /\ (Known(u) => Known(u)')
    BY <1>1, <1>5 DEF Settled, InSession, Exists, Known, Lasting
  <2>2. ASSUME NEW q \in Pages, page'[q].waits # 0
        PROVE  /\ page'[q].waits \in DOMAIN turn' /\ turn'[page'[q].waits].at \notin {"commit", "done"}
               /\ turn'[page'[q].waits].route = "stream"
               /\ \A o \in Pages : page'[o].waits = page'[q].waits => o = q
    BY <1>1, <1>4, <1>5, <1>6, <2>2 DEF Listing, Lasting
  <2>3. ASSUME NEW q \in Pages, NEW u \in page'[q].messages
        PROVE  /\ u \in DOMAIN turn' /\ Known(u)'
               /\ \/ turn'[u].at = "commit" /\ ~turn'[u].error
                  \/ turn'[u].at = "done" /\ Settled(u)'
    <3>1. CASE u = t
      <4>1. u \in page[q].messages \/ ~turn[t].error
        BY <1>6, <2>3, <3>1
      <4>2. u \notin page[q].messages
        BY <1>1, <3>1 DEF Listing
      <4>3. page[q].waits = t
        BY <1>6, <2>3, <3>1, <4>2
      <4>4. Known(t)
        <5>1. t # 0
          BY <1>1, OpenTurns
        <5>2. turn[t].route = "stream"
          BY <1>1, <4>3, <5>1 DEF Listing
        <5>3. Belongs(turn[t].session, turn[t].user)
          BY <1>1, <5>2 DEF Owned
        <5>4. QED BY <5>3 DEF Belongs, Known
      <4>5. QED BY <1>1, <1>2, <1>4, <2>1, <3>1, <4>1, <4>2, <4>4
    <3>2. CASE u # t
      BY <1>1, <1>4, <1>6, <2>1, <2>3, <3>2 DEF Listing
    <3>3. QED BY <3>1, <3>2
  <2>4. QED BY <2>2, <2>3 DEF Listing
<1>11. QED BY <1>7, <1>8, <1>9, <1>10 DEF Inv

LEMMA CommitInv == ASSUME Inv, NEW t \in Open, Commit(t) PROVE Inv'
<1>1. /\ TypeOK /\ Owned /\ Sound /\ Counted /\ Told /\ Listing
      /\ t \in DOMAIN turn /\ turn[t] \in Running
      /\ UNCHANGED <<config, page, cache>> /\ turn[t].at = "commit"
  BY OpenTurns DEF Inv, Commit
<1>2. /\ turn' \in Seq(Running \cup Ended) /\ DOMAIN turn' = DOMAIN turn
      /\ Lasting /\ Open' = Open \ {t} /\ turn'[t].at = "done"
      /\ \A u \in DOMAIN turn : u # t => turn'[u] = turn[u]
  BY <1>1, OverTurn DEF Commit
<1> DEFINE id == turn[t].session
<1>3. ASSUME \A i \in DOMAIN sessions : /\ i \in DOMAIN sessions'
                                        /\ sessions[i] = Nothing <=> sessions'[i] = Nothing
                                        /\ sessions[i] # Nothing => sessions'[i].owner = sessions[i].owner,
             DOMAIN sessions' = DOMAIN sessions, rows \subseteq rows', lost \subseteq lost',
             turn[t].error \/ Settled(t)'
      PROVE  Owned' /\ Listing'
  <2>1. Owned'
    BY <1>1, <1>2, <1>3 DEF Owned, Belongs, Lasting
  <2>2. \A u \in DOMAIN turn : InSession(u)' => InSession(u)
    BY <1>2, <1>3 DEF InSession, Exists, Lasting
  <2>3. \A u \in DOMAIN turn : (Settled(u) => Settled(u)') /\ (Known(u) => Known(u)')
    BY <1>1, <1>2, <1>3, <2>2 DEF Settled, Known, Lasting
  <2>4. ASSUME NEW q \in Pages, page[q].waits # 0
        PROVE  /\ page[q].waits \in DOMAIN turn' /\ turn'[page[q].waits].at \notin {"commit", "done"}
               /\ turn'[page[q].waits].route = "stream"
               /\ \A o \in Pages : page[o].waits = page[q].waits => o = q
    BY <1>1, <1>2, <2>4 DEF Listing, Lasting
  <2>5. ASSUME NEW q \in Pages, NEW u \in page[q].messages
        PROVE  /\ u \in DOMAIN turn' /\ Known(u)'
               /\ \/ turn'[u].at = "commit" /\ ~turn'[u].error
                  \/ turn'[u].at = "done" /\ Settled(u)'
    BY <1>1, <1>2, <1>3, <2>3 DEF Listing
  <2>6. Listing'
    BY <1>1, <2>4, <2>5 DEF Listing
  <2>7. QED BY <2>1, <2>6
<1>4. CASE turn[t].wrote /\ ~turn[t].broken /\ rows' = rows \cup {t}
           /\ sessions' = [sessions EXCEPT ![id].count = turn[t].count] /\ UNCHANGED lost
  <2>1. /\ Writes(t) /\ Saves(t) /\ InSession(t) /\ turn[t].count = sessions[id].count + 1
        /\ turn[t].count \in Nat
    BY <1>1, <1>4 DEF Writes, Saves, Counted, Running
  <2>2. id \in DOMAIN sessions /\ sessions[id] \in SessionRecords /\ sessions[id] # Nothing
    BY <1>1, <2>1 DEF InSession, Exists, TypeOK
  <2> DEFINE s == [sessions[id] EXCEPT !.count = turn[t].count]
  <2>3. /\ s \in SessionRecords /\ s.owner = sessions[id].owner /\ s.count = turn[t].count
        /\ s # Nothing
    BY <2>1, <2>2, NothingAssumption DEF SessionRecords, Everyone
  <2>4. sessions' = [sessions EXCEPT ![id] = s]
    BY <1>4
  <2> HIDE DEF s
  <2>5. /\ sessions' \in Seq(SessionRecords \cup {Nothing}) /\ DOMAIN sessions' = DOMAIN sessions
        /\ sessions'[id] = s /\ \A i \in DOMAIN sessions : i # id => sessions'[i] = sessions[i]
    <3>1. sessions \in Seq(SessionRecords \cup {Nothing}) /\ s \in SessionRecords \cup {Nothing}
      BY <1>1, <2>3 DEF TypeOK
    <3>2. QED BY <2>2, <2>4, <3>1, OneChanges
  <2>6. t \notin rows /\ IsFiniteSet(rows')
    BY <1>1, <1>4, FS_AddElement DEF Counted, TypeOK
  <2>7. TypeOK'
    BY <1>1, <1>2, <1>4, <2>5, <2>6 DEF TypeOK
  <2>8. Owned' /\ Listing'
    <3>1. Settled(t)'
      BY <1>4 DEF Settled
    <3>2. QED BY <1>3, <1>4, <2>2, <2>3, <2>5, <3>1
  <2>9. Sound'
    BY <1>1, <1>2, OpenTurns DEF Sound
  <2>10. \A u \in DOMAIN turn : InSession(u)' <=> InSession(u)
    BY <1>2, <2>2, <2>3, <2>5 DEF InSession, Exists, Lasting
  <2>11. \A u \in DOMAIN turn : /\ Writes(u)' => Writes(u) /\ u # t
                                /\ Saves(u)' => Saves(u)
    BY <1>2 DEF Writes, Saves
  <2>12. Counted'
    <3>1. \A u \in rows' : u \notin Open' /\ InSession(u)'
      BY <1>1, <1>2, <1>4, <2>1, <2>10 DEF Counted, TypeOK
    <3>2. ASSUME NEW u \in DOMAIN turn, Saves(u)'
          PROVE  InSession(u)' /\ turn'[u].count = sessions'[turn'[u].session].count + 1
      <4>1. u # t /\ Writes(u) /\ Saves(u) /\ turn'[u] = turn[u]
        BY <1>2, <2>11, <3>2 DEF Saves
      <4>2. turn[u].session # id
        BY <1>1, <2>1, <4>1 DEF Counted
      <4>3. turn[u].session \in DOMAIN sessions
        BY <1>1, <4>1 DEF Counted, InSession, Exists
      <4>4. QED BY <1>1, <2>5, <2>10, <4>1, <4>2, <4>3 DEF Counted
    <3>3. ASSUME NEW u \in DOMAIN turn, NEW v \in DOMAIN turn, Writes(u)', Writes(v)',
                 turn'[u].session = turn'[v].session
          PROVE  u = v
      BY <1>1, <1>2, <2>11, <3>3 DEF Counted, Lasting
    <3>4. ASSUME NEW i \in DOMAIN sessions, sessions'[i] # Nothing
          PROVE  sessions'[i].count = Cardinality(SavedIn(i)')
      <4>1. SavedIn(i)' = {u \in rows \cup {t} : turn[u].session = i}
        BY <1>1, <1>2, <1>4 DEF SavedIn, Lasting, TypeOK
      <4>2. CASE i = id
        <5>1. SavedIn(i)' = SavedIn(i) \cup {t} /\ t \notin SavedIn(i)
          BY <2>6, <4>1, <4>2 DEF SavedIn
        <5>2. IsFiniteSet(SavedIn(i))
          BY <1>1, FS_Subset DEF TypeOK, SavedIn
        <5>3. Cardinality(SavedIn(i)') = Cardinality(SavedIn(i)) + 1
          BY <5>1, <5>2, FS_AddElement
        <5>4. sessions[id].count = Cardinality(SavedIn(id))
          BY <1>1, <2>2 DEF Counted, CountIsHistory, Exists
        <5>5. QED BY <2>1, <2>3, <2>5, <4>2, <5>3, <5>4
      <4>3. CASE i # id
        <5>1. SavedIn(i)' = SavedIn(i)
          BY <4>1, <4>3 DEF SavedIn
        <5>2. QED BY <1>1, <2>5, <3>4, <4>3, <5>1 DEF Counted, CountIsHistory, Exists
      <4>4. QED BY <4>2, <4>3
    <3>5. QED BY <1>2, <2>5, <3>1, <3>2, <3>3, <3>4 DEF Counted, CountIsHistory, Exists
  <2>13. Told'
    <3>1. /\ \A ids : \A u \in DOMAIN turn : Within(u, ids) => Within(u, ids)'
      BY <1>1, <1>2, LastingFacts
    <3>2. ASSUME NEW u \in Open'
          PROVE  /\ Within(u, turn[u].told)'
                 /\ turn'[u].answer # Nothing => Within(u, turn[u].answer.told)'
      <4>1. u \in Open /\ u \in DOMAIN turn /\ turn'[u] = turn[u]
        BY <1>1, <1>2, OpenTurns
      <4>2. /\ Within(u, turn'[u].told)
            /\ turn'[u].answer # Nothing => Within(u, turn'[u].answer.told)
        BY <1>1, <4>1 DEF Told
      <4>3. QED BY <3>1, <4>1, <4>2
    <3>3. QED BY <1>1, <3>2 DEF Told
  <2>14. QED BY <2>7, <2>8, <2>9, <2>12, <2>13 DEF Inv
<1>5. CASE /\ UNCHANGED <<rows, sessions>>
           /\ lost' = IF UsePersonalContext(t) /\ ~turn[t].error THEN lost \cup {t} ELSE lost
  <2>1. TypeOK'
    BY <1>1, <1>2, <1>5 DEF TypeOK
  <2>2. turn[t].error \/ Settled(t)'
    <3>1. CASE UsePersonalContext(t)
      BY <1>5, <3>1 DEF Settled
    <3>2. CASE ~UsePersonalContext(t)
      BY <1>1, <1>2, <1>5, <3>2 DEF Settled, UsePersonalContext, InSession, Lasting
    <3>3. QED BY <3>1, <3>2
  <2>3. Owned' /\ Listing'
    BY <1>3, <1>5, <2>2
  <2>4. \A u \in DOMAIN turn' : turn'[u].at # "done" => Same(u) \/ Begun(u)
    BY <1>1, <1>2, OthersSame
  <2>5. \A i \in DOMAIN sessions' \ DOMAIN sessions : i # Nothing /\ sessions'[i].count = 0
    BY <1>5
  <2>6. Sound' /\ Counted' /\ Told'
    BY <1>1, <1>2, <1>5, <2>1, <2>4, <2>5, QuietStep
  <2>7. QED BY <2>1, <2>3, <2>6 DEF Inv
<1>6. QED BY <1>4, <1>5 DEF Commit

-----------------------------------------------------------------------------
(* The page and the sessions                                               *)

StillBelongs(id, user) ==
  id # Nothing => /\ id \in DOMAIN sessions'
                  /\ sessions'[id] = Nothing \/ sessions'[id].owner = user

Grown ==
  /\ sessions' \in Seq(SessionRecords \cup {Nothing})
  /\ \A id \in DOMAIN sessions : id \in DOMAIN sessions' /\ sessions'[id] = sessions[id]
  /\ \A id \in DOMAIN sessions' \ DOMAIN sessions : id # Nothing /\ sessions'[id].count = 0

Turned(q) ==
  /\ page'[q] \in PageStates
  /\ page'[q].user = Nothing => page'[q].session = Nothing
  /\ StillBelongs(page'[q].session, page'[q].user)
  /\ \/ page'[q].waits = 0
     \/ page'[q].waits \in DOMAIN turn' \ DOMAIN turn /\ turn'[page'[q].waits].route = "stream"
  /\ page'[q].messages \subseteq page[q].messages \cup rows

Asked ==
  /\ turn' \in Seq(Running \cup Ended)
  /\ DOMAIN turn \subseteq DOMAIN turn'
  /\ \A u \in DOMAIN turn : turn'[u] = turn[u]
  /\ \A u \in DOMAIN turn' \ DOMAIN turn :
       /\ u # 0 /\ Begun(u)
       /\ turn'[u].route = "stream" => StillBelongs(turn'[u].session, turn'[u].user)

LEMMA PageStepInv ==
  ASSUME Inv, Grown, Asked, UNCHANGED <<config, rows, lost>>, cache' \in {cache, Nothing},
         page' \in [Pages -> PageStates], NEW p,
         \A q \in Pages : page'[q] = page[q] \/ (q = p /\ Turned(q))
  PROVE  Inv'
<1>1. TypeOK /\ Owned /\ Counted /\ Listing
  BY DEF Inv
<1>2. Lasting
  BY DEF Asked, Lasting
<1>3. TypeOK'
  BY <1>1, <1>2 DEF TypeOK, Grown, Asked, Lasting
<1>4. \A id, user : Belongs(id, user) => StillBelongs(id, user)
  BY DEF Belongs, StillBelongs, Grown
<1>5. Owned'
  <2>1. \A q \in Pages : /\ page'[q].user = Nothing => page'[q].session = Nothing
                         /\ StillBelongs(page'[q].session, page'[q].user)
    BY <1>1, <1>4 DEF Owned, Turned
  <2>2. \A u \in DOMAIN turn' :
          turn'[u].route = "stream" => StillBelongs(turn'[u].session, turn'[u].user)
    BY <1>1, <1>4 DEF Owned, Asked
  <2>3. QED BY <2>1, <2>2 DEF Owned, Belongs, StillBelongs
<1>6. Sound' /\ Counted' /\ Told'
  <2>1. \A u \in DOMAIN turn' : turn'[u].at # "done" => Same(u) \/ Begun(u)
    BY DEF Asked, Same, Open
  <2>2. QED BY <1>2, <1>3, <2>1, QuietStep DEF Grown
<1>7. Listing'
  <2>1. \A u \in DOMAIN turn : Known(u) => Known(u)' /\ (InSession(u)' => InSession(u))
    BY <1>2 DEF InSession, Exists, Known, Lasting, Grown
  <2>2. \A u \in DOMAIN turn : Known(u) /\ Settled(u) => Known(u)' /\ Settled(u)'
    BY <2>1 DEF Settled
  <2>3. ASSUME NEW q \in Pages, page'[q].waits # 0
        PROVE  /\ page'[q].waits \in DOMAIN turn' /\ turn'[page'[q].waits].at \notin {"commit", "done"}
               /\ turn'[page'[q].waits].route = "stream"
               /\ \A o \in Pages : page'[o].waits = page'[q].waits => o = q
    <3>1. CASE page'[q] = page[q]
      <4>1. /\ page[q].waits \in DOMAIN turn /\ turn[page[q].waits].at \notin {"commit", "done"}
            /\ turn[page[q].waits].route = "stream"
            /\ \A o \in Pages : page[o].waits = page[q].waits => o = q
        BY <1>1, <2>3, <3>1 DEF Listing
      <4>2. QED BY <2>3, <3>1, <4>1 DEF Asked, Turned
    <3>2. CASE page'[q] # page[q]
      <4>1. /\ q = p /\ page'[q].waits \in DOMAIN turn' \ DOMAIN turn
            /\ turn'[page'[q].waits].route = "stream"
        BY <2>3, <3>2 DEF Turned
      <4>2. \A o \in Pages : o # q => page'[o].waits = 0 \/ page'[o].waits \in DOMAIN turn
        BY <1>1, <4>1 DEF Listing
      <4>3. QED BY <2>3, <4>1, <4>2 DEF Asked, Begun
    <3>3. QED BY <3>1, <3>2
  <2>4. ASSUME NEW q \in Pages, NEW u \in page'[q].messages
        PROVE  /\ u \in DOMAIN turn' /\ Known(u)'
               /\ \/ turn'[u].at = "commit" /\ ~turn'[u].error
                  \/ turn'[u].at = "done" /\ Settled(u)'
    <3>1. u \in page[q].messages \/ u \in rows
      BY <2>4 DEF Turned
    <3>2. CASE u \in page[q].messages
      BY <1>1, <2>1, <2>2, <3>2 DEF Listing, Asked
    <3>3. CASE u \in rows
      <4>1. u \in DOMAIN turn /\ turn[u].at = "done" /\ Settled(u) /\ Known(u)
        BY <1>1, <3>3, OpenTurns DEF Counted, TypeOK, Settled, Known, InSession, Exists
      <4>2. QED BY <2>2, <4>1 DEF Asked
    <3>4. QED BY <3>1, <3>2, <3>3
  <2>5. QED BY <2>3, <2>4 DEF Listing
<1>8. QED BY <1>3, <1>5, <1>6, <1>7 DEF Inv

LEMMA SessionEnsured ==
  ASSUME Inv, UNCHANGED config, NEW p \in Pages, NEW view \in PageStates, view.user # Nothing,
         Belongs(view.session, view.user), EnsureChatSession(p, view)
  PROVE  /\ Grown
         /\ \E w \in PageStates : /\ page' = [page EXCEPT ![p] = w]
                                  /\ w.user = view.user /\ w.messages = view.messages
                                  /\ w.waits = view.waits
                                  /\ StillBelongs(w.session, w.user)
<1>1. TypeOK
  BY DEF Inv
<1>2. CASE page' = [page EXCEPT ![p] = view] /\ UNCHANGED sessions
  BY <1>1, <1>2 DEF Grown, TypeOK, Belongs, StillBelongs
<1>3. CASE /\ view.session = Nothing
           /\ sessions' = Append(sessions, [owner |-> view.user, count |-> 0])
           /\ page' = [page EXCEPT ![p] = [view EXCEPT !.session = Len(sessions) + 1]]
  <2> DEFINE s == [owner |-> view.user, count |-> 0]
             new == Len(sessions) + 1
             w == [view EXCEPT !.session = new]
  <2>1. s \in SessionRecords /\ s.owner = view.user /\ s.count = 0
    BY DEF SessionRecords, PageStates
  <2>2. s # Nothing
    BY <2>1, NothingAssumption DEF SessionRecords, Everyone
  <2>3. sessions' = Append(sessions, s) /\ page' = [page EXCEPT ![p] = w]
    BY <1>3
  <2>4. new \in Nat /\ new # Nothing
    BY <1>1, NothingAssumption DEF TypeOK
  <2>5. /\ w \in PageStates /\ w.session = new /\ w.user = view.user
        /\ w.messages = view.messages /\ w.waits = view.waits
    <3> HIDE DEF new
    <3>1. QED BY <2>4 DEF PageStates, Sessions
  <2> HIDE DEF s, w
  <2>6. /\ sessions' \in Seq(SessionRecords \cup {Nothing})
        /\ DOMAIN sessions' = DOMAIN sessions \cup {new} /\ new \notin DOMAIN sessions
        /\ sessions'[new] = s /\ \A id \in DOMAIN sessions : sessions'[id] = sessions[id]
    <3>1. sessions \in Seq(SessionRecords \cup {Nothing}) /\ s \in SessionRecords \cup {Nothing}
      BY <1>1, <2>1 DEF TypeOK
    <3>2. QED BY <2>3, <3>1
  <2> HIDE DEF new
  <2>7. Grown
    BY <2>1, <2>4, <2>6 DEF Grown
  <2>8. StillBelongs(w.session, w.user)
    BY <2>1, <2>2, <2>5, <2>6 DEF StillBelongs
  <2>9. QED BY <2>3, <2>5, <2>7, <2>8
<1>4. QED BY <1>2, <1>3 DEF EnsureChatSession

(* A page step that keeps the user, or gives one, and makes sure of a      *)
(* session.                                                                *)
LEMMA EnsuringInv ==
  ASSUME Inv, UNCHANGED <<config, rows, cache, lost>>, NEW p \in Pages, NEW view \in PageStates,
         view.user # Nothing, Belongs(view.session, view.user), EnsureChatSession(p, view),
         view.messages \subseteq page[p].messages,
         Asked,
         \/ view.waits = 0
         \/ view.waits \in DOMAIN turn' \ DOMAIN turn /\ turn'[view.waits].route = "stream"
  PROVE  Inv'
<1>1. Grown
  BY SessionEnsured
<1>2. PICK w \in PageStates : /\ page' = [page EXCEPT ![p] = w]
                              /\ w.user = view.user /\ w.messages = view.messages
                              /\ w.waits = view.waits
                              /\ StillBelongs(w.session, w.user)
  BY SessionEnsured
<1>3. /\ page' \in [Pages -> PageStates] /\ page'[p] = w
      /\ \A q \in Pages : q # p => page'[q] = page[q]
  BY <1>2 DEF Inv, TypeOK
<1>4. Turned(p)
  BY <1>2, <1>3 DEF Turned
<1>5. \A q \in Pages : page'[q] = page[q] \/ (q = p /\ Turned(q))
  BY <1>3, <1>4
<1>6. cache' \in {cache, Nothing}
  OBVIOUS
<1>7. QED BY <1>1, <1>3, <1>5, <1>6, PageStepInv

LEMMA NothingAsked == ASSUME TypeOK, UNCHANGED turn PROVE Asked
BY DEF TypeOK, Asked

LEMMA NothingGrown == ASSUME TypeOK, UNCHANGED sessions PROVE Grown
BY DEF TypeOK, Grown

LEMMA LoginInv == ASSUME Inv, NEW p \in Pages, NEW u \in Users, Login(p, u) PROVE Inv'
<1> DEFINE view == [page[p] EXCEPT !.user = u, !.messages = {}, !.session = Nothing]
<1>1. page[p] \in PageStates /\ page[p].waits = 0 /\ UNCHANGED <<config, rows, cache, lost>> /\ Asked
  BY NothingAsked DEF Inv, TypeOK, Login, Ready
<1>2. /\ view \in PageStates /\ view.user = u /\ view.session = Nothing
      /\ view.messages = {} /\ view.waits = 0
  BY <1>1 DEF PageStates, Everyone, Sessions
<1>3. EnsureChatSession(p, view)
  BY DEF Login
<1> HIDE DEF view
<1>4. u # Nothing
  BY NothingAssumption
<1>5. QED BY <1>1, <1>2, <1>3, <1>4, EnsuringInv DEF Belongs

LEMMA ContinueAsGuestInv == ASSUME Inv, NEW p \in Pages, ContinueAsGuest(p) PROVE Inv'
<1> DEFINE view == [page[p] EXCEPT !.user = Guest]
<1>1. /\ page[p] \in PageStates /\ page[p].waits = 0 /\ page[p].user = Nothing
      /\ UNCHANGED <<config, rows, cache, lost>> /\ Asked
  BY NothingAsked DEF Inv, TypeOK, ContinueAsGuest, Ready
<1>2. page[p].session = Nothing
  BY <1>1 DEF Inv, Owned
<1>3. /\ view \in PageStates /\ view.user = Guest /\ view.session = Nothing
      /\ view.messages = page[p].messages /\ view.waits = 0
  BY <1>1, <1>2 DEF PageStates, Everyone
<1>4. EnsureChatSession(p, view)
  BY DEF ContinueAsGuest
<1> HIDE DEF view
<1>5. Guest # Nothing
  BY NothingAssumption
<1>6. QED BY <1>1, <1>3, <1>4, <1>5, EnsuringInv DEF Belongs

LEMMA NewChatInv == ASSUME Inv, NEW p \in Pages, NewChat(p) PROVE Inv'
<1> DEFINE view == [page[p] EXCEPT !.messages = {}, !.session = Nothing]
<1>1. /\ page[p] \in PageStates /\ page[p].waits = 0 /\ page[p].user # Nothing
      /\ UNCHANGED <<config, rows, cache, lost>> /\ Asked
  BY NothingAsked DEF Inv, TypeOK, NewChat, Ready
<1>2. /\ view \in PageStates /\ view.user = page[p].user /\ view.session = Nothing
      /\ view.messages = {} /\ view.waits = 0
  BY <1>1 DEF PageStates, Sessions
<1>3. EnsureChatSession(p, view)
  BY DEF NewChat
<1> HIDE DEF view
<1>4. QED BY <1>1, <1>2, <1>3, EnsuringInv DEF Belongs

LEMMA BeginAsks ==
  ASSUME TypeOK, NEW route \in {"chat", "stream"}, NEW user \in Everyone, NEW id \in Sessions,
         Begin(route, user, id), route = "stream" => StillBelongs(id, user)
  PROVE  /\ Asked /\ Len(turn) + 1 \in DOMAIN turn' \ DOMAIN turn
         /\ turn'[Len(turn) + 1].route = route
<1> DEFINE r == [user |-> user, session |-> id, route |-> route, at |-> "lookup", told |-> {},
                 answer |-> Nothing, counts |-> FALSE, wrote |-> FALSE, count |-> 0,
                 broken |-> FALSE, error |-> FALSE]
           new == Len(turn) + 1
<1>1. r \in Running
  BY DEF Running, Stages
<1>2. /\ r.user = user /\ r.session = id /\ r.route = route /\ r.told = {} /\ r.answer = Nothing
      /\ r.wrote = FALSE /\ r.at = "lookup"
  OBVIOUS
<1>3. turn' = Append(turn, r)
  BY DEF Begin
<1> HIDE DEF r
<1>4. /\ turn' \in Seq(Running \cup Ended)
      /\ DOMAIN turn' = DOMAIN turn \cup {new} /\ new \notin DOMAIN turn /\ new # 0
      /\ turn'[new] = r /\ \A u \in DOMAIN turn : turn'[u] = turn[u]
  <2>1. turn \in Seq(Running \cup Ended) /\ r \in Running \cup Ended
    BY <1>1 DEF TypeOK
  <2>2. QED BY <1>3, <2>1
<1> HIDE DEF new
<1>5. Begun(new)
  BY <1>2, <1>4 DEF Begun
<1>6. Asked
  BY <1>2, <1>4, <1>5 DEF Asked
<1>7. QED BY <1>2, <1>4, <1>6 DEF new

LEMMA AskInv == ASSUME Inv, NEW p \in Pages, Ask(p) PROVE Inv'
<1> DEFINE n == Len(turn) + 1
           view == [page[p] EXCEPT !.waits = n]
<1>1. /\ page[p] \in PageStates /\ page[p].user # Nothing /\ n \in Nat
      /\ UNCHANGED <<config, rows, cache, lost>> /\ TypeOK
      /\ Belongs(page[p].session, page[p].user)
  BY DEF Inv, TypeOK, Ask, Owned
<1>2. /\ view \in PageStates /\ view.user = page[p].user /\ view.session = page[p].session
      /\ view.messages = page[p].messages /\ view.waits = n
  <2> HIDE DEF n
  <2>1. QED BY <1>1 DEF PageStates
<1>3. EnsureChatSession(p, view) /\ Begin("stream", page[p].user, page'[p].session)
  BY DEF Ask
<1> HIDE DEF view
<1>4. PICK w \in PageStates : /\ page' = [page EXCEPT ![p] = w]
                              /\ w.user = view.user /\ w.messages = view.messages
                              /\ w.waits = view.waits
                              /\ StillBelongs(w.session, w.user)
  BY <1>1, <1>2, <1>3, SessionEnsured
<1>5. page'[p] = w /\ w.session \in Sessions /\ page[p].user \in Everyone
  BY <1>1, <1>4 DEF PageStates, TypeOK
<1>6. Begin("stream", page[p].user, w.session) /\ StillBelongs(w.session, page[p].user)
  BY <1>2, <1>3, <1>4, <1>5
<1>7. Asked /\ n \in DOMAIN turn' \ DOMAIN turn /\ turn'[n].route = "stream"
  BY <1>1, <1>5, <1>6, BeginAsks
<1>8. QED BY <1>1, <1>2, <1>3, <1>7, EnsuringInv

LEMMA CallInv ==
  ASSUME Inv, NEW u \in Everyone, NEW id \in 1..MaxSessions \cup {Nothing}, Call(u, id)
  PROVE  Inv'
<1>1. /\ TypeOK /\ Begin("chat", u, id)
      /\ UNCHANGED <<config, page, sessions, rows, cache, lost>>
  BY DEF Inv, Call
<1>2. id \in Sessions
  BY BoundAssumption DEF Sessions
<1>3. Asked
  BY <1>1, <1>2, BeginAsks
<1>4. page' \in [Pages -> PageStates] /\ \A q \in Pages : page'[q] = page[q]
  BY <1>1 DEF TypeOK
<1>5. Grown /\ cache' \in {cache, Nothing}
  BY <1>1, NothingGrown
<1>6. QED BY <1>1, <1>3, <1>4, <1>5, PageStepInv

LEMMA LogoutInv == ASSUME Inv, NEW p \in Pages, Logout(p) PROVE Inv'
<1>1. /\ TypeOK /\ UNCHANGED <<config, sessions, turn, rows, cache, lost>>
      /\ page' = [page EXCEPT ![p] = SignedOut]
  BY DEF Inv, Logout, Cleared
<1>2. SignedOut \in PageStates
  BY DEF SignedOut, PageStates, Sessions
<1>3. /\ page' \in [Pages -> PageStates] /\ page'[p] = SignedOut
      /\ \A q \in Pages : q # p => page'[q] = page[q]
  BY <1>1, <1>2 DEF TypeOK
<1>4. Turned(p)
  BY <1>2, <1>3 DEF Turned, SignedOut, StillBelongs
<1>5. Grown /\ Asked /\ cache' \in {cache, Nothing}
  BY <1>1, NothingGrown, NothingAsked
<1>6. \A q \in Pages : page'[q] = page[q] \/ (q = p /\ Turned(q))
  BY <1>3, <1>4
<1>7. QED BY <1>1, <1>3, <1>5, <1>6, PageStepInv

Loaded(w, id, ids) == [w EXCEPT !.session = id, !.messages = ids]

LEMMA LoadedPage ==
  ASSUME NEW w \in PageStates, NEW id \in Sessions, NEW ids \in SUBSET Nat
  PROVE  /\ Loaded(w, id, ids) \in PageStates
         /\ Loaded(w, id, ids).user = w.user /\ Loaded(w, id, ids).session = id
         /\ Loaded(w, id, ids).waits = w.waits /\ Loaded(w, id, ids).messages = ids
BY DEF PageStates, Loaded

LEMMA LoadSessionInv ==
  ASSUME Inv, NEW p \in Pages, NEW id \in DOMAIN sessions, LoadSession(p, id) PROVE Inv'
<1> DEFINE w == Loaded(page[p], id, SavedIn(id))
<1>1. /\ TypeOK /\ UNCHANGED <<config, sessions, turn, rows, cache, lost>>
      /\ page[p] \in PageStates /\ page[p].waits = 0 /\ page[p].user # Nothing
      /\ sessions[id] # Nothing /\ sessions[id].owner = page[p].user
  BY DEF Inv, TypeOK, LoadSession, Ready, Exists
<1>2. page' = [page EXCEPT ![p] = w]
  BY DEF LoadSession, Loaded
<1>3. id \in Sessions /\ SavedIn(id) \in SUBSET Nat /\ SavedIn(id) \subseteq rows
  BY <1>1 DEF TypeOK, Sessions, SavedIn
<1>4. /\ w \in PageStates /\ w.user = page[p].user /\ w.session = id /\ w.waits = 0
      /\ w.messages = SavedIn(id)
  BY <1>1, <1>3, LoadedPage
<1> HIDE DEF w
<1>5. /\ page' \in [Pages -> PageStates] /\ page'[p] = w
      /\ \A q \in Pages : q # p => page'[q] = page[q]
  BY <1>1, <1>2, <1>4 DEF TypeOK
<1>6. Turned(p)
  BY <1>1, <1>3, <1>4, <1>5 DEF Turned, StillBelongs
<1>7. Grown /\ Asked /\ cache' \in {cache, Nothing}
  BY <1>1, NothingGrown, NothingAsked
<1>8. \A q \in Pages : page'[q] = page[q] \/ (q = p /\ Turned(q))
  BY <1>5, <1>6
<1>9. QED BY <1>1, <1>5, <1>7, <1>8, PageStepInv

LEMMA ExpireInv == ASSUME Inv, Expire PROVE Inv'
<1>1. /\ TypeOK /\ UNCHANGED <<config, page, sessions, turn, rows, lost>>
      /\ cache' \in {cache, Nothing}
  BY DEF Inv, Expire
<1>2. page' \in [Pages -> PageStates] /\ \A q \in Pages : page'[q] = page[q]
  BY <1>1 DEF TypeOK
<1>3. QED BY <1>1, <1>2, NothingGrown, NothingAsked, PageStepInv

LEMMA DeleteSessionInv ==
  ASSUME Inv, NEW id \in DOMAIN sessions, DeleteSession(id) PROVE Inv'
<1>1. /\ TypeOK /\ Owned /\ Sound /\ Counted /\ Told /\ Listing
      /\ UNCHANGED <<config, page, cache, turn, lost>>
      /\ rows' = rows \ SavedIn(id)
      /\ ~\E u \in Open : turn[u].wrote /\ ~turn[u].broken /\ turn[u].session = id
      /\ sessions[id] # Nothing
  BY DEF Inv, DeleteSession, Exists
<1>2. /\ sessions' \in Seq(SessionRecords \cup {Nothing}) /\ DOMAIN sessions' = DOMAIN sessions
      /\ sessions'[id] = Nothing
      /\ \A i \in DOMAIN sessions : i # id => sessions'[i] = sessions[i]
  <2>1. /\ sessions \in Seq(SessionRecords \cup {Nothing}) /\ Nothing \in SessionRecords \cup {Nothing}
        /\ sessions' = [sessions EXCEPT ![id] = Nothing]
    BY <1>1 DEF TypeOK, DeleteSession
  <2>2. QED BY <2>1, OneChanges
<1>3. rows' \subseteq rows /\ IsFiniteSet(rows')
  BY <1>1, FS_Subset DEF TypeOK
<1>4. TypeOK'
  BY <1>1, <1>2, <1>3 DEF TypeOK
<1>5. Owned' /\ Sound' /\ Told'
  BY <1>1, <1>2 DEF Owned, Belongs, Sound, Told, Open, Within, UsePersonalContext
<1>6. \A u \in DOMAIN turn : InSession(u)' <=> (InSession(u) /\ turn[u].session # id)
  BY <1>1, <1>2 DEF InSession, Exists
<1>7. Counted'
  <2>1. \A u \in rows' : u \notin Open' /\ InSession(u)'
    BY <1>1, <1>3, <1>6 DEF Counted, SavedIn, Open, TypeOK
  <2>2. ASSUME NEW u \in DOMAIN turn, Saves(u)'
        PROVE  InSession(u)' /\ turn[u].count = sessions'[turn[u].session].count + 1
    <3>1. Saves(u) /\ turn[u].session # id
      BY <1>1, <2>2 DEF Saves, Writes, Open
    <3>2. InSession(u) /\ turn[u].session \in DOMAIN sessions
      BY <1>1, <3>1 DEF Counted, InSession, Exists
    <3>3. QED BY <1>1, <1>2, <1>6, <3>1, <3>2 DEF Counted
  <2>3. \A u, v \in DOMAIN turn :
          Writes(u)' /\ Writes(v)' /\ turn[u].session = turn[v].session => u = v
    BY <1>1 DEF Counted, Writes, Open
  <2>4. ASSUME NEW i \in DOMAIN sessions', sessions'[i] # Nothing
        PROVE  sessions'[i].count = Cardinality(SavedIn(i)')
    <3>1. i # id /\ i \in DOMAIN sessions /\ sessions'[i] = sessions[i]
      BY <1>2, <2>4
    <3>2. SavedIn(i)' = SavedIn(i)
      BY <1>1, <3>1 DEF SavedIn
    <3>3. QED BY <1>1, <2>4, <3>1, <3>2 DEF Counted, CountIsHistory, Exists
  <2>5. QED BY <1>1, <2>1, <2>2, <2>3, <2>4 DEF Counted, CountIsHistory, Exists
<1>8. Listing'
  <2>1. \A u \in DOMAIN turn : (Settled(u) => Settled(u)') /\ (Known(u) => Known(u)')
    BY <1>1, <1>2, <1>6 DEF Settled, InSession, SavedIn, Known
  <2>2. QED BY <1>1, <2>1 DEF Listing
<1>9. QED BY <1>4, <1>5, <1>7, <1>8 DEF Inv

-----------------------------------------------------------------------------
(* The theorems                                                            *)

LEMMA QuietVars == ASSUME Inv, UNCHANGED vars PROVE Inv'
<1>1. TypeOK /\ UNCHANGED <<config, page, sessions, turn, rows, cache, lost>>
  BY DEF Inv, vars
<1>2. page' \in [Pages -> PageStates] /\ (\A q \in Pages : page'[q] = page[q])
      /\ cache' \in {cache, Nothing}
  BY <1>1 DEF TypeOK
<1>3. QED BY <1>1, <1>2, NothingGrown, NothingAsked, PageStepInv

LEMMA NextInv == Inv /\ [Next]_vars => Inv'
<1> SUFFICES ASSUME Inv, [Next]_vars PROVE Inv'
  OBVIOUS
<1>1. ASSUME NEW p \in Pages, NEW u \in Users, Login(p, u) PROVE Inv'
  BY <1>1, LoginInv
<1>2. ASSUME NEW p \in Pages, ContinueAsGuest(p) PROVE Inv'
  BY <1>2, ContinueAsGuestInv
<1>3. ASSUME NEW p \in Pages, Logout(p) PROVE Inv'
  BY <1>3, LogoutInv
<1>4. ASSUME NEW p \in Pages, NewChat(p) PROVE Inv'
  BY <1>4, NewChatInv
<1>5. ASSUME NEW p \in Pages, Ask(p) PROVE Inv'
  BY <1>5, AskInv
<1>6. ASSUME NEW p \in Pages, Interrupt(p) PROVE Inv'
  BY <1>6, InterruptInv
<1>7. ASSUME NEW p \in Pages, NEW id \in DOMAIN sessions, LoadSession(p, id) PROVE Inv'
  BY <1>7, LoadSessionInv
<1>8. ASSUME NEW u \in Everyone, NEW id \in 1..MaxSessions \cup {Nothing}, Call(u, id) PROVE Inv'
  BY <1>8, CallInv
<1>9. ASSUME NEW t \in Open, Handle(t) PROVE Inv'
  <2>1. Works(t) \/ Respond(t) \/ Commit(t)
    BY <1>9 DEF Handle, Works
  <2>2. QED BY <2>1, WorkedInv, RespondInv, CommitInv
<1>10. ASSUME NEW id \in DOMAIN sessions, DeleteSession(id) PROVE Inv'
  BY <1>10, DeleteSessionInv
<1>11. CASE Expire
  BY <1>11, ExpireInv
<1>12. CASE UNCHANGED vars
  BY <1>12, QuietVars
<1>13. QED BY <1>1, <1>2, <1>3, <1>4, <1>5, <1>6, <1>7, <1>8, <1>9, <1>10, <1>11, <1>12 DEF Next

(* In every reachable state the records are well-formed, a page and a turn *)
(* asked on it hold sessions of their user only, whatever sessions other   *)
(* clients of /chat name, at most one open turn of a session has written   *)
(* its history and knows the count (the lock of the UPDATE,                *)
(* chat_service.py:141), and a page that waits is awaited by its turn.     *)
THEOREM Invariant == Spec => []Inv
<1>1. Init => Inv
  BY InitInv
<1>2. Inv /\ [Next]_vars => Inv'
  BY NextInv
<1>3. QED BY <1>1, <1>2, PTL DEF Spec

(* An answer that the page lists in a session that is still there is in    *)
(* its history once the transaction is over, unless the save was lost      *)
(* behind the back of the page (chat_service.py:148).                      *)
THEOREM ListedAnswersAreSaved == Spec => []ListedIsSaved
<1>1. Inv => ListedIsSaved
  <2> SUFFICES ASSUME Inv, NEW p \in Pages, NEW t \in page[p].messages
               PROVE  \/ ~config.db \/ turn[t].session = Nothing \/ ~Exists(turn[t].session)
                      \/ t \in rows \cup lost \cup Open
    BY DEF ListedIsSaved
  <2>1. /\ t \in DOMAIN turn
        /\ turn[t].at = "commit" \/ (turn[t].at = "done" /\ Settled(t))
    BY DEF Inv, Listing
  <2>2. QED BY <2>1 DEF Settled, InSession, Open
<1>2. QED BY <1>1, Invariant, PTL

(* message_count of a session is the number of turns in its history,       *)
(* however many turns of it run at once (chat_service.py:141).             *)
THEOREM CountsAreHistories == Spec => []CountIsHistory
<1>1. Inv => CountIsHistory
  BY DEF Inv, Counted
<1>2. QED BY <1>1, Invariant, PTL

(* A turn asked on a page is saved in a session of the user signed in      *)
(* there when it was asked, although pages are signed out and in again and *)
(* other clients name any session (app.py:114, chat_service.py:133).       *)
THEOREM TurnsStayWithTheirUser == Spec => []SavedUnderAsker
<1>1. Inv => SavedUnderAsker
  <2> SUFFICES ASSUME Inv, NEW t \in rows, turn[t].route = "stream"
               PROVE  sessions[turn[t].session].owner = turn[t].user
    BY DEF SavedUnderAsker
  <2>1. t \in DOMAIN turn /\ InSession(t)
    BY DEF Inv, TypeOK, Counted
  <2>2. QED BY <2>1 DEF Inv, Owned, Belongs, InSession, Exists
<1>2. QED BY <1>1, Invariant, PTL

(* What the model was told of a session is in answers to that session      *)
(* only, and in no cached answer (chat_service.py:21).                     *)
THEOREM HistoryIsNotShared == Spec => []HistoryStaysInSession
<1>1. Inv => HistoryStaysInSession
  <2> SUFFICES ASSUME Inv
               PROVE  /\ cache # Nothing => cache.told = {}
                      /\ \A t \in Open : turn[t].answer # Nothing =>
                           \A u \in turn[t].answer.told : turn[u].session = turn[t].session
    BY DEF HistoryStaysInSession
  <2>1. QED BY DEF Inv, Told, Within
<1>2. QED BY <1>1, Invariant, PTL
=============================================================================
