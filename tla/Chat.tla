--------------------------------- MODULE Chat ---------------------------------
(***************************************************************************)
(* A chat turn from the page to the database: the Streamlit page           *)
(* (frontend/app.py), the routes /chat and /chat/stream (api/v1/chat.py,   *)
(* services/chat_service.py), the answer cache in Redis and the sessions   *)
(* with their history in PostgreSQL (api/v1/sessions.py).                  *)
(*                                                                         *)
(* A turn is known by its number, an answer by the earlier turns the model *)
(* was told of.  A cached answer may expire at any time.                   *)
(* The handler's transaction is committed when the response has been sent  *)
(* (the exit of a dependency with yield); a failed flush that the handler  *)
(* swallows leaves nothing to commit.  Written rows are locked till then.  *)
(***************************************************************************)
EXTENDS Naturals, Sequences, FiniteSets

CONSTANTS
  Pages,          \* browser tabs
  Users,          \* who signs in
  Guest,          \* who has no token; all guests share sessions and memories
  Nothing,        \* no user, session, answer or cache entry
  Configurations, \* records [db, redis, memories: who has any]
  HistoryLimit,   \* turns told of, at most
  MaxTurns, MaxSessions, MaxMishaps   \* bounds

ASSUME NothingAssumption ==
  /\ Nothing \notin Nat /\ Nothing \notin Users \cup {Guest}
  /\ Nothing \notin [owner : Users \cup {Guest}, count : Nat]
ASSUME BoundAssumption == {HistoryLimit, MaxTurns, MaxSessions, MaxMishaps} \subseteq Nat

VARIABLES
  config,    \* the deployment
  page,      \* [Pages -> session_state: user, session, turns listed, the turn waited for]
  sessions,  \* [ids given out -> owner and message_count, or Nothing once deleted]
  turn,      \* the turns: user, session and how far the handler is
  rows,      \* chat_history: the turns saved
  cache,     \* the cached answer to the question, or Nothing
  lost,      \* history: turns not saved without a word to the page
  mishaps

vars == <<config, page, sessions, turn, rows, cache, lost, mishaps>>

Everyone == Users \cup {Guest}
Open == {t \in DOMAIN turn : turn[t].at # "done"}
SignedOut == [user |-> Nothing, session |-> Nothing, messages |-> {}, waits |-> 0]

Init ==
  /\ config \in Configurations
  /\ page = [p \in Pages |-> SignedOut]
  /\ sessions = << >> /\ turn = << >> /\ rows = {}
  /\ cache = Nothing
  /\ lost = {} /\ mishaps = 0

Mishap == mishaps < MaxMishaps /\ mishaps' = mishaps + 1
NoMishap == UNCHANGED mishaps

-----------------------------------------------------------------------------
(* The page                                                                *)

Ready(p) == page[p].waits = 0

(* ensure_chat_session keeps the session there is; without a database, or  *)
(* when the request fails, the page goes on without one.                   *)
EnsureChatSession(p, view) ==
  \/ /\ view.session # Nothing
     /\ page' = [page EXCEPT ![p] = view]
     /\ UNCHANGED sessions /\ NoMishap
  \/ /\ view.session = Nothing /\ config.db /\ Len(sessions) < MaxSessions
     /\ sessions' = Append(sessions, [owner |-> view.user, count |-> 0])
     /\ page' = [page EXCEPT ![p] = [view EXCEPT !.session = Len(sessions) + 1]]
     /\ NoMishap
  \/ /\ view.session = Nothing
     /\ page' = [page EXCEPT ![p] = view]
     /\ UNCHANGED sessions
     /\ IF config.db THEN Mishap ELSE NoMishap

Login(p, u) ==
  /\ Ready(p) /\ page[p].user = Nothing /\ config.db
  /\ EnsureChatSession(p, [page[p] EXCEPT !.user = u, !.messages = {}, !.session = Nothing])
  /\ UNCHANGED <<config, turn, rows, cache, lost>>

ContinueAsGuest(p) ==
  /\ Ready(p) /\ page[p].user = Nothing
  /\ EnsureChatSession(p, [page[p] EXCEPT !.user = Guest])
  /\ UNCHANGED <<config, turn, rows, cache, lost>>

(* Mutant: the session outlives its user.                                  *)
SessionKept(view) == [SignedOut EXCEPT !.session = view.session]

Cleared(view) == SignedOut

Logout(p) ==
  /\ Ready(p) /\ page[p].user # Nothing
  /\ page' = [page EXCEPT ![p] = Cleared(page[p])]
  /\ UNCHANGED <<config, sessions, turn, rows, cache, lost, mishaps>>

NewChat(p) ==
  /\ Ready(p) /\ page[p].user # Nothing
  /\ EnsureChatSession(p, [page[p] EXCEPT !.messages = {}, !.session = Nothing])
  /\ UNCHANGED <<config, turn, rows, cache, lost>>

Exists(id) == id \in DOMAIN sessions /\ sessions[id] # Nothing

SavedIn(id) == {t \in rows : turn[t].session = id}

(* The sessions offered are the user's own (list_sessions, get_session).   *)
LoadSession(p, id) ==
  /\ Ready(p) /\ page[p].user # Nothing
  /\ Exists(id) /\ sessions[id].owner = page[p].user
  /\ page' = [page EXCEPT ![p].session = id,
                          ![p].messages = SavedIn(id)]
  /\ UNCHANGED <<config, sessions, turn, rows, cache, lost, mishaps>>

Begin(route, user, session) ==
  /\ Len(turn) < MaxTurns
  /\ turn' = Append(turn,
       [user |-> user, session |-> session, route |-> route, at |-> "lookup", told |-> {},
        answer |-> Nothing, counts |-> FALSE, wrote |-> FALSE, count |-> 0,
        broken |-> FALSE, error |-> FALSE])

(* render_chat makes sure of a session first and then streams the answer.  *)
Ask(p) ==
  /\ Ready(p) /\ page[p].user # Nothing
  /\ EnsureChatSession(p, [page[p] EXCEPT !.waits = Len(turn) + 1])
  /\ Begin("stream", page[p].user, page'[p].session)
  /\ UNCHANGED <<config, rows, cache, lost>>

(* Another client of POST /chat, which may name any session, or none: the  *)
(* route does not look whose it is, or whether there is one of that id.    *)
Call(u, id) ==
  /\ config.db \/ u = Guest
  /\ Begin("chat", u, id)
  /\ UNCHANGED <<config, page, sessions, rows, cache, lost, mishaps>>

(* The turn is over; nothing but who asked it how and where is kept.       *)
Over(t) == [turn EXCEPT ![t] = [user |-> @.user, session |-> @.session,
                                route |-> @.route, at |-> "done"]]

(* A click ends the script's run: the answer is not listed, and the server *)
(* notices the closed connection before it has committed, or does not.     *)
Interrupt(p) ==
  /\ ~Ready(p)
  /\ page' = [page EXCEPT ![p].waits = 0]
  /\ UNCHANGED turn \/ turn' = Over(page[p].waits)
  /\ UNCHANGED <<config, sessions, rows, cache, lost, mishaps>>

-----------------------------------------------------------------------------
(* The handler                                                             *)

UsePersonalContext(t) == config.db /\ turn[t].session # Nothing

After(route) ==
  IF route = "chat"
  THEN [graph |-> "store", store |-> "save", save |-> "remember", remember |-> "end"]
  ELSE [graph |-> "save", save |-> "remember", remember |-> "store", store |-> "end"]

Go(t, to) == [turn EXCEPT ![t].at = to]
Proceed(t) == Go(t, After(turn[t].route)[turn[t].at])

(* An exception: the stream reports it, /chat gives it as the answer if it *)
(* was raised by the graph and as a 500 otherwise.                         *)
Failing(t, broken) ==
  turn' = [turn EXCEPT ![t].at = "end", ![t].error = TRUE, ![t].broken = broken]

Frame == UNCHANGED <<config, page, lost>>

GetCachedAnswer(t) ==
  /\ turn[t].at = "lookup"
  /\ IF config.redis /\ ~UsePersonalContext(t) /\ cache # Nothing
     THEN \/ /\ turn' = [turn EXCEPT ![t].at = "end", ![t].answer = cache]
             /\ NoMishap
          \/ turn' = Go(t, "context") /\ Mishap
     ELSE turn' = Go(t, "context") /\ NoMishap
  /\ UNCHANGED <<sessions, rows, cache>> /\ Frame

Newest(ids) == {t \in ids : Cardinality({u \in ids : u > t}) < HistoryLimit}

(* _format_history_context; an error in it is swallowed, but every later   *)
(* statement of the transaction fails.                                     *)
History(t) ==
  LET told == IF UsePersonalContext(t) THEN Newest(SavedIn(turn[t].session)) ELSE {} IN
  /\ turn[t].at = "context"
  /\ \/ turn' = [turn EXCEPT ![t].at = "memories", ![t].told = told] /\ NoMishap
     \/ /\ UsePersonalContext(t) /\ Mishap
        /\ turn' = [turn EXCEPT ![t].at = "memories", ![t].broken = TRUE]
  /\ UNCHANGED <<sessions, rows, cache>> /\ Frame

(* Mutant: the memories are locked as soon as the history is read.         *)
LockedFromTheStart(t) ==
  \E u \in Open \ {t} : turn[u].at # "lookup" /\ turn[u].user = turn[t].user

(* The flush of format_memory_context locks the memories of the user; all  *)
(* guests have the same.                                                   *)
MemoriesLocked(t) ==
  \E u \in Open \ {t} : /\ turn[u].counts /\ ~turn[u].broken
                         /\ turn[u].user = turn[t].user

Memories(t) ==
  /\ turn[t].at = "memories"
  /\ \/ /\ ~turn[t].broken
        /\ turn[t].user \in config.memories => ~MemoriesLocked(t)
        /\ turn' = [turn EXCEPT ![t].at = "graph", ![t].counts = turn[t].user \in config.memories]
        /\ NoMishap
     \/ /\ config.db /\ Failing(t, TRUE)
        /\ IF turn[t].broken THEN NoMishap ELSE Mishap
  /\ UNCHANGED <<sessions, rows, cache>> /\ Frame

(* crag_app, which may fail or generate nothing.                           *)
Generate(t) ==
  LET Answering(empty) ==
        turn' = [Proceed(t) EXCEPT
                   ![t].answer = [told |-> turn[t].told, empty |-> empty]]
  IN
  /\ turn[t].at = "graph"
  /\ \/ Answering(FALSE) /\ NoMishap
     \/ Answering(TRUE) /\ Mishap
     \/ Failing(t, FALSE) /\ Mishap
  /\ UNCHANGED <<sessions, rows, cache>> /\ Frame

(* Mutant: the answer is cached whether or not a session was named.        *)
AnyAnswer(t) == config.redis /\ ~turn[t].answer.empty

Cacheable(t) == config.redis /\ ~turn[t].answer.empty /\ ~UsePersonalContext(t)

(* A failed SETEX is an entry that expires at once.                        *)
SetCachedAnswer(t) ==
  /\ turn[t].at = "store"
  /\ cache' = IF Cacheable(t) THEN turn[t].answer ELSE cache
  /\ turn' = Proceed(t)
  /\ NoMishap
  /\ UNCHANGED <<sessions, rows>> /\ Frame

(* Mutant: the count is written without the lock of an UPDATE.             *)
NeverLocked(t) == FALSE

SessionLocked(t) == \E u \in Open \ {t} : turn[u].wrote /\ turn[u].session = turn[t].session

(* _save_history: a failed flush (there may be no such session, or not any *)
(* more) is swallowed, and the transaction is of no use from then on.      *)
SaveHistory(t) ==
  /\ turn[t].at = "save"
  /\ \/ ~UsePersonalContext(t) /\ turn' = Proceed(t) /\ NoMishap
     \/ /\ UsePersonalContext(t) /\ Exists(turn[t].session) /\ ~SessionLocked(t)
        /\ turn' = [Proceed(t) EXCEPT ![t].wrote = TRUE,
                                      ![t].count = sessions[turn[t].session].count + 1]
        /\ NoMishap
     \/ /\ UsePersonalContext(t)
        /\ turn' = [Proceed(t) EXCEPT ![t].broken = TRUE]
        /\ IF Exists(turn[t].session) THEN Mishap ELSE NoMishap
  /\ UNCHANGED <<sessions, rows, cache>> /\ Frame

(* maybe_store_memories_from_turn; some messages state nothing.            *)
Remember(t) ==
  /\ turn[t].at = "remember"
  /\ \/ turn' = Proceed(t) /\ NoMishap
     \/ /\ config.db
        /\ Failing(t, TRUE)
        /\ IF turn[t].broken THEN NoMishap ELSE Mishap
  /\ UNCHANGED <<sessions, rows, cache>> /\ Frame

(* Mutant: an answer is listed though an error came after it.              *)
ListedAnyway(t) == turn[t].answer # Nothing

(* The page lists an answer when the stream has ended without an error.    *)
Listed(t) == ~turn[t].error

Respond(t) ==
  /\ turn[t].at = "end"
  /\ turn' = Go(t, "commit")
  /\ page' = [p \in Pages |->
       IF page[p].waits # t THEN page[p]
       ELSE [page[p] EXCEPT !.waits = 0,
                            !.messages = IF Listed(t) THEN @ \cup {t} ELSE @]]
  /\ UNCHANGED <<config, sessions, rows, cache, lost, mishaps>>

Commit(t) ==
  LET kept == turn[t].wrote /\ ~turn[t].broken IN
  /\ turn[t].at = "commit"
  /\ turn' = Over(t)
  /\ \/ /\ kept /\ NoMishap
        /\ rows' = rows \cup {t}
        /\ sessions' = [sessions EXCEPT ![turn[t].session].count = turn[t].count]
        /\ UNCHANGED lost
     \/ /\ IF kept THEN Mishap ELSE NoMishap
        /\ lost' = IF UsePersonalContext(t) /\ ~turn[t].error THEN lost \cup {t} ELSE lost
        /\ UNCHANGED <<rows, sessions>>
  /\ UNCHANGED <<config, page, cache>>

(* delete_session, with the history of the session.                        *)
DeleteSession(id) ==
  /\ Exists(id)
  /\ ~\E u \in Open : turn[u].wrote /\ ~turn[u].broken /\ turn[u].session = id
  /\ sessions' = [sessions EXCEPT ![id] = Nothing]
  /\ rows' = rows \ SavedIn(id)
  /\ UNCHANGED <<config, page, cache, turn, lost, mishaps>>

Expire ==
  /\ cache # Nothing /\ cache' = Nothing
  /\ UNCHANGED <<config, page, sessions, turn, rows, lost, mishaps>>

Handle(t) ==
  /\ t \in Open
  /\ \/ GetCachedAnswer(t) \/ History(t) \/ Memories(t) \/ Generate(t)
     \/ SetCachedAnswer(t) \/ SaveHistory(t) \/ Remember(t) \/ Respond(t) \/ Commit(t)

Next ==
  \/ \E p \in Pages :
       \/ \E u \in Users : Login(p, u)
       \/ ContinueAsGuest(p) \/ Logout(p) \/ NewChat(p) \/ Ask(p) \/ Interrupt(p)
       \/ \E id \in DOMAIN sessions : LoadSession(p, id)
  \/ \E u \in Everyone, id \in 1..MaxSessions \cup {Nothing} : Call(u, id)
  \/ \E t \in Open : Handle(t)
  \/ \E id \in DOMAIN sessions : DeleteSession(id)
  \/ Expire

(* The event loop runs every handler and every transaction ends.           *)
Fairness == \A t \in 1..MaxTurns : WF_vars(Handle(t))

Spec == Init /\ [][Next]_vars /\ Fairness

-----------------------------------------------------------------------------
(* An answer that the page lists under a session is in the history of that *)
(* session once its transaction is over, unless the save or the commit     *)
(* failed behind its back (chat_service.py:148) or the session was deleted:*)
(* what the page was told has gone wrong, it does not list.                *)
ListedIsSaved ==
  \A p \in Pages : \A t \in page[p].messages :
    LET id == turn[t].session IN
    \/ ~config.db \/ id = Nothing \/ ~Exists(id)
    \/ t \in rows \cup lost \cup Open

(* message_count is the number of turns in the history, whichever turns of *)
(* a session overlap (chat_service.py:141).                                *)
CountIsHistory ==
  \A id \in DOMAIN sessions :
    Exists(id) => sessions[id].count = Cardinality(SavedIn(id))

(* A turn asked on a page is saved in a session of the user signed in      *)
(* there, whoever used the page before (app.py:114).                       *)
SavedUnderAsker ==
  \A t \in rows :
    turn[t].route = "stream" => sessions[turn[t].session].owner = turn[t].user

(* What was told of the turns of a session is an answer in that session    *)
(* only: it is never cached (chat_service.py:21).                          *)
HistoryStaysInSession ==
  LET From(answer, ids) == \A t \in answer.told : turn[t].session \in ids IN
  /\ cache # Nothing => From(cache, {})
  /\ \A t \in Open : turn[t].answer # Nothing => From(turn[t].answer, {turn[t].session})

(* A page that waits gets an answer or an error: no turn waits for ever on *)
(* the rows another turn has locked.                                       *)
EveryQuestionEnds == \A p \in Pages : ~Ready(p) ~> Ready(p)
=============================================================================
