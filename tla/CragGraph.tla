------------------------------ MODULE CragGraph ------------------------------
(***************************************************************************)
(* The question-answering graph of backend/graph.py: one question at a time*)
(* goes from node to node, each node replacing part of the GraphState.     *)
(*                                                                         *)
(* Texts are abstracted to what the control flow sees: which intents a     *)
(* question's wording matches, which documents and sources are gathered and*)
(* of what kind, whether local hits are convincing.  Documents are found by*)
(* the search of Retrieval.tla; the two indexes, the reranker, the language*)
(* model and Tavily are the environment.                                   *)
(***************************************************************************)
EXTENDS Retrieval

CONSTANT MaxCalls   \* the attempts of invoke_llm

ASSUME BoundsAssumption == MaxCalls \in Nat \ {0}

Threshold == 5500   \* AUTO_LOCAL_SCORE_THRESHOLD

Intents == {"document", "web", "casual"}

Local(passage) == [kind |-> "local", id |-> passage]
WebResult    == [kind |-> "web",   id |-> "Tavily"]
ModelText    == [kind |-> "model", id |-> "DeepSeek"]

VARIABLES
  node,     \* the node about to run, "end", or "error"
  state,    \* the GraphState
  calls,    \* the attempts invoke_llm has made in this node
  visited,  \* history: the nodes that have run
  found     \* what the search came upon, until the hits are graded

vars == <<node, state, calls, visited, found>>

initial_state ==
  [route |-> "auto", documents |-> << >>, sources |-> << >>,
   web_fallback |-> FALSE, generated |-> FALSE]

Init ==
  /\ node = "route_question"
  /\ state = initial_state
  /\ calls = 0
  /\ visited = {}
  /\ found = Nothing

-----------------------------------------------------------------------------
(* Edges                                                                   *)

choose_route(intents) ==
  IF "document" \in intents    THEN "local"
  ELSE IF "web" \in intents    THEN "web"
  ELSE IF "casual" \in intents THEN "model"
  ELSE "auto"

decide_after_route(route) ==
  CASE route = "web"   -> "web_search"
    [] route = "model" -> "direct_answer"
    [] OTHER           -> "retrieve"

decide_to_generate(s) ==
  IF s.route = "model" THEN "direct_answer"
  ELSE IF s.web_fallback THEN "web_search"
  ELSE "generate"

-----------------------------------------------------------------------------
(* Nodes                                                                   *)

(* A node has run: it leaves a new state to the next node.                 *)
Moves(from, to, s) ==
  /\ node = from
  /\ node' = to
  /\ state' = s
  /\ calls' = 0
  /\ visited' = visited \cup {from}

RouteQuestion ==
  /\ \E intents \in SUBSET Intents :
       LET route == choose_route(intents)
       IN  Moves("route_question", decide_after_route(route), [state EXCEPT !.route = route])
  /\ UNCHANGED found

Retrieve ==
  /\ node = "retrieve"
  /\ \E search \in Searches :
       LET hits == [i \in DOMAIN search.results |-> Local(search.results[i].passage)]
       IN  /\ Moves("retrieve", "grade_documents",
                    [state EXCEPT !.documents = hits, !.sources = hits])
           /\ found' = search

(* Mutant: the sources of the discarded documents stay.                    *)
ToModelKeepingSources(s) == [s EXCEPT !.route = "model", !.documents = << >>]

ToModel(s) == [s EXCEPT !.route = "model", !.documents = << >>, !.sources = << >>]

(* The grader's verdict: what it kept, or everything if it kept nothing.   *)
Graded(s, kept) ==
  LET Keeps(d) == d \in kept
      some == SelectSeq(s.documents, Keeps)
      docs == IF some = << >> THEN s.documents ELSE some
  IN  [s EXCEPT !.route = "local", !.documents = docs, !.sources = docs]

(* A question about a document, and an open one with convincing hits, keep *)
(* what was found; an open one without goes to the model.  The grader is   *)
(* asked for the other routes only.                                        *)
Grade(s, convincing, kept) ==
  CASE s.documents = << >> /\ s.route # "local" -> [s EXCEPT !.route = "model"]
    [] s.route = "local"                        -> s
    [] s.route = "auto" /\ convincing           -> [s EXCEPT !.route = "local"]
    [] s.route = "auto" /\ ~convincing          -> ToModel(s)
    [] OTHER                                    -> Graded(s, kept)

BestScore(search) == Max({0} \cup {r.score : r \in ToSet(search.results)})

(* local_results_confident: a high score convinces, or the words the       *)
(* question shares with the documents do.                                  *)
Convincing ==
  IF state.documents = << >> THEN {FALSE}
  ELSE IF BestScore(found) >= Threshold THEN {TRUE} ELSE BOOLEAN

GradeDocuments ==
  /\ node = "grade_documents"
  /\ \E convincing \in Convincing, kept \in SUBSET ToSet(state.documents) :
       LET graded == Grade(state, convincing, kept)
       IN  Moves("grade_documents", decide_to_generate(graded), graded)
  /\ found' = Nothing

Searched(s, document, cited, fallback) ==
  [s EXCEPT !.route = "web", !.web_fallback = fallback,
            !.documents = Append(@, document), !.sources = @ \o cited]

(* Tavily answers with or without source links, ...                        *)
WebSearch ==
  /\ calls = 0
  /\ \E links \in {<< >>, <<WebResult>>} :
       Moves("web_search", "generate", Searched(state, WebResult, links, TRUE))
  /\ UNCHANGED found

(* Mutant: the answer is flagged only if Tavily worked.                    *)
FallbackUnflagged ==
  /\ Moves("web_search", "generate", Searched(state, ModelText, <<ModelText>>, FALSE))
  /\ UNCHANGED found

(* ... or it cannot be used, and the model's own knowledge stands in.      *)
WebSearchFallsBack ==
  /\ Moves("web_search", "generate", Searched(state, ModelText, <<ModelText>>, TRUE))
  /\ UNCHANGED found

DirectAnswer ==
  /\ Moves("direct_answer", "end",
           [ToModel(state) EXCEPT !.web_fallback = FALSE, !.generated = TRUE])
  /\ UNCHANGED found

Generate ==
  /\ Moves("generate", "end", [state EXCEPT !.generated = TRUE])
  /\ UNCHANGED found

-----------------------------------------------------------------------------
(* invoke_llm retries transient errors; what it raises ends the run, and so*)
(* does a search that cannot embed the question.  In web_search invoke_llm *)
(* is called once Tavily has failed; grade_documents would call it only for*)
(* routes that never lead there.                                           *)
AsksModel == node \in {"web_search", "direct_answer", "generate"}

Retry ==
  /\ AsksModel
  /\ calls + 1 < MaxCalls
  /\ calls' = calls + 1
  /\ UNCHANGED <<node, state, visited, found>>

Raise ==
  /\ AsksModel \/ node = "retrieve"
  /\ node' = "error"
  /\ calls' = 0
  /\ UNCHANGED <<state, visited, found>>

Ask ==
  /\ node \in {"end", "error"}
  /\ node' = "route_question"
  /\ state' = initial_state
  /\ visited' = {}
  /\ UNCHANGED <<calls, found>>

Next ==
  \/ RouteQuestion \/ Retrieve \/ GradeDocuments \/ WebSearch \/ WebSearchFallsBack
  \/ DirectAnswer \/ Generate \/ Retry \/ Raise \/ Ask

Spec == Init /\ [][Next]_vars

-----------------------------------------------------------------------------
(* The sources shown with an answer are evidence the answer was generated  *)
(* from: nothing that was discarded on the way is cited, and every local   *)
(* passage in the context is.                                              *)
CitesItsEvidence ==
  node = "end" =>
    /\ ToSet(state.sources) \subseteq ToSet(state.documents)
    /\ \A d \in ToSet(state.documents) : d.kind = "local" => d \in ToSet(state.sources)

(* trigger_web_fallback tells the user that the answer left the knowledge  *)
(* base: it is set exactly when web_search ran, whether Tavily worked or   *)
(* not, and web material never comes with local passages.                  *)
FlagsWebFallback ==
  node = "end" =>
    /\ state.web_fallback <=> "web_search" \in visited
    /\ state.web_fallback => \A d \in ToSet(state.documents) : d.kind # "local"

-----------------------------------------------------------------------------
(* The order of the hits respects both searches (retriever.py:871-890): a  *)
(* passage is not listed after, or left out for, one that each of the two  *)
(* searches ranks below one of its own chunks - whatever the chunks of a   *)
(* passage, the rounding of scores and the sorts in between.  A passage    *)
(* that begins like another of its page may be listed in the other's place *)
(* (retriever.py:947).  (An overview question and a reranker's answer      *)
(* change the order on purpose.)                                           *)
RanksAsBothSearches ==
  LET Above(hits, a, b) == b \in ToSet(hits) => a \in ToSet(hits) /\ Rank(hits, a) < Rank(hits, b)
      Beats(a, b) == Above(found.vector, a, b) /\ Above(found.bm25, a, b)
      Of(p) == {c \in ToSet(found.vector) \cup ToSet(found.bm25) : Passage[c] = p}
      place(p) == {i \in DOMAIN state.documents : state.documents[i].id = p}
      alike(p) == {i \in DOMAIN state.documents : Excerpt[state.documents[i].id] = Excerpt[p]}
      passages == {Passage[c] : c \in Chunks}
  IN found # Nothing /\ ~found.boosted =>
       \A p, q \in passages :
         /\ p # q /\ Of(q) # {}
         /\ \A b \in Of(q) : \E a \in Of(p) : Beats(a, b)
         /\ place(q) # {}
         => \E i \in alike(p) : \A j \in place(q) : i < j

(* graph.py:222 compares the best score with a threshold meant for cosine  *)
(* similarity: the score of a fused hit never comes near it, so a plain    *)
(* hybrid search convinces by shared words only.                           *)
FusedScoresDoNotConvince ==
  found # Nothing /\ ~found.boosted => 2 * BestScore(found) < Threshold
=============================================================================
