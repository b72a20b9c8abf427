------------------------------- MODULE Retrieval -------------------------------
(***************************************************************************)
(* KnowledgeBase.search of backend/retriever.py: a dense and a sparse      *)
(* search are fused by rank, chunks give way to the passages (parents) they*)
(* are part of, an overview question is given the openings of documents    *)
(* first, and a reranker may reorder what is left.                         *)
(*                                                                         *)
(* Scores are in units of 10^-4, to which search rounds them; before that, *)
(* of 1/Scale.  Distances, terms and texts are left out: a search is the   *)
(* order in which it returns chunks.                                       *)
(***************************************************************************)
EXTENDS Integers, Sequences, FiniteSets, FiniteSetsExt, SequencesExt

CONSTANTS
  Chunks,         \* 1..n, in the order of the index
  Passage,        \* [Chunks -> the passage a chunk is part of]
  Excerpt,        \* [passages -> its source, its page and its first 160 characters]
  OverviewScore,  \* [passages -> how much it looks like the opening of a document]
  TopK,           \* how many passages a search returns at most
  CandidateK,     \* how many chunks each of the two searches returns at most
  Nothing         \* no answer of the reranker

RrfK == 60
VectorWeight == 1
Bm25Weight == 1
Scale == 100000

ASSUME SearchAssumption ==
  /\ Chunks = 1..Cardinality(Chunks)
  /\ {TopK, CandidateK} \subseteq Nat \ {0}

Take(list, k) == SubSeq(list, 1, IF Len(list) < k THEN Len(list) ELSE k)

(* The elements of a list at some places, as the order has these.          *)
Arranged(list, places, order) ==
  LET place == [i \in places |-> Cardinality({j \in places : <<j, i>> \in order}) + 1]
  IN [k \in 1..Cardinality(places) |-> list[CHOOSE i \in places : place[i] = k]]

Kept(list, places) == Arranged(list, places, {p \in places \X places : p[1] < p[2]})

(* sorted(..., reverse=True) by the keys at the places of the list is      *)
(* stable; Python, not this code.                                          *)
Descending(list, key) ==
  LET places == DOMAIN list
      Before(i, j) == key[i] > key[j] \/ (key[i] = key[j] /\ i < j)
  IN Arranged(list, places, {p \in places \X places : Before(p[1], p[2])})

(* Only the first element of each key stays.                               *)
FirstOfEach(list, key) ==
  Kept(list, {i \in DOMAIN list : \A j \in DOMAIN list : j < i => key[j] # key[i]})

(* Only the first result of each passage stays, ...                        *)
FirstPerPassage(results) == FirstOfEach(results, [i \in DOMAIN results |-> results[i].passage])

(* ... or of those passages that a merge takes for the same.               *)
FirstPerExcerpt(results) ==
  FirstOfEach(results, [i \in DOMAIN results |-> Excerpt[results[i].passage]])

Rank(hits, c) == CHOOSE i \in DOMAIN hits : hits[i] = c

(* Mutant: the constant of the fusion is left out.                         *)
SteepShare(weight, hits, c) == (weight * Scale) \div Rank(hits, c)

Share(weight, hits, c) == (weight * Scale) \div (RrfK + Rank(hits, c))

RrfFuse(vector, bm25) ==
  [c \in ToSet(vector) \cup ToSet(bm25) |->
     (IF c \in ToSet(vector) THEN Share(VectorWeight, vector, c) ELSE 0)
       + (IF c \in ToSet(bm25) THEN Share(Bm25Weight, bm25, c) ELSE 0)]

Rounded(score) == (score * 10000 + Scale \div 2) \div Scale

ByScore(results) == Descending(results, [i \in DOMAIN results |-> results[i].score])

(* The chunks of either search, in the order in which they get a score.    *)
Candidates(vector, bm25) ==
  vector \o Kept(bm25, {i \in DOMAIN bm25 : bm25[i] \notin ToSet(vector)})

Results(chunks, scores) ==
  [i \in DOMAIN chunks |-> [passage |-> Passage[chunks[i]], score |-> Rounded(scores[chunks[i]])]]

(* Mutant: the first chunk found speaks for its passage.                   *)
FusedUnsorted(vector, bm25) ==
  ByScore(FirstPerPassage(Results(Candidates(vector, bm25), RrfFuse(vector, bm25))))

(* The best chunk of a passage speaks for it.                              *)
Fused(vector, bm25) ==
  LET fused == RrfFuse(vector, bm25)
      chunks == Candidates(vector, bm25)
      best == Descending(chunks, [i \in DOMAIN chunks |-> fused[chunks[i]]])
  IN ByScore(FirstPerPassage(Results(best, fused)))

OverviewResults ==
  Take(ByScore(FirstPerPassage([c \in Chunks |-> [passage |-> Passage[c],
                                                  score |-> OverviewScore[Passage[c]]]])),
       TopK)

Merged(primary, secondary) == Take(FirstPerExcerpt(primary \o secondary), TopK)

(* _rerank_api asks one model after the other; a refused key or a request  *)
(* that raises ends the search for one that works.                         *)
RerankApi(statuses, reply) ==
  LET final == {i \in DOMAIN statuses : statuses[i] # "error"} IN
  IF final # {} /\ statuses[Min(final)] = "ok" THEN reply ELSE Nothing

(* Places that do not exist are skipped; a reranker that fails, or names   *)
(* none that exists, changes nothing.                                      *)
Rerank(results, reply) ==
  LET Exists(item) == item.index \in DOMAIN results
      named == IF reply = Nothing THEN << >> ELSE SelectSeq(reply, Exists)
      ranked == [i \in DOMAIN named |-> [passage |-> results[named[i].index].passage,
                                         score |-> named[i].score]]
  IN Take(IF named = << >> THEN results ELSE ranked, TopK)

Search(vector, bm25, overview, reply) ==
  Rerank(Merged(IF overview THEN OverviewResults ELSE << >>, Fused(vector, bm25)), reply)

-----------------------------------------------------------------------------
(* The searches there can be                                               *)

Hits == {hits \in SeqOf(Chunks, CandidateK) : IsInjective(hits)}

RelevanceScores == {1000, 9000}

(* The reranker names each place once, perhaps one that does not exist.    *)
Replies ==
  LET places == {p \in SeqOf(1..(TopK + 1), TopK) : IsInjective(p)} IN
  {RerankApi(statuses, [i \in DOMAIN p |-> [index |-> p[i], score |-> r[i]]]) :
     statuses \in SeqOf({"ok", "denied", "error", "raises"}, 2),
     p \in places, r \in [1..TopK -> RelevanceScores]}

Searches ==
  {[vector |-> vector, bm25 |-> bm25, boosted |-> overview \/ reply # Nothing,
    results |-> Search(vector, bm25, overview, reply)] :
     vector \in Hits, bm25 \in Hits, overview \in BOOLEAN, reply \in Replies}
=============================================================================
