---------------------------- MODULE CragGraphProofs ----------------------------
(***************************************************************************)
(* Proofs about the question-answering graph: what its nodes hand on,      *)
(* whatever the search returns, and then what a search can return.         *)
(***************************************************************************)
EXTENDS CragGraph, FiniteSetTheorems, SequenceTheorems, WellFoundedInduction, TLAPS

IsState(s) ==
  s = [route |-> s.route, documents |-> s.documents, sources |-> s.sources,
       web_fallback |-> s.web_fallback, generated |-> s.generated]

(* What an answer may be generated from.                                   *)
Evidence(s) ==
  /\ ToSet(s.sources) \subseteq ToSet(s.documents)
  /\ \A d \in ToSet(s.documents) : d.kind = "local" => d \in ToSet(s.sources)

Flagged(s, nodes) ==
  /\ s.web_fallback <=> "web_search" \in nodes
  /\ s.web_fallback => \A d \in ToSet(s.documents) : d.kind # "local"

(* No web search has run yet.                                              *)
Inside(s, nodes) == s.web_fallback = FALSE /\ "web_search" \notin nodes

Unsearched(s, nodes) == Inside(s, nodes) /\ s.documents = << >> /\ s.sources = << >>

Inv ==
  /\ IsState(state)
  /\ node = "route_question"            => Unsearched(state, visited)
  /\ node \in {"retrieve", "web_search"} => Unsearched(state, visited)
  /\ node \in {"retrieve", "grade_documents"} => state.route \in {"local", "auto"}
  /\ node = "grade_documents"           => Inside(state, visited) /\ state.sources = state.documents
  /\ node = "direct_answer"             => Inside(state, visited)
  /\ node \in {"generate", "end"}       => Evidence(state) /\ Flagged(state, visited)

LEMMA InitInv == Init => Inv
BY DEF Init, Inv, initial_state, IsState, Unsearched, Inside

LEMMA RouteInv == Inv /\ RouteQuestion => Inv'
<1> SUFFICES ASSUME Inv, RouteQuestion PROVE Inv'
  OBVIOUS
<1>1. PICK intents \in SUBSET Intents :
        Moves("route_question", decide_after_route(choose_route(intents)),
              [state EXCEPT !.route = choose_route(intents)])
  BY DEF RouteQuestion
<1> DEFINE route == choose_route(intents)
<1>2. /\ route = "local" \/ route = "auto" \/ route = "web" \/ route = "model"
      /\ route \in {"local", "auto"} => decide_after_route(route) = "retrieve"
      /\ route = "web" => decide_after_route(route) = "web_search"
      /\ route = "model" => decide_after_route(route) = "direct_answer"
  BY DEF choose_route, decide_after_route
<1>3. /\ Unsearched(state, visited) /\ IsState(state)
      /\ state' = [state EXCEPT !.route = route]
      /\ node' = decide_after_route(route)
      /\ visited' = visited \cup {"route_question"}
  BY <1>1 DEF Inv, Moves
<1> HIDE DEF route
<1>4. IsState(state') /\ Unsearched(state', visited') /\ state'.route = route
  BY <1>3 DEF IsState, Unsearched, Inside
<1>5. QED BY <1>2, <1>3, <1>4 DEF Inv, Unsearched

LEMMA RetrieveInv == Inv /\ Retrieve => Inv'
<1> SUFFICES ASSUME Inv, Retrieve PROVE Inv'
  OBVIOUS
<1>1. PICK hits : Moves("retrieve", "grade_documents",
                        [state EXCEPT !.documents = hits, !.sources = hits])
  BY Zenon DEF Retrieve
<1>2. /\ Unsearched(state, visited) /\ IsState(state) /\ state.route \in {"local", "auto"}
      /\ state' = [state EXCEPT !.documents = hits, !.sources = hits]
      /\ node' = "grade_documents"
      /\ visited' = visited \cup {"retrieve"}
  BY <1>1 DEF Inv, Moves
<1>3. /\ IsState(state') /\ Inside(state', visited') /\ state'.sources = state'.documents
      /\ state'.route \in {"local", "auto"}
  BY <1>2 DEF IsState, Unsearched, Inside
<1>4. QED BY <1>2, <1>3 DEF Inv

LEMMA GradeInv == Inv /\ GradeDocuments => Inv'
<1> SUFFICES ASSUME Inv, GradeDocuments PROVE Inv'
  OBVIOUS
<1>1. PICK convincing \in BOOLEAN, kept \in SUBSET ToSet(state.documents) :
        Moves("grade_documents", decide_to_generate(Grade(state, convincing, kept)),
              Grade(state, convincing, kept))
  BY Zenon DEF GradeDocuments, Convincing
<1> DEFINE graded == Grade(state, convincing, kept)
<1>2. /\ Inside(state, visited) /\ state.sources = state.documents /\ IsState(state)
      /\ state.route \in {"local", "auto"}
      /\ state' = graded
      /\ node' = decide_to_generate(graded)
      /\ visited' = visited \cup {"grade_documents"}
  BY <1>1 DEF Inv, Moves
<1>3. \/ graded = [state EXCEPT !.route = "model"]
      \/ graded = state
      \/ graded = [state EXCEPT !.route = "local"]
      \/ graded = ToModel(state)
  BY <1>1, <1>2 DEF Grade
<1> HIDE DEF graded
<1>4. IsState(graded) /\ Inside(graded, visited') /\ graded.sources = graded.documents
  BY <1>2, <1>3 DEF IsState, Inside, ToModel
<1>5. node' \in {"direct_answer", "generate"}
  BY <1>2, <1>4 DEF decide_to_generate, Inside
<1>6. Evidence(graded) /\ Flagged(graded, visited')
  BY <1>4 DEF Evidence, Flagged, Inside
<1>7. QED BY <1>2, <1>4, <1>5, <1>6 DEF Inv

(* A web search starts from nothing.                                       *)
LEMMA SearchInv ==
  ASSUME Inv, NEW document, document.kind # "local", NEW cited, cited \in {<< >>, <<document>>},
         Moves("web_search", "generate", Searched(state, document, cited, TRUE))
  PROVE  Inv'
<1>1. /\ Unsearched(state, visited) /\ IsState(state)
      /\ state' = Searched(state, document, cited, TRUE)
      /\ node' = "generate"
      /\ visited' = visited \cup {"web_search"}
  BY DEF Inv, Moves
<1>2. Append(<< >>, document) = <<document>> /\ << >> \o cited = cited
  OBVIOUS
<1>3. /\ state'.documents = <<document>> /\ state'.sources = cited
      /\ state'.web_fallback = TRUE /\ IsState(state')
  BY <1>1, <1>2 DEF IsState, Unsearched, Searched
<1>4. ToSet(<<document>>) = {document} /\ ToSet(cited) \subseteq {document}
  BY DEF ToSet
<1>5. Evidence(state') /\ Flagged(state', visited')
  BY <1>1, <1>3, <1>4 DEF Evidence, Flagged
<1>6. QED BY <1>1, <1>3, <1>5 DEF Inv

LEMMA WebSearchInv == Inv /\ WebSearch => Inv'
BY SearchInv DEF WebSearch, WebResult

LEMMA WebSearchFallsBackInv == Inv /\ WebSearchFallsBack => Inv'
BY SearchInv DEF WebSearchFallsBack, ModelText

LEMMA AnswerInv == Inv /\ (DirectAnswer \/ Generate) => Inv'
<1> SUFFICES ASSUME Inv PROVE DirectAnswer \/ Generate => Inv'
  OBVIOUS
<1>1. ASSUME DirectAnswer PROVE Inv'
  <2>1. /\ Inside(state, visited) /\ IsState(state)
        /\ node' = "end" /\ visited' = visited \cup {"direct_answer"}
        /\ state' = [ToModel(state) EXCEPT !.web_fallback = FALSE, !.generated = TRUE]
    BY <1>1 DEF DirectAnswer, Inv, Moves
  <2>2. /\ IsState(state') /\ state'.web_fallback = FALSE
        /\ state'.documents = << >> /\ state'.sources = << >>
    BY <2>1 DEF IsState, ToModel
  <2>3. Evidence(state') /\ Flagged(state', visited')
    BY <2>1, <2>2 DEF Evidence, Flagged, Inside, ToSet
  <2>4. QED BY <2>1, <2>2, <2>3 DEF Inv
<1>2. ASSUME Generate PROVE Inv'
  <2>1. /\ Evidence(state) /\ Flagged(state, visited) /\ IsState(state)
        /\ node' = "end" /\ visited' = visited \cup {"generate"}
        /\ state' = [state EXCEPT !.generated = TRUE]
    BY <1>2 DEF Generate, Inv, Moves
  <2>2. /\ IsState(state') /\ state'.web_fallback = state.web_fallback
        /\ state'.documents = state.documents /\ state'.sources = state.sources
    BY <2>1 DEF IsState
  <2>3. Evidence(state') /\ Flagged(state', visited')
    BY <2>1, <2>2 DEF Evidence, Flagged
  <2>4. QED BY <2>1, <2>2, <2>3 DEF Inv
<1>3. QED BY <1>1, <1>2

LEMMA NextInv == Inv /\ [Next]_vars => Inv'
<1> SUFFICES ASSUME Inv, [Next]_vars PROVE Inv'
  OBVIOUS
<1>1. CASE Retry \/ UNCHANGED vars
  BY <1>1 DEF Retry, vars, Inv
<1>2. CASE Raise
  BY <1>2 DEF Raise, Inv
<1>3. CASE Ask
  BY <1>3 DEF Ask, Inv, initial_state, IsState, Unsearched, Inside
<1>4. QED BY <1>1, <1>2, <1>3, RouteInv, RetrieveInv, GradeInv, WebSearchInv,
             WebSearchFallsBackInv, AnswerInv DEF Next

(* Nodes hand on what an answer needs (GraphState, graph.py:80 on).        *)
THEOREM Invariant == Spec => []Inv
<1>1. QED BY InitInv, NextInv, PTL DEF Spec

(* Whatever is searched, graded or fallen back to, the sources shown with  *)
(* an answer are evidence it was generated from, and cite every local      *)
(* passage in it.                                                          *)
THEOREM AnswersCiteTheirEvidence == Spec => []CitesItsEvidence
<1>1. Inv => CitesItsEvidence
  BY DEF Inv, CitesItsEvidence, Evidence
<1>2. QED BY <1>1, Invariant, PTL

(* An answer is flagged as coming from outside the knowledge base exactly  *)
(* when web_search ran, and is then free of local passages.                *)
THEOREM FallbacksAreFlagged == Spec => []FlagsWebFallback
<1>1. Inv => FlagsWebFallback
  BY DEF Inv, FlagsWebFallback, Flagged
<1>2. QED BY <1>1, Invariant, PTL

-----------------------------------------------------------------------------
(* The lists of Retrieval                                                  *)

(* An order of the places of a list is strict and total.                   *)
Orders(places, order) ==
  /\ \A i \in places : <<i, i>> \notin order
  /\ \A i, j, k \in places : <<i, j>> \in order /\ <<j, k>> \in order => <<i, k>> \in order
  /\ \A i, j \in places : i # j => <<i, j>> \in order \/ <<j, i>> \in order

(* Counting what comes before numbers the places as the order has them.    *)
LEMMA PlacesAreNumbered ==
  ASSUME NEW places, IsFiniteSet(places), NEW order, Orders(places, order),
         NEW place,
         place = [i \in places |-> Cardinality({j \in places : <<j, i>> \in order}) + 1]
  PROVE  /\ Cardinality(places) \in Nat
         /\ \A i \in places : place[i] \in 1..Cardinality(places)
         /\ \A i, j \in places : <<i, j>> \in order => place[i] < place[j]
         /\ \A k \in 1..Cardinality(places) : \E i \in places : place[i] = k
<1> DEFINE N == Cardinality(places)
           Below(i) == {j \in places : <<j, i>> \in order}
<1>1. N \in Nat
  BY FS_CardinalityType
<1>2. ASSUME NEW i \in places
      PROVE  /\ place[i] = Cardinality(Below(i)) + 1
             /\ Cardinality(Below(i)) \in Nat /\ IsFiniteSet(Below(i))
             /\ Cardinality(Below(i)) < N
  <2>1. Below(i) \in SUBSET places /\ Below(i) # places
    BY DEF Orders
  <2>2. /\ IsFiniteSet(Below(i)) /\ Cardinality(Below(i)) <= N
        /\ N = Cardinality(Below(i)) => places = Below(i)
    BY <2>1, FS_Subset
  <2>3. Cardinality(Below(i)) \in Nat
    BY <2>2, FS_CardinalityType
  <2>4. QED BY <1>1, <2>1, <2>2, <2>3
<1>3. \A i \in places : place[i] \in 1..N
  BY <1>1, <1>2
<1>4. ASSUME NEW i \in places, NEW j \in places, <<i, j>> \in order
      PROVE  place[i] < place[j]
  <2>1. Below(i) \in SUBSET Below(j)
    BY <1>4 DEF Orders
  <2>2. i \in Below(j) /\ i \notin Below(i)
    BY <1>4 DEF Orders
  <2> HIDE DEF Below
  <2>3. /\ Cardinality(Below(i)) <= Cardinality(Below(j))
        /\ Cardinality(Below(j)) = Cardinality(Below(i)) => Below(j) = Below(i)
    BY <1>2, <2>1, FS_Subset
  <2>4. QED BY <1>2, <2>2, <2>3
<1>5. ASSUME NEW k \in 1..N, \A i \in places : place[i] # k PROVE FALSE
  <2> DEFINE T == (1..N) \ {k}
  <2>1. IsFiniteSet(1..N) /\ Cardinality(1..N) = N
    BY <1>1, FS_Interval
  <2>2. IsFiniteSet(T) /\ Cardinality(T) = N - 1
    BY <2>1, FS_RemoveElement
  <2>3. place \in [places -> T]
    BY <1>3, <1>5
  <2>4. Cardinality(T) < Cardinality(places)
    BY <1>1, <2>2
  <2>5. PICK i, j \in places : i # j /\ place[i] = place[j]
    <3> HIDE DEF T
    <3>1. QED BY <2>2, <2>3, <2>4, FS_PigeonHole
  <2>6. <<i, j>> \in order \/ <<j, i>> \in order
    BY <2>5 DEF Orders
  <2>7. place[i] \in Nat /\ (place[i] < place[j] \/ place[j] < place[i])
    BY <1>1, <1>3, <1>4, <2>5, <2>6
  <2>8. QED BY <2>5, <2>7
<1>6. QED BY <1>1, <1>3, <1>4, <1>5

(* How a list is made of the elements of another one: at[k] is the place   *)
(* that the k-th element had there.                                        *)
Arranges(new, list, places, order) ==
  \E at \in [1..Cardinality(places) -> places] :
    /\ new = [k \in 1..Cardinality(places) |-> list[at[k]]]
    /\ \A k, l \in 1..Cardinality(places) : k < l => <<at[k], at[l]>> \in order
    /\ \A i \in places : \E k \in 1..Cardinality(places) : at[k] = i

Keeps(new, list, places) ==
  \E m \in Nat : \E at \in [1..m -> places] :
    /\ new = [k \in 1..m |-> list[at[k]]]
    /\ \A k, l \in 1..m : k < l => at[k] < at[l]
    /\ \A i \in places : \E k \in 1..m : at[k] = i

SortedAt(at, m, n, key) ==
  /\ \A k, l \in 1..m : k < l =>
       key[at[k]] > key[at[l]] \/ (key[at[k]] = key[at[l]] /\ at[k] < at[l])
  /\ \A i \in 1..n : \E k \in 1..m : at[k] = i

Sorts(new, list, n, key) ==
  \E m \in Nat : \E at \in [1..m -> 1..n] :
    new = [k \in 1..m |-> list[at[k]]] /\ SortedAt(at, m, n, key)

SelectedAt(at, m, key, n) ==
  /\ \A k, l \in 1..m : k < l => at[k] < at[l]
  /\ \A k \in 1..m, j \in 1..n : key[j] = key[at[k]] => at[k] <= j
  /\ \A i \in 1..n : \E k \in 1..m : key[at[k]] = key[i]

Selects(new, list, n, key) ==
  \E m \in Nat : \E at \in [1..m -> 1..n] :
    new = [k \in 1..m |-> list[at[k]]] /\ SelectedAt(at, m, key, n)

(* Arranged has the elements of its places, in their order.                *)
LEMMA ArrangedLists ==
  ASSUME NEW list, NEW places, IsFiniteSet(places), NEW order, Orders(places, order)
  PROVE  Arranges(Arranged(list, places, order), list, places, order)
<1> DEFINE N == Cardinality(places)
           place == [i \in places |-> Cardinality({j \in places : <<j, i>> \in order}) + 1]
           at == [k \in 1..N |-> CHOOSE i \in places : place[i] = k]
<1>1. Arranged(list, places, order) = [k \in 1..N |-> list[CHOOSE i \in places : place[i] = k]]
  BY DEF Arranged
<1>2. /\ N \in Nat
      /\ \A i \in places : place[i] \in 1..N
      /\ \A i, j \in places : <<i, j>> \in order => place[i] < place[j]
      /\ \A k \in 1..N : \E i \in places : place[i] = k
  <2> HIDE DEF place
  <2>1. place = [i \in places |-> Cardinality({j \in places : <<j, i>> \in order}) + 1]
    BY DEF place
  <2>2. QED BY <2>1, PlacesAreNumbered
<1> HIDE DEF place
<1>3. ASSUME NEW k \in 1..N PROVE at[k] \in places /\ place[at[k]] = k
  <2>1. \E i \in places : place[i] = k
    BY <1>2
  <2>2. (CHOOSE i \in places : place[i] = k) \in places
        /\ place[CHOOSE i \in places : place[i] = k] = k
    BY <2>1
  <2>3. QED BY <2>2
<1>4. Arranged(list, places, order) = [k \in 1..N |-> list[at[k]]]
  BY <1>1
<1>5. at \in [1..N -> places]
  BY <1>3
<1> HIDE DEF at
<1>6. ASSUME NEW k \in 1..N, NEW l \in 1..N, k < l PROVE <<at[k], at[l]>> \in order
  <2>1. at[k] \in places /\ at[l] \in places /\ place[at[k]] < place[at[l]]
    BY <1>2, <1>3, <1>6
  <2>2. at[k] # at[l] /\ <<at[l], at[k]>> \notin order
    BY <1>2, <2>1
  <2>3. QED BY <2>1, <2>2 DEF Orders
<1>7. ASSUME NEW i \in places PROVE \E k \in 1..N : at[k] = i
  <2>1. place[i] \in 1..N /\ at[place[i]] \in places /\ place[at[place[i]]] = place[i]
    BY <1>2, <1>3, <1>7
  <2>2. <<i, at[place[i]]>> \notin order /\ <<at[place[i]], i>> \notin order
    BY <1>2, <2>1
  <2>3. at[place[i]] = i
    BY <1>7, <2>1, <2>2 DEF Orders
  <2>4. QED BY <2>1, <2>3
<1>8. QED BY <1>4, <1>5, <1>6, <1>7 DEF Arranges

(* Kept leaves the order of a list alone.                                  *)
LEMMA KeptLists ==
  ASSUME NEW list, NEW n \in Nat, NEW places \in SUBSET (1..n)
  PROVE  Keeps(Kept(list, places), list, places)
<1> DEFINE order == {p \in places \X places : p[1] < p[2]}
           N == Cardinality(places)
<1>1. \A i, j \in places : <<i, j>> \in order <=> i < j
  OBVIOUS
<1>2. IsFiniteSet(places) /\ N \in Nat
  <2>1. IsFiniteSet(1..n)
    BY FS_Interval
  <2>2. QED BY <2>1, FS_Subset, FS_CardinalityType
<1>3. Kept(list, places) = Arranged(list, places, order)
  BY DEF Kept
<1> HIDE DEF order
<1>4. Orders(places, order)
  BY <1>1 DEF Orders
<1>5. Arranges(Kept(list, places), list, places, order)
  BY <1>2, <1>3, <1>4, ArrangedLists
<1>6. PICK at \in [1..N -> places] :
        /\ Kept(list, places) = [k \in 1..N |-> list[at[k]]]
        /\ \A k, l \in 1..N : k < l => <<at[k], at[l]>> \in order
        /\ \A i \in places : \E k \in 1..N : at[k] = i
  BY <1>5 DEF Arranges
<1>7. \A k, l \in 1..N : k < l => at[k] < at[l]
  BY <1>1, <1>6
<1> HIDE DEF N
<1>8. QED BY <1>2, <1>6, <1>7 DEF Keeps

(* Descending sorts by the keys, and leaves the order of equal ones alone. *)
LEMMA DescendingLists ==
  ASSUME NEW list, NEW n \in Nat, DOMAIN list = 1..n, NEW key, \A i \in 1..n : key[i] \in Int
  PROVE  Sorts(Descending(list, key), list, n, key)
<1> DEFINE Before(i, j) == key[i] > key[j] \/ (key[i] = key[j] /\ i < j)
           order == {p \in (1..n) \X (1..n) : Before(p[1], p[2])}
           N == Cardinality(1..n)
<1>1. \A i, j \in 1..n : <<i, j>> \in order <=> Before(i, j)
  OBVIOUS
<1>2. IsFiniteSet(1..n) /\ N \in Nat
  BY FS_Interval, FS_CardinalityType
<1>3. Descending(list, key) = Arranged(list, 1..n, order)
  BY DEF Descending
<1> HIDE DEF order
<1>4. Orders(1..n, order)
  BY <1>1 DEF Orders
<1>5. Arranges(Descending(list, key), list, 1..n, order)
  BY <1>2, <1>3, <1>4, ArrangedLists
<1>6. PICK at \in [1..N -> 1..n] :
        /\ Descending(list, key) = [k \in 1..N |-> list[at[k]]]
        /\ \A k, l \in 1..N : k < l => <<at[k], at[l]>> \in order
        /\ \A i \in 1..n : \E k \in 1..N : at[k] = i
  BY <1>5 DEF Arranges
<1>7. \A k, l \in 1..N : k < l => Before(at[k], at[l])
  BY <1>1, <1>6
<1> HIDE DEF N
<1>8. QED
  <2> SUFFICES \E m \in Nat : \E pos \in [1..m -> 1..n] :
        /\ Descending(list, key) = [k \in 1..m |-> list[pos[k]]]
        /\ \A k, l \in 1..m : k < l => Before(pos[k], pos[l])
        /\ \A i \in 1..n : \E k \in 1..m : pos[k] = i
    BY DEF Sorts, SortedAt
  <2> HIDE DEF Before
  <2> N \in Nat
    BY <1>2
  <2> WITNESS N \in Nat
  <2> WITNESS at \in [1..N -> 1..n]
  <2> QED BY <1>6, <1>7

(* A set of numbers has a least one.                                       *)
LEMMA LeastNumber ==
  ASSUME NEW S \in SUBSET Nat, S # {}
  PROVE  \E x \in S : \A y \in S : x <= y
<1> DEFINE R == OpToRel(<, Nat)
<1>1. \A y \in Nat, z \in Nat : y < z => <<y, z>> \in R
  BY Zenon DEF OpToRel
<1>2. IsWellFoundedOn(R, Nat)
  BY NatLessThanWellFounded
<1> HIDE DEF R
<1>3. PICK x \in S : \A y \in S : ~ (<<y, x>> \in R)
  BY <1>2, WFMin
<1>4. ASSUME NEW y \in S PROVE x <= y
  <2>1. x \in Nat /\ y \in Nat /\ ~(y < x)
    BY <1>1, <1>3
  <2>2. QED BY <2>1
<1>5. QED BY <1>4

(* FirstOfEach keeps the first element of every key.                       *)
LEMMA FirstsOfLists ==
  ASSUME NEW list, NEW n \in Nat, DOMAIN list = 1..n, NEW key
  PROVE  Selects(FirstOfEach(list, key), list, n, key)
<1> DEFINE First(i) == \A j \in 1..n : j < i => key[j] # key[i]
           places == {i \in 1..n : First(i)}
<1>1. FirstOfEach(list, key) = Kept(list, places)
  BY DEF FirstOfEach
<1>2. places \in SUBSET (1..n)
  OBVIOUS
<1>3. ASSUME NEW i \in 1..n PROVE \E f \in places : key[f] = key[i]
  <2> DEFINE S == {j \in 1..n : key[j] = key[i]}
  <2>1. S \in SUBSET Nat /\ i \in S
    OBVIOUS
  <2>2. PICK f \in S : \A y \in S : f <= y
    <3> HIDE DEF S
    <3>1. QED BY <2>1, LeastNumber
  <2>3. f \in 1..n /\ key[f] = key[i] /\ \A j \in 1..n : j < f => j \notin S
    BY <2>2
  <2>4. First(f)
    BY <2>3
  <2>5. QED BY <2>3, <2>4
<1>4. \A k \in places, j \in 1..n : key[j] = key[k] => k <= j
  OBVIOUS
<1> HIDE DEF places
<1>5. PICK m \in Nat : \E at \in [1..m -> places] :
        /\ FirstOfEach(list, key) = [k \in 1..m |-> list[at[k]]]
        /\ \A k, l \in 1..m : k < l => at[k] < at[l]
        /\ \A i \in places : \E k \in 1..m : at[k] = i
  <2>1. Keeps(FirstOfEach(list, key), list, places)
    BY <1>1, <1>2, KeptLists
  <2>2. QED BY <2>1 DEF Keeps
<1>6. PICK at \in [1..m -> places] :
        /\ FirstOfEach(list, key) = [k \in 1..m |-> list[at[k]]]
        /\ \A k, l \in 1..m : k < l => at[k] < at[l]
        /\ \A i \in places : \E k \in 1..m : at[k] = i
  BY <1>5
<1>7. at \in [1..m -> 1..n]
  BY <1>2, <1>6
<1>8. \A k \in 1..m, j \in 1..n : key[j] = key[at[k]] => at[k] <= j
  BY <1>4, <1>6
<1>9. \A i \in 1..n : \E k \in 1..m : key[at[k]] = key[i]
  <2> TAKE i \in 1..n
  <2>1. PICK f \in places : key[f] = key[i]
    BY <1>3
  <2>2. QED BY <1>6, <2>1
<1>10. QED BY <1>6, <1>7, <1>8, <1>9 DEF Selects, SelectedAt

-----------------------------------------------------------------------------
(* The scores                                                              *)

(* A rank's share is small, and the smaller the further behind it is.      *)
LEMMA Quotients ==
  ASSUME NEW a \in Nat, NEW b \in Nat, 0 < a, a <= b
  PROVE  /\ 100000 \div a \in Nat
         /\ 100000 \div b <= 100000 \div a
         /\ 61 <= a => 100000 \div a <= 1639
<1> DEFINE p == 100000 \div a
           q == 100000 \div b
<1>1. p \in Nat /\ p * a <= 100000 /\ 100000 < (p + 1) * a
  OBVIOUS
<1>2. q \in Nat /\ q * b <= 100000 /\ 100000 < (q + 1) * b
  OBVIOUS
<1> HIDE DEF p, q
<1>3. q <= p
  <2>1. SUFFICES ASSUME p + 1 <= q PROVE FALSE
    BY <1>1, <1>2
  <2>2. (p + 1) * a <= q * a /\ q * a <= q * b
    BY <1>1, <1>2, <2>1
  <2>3. QED BY <1>1, <1>2, <2>2
<1>4. 61 <= a => p <= 1639
  <2>1. SUFFICES ASSUME 61 <= a, 1640 <= p PROVE FALSE
    BY <1>1
  <2>2. 1640 * 61 <= p * 61 /\ p * 61 <= p * a
    BY <1>1, <2>1
  <2>3. QED BY <1>1, <2>2
<1>5. QED BY <1>1, <1>3, <1>4 DEF p, q

LEMMA Ranks ==
  ASSUME NEW hits \in Hits
  PROVE  /\ \E n \in Nat : hits \in [1..n -> Chunks]
         /\ \A c \in ToSet(hits) :
              Rank(hits, c) \in DOMAIN hits /\ hits[Rank(hits, c)] = c /\ Rank(hits, c) \in Nat
         /\ \A i \in DOMAIN hits : Rank(hits, hits[i]) = i /\ hits[i] \in ToSet(hits)
<1>1. PICK n \in Nat : hits \in [1..n -> Chunks]
  BY SearchAssumption DEF Hits, SeqOf
<1>2. \A i, j \in DOMAIN hits : hits[i] = hits[j] => i = j
  BY DEF Hits, IsInjective
<1>3. ASSUME NEW c \in ToSet(hits)
      PROVE  Rank(hits, c) \in DOMAIN hits /\ hits[Rank(hits, c)] = c
  <2>1. \E i \in DOMAIN hits : hits[i] = c
    BY DEF ToSet
  <2>2. QED BY <2>1 DEF Rank
<1>4. \A i \in DOMAIN hits : hits[i] \in ToSet(hits)
  BY DEF ToSet
<1>5. QED BY <1>1, <1>2, <1>3, <1>4

LEMMA Shares ==
  ASSUME NEW hits \in Hits, NEW c \in ToSet(hits)
  PROVE  /\ Share(1, hits, c) \in Nat /\ Share(1, hits, c) <= 1639
         /\ \A d \in ToSet(hits) :
              Rank(hits, c) < Rank(hits, d) => Share(1, hits, d) <= Share(1, hits, c)
<1>1. \A d \in ToSet(hits) : Rank(hits, d) \in Nat /\ 1 <= Rank(hits, d)
  BY Ranks
<1>2. \A d \in ToSet(hits) : Share(1, hits, d) = 100000 \div (60 + Rank(hits, d))
  BY DEF Share, Scale, RrfK
<1>3. Share(1, hits, c) \in Nat /\ Share(1, hits, c) <= 1639
  <2>1. 60 + Rank(hits, c) \in Nat /\ 61 <= 60 + Rank(hits, c)
    BY <1>1
  <2> DEFINE a == 60 + Rank(hits, c)
  <2> HIDE DEF a
  <2>2. a \in Nat /\ 61 <= a
    BY <2>1 DEF a
  <2>3. 100000 \div a \in Nat /\ 100000 \div a <= 1639
    BY <2>2, Quotients
  <2>4. QED BY <1>2, <2>3 DEF a
<1>4. ASSUME NEW d \in ToSet(hits), Rank(hits, c) < Rank(hits, d)
      PROVE  Share(1, hits, d) <= Share(1, hits, c)
  <2> DEFINE a == 60 + Rank(hits, c)
             b == 60 + Rank(hits, d)
  <2>1. a \in Nat /\ b \in Nat /\ 0 < a /\ a <= b
    BY <1>1, <1>4
  <2>2. Share(1, hits, c) = 100000 \div a /\ Share(1, hits, d) = 100000 \div b
    BY <1>2
  <2> HIDE DEF a, b
  <2>3. QED BY <2>1, <2>2, Quotients
<1>5. QED BY <1>3, <1>4

(* b's rank in a search does not beat a's.                                 *)
Above(hits, a, b) == b \in ToSet(hits) => a \in ToSet(hits) /\ Rank(hits, a) < Rank(hits, b)

LEMMA FusedScores ==
  ASSUME NEW vector \in Hits, NEW bm25 \in Hits
  PROVE  LET all == ToSet(vector) \cup ToSet(bm25)
             fused == RrfFuse(vector, bm25) IN
         /\ \A c \in all : fused[c] \in Nat /\ fused[c] <= 3278
         /\ \A a : \A b \in all : Above(vector, a, b) /\ Above(bm25, a, b) =>
              a \in all /\ fused[b] <= fused[a]
<1> DEFINE all == ToSet(vector) \cup ToSet(bm25)
           ShareOf(hits, c) == IF c \in ToSet(hits) THEN Share(1, hits, c) ELSE 0
           fused == RrfFuse(vector, bm25)
<1>1. \A c \in all : fused[c] = ShareOf(vector, c) + ShareOf(bm25, c)
  BY DEF RrfFuse, VectorWeight, Bm25Weight
<1>2. ASSUME NEW hits \in Hits, NEW c
      PROVE  ShareOf(hits, c) \in Nat /\ ShareOf(hits, c) <= 1639
  BY Shares
<1>3. ASSUME NEW hits \in Hits, NEW a, NEW b, Above(hits, a, b)
      PROVE  ShareOf(hits, b) <= ShareOf(hits, a)
  BY <1>2, <1>3, Shares DEF Above
<1> HIDE DEF ShareOf, fused
<1>4. \A c \in all : fused[c] \in Nat /\ fused[c] <= 3278
  <2> TAKE c \in all
  <2>1. /\ ShareOf(vector, c) \in Nat /\ ShareOf(vector, c) <= 1639
        /\ ShareOf(bm25, c) \in Nat /\ ShareOf(bm25, c) <= 1639
    BY <1>2
  <2>2. fused[c] = ShareOf(vector, c) + ShareOf(bm25, c)
    BY <1>1
  <2> HIDE DEF all
  <2>3. QED BY <2>1, <2>2
<1>5. ASSUME NEW b \in all, NEW a, Above(vector, a, b), Above(bm25, a, b)
      PROVE  a \in all /\ fused[b] <= fused[a]
  <2>1. a \in all
    BY <1>5 DEF Above
  <2>2. ShareOf(vector, b) <= ShareOf(vector, a) /\ ShareOf(bm25, b) <= ShareOf(bm25, a)
    BY <1>3, <1>5
  <2>3. /\ ShareOf(vector, a) \in Nat /\ ShareOf(bm25, a) \in Nat
        /\ ShareOf(vector, b) \in Nat /\ ShareOf(bm25, b) \in Nat
    BY <1>2
  <2>4. fused[a] = ShareOf(vector, a) + ShareOf(bm25, a) /\ fused[b] = ShareOf(vector, b) + ShareOf(bm25, b)
    BY <1>1, <2>1
  <2> HIDE DEF all
  <2>5. QED BY <2>1, <2>2, <2>3, <2>4
<1>6. QED BY <1>4, <1>5 DEF fused

LEMMA RoundedScores ==
  /\ \A x \in Nat : x <= 3278 => Rounded(x) \in Nat /\ Rounded(x) <= 328
  /\ \A x, y \in Nat : x <= y => Rounded(x) <= Rounded(y)
<1>1. ASSUME NEW x \in Nat, x <= 3278 PROVE Rounded(x) \in Nat /\ Rounded(x) <= 328
  BY <1>1 DEF Rounded, Scale
<1>2. ASSUME NEW x \in Nat, NEW y \in Nat, x <= y PROVE Rounded(x) <= Rounded(y)
  BY <1>2 DEF Rounded, Scale
<1>3. QED BY <1>1, <1>2

-----------------------------------------------------------------------------
(* The order of the results                                                *)

(* The candidates have a chunk behind every other that is above it.        *)
LEMMA CandidateLists ==
  ASSUME NEW vector \in Hits, NEW bm25 \in Hits
  PROVE  LET list == Candidates(vector, bm25) IN
         \E n \in Nat :
           /\ list = [i \in 1..n |-> list[i]]
           /\ \A i \in 1..n : list[i] \in ToSet(vector) \cup ToSet(bm25)
           /\ \A a : \A j \in 1..n : Above(vector, a, list[j]) /\ Above(bm25, a, list[j]) =>
                \E i \in 1..n : i < j /\ list[i] = a
<1> DEFINE places == {i \in DOMAIN bm25 : bm25[i] \notin ToSet(vector)}
           new == Kept(bm25, places)
           list == Candidates(vector, bm25)
<1>1. PICK nv \in Nat : vector \in [1..nv -> Chunks]
  BY Ranks
<1>2. PICK nb \in Nat : bm25 \in [1..nb -> Chunks]
  BY Ranks
<1>3. Keeps(new, bm25, places)
  <2>1. places \in SUBSET (1..nb)
    BY <1>2
  <2> HIDE DEF places
  <2>2. QED BY <2>1, KeptLists
<1>4. PICK m \in Nat : \E at \in [1..m -> places] :
        /\ new = [k \in 1..m |-> bm25[at[k]]]
        /\ \A k, l \in 1..m : k < l => at[k] < at[l]
        /\ \A i \in places : \E k \in 1..m : at[k] = i
  <2> HIDE DEF places, new
  <2>1. QED BY <1>3 DEF Keeps
<1>5. PICK at \in [1..m -> places] :
        /\ new = [k \in 1..m |-> bm25[at[k]]]
        /\ \A k, l \in 1..m : k < l => at[k] < at[l]
        /\ \A i \in places : \E k \in 1..m : at[k] = i
  BY <1>4
<1>6. /\ vector \in Seq(Chunks) /\ Len(vector) = nv
      /\ new \in Seq(Chunks) /\ Len(new) = m
  <2>1. \A k \in 1..m : at[k] \in 1..nb /\ bm25[at[k]] \in Chunks
    BY <1>2, <1>5
  <2>2. [k \in 1..m |-> bm25[at[k]]] \in [1..m -> Chunks]
    BY <2>1
  <2> HIDE DEF new
  <2>3. new \in [1..m -> Chunks]
    BY <1>5, <2>2
  <2>4. QED BY <1>1, <2>3
<1>7. /\ list = [i \in 1..(nv + m) |-> list[i]]
      /\ \A i \in 1..nv : list[i] = vector[i]
      /\ \A k \in 1..m : list[nv + k] = bm25[at[k]]
  <2>1. list = vector \o new
    BY DEF Candidates
  <2> HIDE DEF new, list
  <2>2. list \in Seq(Chunks) /\ Len(list) = nv + m
    BY <1>6, <2>1, ConcatProperties
  <2>3. \A i \in 1..nv : list[i] = vector[i]
    BY <1>6, <2>1
  <2>4. \A k \in 1..m : list[nv + k] = new[k]
    BY <1>6, <2>1
  <2>5. list = [i \in 1..(nv + m) |-> list[i]]
    BY <2>2
  <2>6. QED BY <1>5, <2>3, <2>4, <2>5
<1> HIDE DEF list, new
<1>8. ASSUME NEW i \in 1..(nv + m)
      PROVE  \/ i \in 1..nv /\ list[i] = vector[i] /\ vector[i] \in ToSet(vector)
             \/ \E k \in 1..m : /\ i = nv + k /\ list[i] = bm25[at[k]] /\ at[k] \in DOMAIN bm25
                                /\ bm25[at[k]] \notin ToSet(vector)
                                /\ bm25[at[k]] \in ToSet(bm25)
  <2>1. CASE i <= nv
    <3>1. i \in 1..nv /\ i \in DOMAIN vector
      BY <1>1, <2>1
    <3>2. QED BY <1>7, <3>1, Ranks
  <2>2. CASE ~(i <= nv)
    <3> DEFINE k == i - nv
    <3>1. k \in 1..m /\ i = nv + k
      BY <2>2
    <3>2. at[k] \in DOMAIN bm25 /\ bm25[at[k]] \notin ToSet(vector)
      BY <1>5, <3>1
    <3>3. list[i] = bm25[at[k]] /\ bm25[at[k]] \in ToSet(bm25)
      BY <1>7, <3>1, <3>2, Ranks
    <3>4. QED BY <3>1, <3>2, <3>3
  <2>3. QED BY <2>1, <2>2
<1>9. \A i \in 1..(nv + m) : list[i] \in ToSet(vector) \cup ToSet(bm25)
  BY <1>8
<1>10. ASSUME NEW a, NEW j \in 1..(nv + m), Above(vector, a, list[j]), Above(bm25, a, list[j])
       PROVE  \E i \in 1..(nv + m) : i < j /\ list[i] = a
  <2>1. CASE j \in 1..nv /\ list[j] = vector[j] /\ vector[j] \in ToSet(vector)
    <3>1. j \in DOMAIN vector /\ Rank(vector, vector[j]) = j
      BY <1>1, <2>1, Ranks
    <3>2. a \in ToSet(vector) /\ Rank(vector, a) < j
      BY <1>10, <2>1, <3>1 DEF Above
    <3>3. Rank(vector, a) \in 1..nv /\ vector[Rank(vector, a)] = a
      BY <1>1, <3>2, Ranks
    <3>4. \E i \in 1..nv : i < j /\ vector[i] = a
      BY <3>2, <3>3
    <3>5. PICK i \in 1..nv : i < j /\ vector[i] = a
      BY <3>4
    <3>6. list[i] = a
      BY <1>7, <3>5
    <3>7. i \in 1..(nv + m)
      OBVIOUS
    <3>8. QED BY <3>5, <3>6, <3>7
  <2>2. ASSUME NEW k \in 1..m, j = nv + k, list[j] = bm25[at[k]], at[k] \in DOMAIN bm25,
               bm25[at[k]] \notin ToSet(vector), bm25[at[k]] \in ToSet(bm25)
        PROVE  \E i \in 1..(nv + m) : i < j /\ list[i] = a
    <3>1. a \in ToSet(bm25) /\ Rank(bm25, a) < at[k]
      BY <1>10, <2>2, Ranks DEF Above
    <3>2. CASE a \in ToSet(vector)
      <4>1. Rank(vector, a) \in 1..nv /\ vector[Rank(vector, a)] = a
        BY <1>1, <3>2, Ranks
      <4>2. \E i \in 1..nv : vector[i] = a
        BY <4>1
      <4>3. PICK i \in 1..nv : vector[i] = a
        BY <4>2
      <4>4. list[i] = a
        BY <1>7, <4>3
      <4>5. i \in 1..(nv + m) /\ i < j
        BY <2>2
      <4>6. QED BY <4>4, <4>5
    <3>3. CASE a \notin ToSet(vector)
      <4>1. Rank(bm25, a) \in places /\ bm25[Rank(bm25, a)] = a
        BY <3>1, <3>3, Ranks
      <4>2. PICK l \in 1..m : at[l] = Rank(bm25, a)
        BY <1>5, <4>1
      <4>3. at[l] < at[k] /\ at[l] \in Nat /\ at[k] \in Nat
        BY <1>2, <1>5, <2>2, <3>1, <4>2
      <4>4. l < k
        <5>1. SUFFICES ASSUME k < l \/ k = l PROVE FALSE
          OBVIOUS
        <5>2. QED BY <1>5, <4>3, <5>1
      <4>5. nv + l \in 1..(nv + m) /\ nv + l < j
        BY <2>2, <4>4
      <4>6. list[nv + l] = a
        BY <1>7, <4>1, <4>2
      <4>7. QED BY <4>5, <4>6
    <3>4. QED BY <3>2, <3>3
  <2>3. QED BY <1>8, <2>1, <2>2
<1>11. QED BY <1>7, <1>9, <1>10 DEF list

(* Scores as fusion gives them, the best first.                            *)
Small(score) == score \in Nat /\ score <= 328

Ranked(list, n) ==
  /\ list = [i \in 1..n |-> list[i]]
  /\ \A i \in 1..n : Small(list[i].score)
  /\ \A i, j \in 1..n : i < j => list[j].score <= list[i].score

Single(list, n) ==
  \A i, j \in 1..n : list[i].passage = list[j].passage => i = j

(* q does not come before p.                                               *)
Leads(list, n, p, q) ==
  \A j \in 1..n : list[j].passage = q => \E i \in 1..n : i < j /\ list[i].passage = p

(* Every chunk of q that was found is below one of p in both searches.     *)
Beaten(vector, bm25, p, q) ==
  \A b \in ToSet(vector) \cup ToSet(bm25) : Passage[b] = q =>
    \E a : Passage[a] = p /\ Above(vector, a, b) /\ Above(bm25, a, b)

Ordered(list, n, vector, bm25) ==
  /\ Ranked(list, n)
  /\ \A p, q : Beaten(vector, bm25, p, q) => Leads(list, n, p, q)

(* What was before another with no larger key stays before it.             *)
Stays(at, m, n, key) ==
  \A l \in 1..m, i \in 1..n :
    i < at[l] /\ key[at[l]] <= key[i] => \E k \in 1..m : k < l /\ at[k] = i

LEMMA SortedPlaces ==
  ASSUME NEW n \in Nat, NEW m \in Nat, NEW key, \A i \in 1..n : key[i] \in Nat,
         NEW at \in [1..m -> 1..n], SortedAt(at, m, n, key)
  PROVE  Stays(at, m, n, key)
<1> SUFFICES ASSUME NEW l \in 1..m, NEW i \in 1..n, i < at[l], key[at[l]] <= key[i]
             PROVE  \E k \in 1..m : k < l /\ at[k] = i
  BY DEF Stays
<1>1. PICK k \in 1..m : at[k] = i
  BY DEF SortedAt
<1>2. key[i] \in Nat /\ key[at[l]] \in Nat /\ at[l] \in Nat /\ i \in Nat
  OBVIOUS
<1>3. ~(l < k)
  <2>1. SUFFICES ASSUME l < k PROVE FALSE
    OBVIOUS
  <2>2. key[at[l]] > key[i] \/ (key[at[l]] = key[i] /\ at[l] < i)
    BY <1>1, <2>1 DEF SortedAt
  <2>3. QED BY <1>2, <2>2
<1>4. k # l
  BY <1>1, <1>2
<1>5. QED BY <1>1, <1>3, <1>4

(* The fused results are in the order of their scores, and none is before  *)
(* one that beats it.                                                      *)
LEMMA FusedResults ==
  ASSUME NEW vector \in Hits, NEW bm25 \in Hits
  PROVE  LET fused == RrfFuse(vector, bm25)
             chunks == Candidates(vector, bm25)
             best == Descending(chunks, [i \in DOMAIN chunks |-> fused[chunks[i]]])
         IN \E n \in Nat : Ordered(Results(best, fused), n, vector, bm25)
<1> DEFINE all == ToSet(vector) \cup ToSet(bm25)
           fused == RrfFuse(vector, bm25)
           chunks == Candidates(vector, bm25)
           key == [i \in DOMAIN chunks |-> fused[chunks[i]]]
           best == Descending(chunks, key)
           results == Results(best, fused)
<1>1. /\ \A c \in all : fused[c] \in Nat /\ fused[c] <= 3278
      /\ \A a : \A b \in all : Above(vector, a, b) /\ Above(bm25, a, b) =>
           a \in all /\ fused[b] <= fused[a]
  BY FusedScores
<1>2. PICK n \in Nat :
        /\ chunks = [i \in 1..n |-> chunks[i]]
        /\ \A i \in 1..n : chunks[i] \in all
        /\ \A a : \A j \in 1..n : Above(vector, a, chunks[j]) /\ Above(bm25, a, chunks[j]) =>
             \E i \in 1..n : i < j /\ chunks[i] = a
  BY CandidateLists
<1> HIDE DEF all, fused, chunks
<1>3. DOMAIN chunks = 1..n /\ \A i \in 1..n : key[i] = fused[chunks[i]] /\ key[i] \in Nat
  BY <1>1, <1>2
<1> HIDE DEF key
<1>4. Sorts(best, chunks, n, key)
  BY <1>3, DescendingLists
<1> HIDE DEF best
<1>5. PICK m \in Nat : \E at \in [1..m -> 1..n] :
        best = [k \in 1..m |-> chunks[at[k]]] /\ SortedAt(at, m, n, key)
  BY <1>4 DEF Sorts
<1>6. PICK at \in [1..m -> 1..n] :
        best = [k \in 1..m |-> chunks[at[k]]] /\ SortedAt(at, m, n, key)
  BY <1>5
<1>7. results = [k \in 1..m |-> [passage |-> Passage[chunks[at[k]]],
                                 score |-> Rounded(fused[chunks[at[k]]])]]
  BY <1>6 DEF Results
<1> HIDE DEF results
<1>8. \A k \in 1..m : /\ results[k].passage = Passage[chunks[at[k]]]
                      /\ results[k].score = Rounded(key[at[k]])
                      /\ chunks[at[k]] \in all /\ key[at[k]] = fused[chunks[at[k]]]
                      /\ key[at[k]] \in Nat /\ key[at[k]] <= 3278
  BY <1>1, <1>2, <1>3, <1>7
<1>9. Ranked(results, m)
  <2>1. results = [k \in 1..m |-> results[k]]
    BY <1>7
  <2>2. ASSUME NEW k \in 1..m PROVE Small(results[k].score)
    <3> DEFINE score == key[at[k]]
    <3>1. results[k].score = Rounded(score) /\ score \in Nat /\ score <= 3278
      BY <1>8
    <3> HIDE DEF score
    <3>2. Small(Rounded(score))
      BY <3>1, RoundedScores DEF Small
    <3>3. QED BY <3>1, <3>2
  <2>3. ASSUME NEW k \in 1..m, NEW l \in 1..m, k < l PROVE results[l].score <= results[k].score
    <3>1. key[at[k]] > key[at[l]] \/ key[at[k]] = key[at[l]]
      BY <1>6, <2>3 DEF SortedAt
    <3>2. key[at[k]] \in Nat /\ key[at[l]] \in Nat
      BY <1>8
    <3>3. key[at[l]] <= key[at[k]]
      BY <3>1, <3>2
    <3>4. Rounded(key[at[l]]) <= Rounded(key[at[k]])
      BY <3>2, <3>3, RoundedScores
    <3>5. QED BY <1>8, <3>4
  <2>4. QED BY <2>1, <2>2, <2>3 DEF Ranked
<1>10. ASSUME NEW p, NEW q, Beaten(vector, bm25, p, q), NEW l \in 1..m, results[l].passage = q
       PROVE  \E k \in 1..m : k < l /\ results[k].passage = p
  <2> DEFINE b == chunks[at[l]]
  <2>1. b \in all /\ Passage[b] = q
    BY <1>8, <1>10
  <2> HIDE DEF b
  <2>2. PICK a : Passage[a] = p /\ Above(vector, a, b) /\ Above(bm25, a, b)
    BY <1>10, <2>1 DEF Beaten, all
  <2>3. a \in all /\ fused[b] <= fused[a]
    BY <1>1, <2>1, <2>2
  <2>4. PICK i \in 1..n : i < at[l] /\ chunks[i] = a
    BY <1>2, <1>6, <2>2 DEF b
  <2>5. key[at[l]] <= key[i]
    BY <1>3, <1>8, <2>3, <2>4 DEF b
  <2>6. PICK k \in 1..m : k < l /\ at[k] = i
    <3>1. \A x \in 1..n : key[x] \in Nat
      BY <1>3
    <3>2. Stays(at, m, n, key)
      BY <1>6, <3>1, SortedPlaces
    <3>3. QED BY <2>4, <2>5, <3>2 DEF Stays
  <2>7. results[k].passage = p
    BY <1>8, <2>2, <2>4, <2>6
  <2>8. QED BY <2>6, <2>7
<1>11. Ordered(results, m, vector, bm25)
  BY <1>9, <1>10 DEF Ordered, Leads
<1>12. QED BY <1>11 DEF results, best, key, chunks, fused

(* A part of a list is in the order of its scores if the list is.          *)
LEMMA PartsAreRanked ==
  ASSUME NEW list, NEW n \in Nat, Ranked(list, n), NEW m \in Nat, NEW at \in [1..m -> 1..n],
         \A k, l \in 1..m : k < l => at[k] < at[l],
         NEW part, part = [k \in 1..m |-> list[at[k]]]
  PROVE  Ranked(part, m)
<1>1. part = [k \in 1..m |-> part[k]] /\ \A k \in 1..m : part[k] = list[at[k]]
  OBVIOUS
<1>2. \A k \in 1..m : Small(part[k].score)
  BY <1>1 DEF Ranked
<1>3. \A k, l \in 1..m : k < l => part[l].score <= part[k].score
  <2> TAKE k, l \in 1..m
  <2> HAVE k < l
  <2>1. at[k] \in 1..n /\ at[l] \in 1..n /\ at[k] < at[l]
    OBVIOUS
  <2>2. list[at[l]].score <= list[at[k]].score
    BY <2>1 DEF Ranked
  <2>3. QED BY <1>1, <2>2
<1>4. QED BY <1>1, <1>2, <1>3 DEF Ranked

(* What comes before an element that stays has a first one of its key that *)
(* does, too.                                                              *)
FirstsLead(at, m, key, n) ==
  \A l \in 1..m, i \in 1..n : i < at[l] => \E k \in 1..m : k < l /\ key[at[k]] = key[i]

LEMMA FirstsComeFirst ==
  ASSUME NEW n \in Nat, NEW m \in Nat, NEW key, NEW at \in [1..m -> 1..n],
         SelectedAt(at, m, key, n)
  PROVE  FirstsLead(at, m, key, n)
<1> SUFFICES ASSUME NEW l \in 1..m, NEW i \in 1..n, i < at[l]
             PROVE  \E k \in 1..m : k < l /\ key[at[k]] = key[i]
  BY DEF FirstsLead
<1>1. PICK k \in 1..m : key[at[k]] = key[i]
  BY DEF SelectedAt
<1>2. at[k] <= i
  BY <1>1 DEF SelectedAt
<1>3. at[k] \in Nat /\ at[l] \in Nat
  OBVIOUS
<1>4. at[k] < at[l]
  BY <1>2, <1>3
<1>5. \A x, y \in 1..m : x < y => at[x] < at[y]
  BY DEF SelectedAt
<1>6. ~(l < k) /\ l # k
  BY <1>3, <1>4, <1>5
<1>7. QED BY <1>1, <1>6

(* The first results of the passages keep the order, ...                   *)
LEMMA FirstsAreOrdered ==
  ASSUME NEW vector, NEW bm25, NEW list, NEW n \in Nat, Ordered(list, n, vector, bm25)
  PROVE  \E m \in Nat : /\ Ordered(FirstPerPassage(list), m, vector, bm25)
                        /\ Single(FirstPerPassage(list), m)
<1> DEFINE key == [i \in DOMAIN list |-> list[i].passage]
           firsts == FirstOfEach(list, key)
<1>1. Ranked(list, n) /\ DOMAIN list = 1..n
  BY DEF Ordered, Ranked
<1>2. firsts = FirstPerPassage(list) /\ \A i \in 1..n : key[i] = list[i].passage
  BY <1>1 DEF FirstPerPassage
<1> HIDE DEF key
<1>3. Selects(firsts, list, n, key)
  BY <1>1, FirstsOfLists
<1> HIDE DEF firsts
<1>4. PICK m \in Nat : \E at \in [1..m -> 1..n] :
        firsts = [k \in 1..m |-> list[at[k]]] /\ SelectedAt(at, m, key, n)
  BY <1>3 DEF Selects
<1>5. PICK at \in [1..m -> 1..n] :
        firsts = [k \in 1..m |-> list[at[k]]] /\ SelectedAt(at, m, key, n)
  BY <1>4
<1>6. \A k \in 1..m : firsts[k] = list[at[k]] /\ firsts[k].passage = key[at[k]]
  BY <1>2, <1>5
<1>7. \A k, l \in 1..m : k < l => at[k] < at[l]
  BY <1>5 DEF SelectedAt
<1>8. Ranked(firsts, m)
  BY <1>1, <1>5, <1>7, PartsAreRanked
<1>9. Single(firsts, m)
  <2> SUFFICES ASSUME NEW k \in 1..m, NEW l \in 1..m, firsts[k].passage = firsts[l].passage
               PROVE  k = l
    BY DEF Single
  <2>1. key[at[k]] = key[at[l]]
    BY <1>6
  <2>2. at[k] \in 1..n /\ at[l] \in 1..n
    OBVIOUS
  <2>3. at[k] <= at[l] /\ at[l] <= at[k]
    BY <1>5, <2>1, <2>2 DEF SelectedAt
  <2>4. ~(k < l) /\ ~(l < k)
    BY <1>7, <2>2, <2>3
  <2>5. QED BY <2>4
<1>10. ASSUME NEW p, NEW q, Leads(list, n, p, q) PROVE Leads(firsts, m, p, q)
  <2> SUFFICES ASSUME NEW l \in 1..m, firsts[l].passage = q
               PROVE  \E k \in 1..m : k < l /\ firsts[k].passage = p
    BY DEF Leads
  <2>1. PICK i \in 1..n : i < at[l] /\ list[i].passage = p
    BY <1>6, <1>10 DEF Leads
  <2>2. FirstsLead(at, m, key, n)
    BY <1>5, FirstsComeFirst
  <2>3. PICK k \in 1..m : k < l /\ key[at[k]] = key[i]
    BY <2>1, <2>2 DEF FirstsLead
  <2>4. QED BY <1>2, <1>6, <2>1, <2>3
<1>11. Ordered(firsts, m, vector, bm25)
  BY <1>8, <1>10 DEF Ordered
<1>12. QED BY <1>2, <1>9, <1>11

(* ... so does sorting them again, ...                                     *)
LEMMA SortedAreOrdered ==
  ASSUME NEW vector, NEW bm25, NEW list, NEW n \in Nat, Ordered(list, n, vector, bm25),
         Single(list, n)
  PROVE  \E m \in Nat : Ordered(ByScore(list), m, vector, bm25) /\ Single(ByScore(list), m)
<1> DEFINE sorted == ByScore(list)
           key == [i \in DOMAIN list |-> list[i].score]
<1>1. Ranked(list, n) /\ DOMAIN list = 1..n
  BY DEF Ordered, Ranked
<1>2. \A i \in 1..n : key[i] = list[i].score /\ key[i] \in Nat
  BY <1>1 DEF Ranked, Small
<1>3. sorted = Descending(list, key)
  BY DEF ByScore
<1> HIDE DEF sorted, key
<1>4. Sorts(sorted, list, n, key)
  BY <1>1, <1>2, <1>3, DescendingLists
<1>5. PICK m \in Nat : \E at \in [1..m -> 1..n] :
        sorted = [k \in 1..m |-> list[at[k]]] /\ SortedAt(at, m, n, key)
  BY <1>4 DEF Sorts
<1>6. PICK at \in [1..m -> 1..n] :
        sorted = [k \in 1..m |-> list[at[k]]] /\ SortedAt(at, m, n, key)
  BY <1>5
<1>7. sorted = [k \in 1..m |-> sorted[k]] /\ \A k \in 1..m : sorted[k] = list[at[k]]
  BY <1>6
<1>8. SortedAt(at, m, n, key)
  BY <1>6
<1>9. Stays(at, m, n, key)
  BY <1>2, <1>8, SortedPlaces
<1>10. \A k, l \in 1..m : k < l => at[k] # at[l] /\ key[at[l]] <= key[at[k]]
  <2> TAKE k, l \in 1..m
  <2> HAVE k < l
  <2>1. key[at[k]] > key[at[l]] \/ (key[at[k]] = key[at[l]] /\ at[k] < at[l])
    BY <1>8 DEF SortedAt
  <2>2. /\ key[at[k]] \in Nat /\ key[at[l]] \in Nat
        /\ at[k] \in Nat /\ at[l] \in Nat
    BY <1>2
  <2>3. QED BY <2>1, <2>2
<1>11. Ranked(sorted, m)
  <2>1. \A k \in 1..m : Small(sorted[k].score)
    BY <1>1, <1>7 DEF Ranked
  <2>2. \A k, l \in 1..m : k < l => sorted[l].score <= sorted[k].score
    BY <1>2, <1>7, <1>10
  <2>3. QED BY <1>7, <2>1, <2>2 DEF Ranked
<1>12. Single(sorted, m)
  <2> SUFFICES ASSUME NEW k \in 1..m, NEW l \in 1..m, sorted[k].passage = sorted[l].passage
               PROVE  k = l
    BY DEF Single
  <2>1. at[k] = at[l]
    BY <1>7 DEF Single
  <2>2. ~(k < l) /\ ~(l < k)
    BY <1>10, <2>1
  <2>3. QED BY <2>2
<1>13. ASSUME NEW p, NEW q, Leads(list, n, p, q) PROVE Leads(sorted, m, p, q)
  <2> SUFFICES ASSUME NEW l \in 1..m, sorted[l].passage = q
               PROVE  \E k \in 1..m : k < l /\ sorted[k].passage = p
    BY DEF Leads
  <2>1. PICK i \in 1..n : i < at[l] /\ list[i].passage = p
    BY <1>7, <1>13 DEF Leads
  <2>2. key[at[l]] <= key[i]
    BY <1>1, <1>2, <2>1 DEF Ranked
  <2>3. PICK k \in 1..m : k < l /\ at[k] = i
    BY <1>9, <2>1, <2>2 DEF Stays
  <2>4. QED BY <1>7, <2>1, <2>3
<1>14. Ordered(sorted, m, vector, bm25)
  BY <1>11, <1>13 DEF Ordered
<1>15. QED BY <1>12, <1>14 DEF sorted

(* q does not come before p, or what is taken for p.                       *)
Stands(list, n, p, q) ==
  \A j \in 1..n : list[j].passage = q =>
    \E i \in 1..n : i < j /\ Excerpt[list[i].passage] = Excerpt[p]

Merges(list, n, vector, bm25) ==
  /\ Ranked(list, n)
  /\ \A p, q : Beaten(vector, bm25, p, q) => Stands(list, n, p, q)

(* ... merging leaves another in the place of a passage that begins alike, *)
LEMMA MergedAreOrdered ==
  ASSUME NEW vector, NEW bm25, NEW list, NEW n \in Nat, Ordered(list, n, vector, bm25),
         Single(list, n)
  PROVE  \E m \in Nat : /\ Merges(FirstPerExcerpt(list), m, vector, bm25)
                        /\ Single(FirstPerExcerpt(list), m)
<1> DEFINE key == [i \in DOMAIN list |-> Excerpt[list[i].passage]]
           merged == FirstOfEach(list, key)
<1>1. Ranked(list, n) /\ DOMAIN list = 1..n
  BY DEF Ordered, Ranked
<1>2. merged = FirstPerExcerpt(list) /\ \A i \in 1..n : key[i] = Excerpt[list[i].passage]
  BY <1>1 DEF FirstPerExcerpt
<1> HIDE DEF key
<1>3. Selects(merged, list, n, key)
  BY <1>1, FirstsOfLists
<1> HIDE DEF merged
<1>4. PICK m \in Nat : \E at \in [1..m -> 1..n] :
        merged = [k \in 1..m |-> list[at[k]]] /\ SelectedAt(at, m, key, n)
  BY <1>3 DEF Selects
<1>5. PICK at \in [1..m -> 1..n] :
        merged = [k \in 1..m |-> list[at[k]]] /\ SelectedAt(at, m, key, n)
  BY <1>4
<1>6. \A k \in 1..m : merged[k] = list[at[k]] /\ at[k] \in 1..n
  BY <1>5
<1>7. \A k, l \in 1..m : k < l => at[k] < at[l]
  BY <1>5 DEF SelectedAt
<1>8. Ranked(merged, m)
  BY <1>1, <1>5, <1>7, PartsAreRanked
<1>9. Single(merged, m)
  <2> SUFFICES ASSUME NEW k \in 1..m, NEW l \in 1..m, merged[k].passage = merged[l].passage
               PROVE  k = l
    BY DEF Single
  <2>1. at[k] = at[l]
    BY <1>6 DEF Single
  <2>2. ~(k < l) /\ ~(l < k)
    BY <1>6, <1>7, <2>1
  <2>3. QED BY <2>2
<1>10. ASSUME NEW p, NEW q, Leads(list, n, p, q) PROVE Stands(merged, m, p, q)
  <2> SUFFICES ASSUME NEW l \in 1..m, merged[l].passage = q
               PROVE  \E k \in 1..m : k < l /\ Excerpt[merged[k].passage] = Excerpt[p]
    BY DEF Stands
  <2>1. PICK i \in 1..n : i < at[l] /\ list[i].passage = p
    BY <1>6, <1>10 DEF Leads
  <2>2. FirstsLead(at, m, key, n)
    BY <1>5, FirstsComeFirst
  <2>3. PICK k \in 1..m : k < l /\ key[at[k]] = key[i]
    BY <2>1, <2>2 DEF FirstsLead
  <2>4. QED BY <1>2, <1>6, <2>1, <2>3
<1>11. Merges(merged, m, vector, bm25)
  BY <1>8, <1>10 DEF Ordered, Merges
<1>12. QED BY <1>2, <1>9, <1>11

(* ... and cutting the list changes nothing about what stays.              *)
LEMMA CutsAreOrdered ==
  ASSUME NEW vector, NEW bm25, NEW list, NEW n \in Nat, Merges(list, n, vector, bm25),
         NEW k \in Nat, Single(list, n)
  PROVE  \E m \in Nat : Merges(Take(list, k), m, vector, bm25) /\ Single(Take(list, k), m)
<1> DEFINE m == IF n < k THEN n ELSE k
           cut == Take(list, k)
<1>1. Ranked(list, n)
  BY DEF Merges
<1>2. m \in Nat /\ m <= n
  OBVIOUS
<1>3. cut = [i \in 1..m |-> cut[i]] /\ \A i \in 1..m : cut[i] = list[i]
  <2>1. list = [i \in 1..n |-> list[i]]
    BY <1>1 DEF Ranked
  <2> DEFINE S == {list[i] : i \in 1..n}
  <2>2. list \in [1..n -> S]
    BY <2>1
  <2> HIDE DEF S
  <2>3. list \in Seq(S) /\ Len(list) = n
    BY <2>2
  <2>4. cut = SubSeq(list, 1, m)
    BY <2>3 DEF Take
  <2> HIDE DEF m, cut
  <2>5. SubSeq(list, 1, m) = [i \in 1..m |-> list[i]]
    BY <1>2, <2>3
  <2>6. QED BY <2>4, <2>5
<1> HIDE DEF m, cut
<1>4. Ranked(cut, m)
  <2>1. \A i \in 1..m : i \in 1..n
    BY <1>2
  <2>2. \A i \in 1..m : Small(cut[i].score)
    BY <1>1, <1>3, <2>1 DEF Ranked
  <2>3. \A i, j \in 1..m : i < j => cut[j].score <= cut[i].score
    BY <1>1, <1>3, <2>1 DEF Ranked
  <2>4. QED BY <1>3, <2>2, <2>3 DEF Ranked
<1>5. Single(cut, m)
  BY <1>2, <1>3 DEF Single
<1>6. ASSUME NEW p, NEW q, Stands(list, n, p, q) PROVE Stands(cut, m, p, q)
  <2> SUFFICES ASSUME NEW l \in 1..m, cut[l].passage = q
               PROVE  \E i \in 1..m : i < l /\ Excerpt[cut[i].passage] = Excerpt[p]
    BY DEF Stands
  <2>1. l \in 1..n /\ list[l].passage = q
    BY <1>2, <1>3, <1>6
  <2>2. PICK i \in 1..n : i < l /\ Excerpt[list[i].passage] = Excerpt[p]
    BY <1>6, <2>1 DEF Stands
  <2>3. i \in 1..m
    BY <1>2, <2>2
  <2>4. QED BY <1>3, <2>2, <2>3
<1>7. Merges(cut, m, vector, bm25)
  BY <1>4, <1>6 DEF Merges
<1>8. QED BY <1>2, <1>5, <1>7 DEF cut

(* A search that is neither an overview nor reranked: fusion, a merge that *)
(* has nothing else to merge with, then cuts.                              *)
LEMMA PlainSearches ==
  ASSUME NEW search \in Searches, ~search.boosted
  PROVE  \E n \in Nat : /\ Merges(search.results, n, search.vector, search.bm25)
                        /\ Single(search.results, n)
<1>1. PICK vector \in Hits, bm25 \in Hits, overview \in BOOLEAN, reply \in Replies :
        search = [vector |-> vector, bm25 |-> bm25, boosted |-> overview \/ reply # Nothing,
                  results |-> Search(vector, bm25, overview, reply)]
  BY DEF Searches
<1>2. overview = FALSE /\ reply = Nothing
  BY <1>1
<1>3. /\ search.vector = vector /\ search.bm25 = bm25
      /\ search.results = Search(vector, bm25, FALSE, Nothing)
  BY <1>1, <1>2
<1> DEFINE fused == RrfFuse(vector, bm25)
           chunks == Candidates(vector, bm25)
           raw == Results(Descending(chunks, [i \in DOMAIN chunks |-> fused[chunks[i]]]), fused)
           firsts == FirstPerPassage(raw)
           sorted == ByScore(firsts)
           again == FirstPerExcerpt(sorted)
           merged == Take(again, TopK)
<1>4. search.results = Take(Take(FirstPerExcerpt(<< >> \o sorted), TopK), TopK)
  BY <1>3 DEF Search, Rerank, Merged, Fused
<1>5. \E n \in Nat : Ordered(raw, n, vector, bm25)
  BY FusedResults
<1> HIDE DEF raw
<1>6. \E n \in Nat : Ordered(firsts, n, vector, bm25) /\ Single(firsts, n)
  BY <1>5, FirstsAreOrdered
<1> HIDE DEF firsts
<1>7. \E n \in Nat : Ordered(sorted, n, vector, bm25) /\ Single(sorted, n)
  BY <1>6, SortedAreOrdered
<1> HIDE DEF sorted
<1>8. << >> \o sorted = sorted
  <2>1. PICK n \in Nat : sorted = [i \in 1..n |-> sorted[i]]
    BY <1>7 DEF Ordered, Ranked
  <2> DEFINE S == {sorted[i] : i \in 1..n}
  <2>2. sorted \in [1..n -> S]
    BY <2>1
  <2> HIDE DEF S
  <2>3. sorted \in Seq(S)
    BY <2>2
  <2>4. QED BY <2>3, ConcatEmptySeq
<1>9. \E n \in Nat : Merges(again, n, vector, bm25) /\ Single(again, n)
  BY <1>7, MergedAreOrdered
<1> HIDE DEF again
<1>10. TopK \in Nat
  BY SearchAssumption
<1>11. \E n \in Nat : Merges(merged, n, vector, bm25) /\ Single(merged, n)
  BY <1>9, <1>10, CutsAreOrdered
<1>12. search.results = Take(merged, TopK)
  BY <1>4, <1>8 DEF again
<1> HIDE DEF merged
<1>13. \E n \in Nat : /\ Merges(Take(merged, TopK), n, vector, bm25)
                     /\ Single(Take(merged, TopK), n)
  BY <1>10, <1>11, CutsAreOrdered
<1>14. QED BY <1>3, <1>12, <1>13

-----------------------------------------------------------------------------
(* The graph around a search                                               *)

FoundInv ==
  found # Nothing =>
    /\ node = "grade_documents"
    /\ found \in Searches
    /\ state.documents = [i \in DOMAIN found.results |-> Local(found.results[i].passage)]

(* What is graded is what the search came upon, in its order               *)
(* (retrieve_documents, graph.py, hands the hits to grade_documents).      *)
THEOREM HitsAreFound == Spec => []FoundInv
<1>1. Init => FoundInv
  BY DEF Init, FoundInv
<1>2. Inv /\ FoundInv /\ [Next]_vars => FoundInv'
  <2> SUFFICES ASSUME Inv, FoundInv, [Next]_vars PROVE FoundInv'
    OBVIOUS
  <2>1. CASE Retrieve
    <3>1. PICK search \in Searches :
            LET hits == [i \in DOMAIN search.results |-> Local(search.results[i].passage)]
            IN  /\ Moves("retrieve", "grade_documents",
                         [state EXCEPT !.documents = hits, !.sources = hits])
                /\ found' = search
      BY <2>1, Zenon DEF Retrieve
    <3> DEFINE hits == [i \in DOMAIN search.results |-> Local(search.results[i].passage)]
    <3>2. /\ node' = "grade_documents" /\ found' = search
          /\ state' = [state EXCEPT !.documents = hits, !.sources = hits]
      BY <3>1 DEF Moves
    <3> HIDE DEF hits
    <3>3. state'.documents = hits
      BY <3>2 DEF Inv, IsState
    <3>4. QED BY <3>2, <3>3 DEF FoundInv, hits
  <2>2. CASE GradeDocuments
    BY <2>2 DEF GradeDocuments, FoundInv
  <2>3. CASE UNCHANGED vars
    BY <2>3 DEF vars, FoundInv
  <2>4. CASE Retry
    BY <2>4 DEF Retry, FoundInv
  <2>5. ASSUME node # "grade_documents", UNCHANGED found PROVE FoundInv'
    BY <2>5 DEF FoundInv
  <2>6. CASE RouteQuestion
    BY <2>5, <2>6 DEF RouteQuestion, Moves
  <2>7. CASE WebSearch \/ WebSearchFallsBack
    BY <2>5, <2>7 DEF WebSearch, WebSearchFallsBack, Moves
  <2>8. CASE DirectAnswer \/ Generate
    BY <2>5, <2>8 DEF DirectAnswer, Generate, Moves
  <2>9. CASE Raise \/ Ask
    BY <2>5, <2>9 DEF Raise, Ask, AsksModel
  <2>10. QED BY <2>1, <2>2, <2>3, <2>4, <2>6, <2>7, <2>8, <2>9 DEF Next
<1>3. QED BY <1>1, <1>2, Invariant, PTL DEF Spec

(* However many chunks, whatever the ranks: the best fused score is far    *)
(* from the threshold it is compared with (graph.py:222).                  *)
THEOREM FusedScoresNeverConvince == Spec => []FusedScoresDoNotConvince
<1>1. ASSUME FoundInv, found # Nothing, ~found.boosted PROVE 2 * BestScore(found) < Threshold
  <2>1. PICK n \in Nat : Merges(found.results, n, found.vector, found.bm25)
    BY <1>1, PlainSearches DEF FoundInv
  <2> DEFINE results == found.results
             S == {0} \cup {r.score : r \in ToSet(results)}
  <2>2. Ranked(results, n) /\ DOMAIN results = 1..n
    BY <2>1 DEF Merges, Ranked
  <2>3. \A x : x \in S <=> x = 0 \/ \E i \in 1..n : x = results[i].score
    BY <2>2 DEF ToSet
  <2> HIDE DEF S, results
  <2>4. \A x \in S : x \in Nat /\ x <= 328
    BY <2>2, <2>3 DEF Ranked, Small
  <2>5. \E x \in S : \A y \in S : x >= y
    <3>1. CASE n = 0
      BY <2>3, <3>1
    <3>2. CASE n # 0
      <4>1. 1 \in 1..n /\ results[1].score \in S
        BY <2>3, <3>2
      <4>2. \A i \in 1..n : results[i].score <= results[1].score
        <5> SUFFICES ASSUME NEW i \in 1..n PROVE results[i].score <= results[1].score
          OBVIOUS
        <5>1. CASE i = 1
          BY <2>2, <5>1 DEF Ranked, Small
        <5>2. CASE 1 < i
          BY <2>2, <4>1, <5>2 DEF Ranked
        <5>3. QED BY <5>1, <5>2
      <4>3. \A y \in S : results[1].score >= y
        BY <2>3, <2>4, <4>1, <4>2
      <4>4. QED BY <4>1, <4>3
    <3>3. QED BY <3>1, <3>2
  <2>6. Max(S) \in S
    BY <2>5 DEF Max
  <2>7. BestScore(found) = Max(S)
    BY DEF BestScore, S, results
  <2>8. QED BY <2>4, <2>6, <2>7 DEF Threshold
<1>2. FoundInv => FusedScoresDoNotConvince
  BY <1>1 DEF FusedScoresDoNotConvince
<1>3. QED BY <1>2, HitsAreFound, PTL

(* Whatever the chunks of a passage, the rounding of scores and the sorts  *)
(* in between, a passage with a chunk that both searches prefer comes      *)
(* first, or the one it was merged into does (retriever.py:871-951).       *)
THEOREM HitsRankAsBothSearches == Spec => []RanksAsBothSearches
<1>1. ASSUME FoundInv, found # Nothing, ~found.boosted, NEW p, NEW q,
             Beaten(found.vector, found.bm25, p, q),
             NEW j \in DOMAIN state.documents, state.documents[j].id = q
      PROVE  \E i \in DOMAIN state.documents :
               /\ Excerpt[state.documents[i].id] = Excerpt[p]
               /\ \A l \in DOMAIN state.documents : state.documents[l].id = q => i < l
  <2> DEFINE results == found.results
  <2>1. PICK n \in Nat : Merges(results, n, found.vector, found.bm25) /\ Single(results, n)
    BY <1>1, PlainSearches DEF FoundInv
  <2>2. DOMAIN results = 1..n
    BY <2>1 DEF Merges, Ranked
  <2>3. /\ DOMAIN state.documents = 1..n
        /\ \A i \in 1..n : state.documents[i].id = results[i].passage
    BY <1>1, <2>2 DEF FoundInv, Local
  <2>4. Stands(results, n, p, q)
    BY <1>1, <2>1 DEF Merges
  <2> HIDE DEF results
  <2>5. PICK i \in 1..n : i < j /\ Excerpt[results[i].passage] = Excerpt[p]
    BY <1>1, <2>3, <2>4 DEF Stands
  <2>6. \A l \in 1..n : results[l].passage = q => l = j
    BY <1>1, <2>1, <2>3 DEF Single
  <2>7. QED BY <2>3, <2>5, <2>6
<1>2. ASSUME FoundInv PROVE RanksAsBothSearches
  <2> DEFINE Of(p) == {c \in ToSet(found.vector) \cup ToSet(found.bm25) : Passage[c] = p}
             place(p) == {i \in DOMAIN state.documents : state.documents[i].id = p}
             alike(p) == {i \in DOMAIN state.documents :
                            Excerpt[state.documents[i].id] = Excerpt[p]}
  <2>1. ASSUME found # Nothing, ~found.boosted, NEW p, NEW q, place(q) # {},
               \A b \in Of(q) : \E a \in Of(p) : Above(found.vector, a, b) /\ Above(found.bm25, a, b)
        PROVE  \E i \in alike(p) : \A j \in place(q) : i < j
    <3>1. Beaten(found.vector, found.bm25, p, q)
      BY <2>1 DEF Beaten
    <3>2. PICK j \in DOMAIN state.documents : state.documents[j].id = q
      BY <2>1
    <3>3. PICK i \in DOMAIN state.documents :
            /\ Excerpt[state.documents[i].id] = Excerpt[p]
            /\ \A l \in DOMAIN state.documents : state.documents[l].id = q => i < l
      BY <1>1, <1>2, <2>1, <3>1, <3>2
    <3>4. QED BY <3>3
  <2>2. QED BY <2>1 DEF RanksAsBothSearches, Above
<1>3. FoundInv => RanksAsBothSearches
  BY <1>2
<1>4. QED BY <1>3, HitsAreFound, PTL
=============================================================================
