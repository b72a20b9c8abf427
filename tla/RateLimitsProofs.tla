-------------------------- MODULE RateLimitsProofs --------------------------
(***************************************************************************)
(* Proofs about the two rate limiters, for any window, limit and number of *)
(* replicas or concurrent requests, and any skew below the window.         *)
(***************************************************************************)
EXTENDS RateLimits, Tallies, WellFoundedInduction, TLAPS

-----------------------------------------------------------------------------
(* Induction over numbers, as facts about sets.                            *)

LEMMA NumbersByStep ==
  ASSUME NEW S, 0 \in S, \A n \in Nat : n \in S => n + 1 \in S
  PROVE  Nat \subseteq S
<1> DEFINE R == OpToRel(<,Nat)
           T == Nat \ S
<1>1. SUFFICES ASSUME T # {} PROVE FALSE
  OBVIOUS
<1>2. \A y \in Nat, z \in Nat : y < z => <<y, z>> \in R
  BY Zenon DEF OpToRel
<1>3. IsWellFoundedOn(R, Nat)
  BY NatLessThanWellFounded
<1> HIDE DEF R
<1>4. PICK x \in T : \A y \in T : ~ (<<y, x>> \in R)
  BY <1>1, <1>3, WFMin
<1>5. x \in Nat /\ x # 0 /\ x - 1 \in Nat /\ x - 1 < x /\ (x - 1) + 1 = x
  OBVIOUS
<1>6. x - 1 \notin T
  BY <1>2, <1>4, <1>5
<1>7. QED BY <1>5, <1>6

-----------------------------------------------------------------------------
(* Tallies                                                                 *)

LEMMA SumsByStep ==
  ASSUME NEW N \in Nat, NEW f \in [0..N -> Nat]
  PROVE  \E k \in [0..(N + 1) -> Nat] :
           /\ k[0] = 0
           /\ \A n \in 0..N : k[n + 1] = k[n] + f[n]
<1> DEFINE Good(k, n) == k[0] = 0 /\ \A i \in Nat : i < n => k[i + 1] = k[i] + f[i]
           Can(n) == \E k \in [0..n -> Nat] : Good(k, n)
           Reach == {n \in Nat : n <= N + 1 => Can(n)}
<1>1. 0 \in Reach
  <2>1. [i \in 0..0 |-> 0] \in [0..0 -> Nat] /\ Good([i \in 0..0 |-> 0], 0)
    OBVIOUS
  <2>2. QED BY <2>1
<1>2. ASSUME NEW n \in Nat, Can(n), n + 1 <= N + 1
      PROVE  Can(n + 1)
  <2>1. PICK k \in [0..n -> Nat] : Good(k, n)
    BY <1>2
  <2>2. n \in 0..n /\ n \in 0..N /\ k[n] \in Nat /\ f[n] \in Nat
    BY <1>2
  <2> DEFINE g == [i \in 0..(n + 1) |-> IF i = n + 1 THEN k[n] + f[n] ELSE k[i]]
  <2>3. g \in [0..(n + 1) -> Nat]
    BY <2>2
  <2>4. ASSUME NEW i \in Nat, i < n + 1
        PROVE  g[i + 1] = g[i] + f[i]
    <3>1. g[i] = k[i]
      BY <2>4
    <3>2. CASE i = n
      BY <3>1, <3>2
    <3>3. CASE i < n
      <4>1. g[i + 1] = k[i + 1]
        BY <3>3
      <4>2. QED BY <2>1, <3>1, <3>3, <4>1
    <3>4. QED BY <2>4, <3>2, <3>3
  <2>5. g[0] = 0
    BY <2>1
  <2> HIDE DEF g
  <2>6. QED BY <2>3, <2>4, <2>5
<1>3. Nat \subseteq Reach
  <2> HIDE DEF Can
  <2>1. ASSUME NEW n \in Nat, n \in Reach PROVE n + 1 \in Reach
    BY <1>2, <2>1
  <2> HIDE DEF Reach
  <2>2. QED BY <1>1, <2>1, NumbersByStep
<1>4. Can(N + 1)
  <2> HIDE DEF Can
  <2>1. QED BY <1>3
<1>5. PICK k \in [0..(N + 1) -> Nat] : Good(k, N + 1)
  BY <1>4
<1>6. \A n \in 0..N : n \in Nat /\ n < N + 1
  OBVIOUS
<1>7. QED BY <1>5, <1>6

LEMMA TotalsByStep ==
  ASSUME NEW N \in Nat, NEW f \in [0..N -> Nat]
  PROVE  \E k \in [0..(N + 1) -> Nat] :
           /\ k[0] = 0
           /\ \A n \in 0..N : k[n + 1] = k[n] + f[n]
           /\ \A n \in 0..(N + 1) : Total(f, n) = k[n]
<1> DEFINE M == N + 1
<1>1. PICK k \in [0..M -> Nat] : k[0] = 0 /\ \A n \in 0..N : k[n + 1] = k[n] + f[n]
  BY SumsByStep
<1>3. ASSUME NEW n \in 1..M PROVE k[n] = k[n - 1] + f[n - 1]
  <2>1. n - 1 \in 0..N /\ (n - 1) + 1 = n
    OBVIOUS
  <2>2. QED BY <1>1, <2>1
<1>5. ASSUME NEW n \in 0..M PROVE Total(f, n) = k[n]
  <2> DEFINE D(s) == [i \in 0..n |-> IF i = 0 THEN 0 ELSE s[i - 1] + f[i - 1]]
             r == [i \in 0..n |-> k[i]]
             sum == CHOOSE s : s = D(s)
  <2>1. r = D(r)
    <3>1. ASSUME NEW i \in 0..n PROVE r[i] = D(r)[i]
      <4>1. CASE i = 0
        BY <4>1, <1>1
      <4>2. CASE i # 0
        <5>1. i \in 1..M /\ i - 1 \in 0..n
          BY <4>2
        <5>2. QED BY <1>3, <4>2, <5>1
      <4>3. QED BY <4>1, <4>2
    <3>2. QED BY <3>1
  <2>2. sum = D(sum)
    <3> HIDE DEF D, r
    <3>1. QED BY <2>1
  <2>3. Total(f, n) = sum[n]
    BY Zenon DEF Total
  <2> HIDE DEF sum
  <2> DEFINE T == {i \in Nat : i <= n => sum[i] = k[i]}
  <2>4. 0 \in T
    BY <2>2, <1>1
  <2>5. ASSUME NEW i \in Nat, i \in T PROVE i + 1 \in T
    <3>1. SUFFICES ASSUME i + 1 <= n PROVE sum[i + 1] = k[i + 1]
      OBVIOUS
    <3>2. sum[i] = k[i] /\ i + 1 \in 1..M /\ i + 1 \in 0..n /\ (i + 1) - 1 = i /\ i + 1 # 0
      BY <2>5, <3>1
    <3>3. sum[i + 1] = sum[i] + f[i]
      BY <2>2, <3>2
    <3>4. QED BY <1>3, <3>2, <3>3
  <2>6. n \in T
    <3>1. n \in Nat
      OBVIOUS
    <3> HIDE DEF T
    <3>2. QED BY <2>4, <2>5, <3>1, NumbersByStep
  <2>7. QED BY <2>3, <2>6
<1>6. QED BY <1>1, <1>5

(* A total is counted up age by age.                                       *)
LEMMA TotalFacts ==
  ASSUME NEW N \in Nat, NEW f \in [0..N -> Nat]
  PROVE  /\ Total(f, 0) = 0
         /\ \A n \in 0..(N + 1) : Total(f, n) \in Nat
         /\ \A n \in 0..N : Total(f, n + 1) = Total(f, n) + f[n]
<1>1. PICK k \in [0..(N + 1) -> Nat] :
        /\ k[0] = 0
        /\ \A n \in 0..N : k[n + 1] = k[n] + f[n]
        /\ \A n \in 0..(N + 1) : Total(f, n) = k[n]
  BY TotalsByStep
<1>2. QED BY <1>1

LEMMA TotalGrows ==
  ASSUME NEW N \in Nat, NEW f \in [0..N -> Nat], NEW m \in Nat, NEW n \in 0..(N + 1), m <= n
  PROVE  Total(f, m) <= Total(f, n)
<1> DEFINE T == {i \in Nat : m <= i /\ i <= N + 1 => Total(f, m) <= Total(f, i)}
<1>1. 0 \in T
  BY TotalFacts
<1>2. ASSUME NEW i \in Nat, i \in T PROVE i + 1 \in T
  <2>1. SUFFICES ASSUME m <= i + 1, i + 1 <= N + 1 PROVE Total(f, m) <= Total(f, i + 1)
    OBVIOUS
  <2>2. Total(f, i + 1) = Total(f, i) + f[i] /\ Total(f, i) \in Nat /\ f[i] \in Nat /\ Total(f, m) \in Nat
    BY <2>1, TotalFacts, SMTT(30)
  <2>3. CASE m = i + 1
    BY <2>2, <2>3
  <2>4. CASE m # i + 1
    BY <1>2, <2>1, <2>2, <2>4
  <2>5. QED BY <2>3, <2>4
<1>3. n \in T
  <2>1. n \in Nat
    OBVIOUS
  <2> HIDE DEF T
  <2>2. QED BY <1>1, <1>2, <2>1, NumbersByStep
<1>4. QED BY <1>3

LEMMA TotalOlder ==
  ASSUME NEW N \in Nat, NEW f \in [0..N -> Nat], NEW g \in [0..N -> Nat],
         g[0] = 0, \A a \in 1..N : g[a] = f[a - 1]
  PROVE  \A n \in 0..N : Total(g, n + 1) = Total(f, n)
<1>1. /\ Total(f, 0) = 0
      /\ \A n \in 0..N : Total(f, n + 1) = Total(f, n) + f[n]
  BY TotalFacts
<1>2. /\ Total(g, 0) = 0
      /\ \A n \in 0..N : Total(g, n + 1) = Total(g, n) + g[n]
  BY TotalFacts
<1> DEFINE T == {i \in Nat : i <= N => Total(g, i + 1) = Total(f, i)}
<1>3. 0 \in T
  <2>1. Total(g, 0 + 1) = Total(g, 0) + g[0]
    BY <1>2
  <2>2. QED BY <1>1, <1>2, <2>1
<1>4. ASSUME NEW i \in Nat, i \in T PROVE i + 1 \in T
  <2>1. SUFFICES ASSUME i + 1 <= N PROVE Total(g, (i + 1) + 1) = Total(f, i + 1)
    OBVIOUS
  <2>2. i \in 0..N /\ i + 1 \in 0..N /\ i + 1 \in 1..N /\ (i + 1) - 1 = i
    BY <2>1
  <2>3. Total(g, (i + 1) + 1) = Total(g, i + 1) + g[i + 1]
    BY <1>2, <2>2
  <2>4. Total(f, i + 1) = Total(f, i) + f[i]
    BY <1>1, <2>2
  <2>5. g[i + 1] = f[i]
    BY <2>2
  <2>6. QED BY <1>4, <2>1, <2>3, <2>4, <2>5
<1>5. Nat \subseteq T
  <2> HIDE DEF T
  <2>1. QED BY <1>3, <1>4, NumbersByStep
<1>6. QED BY <1>5

LEMMA TotalAdd ==
  ASSUME NEW N \in Nat, NEW f \in [0..N -> Nat], NEW x \in 0..N, NEW g \in [0..N -> Nat],
         \A a \in 0..N : g[a] = IF a = x THEN f[a] + 1 ELSE f[a]
  PROVE  \A n \in 0..(N + 1) : Total(g, n) = IF x < n THEN Total(f, n) + 1 ELSE Total(f, n)
<1>1. /\ Total(f, 0) = 0
      /\ \A n \in 0..(N + 1) : Total(f, n) \in Nat
      /\ \A n \in 0..N : Total(f, n + 1) = Total(f, n) + f[n]
  BY TotalFacts
<1>2. /\ Total(g, 0) = 0
      /\ \A n \in 0..N : Total(g, n + 1) = Total(g, n) + g[n]
  BY TotalFacts
<1> DEFINE T == {i \in Nat : i <= N + 1 =>
                   Total(g, i) = IF x < i THEN Total(f, i) + 1 ELSE Total(f, i)}
<1>3. 0 \in T
  BY <1>1, <1>2
<1>4. ASSUME NEW i \in Nat, i \in T PROVE i + 1 \in T
  <2>1. SUFFICES ASSUME i + 1 <= N + 1
                 PROVE Total(g, i + 1) = IF x < i + 1 THEN Total(f, i + 1) + 1 ELSE Total(f, i + 1)
    OBVIOUS
  <2>2. i \in 0..N /\ i \in 0..(N + 1)
    BY <2>1
  <2>3. Total(g, i + 1) = Total(g, i) + g[i] /\ Total(f, i + 1) = Total(f, i) + f[i]
    BY <1>1, <1>2, <2>2
  <2>4. Total(f, i) \in Nat /\ f[i] \in Nat
    BY <1>1, <2>2
  <2>5. g[i] = IF i = x THEN f[i] + 1 ELSE f[i]
    BY <2>2
  <2>6. Total(g, i) = IF x < i THEN Total(f, i) + 1 ELSE Total(f, i)
    BY <1>4, <2>2
  <2>7. CASE x < i
    BY <2>2, <2>3, <2>4, <2>5, <2>6, <2>7
  <2>8. CASE ~ (x < i)
    <3>1. Total(g, i) = Total(f, i) /\ (x < i + 1 <=> i = x)
      BY <2>2, <2>6, <2>8
    <3>2. QED BY <2>3, <2>4, <2>5, <3>1
  <2>9. QED BY <2>7, <2>8
<1>5. Nat \subseteq T
  <2> HIDE DEF T
  <2>1. QED BY <1>3, <1>4, NumbersByStep
<1>6. QED BY <1>5

LEMMA TotalTrim ==
  ASSUME NEW N \in Nat, NEW f \in [0..N -> Nat], NEW m \in 0..(N + 1), NEW g \in [0..N -> Nat],
         \A a \in 0..N : g[a] = IF a >= m THEN 0 ELSE f[a]
  PROVE  \A n \in 0..(N + 1) : Total(g, n) = IF n <= m THEN Total(f, n) ELSE Total(f, m)
<1>1. /\ Total(f, 0) = 0
      /\ \A n \in 0..(N + 1) : Total(f, n) \in Nat
      /\ \A n \in 0..N : Total(f, n + 1) = Total(f, n) + f[n]
  BY TotalFacts
<1>2. /\ Total(g, 0) = 0
      /\ \A n \in 0..N : Total(g, n + 1) = Total(g, n) + g[n]
  BY TotalFacts
<1> DEFINE T == {i \in Nat : i <= N + 1 =>
                   Total(g, i) = IF i <= m THEN Total(f, i) ELSE Total(f, m)}
<1>3. 0 \in T
  BY <1>1, <1>2
<1>4. ASSUME NEW i \in Nat, i \in T PROVE i + 1 \in T
  <2>1. SUFFICES ASSUME i + 1 <= N + 1
                 PROVE Total(g, i + 1) = IF i + 1 <= m THEN Total(f, i + 1) ELSE Total(f, m)
    OBVIOUS
  <2>2. i \in 0..N /\ i \in 0..(N + 1) /\ m \in Nat
    BY <2>1
  <2>3. Total(g, i + 1) = Total(g, i) + g[i] /\ Total(f, i + 1) = Total(f, i) + f[i]
    BY <1>1, <1>2, <2>2
  <2>4. Total(f, i) \in Nat /\ f[i] \in Nat /\ Total(f, m) \in Nat
    BY <1>1, <2>2
  <2>5. g[i] = IF i >= m THEN 0 ELSE f[i]
    BY <2>2
  <2>6. Total(g, i) = IF i <= m THEN Total(f, i) ELSE Total(f, m)
    BY <1>4, <2>2
  <2>7. CASE i >= m
    <3>1. Total(g, i) = Total(f, m)
      BY <2>2, <2>6, <2>7
    <3>2. QED BY <2>2, <2>3, <2>4, <2>5, <2>7, <3>1
  <2>8. CASE i < m
    BY <2>2, <2>3, <2>4, <2>5, <2>6, <2>8
  <2>9. QED BY <2>2, <2>7, <2>8
<1>5. Nat \subseteq T
  <2> HIDE DEF T
  <2>1. QED BY <1>3, <1>4, NumbersByStep
<1>6. QED BY <1>5

LEMMA TotalNone ==
  ASSUME NEW N \in Nat, NEW f \in [0..N -> Nat], \A a \in 0..N : f[a] = 0
  PROVE  \A n \in 0..(N + 1) : Total(f, n) = 0
<1>1. /\ Total(f, 0) = 0
      /\ \A n \in 0..N : Total(f, n + 1) = Total(f, n) + f[n]
  BY TotalFacts
<1> DEFINE T == {i \in Nat : i <= N + 1 => Total(f, i) = 0}
<1>2. 0 \in T
  BY <1>1
<1>3. ASSUME NEW i \in Nat, i \in T PROVE i + 1 \in T
  BY <1>1, <1>3
<1>4. Nat \subseteq T
  <2> HIDE DEF T
  <2>1. QED BY <1>2, <1>3, NumbersByStep
<1>5. QED BY <1>4

(* Both at once, of an older tally.                                        *)
LEMMA OlderTally ==
  ASSUME NEW N \in Nat, NEW f \in [0..N -> Nat]
  PROVE  /\ Older(f) \in [0..N -> Nat]
         /\ \A a \in 0..N : Older(f)[a] = IF a = 0 THEN 0 ELSE f[a - 1]
         /\ Total(Older(f), 0) = 0
         /\ \A n \in 0..N : Total(Older(f), n + 1) = Total(f, n)
<1>1. /\ Older(f) \in [0..N -> Nat]
      /\ \A a \in 0..N : Older(f)[a] = IF a = 0 THEN 0 ELSE f[a - 1]
  BY DEF Older
<1>2. 0 \in 0..N /\ \A a \in 1..N : a \in 0..N /\ a # 0
  OBVIOUS
<1>3. Older(f)[0] = 0 /\ \A a \in 1..N : Older(f)[a] = f[a - 1]
  BY <1>1, <1>2
<1> DEFINE g == Older(f)
<1> HIDE DEF g
<1>4. g \in [0..N -> Nat] /\ g[0] = 0 /\ \A a \in 1..N : g[a] = f[a - 1]
  BY <1>1, <1>3 DEF g
<1>5. Total(g, 0) = 0 /\ \A n \in 0..N : Total(g, n + 1) = Total(f, n)
  BY <1>4, TotalFacts, TotalOlder
<1>6. QED BY <1>1, <1>5 DEF g

-----------------------------------------------------------------------------
(* The fixed window                                                        *)

Pending == IF first = {} THEN 0 ELSE 1
Counted == IF count <= Limit THEN count ELSE Limit

FixedTyped ==
  /\ count \in Nat
  /\ ttl \in 0..Window \cup {Never}
  /\ first \subseteq Requests
  /\ admitted \in [0..(Window - 1) -> Nat]

(* Only the request that created the key is to set its expiry.             *)
OneCreates ==
  /\ count = 0 <=> ttl = 0
  /\ \A r, q \in first : r = q
  /\ first # {} => ttl = Never

(* What was admitted less than b ticks ago, but for v of the oldest of     *)
(* these, was counted by the key there is; the rest by its predecessor     *)
(* alone, because a key lives for a window once it has an expiry.          *)
TwoKeys(b, v) ==
  /\ v <= admitted[b - 1]
  /\ Total(admitted, b) + Pending <= Counted + v
  /\ Total(admitted, Window) + v <= Limit + Total(admitted, b)
  /\ ttl \in 1..Window => b > Window - ttl

FixedInv == FixedTyped /\ OneCreates /\ \E b \in 1..Window, v \in Nat : TwoKeys(b, v)

LEMMA SameTotals ==
  /\ \A f, n : Sliding!Total(f, n) = Total(f, n)
  /\ \A f, n : Fixed!Total(f, n) = Total(f, n)
  /\ \A f : Sliding!Older(f) = Older(f)
  /\ \A f : Fixed!Older(f) = Older(f)
<1>1. \A f, n : Sliding!Total(f, n) = Total(f, n)
  BY Zenon DEF Total, Sliding!Total
<1>2. \A f, n : Fixed!Total(f, n) = Total(f, n)
  BY Zenon DEF Total, Fixed!Total
<1>3. \A f : Sliding!Older(f) = Older(f)
  BY Zenon DEF Older, Sliding!Older
<1>4. \A f : Fixed!Older(f) = Older(f)
  BY Zenon DEF Older, Fixed!Older
<1>5. QED BY <1>1, <1>2, <1>3, <1>4

LEMMA AdmittedTotals ==
  ASSUME FixedTyped
  PROVE  /\ Window \in Nat /\ Window - 1 \in Nat /\ (Window - 1) + 1 = Window
         /\ \A n \in 0..Window : Total(admitted, n) \in Nat
         /\ \A n \in 1..Window : n - 1 \in 0..(Window - 1) /\ admitted[n - 1] \in Nat
<1>1. Window \in Nat /\ Window - 1 \in Nat /\ (Window - 1) + 1 = Window
  BY WindowAssumption
<1>2. admitted \in [0..(Window - 1) -> Nat]
  BY DEF FixedTyped
<1>3. \A n \in 0..((Window - 1) + 1) : Total(admitted, n) \in Nat
  BY <1>1, <1>2, TotalFacts
<1>4. \A n \in 1..Window : n - 1 \in 0..(Window - 1)
  BY <1>1
<1>5. QED BY <1>1, <1>2, <1>3, <1>4

LEMMA FixedInit ==
  ASSUME Fixed!Init
  PROVE  FixedInv
<1>1. Window \in Nat /\ Window >= 1 /\ Window - 1 \in Nat /\ (Window - 1) + 1 = Window
  BY WindowAssumption
<1>2. FixedTyped
  BY <1>1 DEF Fixed!Init, Fixed!Ages, FixedTyped
<1>3. OneCreates
  BY DEF Fixed!Init, OneCreates
<1>4. admitted \in [0..(Window - 1) -> Nat] /\ \A a \in 0..(Window - 1) : admitted[a] = 0
  BY <1>1 DEF Fixed!Init, Fixed!Ages
<1>5. \A n \in 0..Window : Total(admitted, n) = 0
  BY <1>1, <1>4, TotalNone
<1>6. TwoKeys(1, 0)
  <2>1. Total(admitted, 1) = 0 /\ Total(admitted, Window) = 0 /\ admitted[1 - 1] = 0
    BY <1>1, <1>4, <1>5
  <2>2. Counted = 0 /\ Pending = 0 /\ ttl = 0
    BY WindowAssumption DEF Fixed!Init, Counted, Pending
  <2>3. QED BY <2>1, <2>2, WindowAssumption DEF TwoKeys
<1>7. 1 \in 1..Window /\ 0 \in Nat
  BY <1>1
<1>8. QED BY <1>2, <1>3, <1>6, <1>7 DEF FixedInv

LEMMA CountedFacts ==
  ASSUME FixedTyped
  PROVE  Counted \in Nat /\ Pending \in 0..1 /\ Counted <= Limit /\ Counted <= count
BY WindowAssumption DEF FixedTyped, Counted, Pending

LEMMA Balance ==
  ASSUME NEW t \in Nat, NEW c \in Nat, NEW p \in Nat, NEW d \in Nat, NEW q \in Nat, NEW v \in Nat,
         t + p <= c + v
  PROVE  /\ c + q <= d + p => t + q <= d + v
         /\ c + q + 1 <= d + p => (t + 1) + q <= d + v
OBVIOUS

(* A step that admits nobody and loses no count.                           *)
LEMMA NobodyAdmitted ==
  ASSUME FixedTyped, FixedTyped', NEW b \in 1..Window, NEW v \in Nat, TwoKeys(b, v),
         UNCHANGED admitted, Counted + Pending' <= Counted' + Pending,
         ttl' \in 1..Window => b > Window - ttl'
  PROVE  TwoKeys(b, v)'
<1>1. Counted \in Nat /\ Pending \in Nat /\ Counted' \in Nat /\ Pending' \in Nat
  BY WindowAssumption DEF FixedTyped, Counted, Pending
<1>2. Total(admitted, b) \in Nat
  BY AdmittedTotals
<1>a. Total(admitted, b) + Pending <= Counted + v
  BY DEF TwoKeys
<1>3. Total(admitted, b) + Pending' <= Counted' + v
  BY <1>1, <1>2, <1>a, Balance
<1>4. QED BY <1>3 DEF TwoKeys

(* A step that admits a request and counts it.                             *)
LEMMA OneAdmitted ==
  ASSUME FixedTyped, FixedTyped', NEW b \in 1..Window, NEW v \in Nat, TwoKeys(b, v),
         Fixed!Admit, Counted + Pending' + 1 <= Counted' + Pending,
         ttl' \in 1..Window => b > Window - ttl'
  PROVE  TwoKeys(b, v)'
<1>1. Counted \in Nat /\ Pending \in Nat /\ Counted' \in Nat /\ Pending' \in Nat
  BY WindowAssumption DEF FixedTyped, Counted, Pending
<1>2. Window \in Nat /\ Window - 1 \in Nat /\ (Window - 1) + 1 = Window /\ 0 \in 0..(Window - 1)
  BY AdmittedTotals
<1>3. admitted \in [0..(Window - 1) -> Nat] /\ admitted' = [admitted EXCEPT ![0] = @ + 1]
  BY DEF FixedTyped, Fixed!Admit
<1>4. /\ \A a \in 0..(Window - 1) : admitted[a] <= admitted'[a] /\ admitted[a] \in Nat /\ admitted'[a] \in Nat
      /\ \A n \in 0..Window : Total(admitted', n) = IF 0 < n THEN Total(admitted, n) + 1 ELSE Total(admitted, n)
  <2>1. /\ \A a \in 0..(Window - 1) : admitted[a] <= admitted'[a]
        /\ \A n \in 0..((Window - 1) + 1) : Total(admitted', n) = IF 0 < n THEN Total(admitted, n) + 1 ELSE Total(admitted, n)
    <3>1. \A a \in 0..(Window - 1) : admitted'[a] = IF a = 0 THEN admitted[a] + 1 ELSE admitted[a]
      BY <1>3
    <3>2. admitted' \in [0..(Window - 1) -> Nat]
      BY DEF FixedTyped
    <3>3. \A a \in 0..(Window - 1) : admitted[a] <= admitted'[a]
      BY <1>3, <3>1
    <3>4. \A n \in 0..((Window - 1) + 1) : Total(admitted', n) = IF 0 < n THEN Total(admitted, n) + 1 ELSE Total(admitted, n)
      <4>1. Window - 1 \in Nat /\ 0 \in 0..(Window - 1) /\ admitted \in [0..(Window - 1) -> Nat]
        BY <1>2, <1>3
      <4>2. QED BY <3>1, <3>2, <4>1, TotalAdd
    <3>5. QED BY <3>3, <3>4
  <2>2. \A a \in 0..(Window - 1) : admitted[a] \in Nat /\ admitted'[a] \in Nat
    BY DEF FixedTyped
  <2>3. QED BY <1>2, <2>1, <2>2
<1>5. b - 1 \in 0..(Window - 1) /\ b \in 0..Window /\ 0 < b /\ Window \in 0..Window /\ 0 < Window
  BY <1>2
<1>6. Total(admitted, b) \in Nat /\ Total(admitted, Window) \in Nat
  BY <1>5, AdmittedTotals
<1>7. Total(admitted', b) = Total(admitted, b) + 1 /\ Total(admitted', Window) = Total(admitted, Window) + 1
  BY <1>4, <1>5
<1>8. v <= admitted'[b - 1]
  BY <1>4, <1>5 DEF TwoKeys
<1>a. Total(admitted, b) + Pending <= Counted + v
  BY DEF TwoKeys
<1>b. (Total(admitted, b) + 1) + Pending' <= Counted' + v
  BY <1>1, <1>6, <1>a, Balance
<1>9. Total(admitted', b) + Pending' <= Counted' + v
  BY <1>7, <1>b
<1>10. Total(admitted', Window) + v <= Limit + Total(admitted', b)
  BY <1>6, <1>7, WindowAssumption DEF TwoKeys
<1>11. QED BY <1>8, <1>9, <1>10 DEF TwoKeys

(* The types, and who creates the key.                                     *)
LEMMA FixedTypedStep ==
  ASSUME FixedTyped, Fixed!Next
  PROVE  FixedTyped'
<1>1. Window \in Nat /\ Window >= 1 /\ Window - 1 \in Nat /\ 0 \in 0..(Window - 1) /\ Limit \in Nat
  BY WindowAssumption
<1>2. Fixed!Increment => count' \in Nat /\ ttl' \in 0..Window \cup {Never}
  BY DEF FixedTyped, Fixed!Increment
<1>3. Fixed!Admit => admitted' \in [0..(Window - 1) -> Nat]
  BY <1>1 DEF FixedTyped, Fixed!Admit
<1>4. ASSUME NEW r \in Requests, Fixed!check_rate_limit(r)
      PROVE  FixedTyped'
  <2>1. CASE Fixed!IncrFirst(r)
    BY <1>2, <2>1 DEF FixedTyped, Fixed!IncrFirst
  <2>2. CASE Fixed!IncrAgain(r)
    BY <1>2, <1>3, <2>2 DEF FixedTyped, Fixed!IncrAgain
  <2>3. CASE Fixed!IncrFails(r)
    BY <1>2, <2>3 DEF FixedTyped, Fixed!IncrFails
  <2>4. CASE Fixed!Expire(r)
    BY <1>1, <1>3, <2>4 DEF FixedTyped, Fixed!Expire
  <2>5. CASE Fixed!ExpireFails(r)
    BY <1>3, <2>5 DEF FixedTyped, Fixed!ExpireFails
  <2>6. QED BY <1>4, <2>1, <2>2, <2>3, <2>4, <2>5 DEF Fixed!check_rate_limit
<1>5. CASE Fixed!Tick
  <2>1. admitted' \in [0..(Window - 1) -> Nat]
    <3>1. Older(admitted) \in [0..(Window - 1) -> Nat]
      BY <1>1, OlderTally DEF FixedTyped
    <3>2. QED BY <1>5, <3>1, SameTotals DEF Fixed!Tick
  <2>2. count' \in Nat
    BY <1>5 DEF FixedTyped, Fixed!Tick
  <2>3. ttl' \in 0..Window \cup {Never}
    BY <1>1, <1>5 DEF FixedTyped, Fixed!Tick
  <2>4. QED BY <1>5, <2>1, <2>2, <2>3 DEF FixedTyped, Fixed!Tick
<1>6. QED BY <1>4, <1>5 DEF Fixed!Next

LEMMA OneCreatesStep ==
  ASSUME FixedTyped, OneCreates, Fixed!Next
  PROVE  OneCreates'
<1>1. Window \in Nat /\ Window >= 1 /\ Never # 0 /\ Never # Window /\ Limit \in Nat
  BY WindowAssumption, NeverAssumption
<1>2. Fixed!Increment => count' # 0 /\ ttl' = IF count = 0 THEN Never ELSE ttl
  BY <1>1 DEF FixedTyped, Fixed!Increment
<1>3. ASSUME NEW r \in Requests, Fixed!check_rate_limit(r)
      PROVE  OneCreates'
  <2>1. CASE Fixed!IncrFirst(r)
    <3>1. first = {} /\ first' = {r} /\ count' # 0 /\ ttl' = Never
      BY <1>1, <1>2, <2>1 DEF OneCreates, Fixed!IncrFirst
    <3>2. QED BY <1>1, <3>1 DEF OneCreates
  <2>2. CASE Fixed!IncrAgain(r) \/ Fixed!IncrFails(r)
    <3>1. first' = first /\ count' # 0 /\ ttl' = IF count = 0 THEN Never ELSE ttl
      BY <1>2, <2>2 DEF Fixed!IncrAgain, Fixed!IncrFails
    <3>2. QED BY <1>1, <3>1 DEF OneCreates
  <2>3. CASE Fixed!Expire(r) \/ Fixed!ExpireFails(r)
    <3>1. first = {r} /\ first' = {} /\ ttl = Never /\ count' = count /\ count # 0
      BY <1>1, <2>3 DEF OneCreates, Fixed!Expire, Fixed!ExpireFails
    <3>2. ttl' = Window \/ ttl' = ttl
      BY <2>3 DEF Fixed!Expire, Fixed!ExpireFails
    <3>3. QED BY <1>1, <3>1, <3>2 DEF OneCreates
  <2>4. QED BY <1>3, <2>1, <2>2, <2>3 DEF Fixed!check_rate_limit
<1>4. CASE Fixed!Tick
  <2>1. first' = first
    BY <1>4 DEF Fixed!Tick
  <2>2. ttl = Never => ttl' = Never /\ count' = count
    BY <1>1, <1>4, NeverAssumption, WindowAssumption DEF Fixed!Tick
  <2>3. ttl # Never => (count' = 0 <=> ttl' = 0) /\ ttl' # Never
    <3>1. SUFFICES ASSUME ttl # Never PROVE (count' = 0 <=> ttl' = 0) /\ ttl' # Never
      OBVIOUS
    <3>2. ttl \in 0..Window
      BY <3>1 DEF FixedTyped
    <3>3. ttl' = (IF ttl = 0 THEN 0 ELSE ttl - 1) /\ count' = (IF ttl = 1 THEN 0 ELSE count)
      BY <1>4, <3>1 DEF Fixed!Tick
    <3>4. ttl' \in 0..Window
      BY <1>1, <3>2, <3>3
    <3>5. QED BY <3>2, <3>3, <3>4, NeverAssumption DEF OneCreates
  <2>4. QED BY <2>1, <2>2, <2>3 DEF OneCreates
<1>5. QED BY <1>3, <1>4 DEF Fixed!Next

LEMMA RequestSplit ==
  ASSUME FixedTyped, FixedTyped', OneCreates, NEW b \in 1..Window, NEW v \in Nat, TwoKeys(b, v),
         NEW r \in Requests, Fixed!check_rate_limit(r)
  PROVE  \E c \in 1..Window, w \in Nat : TwoKeys(c, w)'
<1>1. Window \in Nat /\ Window >= 1 /\ Limit \in Nat /\ Limit >= 1 /\ Never \notin 1..Window
      /\ Window - 1 \in Nat
  BY WindowAssumption, NeverAssumption
<1>2. count \in Nat /\ count' \in Nat
  BY DEF FixedTyped
<1>a. Counted \in Nat /\ Pending \in Nat /\ Counted' \in Nat /\ Pending' \in Nat
  BY <1>1, <1>2 DEF Counted, Pending
<1>3. CASE Fixed!IncrFirst(r)
  <2>1. count = 0 /\ first = {} /\ count' = 1 /\ first' = {r} /\ ttl' = Never /\ admitted' = admitted
    BY <1>1, <1>3, NeverAssumption DEF Fixed!IncrFirst, Fixed!Increment, OneCreates
  <2>2. Counted = 0 /\ Pending = 0 /\ Counted' = 1 /\ Pending' = 1
    BY <1>1, <2>1 DEF Counted, Pending
  <2>3. /\ Total(admitted, b) \in Nat /\ Total(admitted, Window) \in Nat
        /\ 1 - 1 = 0 /\ 0 \in 0..(Window - 1) /\ admitted[0] \in Nat
        /\ Total(admitted, 1) = admitted[0]
    <3>1. Total(admitted, 0) = 0 /\ Total(admitted, 0 + 1) = Total(admitted, 0) + admitted[0]
      <4>1. 0 \in 0..(Window - 1) /\ admitted \in [0..(Window - 1) -> Nat]
        BY <1>1 DEF FixedTyped
      <4>2. QED BY <1>1, <4>1, TotalFacts
    <3>2. admitted[0] \in Nat
      BY <1>1 DEF FixedTyped
    <3>3. QED BY <1>1, <3>1, <3>2, AdmittedTotals
  <2>4. Total(admitted, b) + 0 <= 0 + v /\ Total(admitted, Window) + v <= Limit + Total(admitted, b)
    BY <2>2 DEF TwoKeys
  <2>5. Total(admitted, Window) + admitted[0] <= Limit + Total(admitted, 1)
    BY <1>1, <2>3, <2>4
  <2>6. Total(admitted, 1) + 1 <= 1 + admitted[0]
    BY <2>3
  <2>7. TwoKeys(1, admitted[0])'
    BY <1>1, <2>1, <2>2, <2>3, <2>5, <2>6 DEF TwoKeys
  <2>8. 1 \in 1..Window /\ admitted'[0] \in Nat
    BY <1>1, <2>1, <2>3
  <2>9. QED BY <2>7, <2>8
<1>4. CASE Fixed!IncrAgain(r)
  <2>1. count # 0 /\ first' = first /\ ttl' = ttl /\ count' = IF count > Limit THEN count ELSE count + 1
    BY <1>2, <1>4 DEF Fixed!IncrAgain, Fixed!Increment
  <2>2. ttl' \in 1..Window => b > Window - ttl'
    BY <2>1 DEF TwoKeys
  <2>3. CASE Fixed!Allows(count')
    <3>1. Fixed!Admit /\ count' <= Limit
      BY <1>4, <2>3 DEF Fixed!IncrAgain, Fixed!Allows
    <3>2. Counted' = Counted + 1 /\ Pending' = Pending
      BY <1>1, <1>2, <2>1, <3>1 DEF Counted, Pending
    <3>3. Counted + Pending' + 1 <= Counted' + Pending
      BY <1>a, <3>2
    <3>4. QED BY <2>2, <3>1, <3>3, OneAdmitted
  <2>4. CASE ~ Fixed!Allows(count')
    <3>1. admitted' = admitted /\ count' > Limit
      BY <1>1, <1>2, <1>4, <2>4 DEF Fixed!IncrAgain, Fixed!Allows
    <3>2. Counted + Pending' <= Counted' + Pending
      BY <1>1, <1>2, <2>1, <3>1 DEF Counted, Pending
    <3>3. QED BY <2>2, <3>1, <3>2, NobodyAdmitted
  <2>5. QED BY <2>3, <2>4
<1>5. CASE Fixed!IncrFails(r)
  <2>1. /\ first' = first /\ admitted' = admitted
        /\ count' = IF count > Limit THEN count ELSE count + 1
        /\ ttl' = IF count = 0 THEN Never ELSE ttl
    BY <1>5 DEF Fixed!IncrFails, Fixed!Increment
  <2>2. ttl' \in 1..Window => b > Window - ttl'
    BY <1>1, <2>1 DEF TwoKeys
  <2>3. Counted + Pending' <= Counted' + Pending
    BY <1>1, <1>2, <2>1 DEF Counted, Pending
  <2>4. QED BY <2>1, <2>2, <2>3, NobodyAdmitted
<1>6. CASE Fixed!Expire(r) \/ Fixed!ExpireFails(r)
  <2>1. first = {r} /\ first' = {} /\ count' = count /\ Fixed!Admit /\ ttl = Never
    BY <1>6 DEF OneCreates, Fixed!Expire, Fixed!ExpireFails
  <2>2. ttl' = Window \/ ttl' = Never
    BY <1>6, <2>1 DEF Fixed!Expire, Fixed!ExpireFails
  <2>3. ttl' \in 1..Window => b > Window - ttl'
    <3>1. b > Window - Window
      BY <1>1
    <3>2. QED BY <1>1, <2>2, <3>1
  <2>4. Counted + Pending' + 1 <= Counted' + Pending
    BY <1>1, <1>2, <2>1 DEF Counted, Pending
  <2>5. QED BY <2>1, <2>3, <2>4, OneAdmitted
<1>7. QED BY <1>3, <1>4, <1>5, <1>6 DEF Fixed!check_rate_limit

LEMMA TickSplit ==
  ASSUME FixedTyped, FixedTyped', OneCreates, NEW b \in 1..Window, NEW v \in Nat, TwoKeys(b, v),
         Fixed!Tick
  PROVE  \E c \in 1..Window, w \in Nat : TwoKeys(c, w)'
<1>1. Window \in Nat /\ Window >= 1 /\ Window - 1 \in Nat /\ (Window - 1) + 1 = Window /\ Limit \in Nat
  BY WindowAssumption
<1>2. admitted' = Older(admitted) /\ first' = first
  BY SameTotals DEF Fixed!Tick
<1>3. /\ \A a \in 0..(Window - 1) : admitted'[a] = IF a = 0 THEN 0 ELSE admitted[a - 1]
      /\ Total(admitted', 0) = 0
      /\ \A n \in 0..(Window - 1) : Total(admitted', n + 1) = Total(admitted, n)
  <2>1. admitted \in [0..(Window - 1) -> Nat]
    BY DEF FixedTyped
  <2>2. /\ \A a \in 0..(Window - 1) : Older(admitted)[a] = IF a = 0 THEN 0 ELSE admitted[a - 1]
        /\ Total(Older(admitted), 0) = 0
        /\ \A n \in 0..(Window - 1) : Total(Older(admitted), n + 1) = Total(admitted, n)
    BY <1>1, <2>1, OlderTally
  <2>3. QED BY <1>2, <2>2
<1> DEFINE last == admitted[Window - 1]
           all  == Total(admitted, Window)
           some == Total(admitted, b)
           less == Total(admitted, Window - 1)
<1>4. /\ last \in Nat /\ all \in Nat /\ some \in Nat /\ less \in Nat /\ all = less + last
  <2>1. \A n \in 0..(Window - 1) : Total(admitted, n + 1) = Total(admitted, n) + admitted[n]
    BY <1>1, TotalFacts DEF FixedTyped
  <2>2. Window - 1 \in 0..(Window - 1) /\ b \in 0..Window /\ Window \in 0..Window /\ Window - 1 \in 0..Window
    BY <1>1
  <2>3. last \in Nat
    BY <2>2 DEF FixedTyped
  <2>4. QED BY <1>1, <2>1, <2>2, <2>3, AdmittedTotals
<1>5. Total(admitted', Window) = less
  <2>1. Window - 1 \in 0..(Window - 1)
    BY <1>1
  <2>2. QED BY <1>1, <1>3, <2>1
<1>6. Counted \in Nat /\ Pending \in Nat /\ Counted <= Limit
  BY CountedFacts
<1>7. v <= admitted[b - 1] /\ some + Pending <= Counted + v /\ all + v <= Limit + some
  BY DEF TwoKeys
<1>8. CASE ttl = 1
  <2>1. count' = 0 /\ ttl' = 0 /\ b = Window /\ first = {}
    BY <1>1, <1>8, NeverAssumption DEF Fixed!Tick, TwoKeys, OneCreates
  <2>2. Counted' = 0 /\ Pending' = 0
    BY <1>1, <1>2, <2>1 DEF Counted, Pending
  <2>3. less <= Limit
    <3>1. v <= last /\ some = all /\ all <= Counted + v
      BY <1>4, <1>6, <1>7, <2>1
    <3>2. QED BY <1>1, <1>4, <1>6, <3>1
  <2>4. Total(admitted', 1) = 0 /\ admitted'[1 - 1] = 0
    <3>1. Total(admitted', 0 + 1) = Total(admitted, 0) /\ Total(admitted, 0) = 0 /\ 0 \in 0..(Window - 1)
      <4>1. 0 \in 0..(Window - 1) /\ admitted \in [0..(Window - 1) -> Nat]
        BY <1>1 DEF FixedTyped
      <4>2. QED BY <1>1, <1>3, <4>1, TotalFacts
    <3>2. QED BY <1>3, <3>1
  <2>5. TwoKeys(1, 0)'
    BY <1>1, <1>4, <1>5, <2>1, <2>2, <2>3, <2>4 DEF TwoKeys
  <2>6. QED BY <1>1, <2>5
<1>9. CASE ttl # 1
  <2>1. count' = count /\ ttl' = (IF ttl = Never THEN Never ELSE IF ttl = 0 THEN 0 ELSE ttl - 1)
    BY <1>9 DEF Fixed!Tick
  <2>2. Counted' = Counted /\ Pending' = Pending
    BY <1>2, <2>1 DEF Counted, Pending
  <2>3. ttl' \in 1..Window => ttl' = ttl - 1 /\ ttl \in 2..Window /\ b > Window - ttl
    BY <1>1, <1>9, <2>1, NeverAssumption DEF FixedTyped, TwoKeys
  <2>4. CASE b < Window
    <3>1. Total(admitted', b + 1) = some /\ admitted'[(b + 1) - 1] = admitted[b - 1]
      <4>1. b \in 0..(Window - 1) /\ b # 0 /\ (b + 1) - 1 = b
        BY <1>1, <2>4
      <4>2. QED BY <1>3, <4>1
    <3>2. less + v <= Limit + some
      BY <1>1, <1>4, <1>7
    <3>3. ttl' \in 1..Window => b + 1 > Window - ttl'
      BY <1>1, <2>3
    <3>4. TwoKeys(b + 1, v)'
      BY <1>5, <1>7, <2>2, <3>1, <3>2, <3>3 DEF TwoKeys
    <3>5. b + 1 \in 1..Window
      BY <1>1, <2>4
    <3>6. QED BY <3>4, <3>5
  <2>5. CASE b = Window
    <3>1. less + Pending <= Counted
      <4>1. v <= last /\ some = all
        BY <1>7, <2>5
      <4>2. QED BY <1>4, <1>6, <1>7, <4>1
    <3>2. ttl' \in 1..Window => Window > Window - ttl'
      <4>1. \A t \in 1..Window : Window > Window - t
        BY <1>1
      <4>2. QED BY <4>1
    <3>3. admitted'[Window - 1] \in Nat
      BY <1>1 DEF FixedTyped
    <3>4. TwoKeys(Window, 0)'
      BY <1>1, <1>4, <1>5, <1>6, <2>2, <3>1, <3>2, <3>3 DEF TwoKeys
    <3>5. QED BY <1>1, <3>4
  <2>6. QED BY <1>1, <2>4, <2>5
<1>10. QED BY <1>8, <1>9

LEMMA FixedNextInv ==
  ASSUME FixedInv, Fixed!Next
  PROVE  FixedInv'
<1>1. FixedTyped' /\ OneCreates'
  BY FixedTypedStep, OneCreatesStep DEF FixedInv
<1>2. PICK b \in 1..Window, v \in Nat : TwoKeys(b, v)
  BY DEF FixedInv
<1>3. FixedTyped /\ OneCreates
  BY DEF FixedInv
<1>4. \E c \in 1..Window, w \in Nat : TwoKeys(c, w)'
  BY <1>1, <1>2, <1>3, RequestSplit, TickSplit DEF Fixed!Next
<1>5. QED BY <1>1, <1>4 DEF FixedInv

-----------------------------------------------------------------------------
(* The sliding window                                                      *)

Fast == Sliding!Max({ahead[g] : g \in Gateways})
Slow == Sliding!Min({ahead[g] : g \in Gateways})

LEMMA Extremes ==
  ASSUME NEW K \in Nat, NEW S \in SUBSET (0..K), S # {}
  PROVE  /\ \E x \in S : \A y \in S : x >= y
         /\ \E x \in S : \A y \in S : x <= y
<1> DEFINE Both(U) == /\ \E x \in U : \A y \in U : x >= y
                      /\ \E x \in U : \A y \in U : x <= y
           T == {n \in Nat : \A U \in SUBSET (0..n) : U # {} => Both(U)}
<1>1. 0 \in T
  <2>1. ASSUME NEW U \in SUBSET (0..0), U # {} PROVE Both(U)
    <3>1. \A x \in U : x = 0
      OBVIOUS
    <3>2. 0 \in U
      BY <2>1, <3>1
    <3>3. \A y \in U : 0 >= y /\ 0 <= y
      BY <3>1
    <3>4. QED BY <3>2, <3>3
  <2>2. QED BY <2>1
<1>2. ASSUME NEW n \in Nat, n \in T PROVE n + 1 \in T
  <2>1. ASSUME NEW U \in SUBSET (0..(n + 1)), U # {} PROVE Both(U)
    <3>1. CASE n + 1 \notin U
      <4>1. U \in SUBSET (0..n)
        BY <3>1
      <4>2. QED BY <1>2, <2>1, <4>1
    <3>2. CASE U = {n + 1}
      BY <3>2
    <3>3. CASE n + 1 \in U /\ U # {n + 1}
      <4> DEFINE V == U \ {n + 1}
      <4>1. V \in SUBSET (0..n) /\ V # {}
        BY <3>3
      <4>2. PICK x \in V : \A y \in V : x <= y
        BY <1>2, <4>1
      <4>3. x \in U /\ \A y \in U : x <= y
        BY <4>1, <4>2
      <4>4. \A y \in U : n + 1 >= y
        BY <2>1
      <4>5. QED BY <3>3, <4>3, <4>4
    <3>4. QED BY <3>1, <3>2, <3>3
  <2> HIDE DEF Both
  <2>2. QED BY <2>1
<1>3. K \in T
  <2> HIDE DEF T
  <2>1. QED BY <1>1, <1>2, NumbersByStep
<1>4. Both(S)
  <2> HIDE DEF Both
  <2>1. QED BY <1>3
<1>5. QED BY <1>4

(* The clocks.                                                             *)
ClocksTyped == ahead \in [Gateways -> 0..Skew]

LEMMA Clocks ==
  ASSUME ClocksTyped
  PROVE  /\ Fast \in 0..Skew /\ Slow \in 0..Skew /\ Slow <= Fast
         /\ \A h \in Gateways : ahead[h] \in 0..Skew /\ Slow <= ahead[h] /\ ahead[h] <= Fast
         /\ Sliding!Spread = Fast - Slow
<1> DEFINE S == {ahead[g] : g \in Gateways}
<1>1. S \in SUBSET (0..Skew) /\ S # {} /\ Skew \in Nat
  BY GatewaysAssumption, SkewAssumption DEF ClocksTyped
<1>2. \A h \in Gateways : ahead[h] \in S /\ ahead[h] \in 0..Skew
  BY DEF ClocksTyped
<1> HIDE DEF S
<1>3. /\ \E x \in S : \A y \in S : x >= y
      /\ \E x \in S : \A y \in S : x <= y
  BY <1>1, Extremes
<1>4. Sliding!Max(S) \in S /\ \A y \in S : Sliding!Max(S) >= y
  BY <1>3 DEF Sliding!Max
<1>5. Sliding!Min(S) \in S /\ \A y \in S : Sliding!Min(S) <= y
  BY <1>3 DEF Sliding!Min
<1>6. Fast = Sliding!Max(S) /\ Slow = Sliding!Min(S) /\ Sliding!Spread = Fast - Slow
  BY DEF S, Fast, Slow, Sliding!Spread
<1>7. QED BY <1>1, <1>2, <1>4, <1>5, <1>6

Span == Sliding!Span

SlidingTyped ==
  /\ ClocksTyped
  /\ zset \in [0..Span -> Nat]
  /\ passed \in [0..Span -> Nat]
  /\ expiry \in 0..Window

(* Whoever was admitted renewed the key.                                   *)
Renewed == \A n \in 0..Window : n + expiry <= Window => Total(passed, n) = 0

(* What was admitted so recently that no clock has dropped it is in the    *)
(* set: scores lie Skew - Slow further behind than ages, at most.          *)
Held ==
  \A n \in 0..Window : n + Fast <= Window + Slow => Total(passed, n) <= Total(zset, n + (Skew - Slow))

(* What is in the set was admitted: at least Skew - Fast further behind.   *)
Caused == \A n \in 0..(Window + Fast + 1) : Total(zset, n + (Skew - Fast)) <= Total(passed, n)

Limited == \A n \in 0..Window : n + Fast <= Window + Slow => Total(passed, n) <= Limit

Because == refused => Limit <= Total(passed, Window + (Fast - Slow))

SlidingInv == SlidingTyped /\ Renewed /\ Held /\ Caused /\ Limited /\ Because

LEMMA Spans ==
  /\ Window \in Nat /\ Window >= 1 /\ Limit \in Nat /\ Skew \in Nat /\ Skew < Window
  /\ Span \in Nat /\ Span = Window + Skew /\ Sliding!Ages = 0..Span
BY WindowAssumption, SkewAssumption DEF Span, Sliding!Span, Sliding!Ages

LEMMA SlidingTotals ==
  ASSUME SlidingTyped
  PROVE  \A n \in 0..(Span + 1) : Total(zset, n) \in Nat /\ Total(passed, n) \in Nat
BY Spans, TotalFacts DEF SlidingTyped

(* What is left after the trimming by h's clock.                           *)
LEMMA Trimming ==
  ASSUME SlidingTyped, NEW h \in Gateways
  PROVE  /\ Sliding!Trimmed(h) \in [0..Span -> Nat]
         /\ Span - ahead[h] \in 0..Span
         /\ \A n \in 0..(Span + 1) : Total(Sliding!Trimmed(h), n) =
                IF n <= Span - ahead[h] THEN Total(zset, n) ELSE Total(zset, Span - ahead[h])
         /\ Sliding!Size(Sliding!Trimmed(h)) = Total(zset, Span - ahead[h])
<1> DEFINE m == Span - ahead[h]
           g == Sliding!Trimmed(h)
<1>1. ahead[h] \in 0..Skew /\ m \in 0..Span /\ m \in 0..(Span + 1)
  BY Spans, Clocks, SMTT(30) DEF SlidingTyped
<1>2. g = [a \in 0..Span |-> IF a + ahead[h] >= Span THEN 0 ELSE zset[a]]
  BY Spans DEF Sliding!Trimmed, Sliding!Outdated, Span
<1>3. g \in [0..Span -> Nat]
  BY <1>2 DEF SlidingTyped
<1>4. \A a \in 0..Span : g[a] = IF a >= m THEN 0 ELSE zset[a]
  BY <1>1, <1>2, Spans
<1>5. zset \in [0..Span -> Nat] /\ Span \in Nat
  BY Spans DEF SlidingTyped
<1> HIDE DEF m, g
<1>6. \A n \in 0..(Span + 1) : Total(g, n) = IF n <= m THEN Total(zset, n) ELSE Total(zset, m)
  BY <1>1, <1>3, <1>4, <1>5, TotalTrim
<1>7. Sliding!Size(g) = Total(g, Span + 1)
  BY SameTotals DEF Sliding!Size, Span
<1>8. Total(g, Span + 1) = Total(zset, m)
  <2>1. Span + 1 \in 0..(Span + 1) /\ ~ (Span + 1 <= m)
    BY <1>1, Spans
  <2>2. QED BY <1>6, <2>1
<1>9. QED BY <1>1, <1>3, <1>6, <1>7, <1>8 DEF m, g

LEMMA SlidingInit ==
  ASSUME Sliding!Init
  PROVE  SlidingInv
<1>1. SlidingTyped
  BY Spans DEF Sliding!Init, Sliding!Nobody, SlidingTyped, ClocksTyped
<1>2. \A n \in 0..(Span + 1) : Total(zset, n) = 0 /\ Total(passed, n) = 0
  <2>1. \A a \in 0..Span : zset[a] = 0 /\ passed[a] = 0
    BY Spans DEF Sliding!Init, Sliding!Nobody
  <2>2. QED BY <1>1, <2>1, Spans, TotalNone DEF SlidingTyped
<1>3. Fast \in 0..Skew /\ Slow \in 0..Skew
  BY <1>1, Clocks DEF SlidingTyped
<1>4. \A n \in 0..Window : n \in 0..(Span + 1) /\ n + (Skew - Slow) \in 0..(Span + 1)
  BY <1>3, Spans
<1>5. \A n \in 0..(Window + Fast + 1) : n \in 0..(Span + 1) /\ n + (Skew - Fast) \in 0..(Span + 1)
  BY <1>3, Spans
<1>6. Renewed /\ Held /\ Limited
  BY <1>2, <1>4, Spans DEF Renewed, Held, Limited
<1>7. Caused
  BY <1>2, <1>5 DEF Caused
<1>8. Because
  BY DEF Because, Sliding!Init
<1>9. QED BY <1>1, <1>6, <1>7, <1>8 DEF SlidingInv

(* A tick: what was in the set is a tick further behind, or all gone.      *)
LEMMA SlidingTickInv ==
  ASSUME SlidingInv, Sliding!Tick
  PROVE  SlidingInv'
<1>1. SlidingTyped /\ Renewed /\ Held /\ Caused /\ Limited
  BY DEF SlidingInv
<1>2. ahead' = ahead /\ Fast' = Fast /\ Slow' = Slow /\ passed' = Older(passed)
  BY SameTotals DEF Sliding!Tick, Fast, Slow
<1>3. /\ Fast \in 0..Skew /\ Slow \in 0..Skew /\ Slow <= Fast
  BY <1>1, Clocks DEF SlidingTyped
<1>4. zset \in [0..Span -> Nat] /\ passed \in [0..Span -> Nat] /\ expiry \in 0..Window
  BY <1>1 DEF SlidingTyped
<1>5. /\ passed' \in [0..Span -> Nat] /\ Total(passed', 0) = 0
      /\ \A n \in 0..Span : Total(passed', n + 1) = Total(passed, n)
  <2>1. /\ Older(passed) \in [0..Span -> Nat] /\ Total(Older(passed), 0) = 0
        /\ \A n \in 0..Span : Total(Older(passed), n + 1) = Total(passed, n)
    BY <1>4, Spans, OlderTally
  <2>2. QED BY <1>2, <2>1
<1>6. \A n \in 0..(Span + 1) : Total(zset, n) \in Nat /\ Total(passed, n) \in Nat
  BY <1>1, SlidingTotals
<1>7. expiry' = (IF expiry = 0 THEN 0 ELSE expiry - 1) /\ refused' = FALSE
  BY DEF Sliding!Tick
<1>8. expiry > 1 => \A n \in 0..Span : Total(zset', n + 1) = Total(zset, n)
  <2>1. SUFFICES ASSUME expiry > 1 PROVE \A n \in 0..Span : Total(zset', n + 1) = Total(zset, n)
    OBVIOUS
  <2>2. \A n \in 0..Span : Total(Older(zset), n + 1) = Total(zset, n)
    BY <1>4, Spans, OlderTally
  <2>3. zset' = Older(zset)
    BY <1>4, <2>1, SameTotals DEF Sliding!Tick
  <2>4. QED BY <2>2, <2>3
<1>9. expiry <= 1 => \A n \in 0..(Span + 1) : Total(zset', n) = 0
  <2>1. SUFFICES ASSUME expiry <= 1 PROVE \A n \in 0..(Span + 1) : Total(zset', n) = 0
    OBVIOUS
  <2>2. zset' \in [0..Span -> Nat] /\ \A a \in 0..Span : zset'[a] = 0
    BY <2>1, Spans DEF Sliding!Tick, Sliding!Nobody
  <2>3. QED BY <2>2, Spans, TotalNone
<1>10. zset' \in [0..Span -> Nat]
  <2>1. Older(zset) \in [0..Span -> Nat]
    BY <1>4, Spans, OlderTally
  <2>2. Sliding!Nobody \in [0..Span -> Nat]
    BY Spans DEF Sliding!Nobody
  <2>3. QED BY <2>1, <2>2, SameTotals DEF Sliding!Tick
<1>11. Total(zset', 0) = 0 /\ \A n \in 0..(Span + 1) : Total(zset', n) \in Nat /\ Total(passed', n) \in Nat
  BY <1>5, <1>10, Spans, TotalFacts
<1>12. SlidingTyped'
  <2>1. expiry' \in 0..Window
    BY <1>4, <1>7, Spans
  <2>2. QED BY <1>1, <1>2, <1>5, <1>10, <2>1 DEF SlidingTyped, ClocksTyped, Span, Sliding!Span
<1>13. \A n \in 1..Window :
         /\ n - 1 \in 0..Window /\ n - 1 \in 0..Span
         /\ Total(passed', n) = Total(passed, n - 1)
  <2>1. TAKE n \in 1..Window
  <2>2. n - 1 \in 0..Window /\ n - 1 \in 0..Span /\ (n - 1) + 1 = n
    BY Spans
  <2>3. Total(passed', (n - 1) + 1) = Total(passed, n - 1)
    BY <1>5, <2>2
  <2>4. QED BY <2>2, <2>3
<1>14. Renewed'
  <2>1. SUFFICES ASSUME NEW n \in 0..Window, n + expiry' <= Window PROVE Total(passed', n) = 0
    BY DEF Renewed
  <2>2. CASE n # 0
    <3>1. n \in 1..Window /\ (n - 1) + expiry <= Window
      BY <1>4, <1>7, <2>1, <2>2, Spans
    <3>2. QED BY <1>1, <1>13, <3>1 DEF Renewed
  <2>3. QED BY <1>5, <2>2
<1>15. Limited'
  <2>1. SUFFICES ASSUME NEW n \in 0..Window, n + Fast <= Window + Slow PROVE Total(passed', n) <= Limit
    BY <1>2 DEF Limited
  <2>2. CASE n # 0
    <3>1. n \in 1..Window /\ (n - 1) + Fast <= Window + Slow
      BY <1>3, <2>1, <2>2, Spans
    <3>2. QED BY <1>1, <1>13, <3>1 DEF Limited
  <2>3. QED BY <1>5, <2>2, Spans
<1>16. Held'
  <2> DEFINE d == Skew - Slow
  <2>1. SUFFICES ASSUME NEW n \in 0..Window, n + Fast <= Window + Slow
                 PROVE Total(passed', n) <= Total(zset', n + d)
    BY <1>2 DEF Held
  <2>2. d \in 0..Skew /\ n + d \in 0..(Span + 1)
    BY <1>3, Spans
  <2>3. CASE n # 0
    <3>1. n \in 1..Window /\ (n - 1) + Fast <= Window + Slow
      BY <1>3, <2>1, <2>3, Spans
    <3>2. Total(passed', n) = Total(passed, n - 1) /\ Total(passed, n - 1) <= Total(zset, (n - 1) + d)
      BY <1>1, <1>13, <3>1 DEF Held
    <3>3. CASE expiry > 1
      <4>1. (n - 1) + d \in 0..Span /\ ((n - 1) + d) + 1 = n + d
        BY <2>2, <3>1, Spans
      <4>2. Total(zset', ((n - 1) + d) + 1) = Total(zset, (n - 1) + d)
        BY <1>8, <3>3, <4>1
      <4>3. QED BY <3>2, <4>1, <4>2
    <3>4. CASE expiry <= 1
      <4>1. Total(passed, n - 1) = 0
        <5>1. (n - 1) + expiry <= Window /\ n - 1 \in 0..Window
          BY <1>4, <3>1, <3>4, Spans
        <5>2. QED BY <1>1, <5>1 DEF Renewed
      <4>2. Total(zset', n + d) \in Nat
        BY <1>11, <2>2
      <4>3. QED BY <3>2, <4>1, <4>2
    <3>5. QED BY <1>4, <3>3, <3>4
  <2>4. CASE n = 0
    <3>1. Total(passed', n) = 0 /\ Total(zset', n + d) \in Nat
      BY <1>5, <1>11, <2>2, <2>4
    <3>2. QED BY <3>1
  <2>5. QED BY <2>3, <2>4
<1>17. Caused'
  <2> DEFINE c == Skew - Fast
  <2>1. SUFFICES ASSUME NEW n \in 0..(Window + Fast + 1)
                 PROVE Total(zset', n + c) <= Total(passed', n)
    BY <1>2 DEF Caused
  <2>2. c \in 0..Skew /\ n + c \in 0..(Span + 1) /\ n \in 0..(Span + 1)
    BY <1>3, Spans
  <2>3. Total(passed', n) \in Nat
    BY <1>11, <2>2
  <2>4. CASE expiry <= 1
    <3>1. Total(zset', n + c) = 0
      BY <1>9, <2>2, <2>4
    <3>2. QED BY <2>3, <3>1
  <2>5. CASE expiry > 1 /\ n # 0
    <3>1. n - 1 \in 0..(Window + Fast + 1) /\ n - 1 \in 0..Span /\ (n - 1) + c \in 0..Span
          /\ ((n - 1) + c) + 1 = n + c /\ (n - 1) + 1 = n
      BY <1>3, <2>5, Spans
    <3>2. Total(zset', ((n - 1) + c) + 1) = Total(zset, (n - 1) + c)
      BY <1>8, <2>5, <3>1
    <3>3. Total(passed', (n - 1) + 1) = Total(passed, n - 1)
      BY <1>5, <3>1
    <3>4. Total(zset, (n - 1) + c) <= Total(passed, n - 1)
      BY <1>1, <3>1 DEF Caused
    <3>5. QED BY <3>1, <3>2, <3>3, <3>4
  <2>6. CASE expiry > 1 /\ n = 0
    <3>1. CASE c = 0
      BY <1>11, <2>3, <2>6, <3>1
    <3>2. CASE c # 0
      <4>1. c - 1 \in 0..Span /\ c - 1 \in Nat /\ c \in 0..(Span + 1) /\ c - 1 <= c /\ (c - 1) + 1 = c
            /\ 0 \in 0..(Window + Fast + 1) /\ 0 + c = c /\ n + c = c
        BY <1>3, <2>2, <2>6, <3>2, Spans
      <4> HIDE DEF c
      <4>2. Total(zset', (c - 1) + 1) = Total(zset, c - 1)
        BY <1>8, <2>6, <4>1
      <4>3. Total(zset, c - 1) <= Total(zset, c)
        BY <1>4, <4>1, Spans, TotalGrows
      <4>4. Total(zset, 0 + c) <= Total(passed, 0)
        BY <1>1, <4>1 DEF Caused, c
      <4>5. Total(passed, 0) = 0
        BY <1>4, Spans, TotalFacts
      <4>6. Total(zset, c - 1) \in Nat /\ Total(zset, c) \in Nat
        BY <1>6, <4>1, Spans
      <4>7. Total(zset', n + c) <= 0
        BY <4>1, <4>2, <4>3, <4>4, <4>5, <4>6
      <4>8. QED BY <1>11, <2>2, <2>3, <4>7
    <3>3. QED BY <3>1, <3>2
  <2>7. QED BY <1>4, <2>4, <2>5, <2>6
<1>18. Because'
  BY <1>7 DEF Because
<1>19. QED BY <1>12, <1>14, <1>15, <1>16, <1>17, <1>18 DEF SlidingInv

(* The script refuses: the set is full of those admitted in the window.    *)
LEMMA RefuseInv ==
  ASSUME SlidingInv, NEW h \in Gateways, Sliding!Refuse(h)
  PROVE  SlidingInv'
<1>1. SlidingTyped /\ Renewed /\ Held /\ Caused /\ Limited
  BY DEF SlidingInv
<1>2. /\ ahead' = ahead /\ passed' = passed /\ expiry' = expiry /\ zset' = Sliding!Trimmed(h)
      /\ Fast' = Fast /\ Slow' = Slow
      /\ Sliding!Size(Sliding!Trimmed(h)) >= Limit
  BY DEF Sliding!Refuse, Fast, Slow
<1>3. /\ Fast \in 0..Skew /\ Slow \in 0..Skew /\ Slow <= Fast
      /\ ahead[h] \in 0..Skew /\ Slow <= ahead[h] /\ ahead[h] <= Fast
  BY <1>1, Clocks DEF SlidingTyped
<1> DEFINE m == Span - ahead[h]
<1>4. /\ zset' \in [0..Span -> Nat]
      /\ m \in 0..Span
      /\ \A n \in 0..(Span + 1) : Total(zset', n) = IF n <= m THEN Total(zset, n) ELSE Total(zset, m)
      /\ Limit <= Total(zset, m)
  BY <1>1, <1>2, Spans, Trimming, SlidingTotals
<1>5. SlidingTyped'
  BY <1>1, <1>2, <1>4 DEF SlidingTyped, ClocksTyped, Span, Sliding!Span
<1>6. Renewed' /\ Limited'
  BY <1>1, <1>2 DEF Renewed, Limited
<1>7. Held'
  <2>1. SUFFICES ASSUME NEW n \in 0..Window, n + Fast <= Window + Slow
                 PROVE Total(passed, n) <= Total(zset', n + (Skew - Slow))
    BY <1>2 DEF Held
  <2>2. n + (Skew - Slow) \in 0..(Span + 1) /\ n + (Skew - Slow) <= m
    BY <1>3, <2>1, Spans
  <2>3. QED BY <1>1, <1>4, <2>1, <2>2 DEF Held
<1>8. Caused'
  <2>1. SUFFICES ASSUME NEW n \in 0..(Window + Fast + 1)
                 PROVE Total(zset', n + (Skew - Fast)) <= Total(passed, n)
    BY <1>2 DEF Caused
  <2> DEFINE k == n + (Skew - Fast)
  <2>2. k \in 0..(Span + 1) /\ n \in 0..(Span + 1) /\ m \in 0..(Span + 1)
    BY <1>3, <1>4, Spans
  <2>3. Total(zset, k) <= Total(passed, n)
    BY <1>1 DEF Caused
  <2>4. Total(zset, m) \in Nat /\ Total(zset, k) \in Nat /\ Total(passed, n) \in Nat
    BY <1>1, <2>2, SlidingTotals
  <2>5. m <= k => Total(zset, m) <= Total(zset, k)
    <3>1. zset \in [0..Span -> Nat] /\ m \in Nat /\ Span \in Nat
      BY <1>1, <2>2, Spans DEF SlidingTyped
    <3> HIDE DEF m, k
    <3>2. QED BY <2>2, <3>1, TotalGrows
  <2> HIDE DEF m, k
  <2>6. Total(zset', k) <= Total(zset, k)
    <3>1. Total(zset', k) = IF k <= m THEN Total(zset, k) ELSE Total(zset, m)
      BY <1>4, <2>2
    <3>2. k \in Nat /\ m \in Nat
      BY <2>2, Spans
    <3>3. QED BY <2>4, <2>5, <3>1, <3>2
  <2>7. Total(zset', k) \in Nat
    <3>1. Total(zset', k) = IF k <= m THEN Total(zset, k) ELSE Total(zset, m)
      BY <1>4, <2>2
    <3>2. QED BY <2>4, <3>1
  <2>8. Total(zset', k) <= Total(passed, n)
    BY <2>3, <2>4, <2>6, <2>7
  <2>9. QED BY <2>8 DEF k
<1>9. Because'
  <2> DEFINE n == Window + (Fast - ahead[h])
             w == Window + (Fast - Slow)
  <2>a. Fast - ahead[h] \in 0..Fast /\ Fast - Slow \in 0..Skew /\ Fast - ahead[h] <= Fast - Slow
    <3>1. PICK f \in 0..Skew, l \in 0..Skew, a \in 0..Skew : f = Fast /\ l = Slow /\ a = ahead[h]
      BY <1>3
    <3>2. l <= a /\ a <= f /\ Skew \in Nat
      BY <1>3, <3>1, Spans
    <3>3. f - a \in 0..f /\ f - l \in 0..Skew /\ f - a <= f - l
      BY <3>2
    <3>4. QED BY <3>1, <3>3
  <2>b. n \in 0..(Window + Fast + 1) /\ n \in Nat /\ n \in 0..(Span + 1)
    BY <1>3, <2>a, Spans
  <2>c. w \in 0..(Span + 1) /\ n <= w
    BY <1>3, <2>a, Spans
  <2>d. n + (Skew - Fast) = m
    BY <1>3, Spans
  <2>1. n \in 0..(Window + Fast + 1) /\ n + (Skew - Fast) = m /\ n \in Nat /\ w \in 0..(Span + 1) /\ n <= w
        /\ n \in 0..(Span + 1) /\ m \in 0..(Span + 1)
    BY <1>4, <2>b, <2>c, <2>d, Spans
  <2> HIDE DEF n, w
  <2>2. Total(zset, n + (Skew - Fast)) <= Total(passed, n)
    BY <1>1, <2>1 DEF Caused
  <2>3. Total(passed, n) <= Total(passed, w)
    BY <1>1, <2>1, Spans, TotalGrows DEF SlidingTyped
  <2>4. Total(zset, m) \in Nat /\ Total(passed, n) \in Nat /\ Total(passed, w) \in Nat
    BY <1>1, <2>1, SlidingTotals
  <2>5. Limit <= Total(passed, w)
    BY <1>4, <2>1, <2>2, <2>3, <2>4, Spans
  <2>6. QED BY <1>2, <2>5 DEF Because, w
<1>10. QED BY <1>5, <1>6, <1>7, <1>8, <1>9 DEF SlidingInv

(* The script admits: one more, in the history and in the set.             *)
LEMMA AdmitInv ==
  ASSUME SlidingInv, NEW h \in Gateways, Sliding!Admit(h)
  PROVE  SlidingInv'
<1>1. SlidingTyped /\ Renewed /\ Held /\ Caused /\ Limited
  BY DEF SlidingInv
<1> DEFINE trimmed == Sliding!Trimmed(h)
           m == Span - ahead[h]
           x == Skew - ahead[h]
<1>2. /\ ahead' = ahead /\ passed' = [passed EXCEPT ![0] = @ + 1] /\ expiry' = Window
      /\ zset' = [trimmed EXCEPT ![x] = @ + 1] /\ refused' = FALSE
      /\ Fast' = Fast /\ Slow' = Slow
      /\ Sliding!Size(trimmed) < Limit
  BY DEF Sliding!Admit, Fast, Slow
<1>3. /\ Fast \in 0..Skew /\ Slow \in 0..Skew /\ Slow <= Fast
      /\ ahead[h] \in 0..Skew /\ Slow <= ahead[h] /\ ahead[h] <= Fast
  BY <1>1, Clocks DEF SlidingTyped
<1>4. /\ trimmed \in [0..Span -> Nat]
      /\ m \in 0..Span
      /\ \A n \in 0..(Span + 1) : Total(trimmed, n) = IF n <= m THEN Total(zset, n) ELSE Total(zset, m)
      /\ Total(zset, m) < Limit
  BY <1>1, <1>2, Trimming
<1>5. x \in 0..Skew /\ x \in 0..Span /\ 0 \in 0..Span
  BY <1>3, Spans
<1> HIDE DEF trimmed
<1>6. /\ zset' \in [0..Span -> Nat] /\ passed' \in [0..Span -> Nat]
      /\ \A a \in 0..Span : zset'[a] = IF a = x THEN trimmed[a] + 1 ELSE trimmed[a]
      /\ \A a \in 0..Span : passed'[a] = IF a = 0 THEN passed[a] + 1 ELSE passed[a]
  <2> HIDE DEF x
  <2>1. zset' \in [0..Span -> Nat] /\ \A a \in 0..Span : zset'[a] = IF a = x THEN trimmed[a] + 1 ELSE trimmed[a]
    BY <1>2, <1>4, <1>5
  <2>2. passed \in [0..Span -> Nat] /\ passed' = [passed EXCEPT ![0] = @ + 1]
    BY <1>1, <1>2 DEF SlidingTyped
  <2>3. passed' \in [0..Span -> Nat] /\ \A a \in 0..Span : passed'[a] = IF a = 0 THEN passed[a] + 1 ELSE passed[a]
    BY <1>5, <2>2
  <2>4. QED BY <2>1, <2>3
<1>7. \A n \in 0..(Span + 1) : Total(zset', n) = IF x < n THEN Total(trimmed, n) + 1 ELSE Total(trimmed, n)
  <2> HIDE DEF x
  <2>1. Span \in Nat /\ x \in 0..Span /\ trimmed \in [0..Span -> Nat]
    BY <1>4, <1>5, Spans
  <2>2. zset' \in [0..Span -> Nat] /\ \A a \in 0..Span : zset'[a] = IF a = x THEN trimmed[a] + 1 ELSE trimmed[a]
    BY <1>6
  <2>3. QED BY <2>1, <2>2, TotalAdd
<1>8. \A n \in 0..(Span + 1) : Total(passed', n) = IF 0 < n THEN Total(passed, n) + 1 ELSE Total(passed, n)
  <2>1. Span \in Nat /\ 0 \in 0..Span /\ passed \in [0..Span -> Nat]
    BY <1>1, <1>5, Spans DEF SlidingTyped
  <2>2. passed' \in [0..Span -> Nat] /\ \A a \in 0..Span : passed'[a] = IF a = 0 THEN passed[a] + 1 ELSE passed[a]
    BY <1>6
  <2>3. QED BY <2>1, <2>2, TotalAdd
<1>9. \A n \in 0..(Span + 1) : Total(zset, n) \in Nat /\ Total(passed, n) \in Nat
  BY <1>1, SlidingTotals
<1>10. SlidingTyped'
  <2>1. expiry' \in 0..Window
    BY <1>2, Spans
  <2>2. QED BY <1>1, <1>2, <1>6, <2>1 DEF SlidingTyped, ClocksTyped, Span, Sliding!Span
<1>11. Total(passed, 0) = 0
  BY <1>1, Spans, TotalFacts DEF SlidingTyped
<1>12. Renewed'
  <2>1. SUFFICES ASSUME NEW n \in 0..Window, n + Window <= Window PROVE Total(passed', n) = 0
    BY <1>2 DEF Renewed
  <2>2. n = 0 /\ 0 \in 0..(Span + 1)
    BY <2>1, Spans
  <2>3. QED BY <1>8, <1>11, <2>2
<1>13. ASSUME NEW n \in 0..Window, n # 0, n + Fast <= Window + Slow
       PROVE  /\ Total(passed', n) = Total(passed, n) + 1
              /\ Total(passed, n) <= Total(zset, n + (Skew - Slow))
              /\ Total(zset, n + (Skew - Slow)) <= Total(zset, m)
              /\ Total(zset', n + (Skew - Slow)) = Total(zset, n + (Skew - Slow)) + 1
  <2> DEFINE k == n + (Skew - Slow)
  <2>1. /\ k \in 0..(Span + 1) /\ k <= m /\ x < k /\ n \in 0..(Span + 1) /\ 0 < n
        /\ k \in Nat /\ m \in 0..(Span + 1)
    BY <1>3, <1>4, <1>13, Spans, SMTT(30)
  <2>2. Total(passed, n) <= Total(zset, k)
    BY <1>1, <1>13 DEF Held
  <2>3. Total(zset, k) <= Total(zset, m)
    <3>1. zset \in [0..Span -> Nat] /\ Span \in Nat
      BY <1>1, Spans DEF SlidingTyped
    <3> HIDE DEF m, k
    <3>2. QED BY <2>1, <3>1, TotalGrows
  <2> HIDE DEF x, m, k
  <2>4. Total(zset', k) = Total(zset, k) + 1
    BY <1>4, <1>7, <2>1
  <2>5. Total(passed', n) = Total(passed, n) + 1
    BY <1>8, <2>1
  <2>6. QED BY <2>2, <2>3, <2>4, <2>5 DEF k
<1>14. Total(passed', 0) = 0
  <2>1. 0 \in 0..(Span + 1)
    BY Spans
  <2>2. QED BY <1>8, <1>11, <2>1
<1>15. Held'
  <2>1. SUFFICES ASSUME NEW n \in 0..Window, n + Fast <= Window + Slow
                 PROVE Total(passed', n) <= Total(zset', n + (Skew - Slow))
    BY <1>2 DEF Held
  <2>2. n + (Skew - Slow) \in 0..(Span + 1) /\ n \in 0..(Span + 1)
    BY <1>3, Spans
  <2>3. CASE n = 0
    <3>1. Total(zset', n + (Skew - Slow)) \in Nat
      BY <1>6, <2>2, Spans, TotalFacts
    <3>2. QED BY <1>14, <2>3, <3>1
  <2>4. CASE n # 0
    <3>1. Total(passed, n) \in Nat /\ Total(zset, n + (Skew - Slow)) \in Nat
      BY <1>9, <2>2
    <3>2. QED BY <1>13, <2>1, <2>4, <3>1
  <2>5. QED BY <2>3, <2>4
<1>16. Limited'
  <2>1. SUFFICES ASSUME NEW n \in 0..Window, n + Fast <= Window + Slow PROVE Total(passed', n) <= Limit
    BY <1>2 DEF Limited
  <2>2. CASE n = 0
    BY <1>14, <2>2, Spans
  <2>3. CASE n # 0
    <3>1. n + (Skew - Slow) \in 0..(Span + 1) /\ n \in 0..(Span + 1) /\ m \in 0..(Span + 1)
      BY <1>3, <1>4, Spans
    <3>2. Total(passed, n) \in Nat /\ Total(zset, n + (Skew - Slow)) \in Nat /\ Total(zset, m) \in Nat
      BY <1>9, <3>1
    <3>3. Total(passed', n) = Total(passed, n) + 1 /\ Total(passed, n) <= Total(zset, m)
      BY <1>13, <2>1, <2>3, <3>2
    <3>4. QED BY <1>4, <3>2, <3>3, Spans
  <2>4. QED BY <2>2, <2>3
<1>17. Caused'
  <2>1. SUFFICES ASSUME NEW n \in 0..(Window + Fast + 1)
                 PROVE Total(zset', n + (Skew - Fast)) <= Total(passed', n)
    BY <1>2 DEF Caused
  <2> DEFINE k == n + (Skew - Fast)
  <2>2. k \in 0..(Span + 1) /\ n \in 0..(Span + 1) /\ m \in 0..(Span + 1) /\ (x < k => 0 < n)
    BY <1>3, <1>4, Spans, SMTT(30)
  <2>3. Total(zset, k) <= Total(passed, n)
    BY <1>1 DEF Caused
  <2>4. Total(zset, m) \in Nat /\ Total(zset, k) \in Nat /\ Total(passed, n) \in Nat
    BY <1>9, <2>2
  <2>5. m <= k => Total(zset, m) <= Total(zset, k)
    <3>1. zset \in [0..Span -> Nat] /\ m \in Nat /\ Span \in Nat
      BY <1>1, <2>2, Spans DEF SlidingTyped
    <3> HIDE DEF m, k
    <3>2. QED BY <2>2, <3>1, TotalGrows
  <2> HIDE DEF m, k, x
  <2>6. Total(trimmed, k) \in Nat /\ Total(trimmed, k) <= Total(zset, k)
    <3>1. Total(trimmed, k) = IF k <= m THEN Total(zset, k) ELSE Total(zset, m)
      BY <1>4, <2>2
    <3>2. k \in Nat /\ m \in Nat
      BY <2>2, Spans
    <3>3. QED BY <2>4, <2>5, <3>1, <3>2
  <2>7. Total(zset', k) <= Total(passed', n)
    <3>1. Total(zset', k) = IF x < k THEN Total(trimmed, k) + 1 ELSE Total(trimmed, k)
      BY <1>7, <2>2
    <3>2. Total(passed', n) = IF 0 < n THEN Total(passed, n) + 1 ELSE Total(passed, n)
      BY <1>8, <2>2
    <3>3. QED BY <2>2, <2>3, <2>4, <2>6, <3>1, <3>2
  <2>8. QED BY <2>7 DEF k
<1>18. Because'
  BY <1>2 DEF Because
<1>19. QED BY <1>10, <1>12, <1>15, <1>16, <1>17, <1>18 DEF SlidingInv

-----------------------------------------------------------------------------
(* Either door                                                             *)

Inv == FixedInv /\ SlidingInv

LEMMA FixedUnchanged ==
  ASSUME FixedInv, UNCHANGED fixed
  PROVE  FixedInv'
BY DEF FixedInv, FixedTyped, OneCreates, TwoKeys, Pending, Counted, fixed

LEMMA SlidingUnchanged ==
  ASSUME SlidingInv, UNCHANGED sliding
  PROVE  SlidingInv'
BY DEF SlidingInv, SlidingTyped, ClocksTyped, Renewed, Held, Caused, Limited, Because, Fast, Slow,
       Span, Sliding!Span, sliding

LEMMA NextInv ==
  ASSUME Inv, [Next]_vars
  PROVE  Inv'
<1>1. CASE AtGateway
  <2>1. SlidingInv'
    BY <1>1, SlidingTickInv, RefuseInv, AdmitInv
       DEF Inv, AtGateway, Sliding!Next, Sliding!allowRate
  <2>2. FixedInv'
    BY <1>1, FixedUnchanged DEF Inv, AtGateway
  <2>3. QED BY <2>1, <2>2 DEF Inv
<1>2. CASE AtApi
  <2>1. FixedInv'
    BY <1>2, FixedNextInv DEF Inv, AtApi
  <2>2. SlidingInv'
    BY <1>2, SlidingUnchanged DEF Inv, AtApi
  <2>3. QED BY <2>1, <2>2 DEF Inv
<1>3. CASE UNCHANGED vars
  BY <1>3, FixedUnchanged, SlidingUnchanged DEF Inv, vars
<1>4. QED BY <1>1, <1>2, <1>3 DEF Next

(* In every reachable state the members of the sorted set account for what *)
(* the gateway's script admitted, give or take the clocks, and what the    *)
(* API's counter admitted within a window belongs to two keys at most.     *)
THEOREM Invariant == FairSpec => []Inv
<1>1. Init => Inv
  BY FixedInit, SlidingInit DEF Init, Inv
<1>2. QED BY <1>1, NextInv, PTL DEF FairSpec

(* However the requests of a client are spread over replicas whose clocks  *)
(* disagree, slidingWindowScript (server.go:226) admits at most Limit of   *)
(* them in any window that is shorter than Window by as much.              *)
THEOREM LimitIsKept == FairSpec => []LimitKept
<1>1. ASSUME Inv PROVE LimitKept
  <2>1. SlidingTyped /\ Limited
    BY <1>1 DEF Inv, SlidingInv
  <2>2. Fast \in 0..Skew /\ Slow \in 0..Skew /\ Slow <= Fast /\ Sliding!Spread = Fast - Slow
    BY <2>1, Clocks DEF SlidingTyped
  <2>3. Window - (Fast - Slow) \in 0..Window /\ (Window - (Fast - Slow)) + Fast <= Window + Slow
    BY <2>2, Spans
  <2>4. Total(passed, Window - (Fast - Slow)) <= Limit
    BY <2>1, <2>3 DEF Limited
  <2>5. QED BY <2>2, <2>4, SameTotals DEF LimitKept, Sliding!Within
<1>2. QED BY <1>1, Invariant, PTL

(* The script refuses a request only if it admitted Limit of them within   *)
(* the window, give or take the difference of the clocks (server.go:229).  *)
THEOREM RefusalsHaveCause == FairSpec => []RefusedForCause
<1>1. ASSUME Inv PROVE RefusedForCause
  <2>1. SlidingTyped /\ Because
    BY <1>1 DEF Inv, SlidingInv
  <2>2. Fast \in 0..Skew /\ Slow \in 0..Skew /\ Slow <= Fast /\ Sliding!Spread = Fast - Slow
    BY <2>1, Clocks DEF SlidingTyped
  <2>3. refused => Limit <= Total(passed, Window + Sliding!Spread)
    BY <2>1, <2>2 DEF Because
  <2>4. Window + Sliding!Spread \in 0..(Span + 1)
    BY <2>2, Spans
  <2>5. Total(passed, Window + Sliding!Spread) \in Nat
    BY <2>1, <2>4, SlidingTotals
  <2>6. QED BY <2>3, <2>5, Spans, SameTotals DEF RefusedForCause, Sliding!Within
<1>2. QED BY <1>1, Invariant, PTL

(* check_rate_limit (cache_service.py:72) admits at most twice its limit in*)
(* any window, however requests interleave with INCR and EXPIRE and        *)
(* whichever of the two fails.                                             *)
THEOREM TwiceTheLimit == FairSpec => []TwiceTheLimitKept
<1>1. ASSUME Inv PROVE TwiceTheLimitKept
  <2>1. FixedTyped
    BY <1>1 DEF Inv, FixedInv
  <2>2. PICK b \in 1..Window, v \in Nat : TwoKeys(b, v)
    BY <1>1 DEF Inv, FixedInv
  <2>3. Counted \in Nat /\ Pending \in Nat /\ Counted <= Limit /\ Limit \in Nat
    BY <2>1, CountedFacts, Spans
  <2>4. Total(admitted, b) \in Nat /\ Total(admitted, Window) \in Nat
    <3>1. b \in 0..Window /\ Window \in 0..Window
      BY Spans
    <3>2. QED BY <2>1, <3>1, AdmittedTotals
  <2>5. Total(admitted, b) + Pending <= Counted + v /\ Total(admitted, Window) + v <= Limit + Total(admitted, b)
    BY <2>2 DEF TwoKeys
  <2>6. Total(admitted, Window) <= 2 * Limit
    BY <2>3, <2>4, <2>5
  <2>7. QED BY <2>6, SameTotals DEF TwiceTheLimitKept, Fixed!Admitted
<1>2. QED BY <1>1, Invariant, PTL
=============================================================================
