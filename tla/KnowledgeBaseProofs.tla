-------------------------- MODULE KnowledgeBaseProofs --------------------------
(***************************************************************************)
(* Proofs about the knowledge base, for any processes, threads and files,  *)
(* any deployment of them and any number of crashes.                       *)
(***************************************************************************)
EXTENDS KnowledgeBase, WellFoundedInduction, FiniteSetTheorems, TLAPS

-----------------------------------------------------------------------------
(* Induction over numbers, as facts about sets.                            *)

LEMMA NumbersByStep ==
  ASSUME NEW S, 0 \in S, \A n \in Nat : n \in S => n + 1 \in S
  PROVE  Nat \subseteq S
<1> DEFINE R == OpToRel(<,Nat)
           T == Nat \ S
<1>1. SUFFICES ASSUME T # {} PROVE FALSE
  OBVIOUS
<1>2. \A y \in Nat, z \in Nat : y < z => <<y, z>> \in R
  BY Zenon DEF OpToRel
<1>3. IsWellFoundedOn(R, Nat)
  BY NatLessThanWellFounded
<1> HIDE DEF R
<1>4. PICK x \in T : \A y \in T : ~ (<<y, x>> \in R)
  BY <1>1, <1>3, WFMin
<1>5. x \in Nat /\ x # 0 /\ x - 1 \in Nat /\ x - 1 < x /\ (x - 1) + 1 = x
  OBVIOUS
<1>6. x - 1 \notin T
  BY <1>2, <1>4, <1>5
<1>7. QED BY <1>5, <1>6

(* A function is defined by its first value and a step.                    *)
LEMMA FunctionByStep ==
  ASSUME NEW S, NEW a \in S, NEW N \in Nat, NEW G \in [1..N -> [S -> S]]
  PROVE  \E k \in [0..N -> S] :
           /\ k[0] = a
           /\ \A n \in 1..N : k[n] = G[n][k[n - 1]]
<1> DEFINE Good(k, n) == k[0] = a /\ \A i \in 1..n : k[i] = G[i][k[i - 1]]
           Reach == {n \in Nat : n <= N => \E k \in [0..n -> S] : Good(k, n)}
<1>1. 0 \in Reach
  <2>1. [i \in 0..0 |-> a] \in [0..0 -> S] /\ Good([i \in 0..0 |-> a], 0)
    OBVIOUS
  <2>2. QED BY <2>1
<1>2. ASSUME NEW n \in Nat, n \in Reach, n + 1 <= N
      PROVE  \E k \in [0..(n + 1) -> S] : Good(k, n + 1)
  <2>1. PICK k \in [0..n -> S] : Good(k, n)
    BY <1>2
  <2>2. k[n] \in S /\ G[n + 1][k[n]] \in S
    BY <1>2
  <2> DEFINE g == [i \in 0..(n + 1) |-> IF i = n + 1 THEN G[n + 1][k[n]] ELSE k[i]]
  <2>3. g \in [0..(n + 1) -> S]
    BY <2>2
  <2>4. ASSUME NEW i \in 1..(n + 1)
        PROVE  g[i] = G[i][g[i - 1]]
    <3>1. CASE i = n + 1
      <4>1. i - 1 = n /\ n \in 0..(n + 1) /\ n # n + 1
        BY <3>1
      <4>2. QED BY <3>1, <4>1
    <3>2. CASE i # n + 1
      BY <3>2, <2>1
    <3>3. QED BY <3>1, <3>2
  <2>5. g[0] = a
    BY <2>1
  <2> HIDE DEF g
  <2>6. QED BY <2>3, <2>4, <2>5
<1>3. Nat \subseteq Reach
  <2> HIDE DEF Good
  <2>1. ASSUME NEW n \in Nat, n \in Reach PROVE n + 1 \in Reach
    BY <1>2, <2>1
  <2> HIDE DEF Reach
  <2>2. QED BY <1>1, <2>1, NumbersByStep
<1>4. QED BY <1>3

-----------------------------------------------------------------------------
(* Lists of blocks                                                         *)

(* A file's chunks carry the name its client gave it, or the displayed one.*)
Block == {b \in Sources \X Files : b[1] \in {SourceOf[b[2]], DisplayOf[b[2]]}}
List == Seq(Block)

(* No source is in a list twice.                                           *)
Distinct(list) == \A i, j \in DOMAIN list : list[i][1] = list[j][1] => i = j

LEMMA WithoutByStep ==
  ASSUME NEW list \in List, NEW source
  PROVE  \E kept :
           /\ Without(list, source) = kept[Len(list)]
           /\ kept[0] = << >>
           /\ \A n \in 1..Len(list) :
                kept[n] = IF list[n][1] = source THEN kept[n - 1]
                          ELSE Append(kept[n - 1], list[n])
<1> DEFINE N == Len(list)
           S == List
           a == << >>
           D(f) == [n \in 0..N |-> IF n = 0 THEN a
                      ELSE IF list[n][1] = source THEN f[n - 1] ELSE Append(f[n - 1], list[n])]
           G == [n \in 1..N |-> [l \in S |->
                   IF list[n][1] = source THEN l ELSE Append(l, list[n])]]
<1>1. N \in Nat /\ a \in S /\ G \in [1..N -> [S -> S]]
  BY DEF List
<1>2. PICK k \in [0..N -> S] : k[0] = a /\ \A n \in 1..N : k[n] = G[n][k[n - 1]]
  <2> HIDE DEF N, S, G, a
  <2>1. QED BY <1>1, FunctionByStep
<1>3. k = D(k)
  <2>1. ASSUME NEW n \in 0..N PROVE k[n] = D(k)[n]
    <3>1. CASE n = 0
      BY <3>1, <1>2
    <3>2. CASE n # 0
      <4>1. n \in 1..N /\ k[n - 1] \in S
        BY <3>2
      <4>2. QED BY <4>1, <1>2, <3>2
    <3>3. QED BY <3>1, <3>2
  <2>2. QED BY <2>1
<1> DEFINE kept == CHOOSE f : f = D(f)
<1>4. Without(list, source) = kept[N]
  BY Zenon DEF Without
<1>5. kept = D(kept)
  <2> HIDE DEF D
  <2>1. QED BY <1>3
<1> HIDE DEF kept
<1>6. kept[0] = a /\ \A n \in 1..N :
        kept[n] = IF list[n][1] = source THEN kept[n - 1] ELSE Append(kept[n - 1], list[n])
  <2>1. \A n \in 0..N : kept[n] = D(kept)[n]
    BY <1>5
  <2>2. kept[0] = a
    BY <2>1, <1>1
  <2>3. ASSUME NEW n \in 1..N
        PROVE  kept[n] = IF list[n][1] = source THEN kept[n - 1]
                         ELSE Append(kept[n - 1], list[n])
    <3>1. n \in 0..N /\ n # 0
      BY <1>1
    <3>2. QED BY <2>1, <3>1
  <2>4. QED BY <2>2, <2>3
<1>7. QED BY <1>4, <1>6

(* What Without keeps of a list: the blocks of the other sources, and none *)
(* of them twice that was there once.                                      *)
LEMMA WithoutKeepsOthers ==
  ASSUME NEW list \in List, NEW source
  PROVE  /\ Without(list, source) \in List
         /\ BlocksIn(Without(list, source)) = {b \in BlocksIn(list) : b[1] # source}
         /\ Distinct(list) => Distinct(Without(list, source))
<1>1. PICK kept :
        /\ Without(list, source) = kept[Len(list)]
        /\ kept[0] = << >>
        /\ \A n \in 1..Len(list) :
             kept[n] = IF list[n][1] = source THEN kept[n - 1] ELSE Append(kept[n - 1], list[n])
  BY WithoutByStep
<1> DEFINE N == Len(list)
           Others(n) == {list[i] : i \in {j \in 1..n : list[j][1] # source}}
           Good(n) == /\ kept[n] \in List
                      /\ BlocksIn(kept[n]) = Others(n)
                      /\ Distinct(list) => Distinct(kept[n])
           Reach == {n \in Nat : n <= N => Good(n)}
<1>2. N \in Nat /\ DOMAIN list = 1..N
  BY DEF List
<1>3. 0 \in Reach
  <2>1. << >> \in List /\ BlocksIn(<< >>) = {} /\ Distinct(<< >>)
    BY DEF List, BlocksIn, Distinct
  <2>2. Others(0) = {}
    OBVIOUS
  <2>3. QED BY <1>1, <2>1, <2>2
<1>4. ASSUME NEW n \in Nat, n \in Reach, n + 1 <= N
      PROVE  Good(n + 1)
  <2>1. Good(n) /\ n + 1 \in 1..N
    BY <1>2, <1>4
  <2>2. CASE list[n + 1][1] = source
    <3>1. kept[n + 1] = kept[n]
      BY <1>1, <2>1, <2>2, <1>2
    <3>2. Others(n + 1) = Others(n)
      BY <2>1, <2>2
    <3>3. QED BY <2>1, <3>1, <3>2
  <2>3. CASE list[n + 1][1] # source
    <3>1. kept[n + 1] = Append(kept[n], list[n + 1])
      <4>1. (n + 1) - 1 = n
        BY <1>4
      <4>2. QED BY <1>1, <2>1, <2>3, <4>1
    <3>2. list[n + 1] \in Block /\ kept[n] \in Seq(Block)
      BY <1>2, <2>1 DEF List
    <3>3. kept[n + 1] \in List
      BY <3>1, <3>2 DEF List
    <3>4. BlocksIn(kept[n + 1]) = BlocksIn(kept[n]) \cup {list[n + 1]}
      BY <3>1, <3>2 DEF BlocksIn
    <3>5. Others(n + 1) = Others(n) \cup {list[n + 1]}
      BY <2>1, <2>3
    <3>6. ASSUME Distinct(list) PROVE Distinct(kept[n + 1])
      <4>1. \A i \in DOMAIN kept[n] : kept[n][i][1] # list[n + 1][1]
        <5>1. SUFFICES ASSUME NEW i \in DOMAIN kept[n] PROVE kept[n][i][1] # list[n + 1][1]
          OBVIOUS
        <5>2. kept[n][i] \in Others(n)
          BY <2>1 DEF BlocksIn
        <5>3. PICK j \in 1..n : kept[n][i] = list[j]
          BY <5>2
        <5>4. QED BY <5>3, <3>6, <1>2, <1>4 DEF Distinct
      <4>2. Distinct(kept[n])
        BY <2>1, <3>6
      <4>3. QED BY <3>1, <3>2, <4>1, <4>2 DEF Distinct
    <3>7. QED BY <2>1, <3>3, <3>4, <3>5, <3>6
  <2>4. QED BY <2>2, <2>3
<1>5. Nat \subseteq Reach
  <2> HIDE DEF Good
  <2>1. ASSUME NEW n \in Nat, n \in Reach PROVE n + 1 \in Reach
    BY <1>4, <2>1, <1>2
  <2> HIDE DEF Reach
  <2>2. QED BY <1>3, <2>1, NumbersByStep
<1>6. Good(N)
  BY <1>2, <1>5
<1>7. Others(N) = {b \in BlocksIn(list) : b[1] # source}
  BY <1>2 DEF BlocksIn
<1>8. QED BY <1>1, <1>6, <1>7

-----------------------------------------------------------------------------
(* The inductive invariant                                                 *)

Busy(t)   == job[t].at \in {"parsed", "saving", "saved"}
Inside(t) == job[t].at \in {"saving", "saved"}

Names == Sources \cup Files \cup {"none"}

Job == [at : {"idle", "parsed", "saving", "saved", "done", "failed"},
        op : AllOperations \cup {"none"}, source : Names,
        parsed : List, copies : SUBSET Files, alone : BOOLEAN]

TypeOK ==
  /\ deployment \in Deployments
  /\ alive \in [Processes -> BOOLEAN]
  /\ chunks \in [Processes -> List]
  /\ index \in [Processes -> List]
  /\ bm25 \in [Processes -> List]
  /\ holder \in [Processes -> Threads \cup {Nobody}]
  /\ job \in [Threads -> Job]
  /\ diskChunks \in List \cup {Torn}
  /\ diskIndex \in List
  /\ uploads \subseteq Files
  /\ unused \subseteq Files
  /\ promised \subseteq Block /\ withdrawn \subseteq Files
  /\ rebuilt \in [Processes -> BOOLEAN]
  /\ crashes \in Nat

(* Whoever works belongs to a process that runs and does what it offers,   *)
(* and the lock is held by the one who is inside.                          *)
LockKept ==
  /\ \A p \in Processes : alive[p] => p \in deployment.processes
  /\ \A p \in Processes : holder[p] # Nobody => Home[holder[p]] = p /\ Inside(holder[p])
  /\ \A t \in Threads : Inside(t) => holder[Home[t]] = t
  /\ \A t \in Threads : Busy(t) => /\ t \in deployment.threads
                                   /\ alive[Home[t]]
                                   /\ job[t].op \in Operations[Home[t]]

(* What a request has parsed is one block of its file, or nothing.         *)
Shaped(op, source, parsed) ==
  /\ op \in {"upload", "add", "upsert"} =>
       \E f \in Files : source = SourceOf[f] /\ parsed = << <<source, f>> >>
  /\ op \in {"delete", "clear"} => parsed = << >>

Parsed == \A t \in Threads : Busy(t) => Shaped(job[t].op, job[t].source, job[t].parsed)

Inv == TypeOK /\ LockKept /\ Parsed

(* What a rebuild makes of the upload directory.                           *)
Directory == {<<DisplayOf[f], f>> : f \in uploads \cap Listed}

(* A request that runs alone finds the directory as it left it.            *)
Undisturbed ==
  \A t \in Threads : Busy(t) /\ job[t].alone =>
    /\ \A u \in Threads \ {t} : ~Busy(u)
    /\ job[t].op = "rebuild" =>
         /\ job[t].at = "parsed" => BlocksIn(job[t].parsed) = Directory
         /\ Inside(t) => BlocksIn(chunks[Home[t]]) = Directory

(* Every list in memory, and on the disk unless it is being written.       *)
EventsOnly == \A p \in deployment.processes : Operations[p] \subseteq {"upsert", "delete"}

NoDuplicates ==
  EventsOnly =>
    /\ \A p \in Processes : Distinct(chunks[p])
    /\ diskChunks # Torn => Distinct(diskChunks)

(* Of one process: no list is without a promised block, from the change of *)
(* the list in memory to the next process's load.                          *)
Safe(p) ==
  /\ alive[p] /\ holder[p] = Nobody =>
       diskChunks = chunks[p] /\ promised \subseteq BlocksIn(chunks[p])
  /\ alive[p] /\ holder[p] # Nobody =>
       LET j == job[holder[p]] IN
       /\ promised \subseteq BlocksIn(chunks[p])
       /\ j.op # "rebuild" => BlocksIn(j.parsed) \subseteq BlocksIn(chunks[p])
       /\ j.at = "saving" => diskChunks = Torn
       /\ j.at = "saved" => diskChunks = chunks[p]
  /\ ~alive[p] => diskChunks = Torn \/ promised \subseteq BlocksIn(diskChunks)

PromisesSafe ==
  SingleWriter =>
    /\ \A t \in Threads : Busy(t) /\ job[t].op = "rebuild" => job[t].alone
    /\ \A p \in deployment.processes : Safe(p)

-----------------------------------------------------------------------------
(* The steps, told by what they have in common                             *)

(* A request begins: it has parsed what it needs and may have touched the  *)
(* upload directory.                                                       *)
Starts(t) ==
  \E op \in AllOperations, source \in Names, parsed \in List :
    /\ Offers(t, op)
    /\ Begin(t, op, source, parsed)
    /\ Shaped(op, source, parsed)
    /\ op = "rebuild" => uploads' = uploads /\ BlocksIn(parsed) = Directory
    /\ op = "delete" => uploads' \cap CopiesOf(source) = {}
    /\ FilesIn(parsed) \subseteq uploads \cup unused
    /\ uploads' \subseteq uploads \cup unused /\ unused' \subseteq unused
    /\ UNCHANGED <<memory, diskChunks, diskIndex, history, crashes>>

Step(t) == ChangeChunks(t) \/ SaveChunks(t) \/ RebuildIndex(t) \/ EmbedFails(t)

LEMMA OneBlock ==
  ASSUME NEW f \in Files, NEW s \in {SourceOf[f], DisplayOf[f]}
  PROVE  /\ << <<s, f>> >> \in List
         /\ BlocksIn(<< <<s, f>> >>) = {<<s, f>>}
         /\ FilesIn(<< <<s, f>> >>) = {f}
         /\ Distinct(<< <<s, f>> >>)
<1>1. <<s, f>> \in Block
  BY DEF Block, Sources
<1>2. << <<s, f>> >> \in List /\ BlocksIn(<< <<s, f>> >>) = {<<s, f>>}
  BY <1>1 DEF List, BlocksIn
<1>3. QED BY <1>2 DEF FilesIn, Distinct

LEMMA SourcesNamed == \A f \in Files : SourceOf[f] \in Sources /\ DisplayOf[f] \in Sources
  BY DEF Sources

LEMMA IngestStarts ==
  ASSUME TypeOK, NEW t \in Threads, NEW f \in Files,
         Upload(t, f) \/ \E op \in {"add", "upsert"} : Ingest(t, op, f)
  PROVE  Starts(t)
<1>1. /\ SourceOf[f] \in Names /\ << <<SourceOf[f], f>> >> \in List
      /\ FilesIn(<< <<SourceOf[f], f>> >>) = {f}
  BY SourcesNamed, OneBlock DEF Names
<1>2. CASE Upload(t, f)
  <2>1. "upload" \in AllOperations /\ Shaped("upload", SourceOf[f], Parse(SourceOf[f], f))
    BY DEF AllOperations, Shaped, Parse
  <2>2. /\ uploads' \subseteq uploads \cup unused /\ unused' \subseteq unused
        /\ {f} \subseteq uploads \cup unused
    BY <1>2 DEF Upload, TypeOK
  <2>3. QED BY <1>1, <1>2, <2>1, <2>2 DEF Upload, Starts, Parse
<1>3. ASSUME NEW op \in {"add", "upsert"}, Ingest(t, op, f) PROVE Starts(t)
  <2>1. op \in AllOperations /\ Shaped(op, SourceOf[f], Parse(SourceOf[f], f))
    BY DEF AllOperations, Shaped, Parse
  <2>2. /\ uploads' \subseteq uploads \cup unused /\ unused' \subseteq unused
        /\ {f} \subseteq uploads \cup unused
    BY <1>3 DEF Ingest, TypeOK, disk
  <2>3. QED BY <1>1, <1>3, <2>1, <2>2 DEF Ingest, Starts, Parse, disk
<1>4. QED BY <1>2, <1>3

LEMMA RebuildStarts ==
  ASSUME TypeOK, NEW t \in Threads, RebuildFromUploads(t)
  PROVE  Starts(t)
<1> DEFINE there == uploads \cap Listed
<1>1. PICK order \in [1..Cardinality(there) -> there] :
        /\ \A f \in there : \E i \in DOMAIN order : order[i] = f
        /\ Begin(t, "rebuild", "none", [i \in DOMAIN order |-> <<DisplayOf[order[i]], order[i]>>])
  BY DEF RebuildFromUploads
<1> DEFINE parsed == [i \in DOMAIN order |-> <<DisplayOf[order[i]], order[i]>>]
<1>2. Cardinality(there) \in Nat
  BY FilesAssumption, FS_Subset, FS_CardinalityType DEF TypeOK
<1>3. \A f \in there : f \in Files /\ <<DisplayOf[f], f>> \in Block
  BY SourcesNamed DEF TypeOK, Block
<1>4. parsed \in List
  <2>1. DOMAIN order = 1..Cardinality(there)
    OBVIOUS
  <2>2. \A i \in 1..Cardinality(there) : <<DisplayOf[order[i]], order[i]>> \in Block
    BY <1>3
  <2>3. parsed \in [1..Cardinality(there) -> Block]
    BY <2>1, <2>2
  <2> HIDE DEF parsed, there
  <2>4. QED BY <1>2, <2>3 DEF List
<1>5. BlocksIn(parsed) = Directory
  BY <1>1 DEF BlocksIn, Directory
<1>6. "rebuild" \in AllOperations /\ Shaped("rebuild", "none", parsed) /\ "none" \in Names
  BY DEF AllOperations, Shaped, Names
<1>7. FilesIn(parsed) \subseteq uploads
  <2>1. ASSUME NEW b \in BlocksIn(parsed) PROVE b[2] \in uploads
    <3>1. PICK f \in there : b = <<DisplayOf[f], f>>
      BY <1>5 DEF Directory
    <3>2. QED BY <3>1
  <2> HIDE DEF parsed
  <2>2. QED BY <2>1 DEF FilesIn
<1> HIDE DEF parsed
<1>8. QED BY <1>1, <1>4, <1>5, <1>6, <1>7 DEF RebuildFromUploads, Starts, TypeOK, disk, parsed

LEMMA RemovalStarts ==
  ASSUME TypeOK, NEW t \in Threads,
         Clear(t) \/ \E s \in Sources \cup Files : DeleteSource(t, s)
  PROVE  Starts(t)
<1>1. << >> \in List /\ FilesIn(<< >>) = {}
  BY DEF List, FilesIn, BlocksIn
<1>2. CASE Clear(t)
  <2>1. "clear" \in AllOperations /\ Shaped("clear", "none", << >>) /\ "none" \in Names
    BY DEF AllOperations, Shaped, Names
  <2>2. QED BY <1>1, <1>2, <2>1 DEF Clear, Starts, TypeOK, disk
<1>3. ASSUME NEW s \in Sources \cup Files, DeleteSource(t, s) PROVE Starts(t)
  <2>1. "delete" \in AllOperations /\ Shaped("delete", s, << >>) /\ s \in Names
    BY DEF AllOperations, Shaped, Names
  <2>2. uploads' \cap CopiesOf(s) = {} /\ uploads' \subseteq uploads
    BY <1>3 DEF DeleteSource, CopiesOf
  <2>3. QED BY <1>1, <1>3, <2>1, <2>2 DEF DeleteSource, Starts, TypeOK
<1>4. QED BY <1>2, <1>3

LEMMA Steps ==
  ASSUME TypeOK, Next
  PROVE  /\ deployment' = deployment
         /\ \/ \E t \in Threads : Starts(t) \/ Step(t)
            \/ \E p \in Processes : Crash(p) \/ Boot(p)
  BY IngestStarts, RebuildStarts, RemovalStarts DEF Next, Step

-----------------------------------------------------------------------------
(* Types                                                                   *)

LEMMA StartTyped ==
  ASSUME TypeOK, NEW t \in Threads, Starts(t), deployment' = deployment
  PROVE  TypeOK'
<1>1. PICK op \in AllOperations, source \in Names, parsed \in List :
        /\ Begin(t, op, source, parsed)
        /\ uploads' \subseteq uploads \cup unused /\ unused' \subseteq unused
        /\ UNCHANGED <<memory, diskChunks, diskIndex, history, crashes>>
  BY DEF Starts
<1> DEFINE copies == IF op = "delete" THEN CopiesOf(source) ELSE {}
<1>2. Quiet(t) \in BOOLEAN /\ copies \in SUBSET Files
  BY ListedAssumption DEF Quiet, CopiesOf
<1>3. job' \in [Threads -> Job]
  <2>1. job' = [[u \in Threads |-> [job[u] EXCEPT !.alone = FALSE]] EXCEPT ![t] =
                  [at |-> "parsed", op |-> op, source |-> source, parsed |-> parsed,
                   copies |-> copies, alone |-> Quiet(t)]]
    BY <1>1 DEF Begin
  <2> HIDE DEF copies
  <2>2. ASSUME NEW u \in Threads PROVE [job[u] EXCEPT !.alone = FALSE] \in Job
    BY DEF TypeOK, Job
  <2>3. [at |-> "parsed", op |-> op, source |-> source, parsed |-> parsed,
         copies |-> copies, alone |-> Quiet(t)] \in Job
    BY <1>1, <1>2, ZenonT(30) DEF Job
  <2>4. QED BY <2>1, <2>2, <2>3
<1>4. QED BY <1>1, <1>3 DEF TypeOK, memory, history

LEMMA NewChunksTyped ==
  ASSUME NEW list \in List, NEW j \in Job, j.op # "none"
  PROVE  NewChunks(list, j) \in List
<1>1. Without(list, j.source) \in List
  BY WithoutKeepsOthers
<1>2. j.parsed \in List /\ j.op \in AllOperations
  BY DEF Job
<1>3. \A l \in List, k \in List : l \o k \in List
  BY DEF List
<1>4. QED BY <1>1, <1>2, <1>3 DEF NewChunks, AllOperations

LEMMA StepTyped ==
  ASSUME Inv, NEW t \in Threads, Step(t), deployment' = deployment
  PROVE  TypeOK'
<1>1. Home[t] \in Processes
  BY HomeAssumption
<1>2. CASE ChangeChunks(t)
  <2>1. job[t] \in Job /\ job[t].op # "none"
    BY <1>1, <1>2, OperationsAssumption DEF Inv, TypeOK, LockKept, Busy, ChangeChunks, AllOperations
  <2>2. NewChunks(chunks[Home[t]], job[t]) \in List
    BY <1>1, <2>1, NewChunksTyped DEF Inv, TypeOK
  <2>3. Kept(job[t]) \subseteq Block
    <3>1. \A f \in Files : <<DisplayOf[f], f>> \in Block
      BY SourcesNamed DEF Block
    <3>2. QED BY <2>1, <3>1 DEF Inv, TypeOK, Kept, AllOperations, Job
  <2>4. QED BY <1>1, <1>2, <2>1, <2>2, <2>3 DEF ChangeChunks, Inv, TypeOK, Job
<1>3. CASE SaveChunks(t)
  BY <1>1, <1>3 DEF SaveChunks, Inv, TypeOK, Job, memory, history
<1>4. CASE RebuildIndex(t)
  <2>1. BlocksIn(job[t].parsed) \subseteq Block
    BY DEF Inv, TypeOK, Job, List, BlocksIn
  <2>2. << >> \in List
    BY DEF List
  <2>3. job' \in [Threads -> Job]
    BY <1>4, <2>2 DEF RebuildIndex, Inv, TypeOK, Job, Idle, Names
  <2>4. withdrawn' \subseteq Files /\ promised' \subseteq Block
    BY <1>4, <2>1 DEF RebuildIndex, Inv, TypeOK, Job
  <2>5. QED BY <1>1, <1>4, <2>3, <2>4 DEF RebuildIndex, Reindex, Inv, TypeOK
<1>5. CASE EmbedFails(t)
  <2>1. << >> \in List
    BY DEF List
  <2>2. QED BY <1>1, <1>5, <2>1 DEF EmbedFails, Inv, TypeOK, Job, Idle, Names, disk
<1>6. QED BY <1>2, <1>3, <1>4, <1>5 DEF Step

LEMMA ProcessTyped ==
  ASSUME TypeOK, NEW p \in Processes, Crash(p) \/ Boot(p), deployment' = deployment
  PROVE  TypeOK'
<1>1. << >> \in List
  BY DEF List
<1>2. CASE Crash(p)
  <2>1. Idle \in Job
    BY <1>1 DEF Idle, Job, Names
  <2>2. job' \in [Threads -> Job]
    BY <1>2, <2>1 DEF Crash, TypeOK
  <2>3. QED BY <1>2, <2>2 DEF Crash, TypeOK, disk, history
<1>3. CASE Boot(p)
  BY <1>3 DEF Boot, TypeOK
<1>4. QED BY <1>2, <1>3

-----------------------------------------------------------------------------
(* The lock                                                                *)

LEMMA StartLocked ==
  ASSUME Inv, NEW t \in Threads, Starts(t), deployment' = deployment
  PROVE  LockKept' /\ Parsed'
<1>1. PICK op \in AllOperations, source \in Names, parsed \in List :
        /\ Offers(t, op)
        /\ Begin(t, op, source, parsed)
        /\ Shaped(op, source, parsed)
        /\ UNCHANGED memory
  BY DEF Starts
<1>2. job'[t] = [at |-> "parsed", op |-> op, source |-> source, parsed |-> parsed,
                 copies |-> IF op = "delete" THEN CopiesOf(source) ELSE {},
                 alone |-> Quiet(t)]
  BY <1>1 DEF Begin, Inv, TypeOK
<1>3. \A u \in Threads \ {t} : /\ job'[u].at = job[u].at /\ job'[u].op = job[u].op
                               /\ job'[u].source = job[u].source
                               /\ job'[u].parsed = job[u].parsed
  BY <1>1 DEF Begin, Inv, TypeOK, Job
<1>4. ~Inside(t)
  BY <1>1 DEF Offers, Inside
<1>5. LockKept'
  BY <1>1, <1>2, <1>3, <1>4, NobodyAssumption
     DEF Inv, TypeOK, LockKept, Inside, Busy, Offers, memory
<1>6. Parsed'
  BY <1>1, <1>2, <1>3 DEF Inv, Parsed, Busy, Shaped
<1>7. QED BY <1>5, <1>6

LEMMA StepLocked ==
  ASSUME Inv, NEW t \in Threads, Step(t), deployment' = deployment
  PROVE  LockKept' /\ Parsed'
<1>1. Home[t] \in Processes /\ t # Nobody
  BY HomeAssumption, NobodyAssumption
<1>2. CASE ChangeChunks(t)
  <2>1. LockKept'
    <3>1. /\ job'[t].at = "saving" /\ job'[t].op = job[t].op
          /\ \A u \in Threads \ {t} : job'[u] = job[u]
      BY <1>2 DEF ChangeChunks, Inv, TypeOK, Job
    <3>2. /\ holder[Home[t]] = Nobody /\ holder'[Home[t]] = t
          /\ \A q \in Processes \ {Home[t]} : holder'[q] = holder[q]
          /\ alive' = alive
      BY <1>1, <1>2 DEF ChangeChunks, MayEnter, Inv, TypeOK
    <3>3. Busy(t)
      BY <1>2 DEF ChangeChunks, Busy
    <3>4. \A q \in Processes : holder[q] \in Threads \cup {Nobody}
      BY DEF Inv, TypeOK
    <3>5. QED
      BY <1>1, <3>1, <3>2, <3>3, <3>4, HomeAssumption, NobodyAssumption
         DEF Inv, LockKept, Inside, Busy
  <2>2. Parsed'
    BY <1>2 DEF ChangeChunks, Inv, TypeOK, Parsed, Busy, Shaped, Job
  <2>3. QED BY <2>1, <2>2
<1>3. CASE SaveChunks(t)
  <2>1. LockKept'
    BY <1>1, <1>3, HomeAssumption DEF SaveChunks, Inv, TypeOK, LockKept, Inside, Busy, Job, memory
  <2>2. Parsed'
    BY <1>3 DEF SaveChunks, Inv, TypeOK, Parsed, Busy, Shaped, Job
  <2>3. QED BY <2>1, <2>2
<1>4. CASE RebuildIndex(t)
  <2>1. LockKept'
    BY <1>1, <1>4, HomeAssumption DEF RebuildIndex, Inv, TypeOK, LockKept, Inside, Busy, Job, Idle
  <2>2. Parsed'
    BY <1>4 DEF RebuildIndex, Inv, TypeOK, Parsed, Busy, Shaped, Idle
  <2>3. QED BY <2>1, <2>2
<1>5. CASE EmbedFails(t)
  <2>1. LockKept'
    BY <1>1, <1>5, HomeAssumption DEF EmbedFails, Inv, TypeOK, LockKept, Inside, Busy, Job, Idle
  <2>2. Parsed'
    BY <1>5 DEF EmbedFails, Inv, TypeOK, Parsed, Busy, Shaped, Idle
  <2>3. QED BY <2>1, <2>2
<1>6. QED BY <1>2, <1>3, <1>4, <1>5 DEF Step

LEMMA ProcessLocked ==
  ASSUME Inv, NEW p \in Processes, Crash(p) \/ Boot(p), deployment' = deployment
  PROVE  LockKept' /\ Parsed'
<1>1. CASE Crash(p)
  <2>1. \A t \in Threads : /\ Home[t] = p => ~(Inside(t)') /\ ~(Busy(t)')
                           /\ Home[t] # p => job'[t] = job[t]
    BY <1>1 DEF Crash, Inside, Busy, Idle
  <2>2. \A q \in Processes : /\ q # p => alive'[q] = alive[q] /\ holder'[q] = holder[q]
                             /\ q = p => ~alive'[q] /\ holder'[q] = Nobody
    BY <1>1 DEF Crash, Inv, TypeOK
  <2>3. \A q \in Processes : holder[q] \in Threads \cup {Nobody}
    BY DEF Inv, TypeOK
  <2>4. LockKept'
    BY <2>1, <2>2, <2>3, HomeAssumption DEF Inv, LockKept, Inside, Busy
  <2>5. Parsed'
    BY <1>1 DEF Crash, Inv, TypeOK, Parsed, Busy, Shaped, Idle
  <2>6. QED BY <2>4, <2>5
<1>2. CASE Boot(p)
  BY <1>2 DEF Boot, Inv, TypeOK, LockKept, Inside, Busy, Parsed, Shaped
<1>3. QED BY <1>1, <1>2

LEMMA InitInv == Init => Inv
<1> SUFFICES ASSUME Init PROVE Inv
  OBVIOUS
<1>1. << >> \in List
  BY DEF List
<1>2. TypeOK
  BY <1>1, DeploymentsAssumption DEF Init, TypeOK, Job, Idle, Names
<1>3. LockKept /\ Parsed
  BY DEF Init, LockKept, Parsed, Inside, Busy, Idle
<1>4. QED BY <1>2, <1>3 DEF Inv

LEMMA NextInv ==
  ASSUME Inv, [Next]_vars
  PROVE  Inv'
<1>1. CASE UNCHANGED vars
  BY <1>1 DEF vars, memory, disk, history, Inv, TypeOK, LockKept, Parsed, Shaped, Busy, Inside
<1>2. CASE Next
  BY <1>2, Steps, StartTyped, StepTyped, ProcessTyped, StartLocked, StepLocked, ProcessLocked
     DEF Inv
<1>3. QED BY <1>1, <1>2

(* Types, and that the lock of a process is held by the one request that   *)
(* is changing its chunk list.                                             *)
THEOREM Invariant == Spec => []Inv
  BY InitInv, NextInv, PTL DEF Spec

-----------------------------------------------------------------------------
(* The indexes                                                             *)

LEMMA NextAligned ==
  ASSUME Inv, SearchAligned, [Next]_vars
  PROVE  SearchAligned'
<1>1. CASE UNCHANGED vars
  BY <1>1 DEF vars, memory, history, SearchAligned
<1>2. ASSUME NEW t \in Threads, Starts(t) PROVE SearchAligned'
  BY <1>2 DEF Starts, memory, history, SearchAligned
<1>3. ASSUME NEW t \in Threads, Step(t) PROVE SearchAligned'
  <2>1. Home[t] \in Processes /\ t # Nobody
    BY HomeAssumption, NobodyAssumption
  <2>2. CASE ChangeChunks(t)
    BY <2>1, <2>2 DEF ChangeChunks, Inv, TypeOK, SearchAligned
  <2>3. CASE SaveChunks(t)
    BY <2>3 DEF SaveChunks, memory, history, SearchAligned
  <2>4. CASE RebuildIndex(t)
    BY <2>1, <2>4 DEF RebuildIndex, Reindex, Inv, TypeOK, LockKept, Inside, SearchAligned
  <2>5. CASE EmbedFails(t)
    BY <2>1, <2>5 DEF EmbedFails, Inv, TypeOK, LockKept, Inside, SearchAligned
  <2>6. QED BY <1>3, <2>2, <2>3, <2>4, <2>5 DEF Step
<1>4. ASSUME NEW p \in Processes, Crash(p) \/ Boot(p) PROVE SearchAligned'
  <2>1. CASE Crash(p)
    BY <2>1 DEF Crash, history, Inv, TypeOK, SearchAligned
  <2>2. CASE Boot(p)
    BY <2>2 DEF Boot, Inv, TypeOK, SearchAligned
  <2>3. QED BY <1>4, <2>1, <2>2
<1>5. QED BY <1>1, <1>2, <1>3, <1>4, Steps DEF Inv

(* Between requests, and unless the last rebuild of a process failed, its  *)
(* vector index and its BM25 index describe its chunk list: a search maps  *)
(* positions to the right chunks (retriever.py:840), however the requests  *)
(* of the processes interleave, fail or are cut off.                       *)
THEOREM SearchStaysAligned == Spec => []SearchAligned
<1>1. Init => SearchAligned
  BY DEF Init, SearchAligned
<1>2. QED BY <1>1, Invariant, NextAligned, PTL DEF Spec

-----------------------------------------------------------------------------
(* Ingestion by events                                                     *)

(* An event replaces the chunks of its source, or takes them out.          *)
LEMMA EventKeepsDistinct ==
  ASSUME NEW list \in List, Distinct(list), NEW j, j.op \in {"upsert", "delete"},
         Shaped(j.op, j.source, j.parsed)
  PROVE  Distinct(NewChunks(list, j))
<1> DEFINE others == Without(list, j.source)
<1>1. /\ others \in List
      /\ Distinct(others)
      /\ \A i \in DOMAIN others : others[i][1] # j.source
  <2>1. BlocksIn(others) = {b \in BlocksIn(list) : b[1] # j.source}
    BY WithoutKeepsOthers
  <2>2. QED BY <2>1, WithoutKeepsOthers DEF BlocksIn
<1> HIDE DEF others
<1>2. CASE j.op = "delete"
  BY <1>1, <1>2 DEF NewChunks, others
<1>3. CASE j.op = "upsert"
  <2>1. PICK f \in Files : j.source = SourceOf[f] /\ j.parsed = << <<j.source, f>> >>
    BY <1>3 DEF Shaped
  <2>2. <<j.source, f>> \in Block /\ others \in Seq(Block)
    BY <1>1, <2>1, SourcesNamed DEF Block, List
  <2>3. NewChunks(list, j) = others \o << <<j.source, f>> >>
    BY <1>3, <2>1 DEF NewChunks, others
  <2>4. QED BY <1>1, <2>2, <2>3 DEF Distinct
<1>4. QED BY <1>2, <1>3

LEMMA NextDistinct ==
  ASSUME Inv, NoDuplicates, [Next]_vars
  PROVE  NoDuplicates'
<1>1. CASE UNCHANGED vars
  BY <1>1 DEF vars, memory, disk, history, NoDuplicates, EventsOnly
<1>2. SUFFICES ASSUME Next, EventsOnly', deployment' = deployment
               PROVE  /\ \A p \in Processes : Distinct(chunks'[p])
                      /\ diskChunks' # Torn => Distinct(diskChunks')
  BY <1>1, Steps DEF Inv, NoDuplicates
<1>3. /\ EventsOnly
      /\ \A p \in Processes : Distinct(chunks[p])
      /\ diskChunks # Torn => Distinct(diskChunks)
  BY <1>2 DEF EventsOnly, NoDuplicates
<1>4. CASE \E t \in Threads : Starts(t)
  BY <1>3, <1>4 DEF Starts, memory
<1>5. ASSUME NEW t \in Threads, ChangeChunks(t)
      PROVE  /\ \A p \in Processes : Distinct(chunks'[p])
             /\ diskChunks' # Torn => Distinct(diskChunks')
  <2>1. Home[t] \in Processes /\ Busy(t)
    BY <1>5, HomeAssumption DEF ChangeChunks, Busy
  <2>2. job[t].op \in {"upsert", "delete"} /\ Shaped(job[t].op, job[t].source, job[t].parsed)
    BY <1>3, <2>1 DEF Inv, LockKept, Parsed, EventsOnly
  <2>3. Distinct(NewChunks(chunks[Home[t]], job[t]))
    BY <1>3, <2>1, <2>2, EventKeepsDistinct DEF Inv, TypeOK
  <2>4. QED BY <1>3, <1>5, <2>1, <2>3 DEF ChangeChunks, Inv, TypeOK
<1>6. ASSUME NEW t \in Threads, SaveChunks(t) \/ RebuildIndex(t) \/ EmbedFails(t)
      PROVE  /\ \A p \in Processes : Distinct(chunks'[p])
             /\ diskChunks' # Torn => Distinct(diskChunks')
  BY <1>3, <1>6, HomeAssumption DEF SaveChunks, RebuildIndex, EmbedFails, memory, disk
<1>7. ASSUME NEW p \in Processes, Crash(p) \/ Boot(p)
      PROVE  /\ \A q \in Processes : Distinct(chunks'[q])
             /\ diskChunks' # Torn => Distinct(diskChunks')
  BY <1>3, <1>7 DEF Crash, Boot, disk, Inv, TypeOK
<1>8. QED BY <1>2, <1>4, <1>5, <1>6, <1>7, Steps DEF Inv, Step

(* Where documents come and go by events only (server.py), no list - in the*)
(* memory of a process or in chunks.json - has a source twice: an event    *)
(* that is delivered again, races another or is cut off changes nothing.   *)
THEOREM EventsAreIdempotent == Spec => []IngestIsIdempotent
<1>1. Init => NoDuplicates
  BY DEF Init, NoDuplicates, Distinct
<1>2. NoDuplicates => IngestIsIdempotent
  BY DEF NoDuplicates, EventsOnly, IngestIsIdempotent, Distinct
<1>3. QED BY <1>1, <1>2, Invariant, NextDistinct, PTL DEF Spec

-----------------------------------------------------------------------------
(* Requests that run alone                                                 *)

LEMMA StartUndisturbed ==
  ASSUME Inv, Undisturbed, NEW t \in Threads, Starts(t)
  PROVE  Undisturbed'
<1>1. PICK op \in AllOperations, source \in Names, parsed \in List :
        /\ Begin(t, op, source, parsed)
        /\ op = "rebuild" => uploads' = uploads /\ BlocksIn(parsed) = Directory
  BY DEF Starts
<1>2. job'[t] = [at |-> "parsed", op |-> op, source |-> source, parsed |-> parsed,
                 copies |-> IF op = "delete" THEN CopiesOf(source) ELSE {},
                 alone |-> Quiet(t)]
  BY <1>1 DEF Begin, Inv, TypeOK
<1>3. \A u \in Threads \ {t} : job'[u].at = job[u].at /\ ~job'[u].alone
  BY <1>1 DEF Begin, Inv, TypeOK, Job
<1>4. ASSUME Quiet(t) PROVE \A u \in Threads \ {t} : ~(Busy(u)')
  BY <1>3, <1>4 DEF Quiet, Busy
<1>5. op = "rebuild" => BlocksIn(parsed) = Directory'
  BY <1>1 DEF Directory
<1>6. QED BY <1>2, <1>3, <1>4, <1>5 DEF Undisturbed, Inside

LEMMA StepUndisturbed ==
  ASSUME Inv, Undisturbed, NEW t \in Threads, Step(t)
  PROVE  Undisturbed'
<1>1. Home[t] \in Processes /\ Busy(t)
  BY HomeAssumption DEF Step, ChangeChunks, SaveChunks, RebuildIndex, EmbedFails, Busy
<1>2. /\ \A u \in Threads \ {t} : job'[u] = job[u]
      /\ uploads' = uploads
  BY DEF Step, ChangeChunks, SaveChunks, RebuildIndex, EmbedFails, disk, Inv, TypeOK
<1>3. SUFFICES ASSUME Busy(t)', job'[t].alone
               PROVE  /\ job[t].alone
                      /\ job'[t].op = "rebuild" =>
                           /\ job'[t].at = "parsed" => BlocksIn(job'[t].parsed) = Directory'
                           /\ Inside(t)' => BlocksIn(chunks'[Home[t]]) = Directory'
  <2>1. \A u \in Threads \ {t} : (Busy(u) <=> Busy(u)')
    BY <1>2 DEF Busy
  <2>2. \A u \in Threads \ {t} : Busy(u) => ~job[u].alone
    BY <1>1 DEF Undisturbed
  <2>3. job[t].alone => \A u \in Threads \ {t} : ~Busy(u)
    BY <1>1 DEF Undisturbed
  <2>4. QED BY <1>2, <1>3, <2>1, <2>2, <2>3 DEF Undisturbed
<1>4. Directory' = Directory
  BY <1>2 DEF Directory
<1>5. CASE ChangeChunks(t)
  <2>1. job'[t] = [job[t] EXCEPT !.at = "saving"] /\ chunks'[Home[t]] = NewChunks(chunks[Home[t]], job[t])
    BY <1>1, <1>5 DEF ChangeChunks, Inv, TypeOK
  <2>2. /\ job'[t].op = job[t].op /\ job'[t].source = job[t].source
        /\ job'[t].parsed = job[t].parsed /\ job'[t].alone = job[t].alone
        /\ job'[t].at = "saving" /\ job[t].at = "parsed"
    BY <2>1, <1>5 DEF ChangeChunks, Inv, TypeOK, Job
  <2>3. job[t].op = "rebuild" => chunks'[Home[t]] = job[t].parsed
    BY <2>1 DEF NewChunks
  <2>4. QED BY <1>1, <1>2, <1>3, <1>4, <2>2, <2>3 DEF Undisturbed
<1>6. CASE SaveChunks(t)
  <2>1. /\ job'[t].op = job[t].op /\ job'[t].source = job[t].source
        /\ job'[t].parsed = job[t].parsed /\ job'[t].alone = job[t].alone
        /\ job'[t].at = "saved" /\ Inside(t) /\ chunks' = chunks
    BY <1>6 DEF SaveChunks, Inv, TypeOK, Job, Inside, memory
  <2>2. QED BY <1>1, <1>2, <1>3, <1>4, <2>1 DEF Undisturbed
<1>7. CASE RebuildIndex(t) \/ EmbedFails(t)
  BY <1>3, <1>7 DEF RebuildIndex, EmbedFails, Busy, Idle, Inv, TypeOK
<1>8. QED BY <1>5, <1>6, <1>7 DEF Step

LEMMA NextUndisturbed ==
  ASSUME Inv, Undisturbed, [Next]_vars
  PROVE  Undisturbed'
<1>1. CASE UNCHANGED vars
  BY <1>1 DEF vars, memory, disk, history, Undisturbed, Busy, Inside, Directory
<1>2. ASSUME NEW p \in Processes, Crash(p)
      PROVE  Undisturbed'
  <2>1. \A t \in Threads : Busy(t)' => job'[t] = job[t]
    BY <1>2 DEF Crash, Busy, Idle
  <2>2. chunks' = chunks /\ uploads' = uploads
    BY <1>2 DEF Crash, disk
  <2>3. QED BY <2>1, <2>2 DEF Undisturbed, Busy, Inside, Directory
<1>3. ASSUME NEW p \in Processes, Boot(p)
      PROVE  Undisturbed'
  <2>1. \A t \in Threads : Busy(t) => Home[t] # p
    BY <1>3 DEF Boot, Inv, LockKept
  <2>2. /\ job' = job /\ uploads' = uploads
        /\ \A q \in Processes \ {p} : chunks'[q] = chunks[q]
    BY <1>3 DEF Boot, Inv, TypeOK
  <2>3. QED BY <2>1, <2>2, HomeAssumption DEF Undisturbed, Busy, Inside, Directory
<1>4. QED BY <1>1, <1>2, <1>3, StartUndisturbed, StepUndisturbed, Steps DEF Inv

LEMMA AlwaysUndisturbed == Spec => []Undisturbed
<1>1. Init => Undisturbed
  BY DEF Init, Undisturbed, Busy, Idle
<1>2. QED BY <1>1, Invariant, NextUndisturbed, PTL DEF Spec

(* A request is answered by its own last step.                             *)
LEMMA AnsweredByRebuild ==
  ASSUME Inv, Next, NEW t \in Threads, job[t].at = "saved", job'[t].at = "done"
  PROVE  RebuildIndex(t)
<1>1. ASSUME NEW u \in Threads, Starts(u) PROVE FALSE
  BY <1>1, SMTT(30) DEF Starts, Begin, Inv, TypeOK, Job
<1>2. ASSUME NEW u \in Threads, Step(u) PROVE RebuildIndex(t)
  BY <1>2 DEF Step, ChangeChunks, SaveChunks, RebuildIndex, EmbedFails, Inv, TypeOK, Job, Idle
<1>3. ASSUME NEW p \in Processes, Crash(p) \/ Boot(p) PROVE FALSE
  BY <1>3 DEF Crash, Boot, Idle
<1>4. QED BY <1>1, <1>2, <1>3, Steps DEF Inv

(* A rebuild that runs alone leaves its process with the listed uploads and*)
(* nothing else, whatever came before it (scheduled_tasks.py:20).          *)
THEOREM RebuildsMatch == Spec => RebuildMatchesUploads
<1>1. ASSUME Inv, Undisturbed, [Next]_vars
      PROVE  [\A t \in Threads : FinishesAlone(t, "rebuild") =>
                FilesIn(index'[Home[t]]) = uploads \cap Listed]_vars
  <2>1. SUFFICES ASSUME Next, NEW t \in Threads, FinishesAlone(t, "rebuild")
                 PROVE  FilesIn(index'[Home[t]]) = uploads \cap Listed
    BY <1>1
  <2>2. RebuildIndex(t)
    BY <1>1, <2>1, AnsweredByRebuild DEF FinishesAlone
  <2>3. index'[Home[t]] = chunks[Home[t]]
    BY <1>1, <2>2, HomeAssumption DEF RebuildIndex, Reindex, Inv, TypeOK
  <2>4. BlocksIn(chunks[Home[t]]) = Directory
    BY <1>1, <2>1 DEF Undisturbed, FinishesAlone, Busy, Inside
  <2>5. ASSUME NEW b \in Directory PROVE b[2] \in uploads \cap Listed
    <3>1. PICK f \in uploads \cap Listed : b = <<DisplayOf[f], f>>
      BY DEF Directory
    <3>2. QED BY <3>1
  <2>6. ASSUME NEW f \in uploads \cap Listed PROVE \E b \in Directory : b[2] = f
    <3>1. <<DisplayOf[f], f>> \in Directory /\ <<DisplayOf[f], f>>[2] = f
      BY DEF Directory
    <3>2. QED BY <3>1
  <2>7. QED BY <2>3, <2>4, <2>5, <2>6 DEF FilesIn
<1>2. QED BY <1>1, Invariant, AlwaysUndisturbed, PTL DEF Spec, RebuildMatchesUploads

-----------------------------------------------------------------------------
(* Answered requests                                                       *)

(* A single writer's requests all run in the same process.                 *)
LEMMA OneHome ==
  ASSUME Inv, SingleWriter, NEW t \in Threads, NEW u \in Threads, Busy(t), Busy(u)
  PROVE  Home[t] = Home[u]
<1>1. deployment.processes \subseteq Processes
  BY DeploymentsAssumption DEF Inv, TypeOK
<1>2. PICK p : deployment.processes = {p}
  BY <1>1, HomeAssumption, FS_Subset, FS_Singleton DEF SingleWriter
<1>3. Home[t] \in deployment.processes /\ Home[u] \in deployment.processes
  BY HomeAssumption DEF Inv, LockKept
<1>4. QED BY <1>2, <1>3

(* A single writer that rebuilds does so alone.                            *)
RebuildsAlone == SingleWriter => \A t \in Threads : Busy(t) /\ job[t].op = "rebuild" => job[t].alone

LEMMA NextRebuildsAlone ==
  ASSUME Inv, RebuildsAlone, [Next]_vars
  PROVE  RebuildsAlone'
<1>1. CASE UNCHANGED vars
  BY <1>1 DEF vars, RebuildsAlone, SingleWriter, Busy
<1>2. SUFFICES ASSUME Next, SingleWriter, deployment' = deployment, NEW t \in Threads, Busy(t)',
                      job'[t].op = "rebuild"
               PROVE  job'[t].alone
  BY <1>1, Steps DEF Inv, RebuildsAlone, SingleWriter
<1>3. ASSUME NEW u \in Threads, Starts(u)
      PROVE  job'[t].alone
  <2>1. PICK op \in AllOperations, source \in Names, parsed \in List :
          Offers(u, op) /\ Begin(u, op, source, parsed)
    BY <1>3 DEF Starts
  <2>2. u \in deployment.threads /\ alive[Home[u]] /\ op \in Operations[Home[u]] /\ ~Busy(u)
    BY <2>1 DEF Offers, Busy
  <2>3. deployment.processes \subseteq Processes
    BY DeploymentsAssumption DEF Inv, TypeOK
  <2>4. PICK p : deployment.processes = {p}
    BY <1>2, <2>3, HomeAssumption, FS_Subset, FS_Singleton DEF SingleWriter
  <2>5. \A v \in Threads : Busy(v) => Home[v] = p /\ v \in deployment.threads
    BY <2>4, HomeAssumption DEF Inv, LockKept
  <2>6. Home[u] = p
    BY <2>2, <2>4, HomeAssumption DEF Inv, LockKept
  <2>7. deployment \in Deployments
    BY DEF Inv, TypeOK
  <2>8. CASE t = u
    <3>1. job'[t] = [at |-> "parsed", op |-> op, source |-> source, parsed |-> parsed,
                     copies |-> IF op = "delete" THEN CopiesOf(source) ELSE {},
                     alone |-> Quiet(t)]
      BY <2>1, <2>8 DEF Begin, Inv, TypeOK
    <3>2. \A v \in Threads \ {t} : ~Busy(v)
      BY <1>2, <2>2, <2>5, <2>6, <2>7, <2>8, <3>1, RebuildsAssumption
    <3>3. Quiet(t)
      BY <3>2 DEF Quiet, Busy
    <3>4. QED BY <3>1, <3>3
  <2>9. CASE t # u
    <3>1. job'[t].at = job[t].at /\ job'[t].op = job[t].op
      BY <2>1, <2>9 DEF Begin, Inv, TypeOK, Job
    <3>2. Busy(t) /\ "rebuild" \in Operations[Home[t]]
      BY <1>2, <3>1 DEF Busy, Inv, LockKept
    <3>3. QED BY <2>2, <2>5, <2>6, <2>7, <2>9, <3>2, RebuildsAssumption
  <2>10. QED BY <2>8, <2>9
<1>4. ASSUME NEW u \in Threads, Step(u)
      PROVE  job'[t].alone
  <2>1. Busy(t) /\ job'[t].op = job[t].op /\ job'[t].alone = job[t].alone
    BY <1>2, <1>4
       DEF Step, ChangeChunks, SaveChunks, RebuildIndex, EmbedFails, Busy, Idle, Inv, TypeOK, Job
  <2>2. QED BY <1>2, <2>1 DEF RebuildsAlone
<1>5. ASSUME NEW p \in Processes, Crash(p) \/ Boot(p)
      PROVE  job'[t].alone
  BY <1>2, <1>5 DEF Crash, Boot, Busy, Idle, RebuildsAlone
<1>6. QED BY <1>2, <1>3, <1>4, <1>5, Steps DEF Inv

LEMMA StartSafe ==
  ASSUME Inv, SingleWriter, NEW p \in deployment.processes, p \in Processes, Safe(p),
         NEW t \in Threads, Starts(t)
  PROVE  Safe(p)'
<1>1. UNCHANGED <<memory, diskChunks, promised>>
  BY DEF Starts, history
<1>2. ~Inside(t)
  BY DEF Starts, Offers, Inside
<1>3. \A u \in Threads \ {t} : /\ job'[u].at = job[u].at /\ job'[u].op = job[u].op
                               /\ job'[u].parsed = job[u].parsed
  BY DEF Starts, Begin, Inv, TypeOK, Job
<1>4. holder[p] # Nobody => holder[p] \in Threads \ {t}
  BY <1>2 DEF Inv, TypeOK, LockKept
<1>5. QED BY <1>1, <1>3, <1>4 DEF Safe, memory

LEMMA ChangeSafe ==
  ASSUME Inv, Undisturbed, RebuildsAlone, SingleWriter,
         NEW p \in Processes, Safe(p), NEW t \in Threads, Home[t] = p, ChangeChunks(t)
  PROVE  Safe(p)'
<1>1. Busy(t) /\ alive[p] /\ holder[p] = Nobody
  BY DEF ChangeChunks, MayEnter, Busy, Inv, LockKept
<1>2. promised \subseteq BlocksIn(chunks[p])
  BY <1>1 DEF Safe
<1>3. /\ job[t].op \in AllOperations
      /\ Shaped(job[t].op, job[t].source, job[t].parsed)
      /\ job[t].parsed \in List /\ chunks[p] \in List
  BY <1>1, OperationsAssumption DEF Inv, TypeOK, Job, LockKept, Parsed
<1>4. \A l \in List, k \in List : BlocksIn(l \o k) = BlocksIn(l) \cup BlocksIn(k)
  <2>1. SUFFICES ASSUME NEW l \in Seq(Block), NEW k \in Seq(Block)
                 PROVE  BlocksIn(l \o k) = BlocksIn(l) \cup BlocksIn(k)
    BY DEF List
  <2>2. BlocksIn(l \o k) \subseteq BlocksIn(l) \cup BlocksIn(k)
    BY DEF BlocksIn
  <2>3. BlocksIn(l) \subseteq BlocksIn(l \o k)
    BY DEF BlocksIn
  <2>4. ASSUME NEW i \in DOMAIN k PROVE k[i] \in BlocksIn(l \o k)
    <3>1. Len(l) + i \in DOMAIN (l \o k) /\ (l \o k)[Len(l) + i] = k[i]
      OBVIOUS
    <3>2. QED BY <3>1 DEF BlocksIn
  <2>5. QED BY <2>2, <2>3, <2>4 DEF BlocksIn
<1> DEFINE new == NewChunks(chunks[p], job[t])
           others == Without(chunks[p], job[t].source)
<1>5. others \in List /\ BlocksIn(others) = {b \in BlocksIn(chunks[p]) : b[1] # job[t].source}
  BY <1>3, WithoutKeepsOthers
<1>6. /\ Kept(job[t]) \subseteq BlocksIn(new)
      /\ job[t].op # "rebuild" => BlocksIn(job[t].parsed) \subseteq BlocksIn(new)
  <2> HIDE DEF others
  <2>1. CASE job[t].op \in {"upload", "add"}
    BY <1>2, <1>3, <1>4, <2>1 DEF NewChunks, Kept
  <2>2. CASE job[t].op = "upsert"
    <3>1. new = others \o job[t].parsed
      BY <2>2 DEF NewChunks, others
    <3>2. Kept(job[t]) = {b \in promised : b[1] # job[t].source}
      BY <2>2 DEF Kept
    <3>3. QED BY <1>2, <1>3, <1>4, <1>5, <3>1, <3>2
  <2>3. CASE job[t].op = "delete"
    <3>1. new = others /\ BlocksIn(job[t].parsed) = {}
      BY <1>3, <2>3 DEF NewChunks, others, Shaped, BlocksIn
    <3>2. Kept(job[t]) = {b \in promised : b[1] # job[t].source}
      BY <2>3 DEF Kept
    <3>3. QED BY <1>2, <1>5, <3>1, <3>2
  <2>4. CASE job[t].op = "rebuild"
    <3>1. BlocksIn(new) = Directory
      BY <1>1, <2>4 DEF NewChunks, RebuildsAlone, Undisturbed, ChangeChunks
    <3>2. Kept(job[t]) \subseteq Directory
      BY <2>4 DEF Kept, Directory
    <3>3. QED BY <2>4, <3>1, <3>2
  <2>5. CASE job[t].op = "clear"
    BY <1>3, <2>5 DEF NewChunks, Kept, Shaped, BlocksIn
  <2>6. QED BY <1>3, <2>1, <2>2, <2>3, <2>4, <2>5 DEF AllOperations
<1>7. /\ alive'[p] /\ holder'[p] = t /\ t # Nobody
      /\ chunks'[p] = new /\ promised' = Kept(job[t]) /\ diskChunks' = Torn
      /\ job'[t].at = "saving" /\ job'[t].op = job[t].op /\ job'[t].parsed = job[t].parsed
  BY <1>1, NobodyAssumption DEF ChangeChunks, Inv, TypeOK, Job
<1> HIDE DEF new
<1>8. QED BY <1>6, <1>7 DEF Safe

LEMMA StepSafe ==
  ASSUME Inv, Undisturbed, RebuildsAlone, SingleWriter,
         NEW p \in Processes, Safe(p), NEW t \in Threads, Home[t] = p, Step(t)
  PROVE  Safe(p)'
<1>1. t # Nobody /\ (Inside(t) => alive[p] /\ holder[p] = t)
  BY NobodyAssumption DEF Inv, LockKept, Inside, Busy
<1>2. CASE ChangeChunks(t)
  BY <1>2, ChangeSafe
<1>3. CASE SaveChunks(t)
  <2>1. alive[p] /\ holder[p] = t
    BY <1>1, <1>3 DEF SaveChunks, Inside
  <2>2. /\ alive' = alive /\ holder' = holder /\ chunks' = chunks /\ promised' = promised
        /\ diskChunks' = chunks[p]
        /\ job'[t].at = "saved" /\ job'[t].op = job[t].op /\ job'[t].parsed = job[t].parsed
    BY <1>3 DEF SaveChunks, memory, history, Inv, TypeOK, Job
  <2>3. QED BY <1>1, <2>1, <2>2 DEF Safe
<1>4. CASE RebuildIndex(t)
  <2>1. alive[p] /\ holder[p] = t /\ job[t].at = "saved"
    BY <1>1, <1>4 DEF RebuildIndex, Inside
  <2>2. /\ promised \subseteq BlocksIn(chunks[p]) /\ diskChunks = chunks[p]
        /\ job[t].op # "rebuild" => BlocksIn(job[t].parsed) \subseteq BlocksIn(chunks[p])
    BY <1>1, <2>1 DEF Safe
  <2>3. /\ alive'[p] /\ holder'[p] = Nobody /\ chunks' = chunks /\ diskChunks' = diskChunks
        /\ promised' \subseteq BlocksIn(chunks[p])
    BY <1>4, <2>1, <2>2 DEF RebuildIndex, Inv, TypeOK
  <2>4. QED BY <2>2, <2>3 DEF Safe
<1>5. CASE EmbedFails(t)
  <2>1. alive[p] /\ holder[p] = t /\ job[t].at = "saved"
    BY <1>1, <1>5 DEF EmbedFails, Inside
  <2>2. promised \subseteq BlocksIn(chunks[p]) /\ diskChunks = chunks[p]
    BY <1>1, <2>1 DEF Safe
  <2>3. /\ alive'[p] /\ holder'[p] = Nobody /\ chunks' = chunks /\ diskChunks' = diskChunks
        /\ promised' = promised
    BY <1>5, <2>1 DEF EmbedFails, disk, Inv, TypeOK
  <2>4. QED BY <2>2, <2>3 DEF Safe
<1>6. QED BY <1>2, <1>3, <1>4, <1>5 DEF Step

LEMMA ProcessSafe ==
  ASSUME Inv, SingleWriter, NEW p \in Processes, Safe(p), Crash(p) \/ Boot(p)
  PROVE  Safe(p)'
<1>1. CASE Crash(p)
  <2>1. /\ alive[p] /\ ~alive'[p] /\ diskChunks' = diskChunks /\ promised' = promised
    BY <1>1 DEF Crash, disk, history, Inv, TypeOK
  <2>2. diskChunks = Torn \/ promised \subseteq BlocksIn(diskChunks)
    <3>1. CASE holder[p] = Nobody
      BY <2>1, <3>1 DEF Safe
    <3>2. CASE holder[p] # Nobody
      <4>1. job[holder[p]].at \in {"saving", "saved"}
        BY <3>2 DEF Inv, LockKept, Inside
      <4>2. QED BY <2>1, <3>2, <4>1 DEF Safe
    <3>3. QED BY <3>1, <3>2
  <2>3. QED BY <2>1, <2>2 DEF Safe
<1>2. CASE Boot(p)
  <2>1. /\ ~alive[p] /\ alive'[p] /\ chunks'[p] = diskChunks /\ diskChunks # Torn
        /\ UNCHANGED <<holder, diskChunks, promised>>
    BY <1>2 DEF Boot, Inv, TypeOK
  <2>2. holder[p] = Nobody
    BY <2>1, HomeAssumption DEF Inv, TypeOK, LockKept, Inside, Busy
  <2>3. QED BY <2>1, <2>2 DEF Safe
<1>3. QED BY <1>1, <1>2

LEMMA NextSafe ==
  ASSUME Inv, Undisturbed, RebuildsAlone, PromisesSafe, [Next]_vars
  PROVE  PromisesSafe'
<1>1. RebuildsAlone'
  BY NextRebuildsAlone
<1>2. SUFFICES ASSUME SingleWriter, deployment' = deployment,
                      NEW p \in deployment.processes
               PROVE  Safe(p)'
  BY <1>1, Steps DEF Inv, PromisesSafe, SingleWriter, RebuildsAlone, vars
<1>3. Safe(p) /\ p \in Processes
  BY <1>2, DeploymentsAssumption DEF PromisesSafe, Inv, TypeOK
<1>4. \A q \in Processes : q \in deployment.processes => q = p
  BY <1>2, HomeAssumption, DeploymentsAssumption, FS_Subset, FS_Singleton
     DEF SingleWriter, Inv, TypeOK
<1>5. CASE UNCHANGED vars
  BY <1>3, <1>5 DEF vars, memory, disk, history, Safe
<1>6. ASSUME NEW t \in Threads, Starts(t) PROVE Safe(p)'
  BY <1>2, <1>3, <1>6, StartSafe
<1>7. ASSUME NEW t \in Threads, Step(t) PROVE Safe(p)'
  <2>1. Busy(t)
    BY <1>7 DEF Step, ChangeChunks, SaveChunks, RebuildIndex, EmbedFails, Busy
  <2>2. Home[t] = p
    BY <1>4, <2>1, HomeAssumption DEF Inv, LockKept
  <2>3. QED BY <1>2, <1>3, <1>7, <2>2, StepSafe
<1>8. ASSUME NEW q \in Processes, Crash(q) \/ Boot(q) PROVE Safe(p)'
  <2>1. q = p
    BY <1>4, <1>8 DEF Crash, Boot, Inv, LockKept
  <2>2. QED BY <1>2, <1>3, <1>8, <2>1, ProcessSafe
<1>9. QED BY <1>5, <1>6, <1>7, <1>8, Steps DEF Inv

LEMMA InitSafe == Init => RebuildsAlone /\ PromisesSafe
<1>1. SUFFICES ASSUME Init PROVE RebuildsAlone /\ PromisesSafe
  OBVIOUS
<1>2. promised = {} /\ \A t \in Threads : ~Busy(t)
  BY <1>1 DEF Init, Busy, Idle
<1>3. ASSUME NEW p \in deployment.processes PROVE Safe(p)
  <2>1. p \in Processes
    BY <1>1, DeploymentsAssumption DEF Init
  <2>2. alive[p] /\ holder[p] = Nobody /\ diskChunks = chunks[p]
    BY <1>1, <2>1 DEF Init
  <2>3. QED BY <1>2, <2>2 DEF Safe
<1>4. QED BY <1>2, <1>3 DEF RebuildsAlone, PromisesSafe

LEMMA AlwaysSafe == Spec => []PromisesSafe
<1>1. Spec => []RebuildsAlone
  BY InitSafe, Invariant, NextRebuildsAlone, PTL DEF Spec
<1>2. QED BY <1>1, InitSafe, NextSafe, Invariant, AlwaysUndisturbed, PTL DEF Spec

(* What an answered request put into the knowledge base of a process that  *)
(* has the data directory for itself is what a restart finds on the disk   *)
(* (retriever.py:629), until a request takes it out: no failed embedding   *)
(* and no race of its threads loses it, and no crash but one inside        *)
(* write_text (retriever.py:655), which loses everything: the process does *)
(* not start again.                                                        *)
THEOREM AcknowledgedSurvives == Spec => []AcknowledgedIsDurable
<1>1. ASSUME Inv, PromisesSafe PROVE AcknowledgedIsDurable
  <2>1. SUFFICES ASSUME SingleWriter, \A q \in Processes : holder[q] = Nobody
                 PROVE  IF diskChunks = Torn THEN \A q \in deployment.processes : ~alive[q]
                        ELSE promised \subseteq BlocksIn(diskChunks)
    BY DEF AcknowledgedIsDurable
  <2>2. \A p \in deployment.processes : p \in Processes /\ Safe(p) /\ holder[p] = Nobody
    BY <1>1, <2>1, DeploymentsAssumption DEF Inv, TypeOK, PromisesSafe
  <2>3. CASE diskChunks = Torn
    <3>1. \A p \in Processes : chunks[p] # Torn
      <4>1. \A list \in Seq(Block) : list \in Seq(Sources \X Files)
        BY DEF Block
      <4>2. QED BY <4>1, TornAssumption, <1>1 DEF Inv, TypeOK, List
    <3>2. QED BY <2>2, <2>3, <3>1 DEF Safe
  <2>4. CASE diskChunks # Torn
    <3>1. PICK p : p \in deployment.processes
      BY <1>1, <2>1, HomeAssumption, DeploymentsAssumption, FS_Subset, FS_Singleton
         DEF SingleWriter, Inv, TypeOK
    <3>2. QED BY <2>2, <2>4, <3>1 DEF Safe
  <2>5. QED BY <2>3, <2>4
<1>2. QED BY <1>1, AlwaysSafe, Invariant, PTL

-----------------------------------------------------------------------------
(* Answered deletions                                                      *)

(* The copies a deletion found are neither there nor still to be uploaded. *)
Deleting ==
  \A t \in Threads : Busy(t) => \A f \in job[t].copies :
    /\ job[t].op = "delete"
    /\ f \notin uploads /\ f \notin unused
    /\ SourceOf[f] = job[t].source /\ DisplayOf[f] = job[t].source

(* A withdrawn file is gone, and no request is about to add it.            *)
Gone ==
  \A f \in withdrawn :
    /\ f \notin uploads /\ f \notin unused
    /\ \A t \in Threads : job[t].at = "parsed" => f \notin FilesIn(job[t].parsed)

(* A deletion that has changed the list has left nothing of its source.    *)
Cleared ==
  \A t \in Threads : Inside(t) /\ job[t].op = "delete" =>
    \A b \in BlocksIn(chunks[Home[t]]) : b[1] # job[t].source

LEMMA NextDeleting ==
  ASSUME Inv, Deleting, [Next]_vars
  PROVE  Deleting'
<1>1. CASE UNCHANGED vars
  BY <1>1 DEF vars, disk, Deleting, Busy
<1>2. ASSUME NEW t \in Threads, Starts(t) PROVE Deleting'
  <2>1. PICK op \in AllOperations, source \in Names, parsed \in List :
          /\ Begin(t, op, source, parsed)
          /\ op = "delete" => uploads' \cap CopiesOf(source) = {}
          /\ uploads' \subseteq uploads \cup unused /\ unused' \subseteq unused
    BY <1>2 DEF Starts
  <2>2. job'[t] = [at |-> "parsed", op |-> op, source |-> source, parsed |-> parsed,
                   copies |-> IF op = "delete" THEN CopiesOf(source) ELSE {},
                   alone |-> Quiet(t)]
    BY <2>1 DEF Begin, Inv, TypeOK
  <2>3. \A u \in Threads \ {t} : /\ job'[u].at = job[u].at /\ job'[u].op = job[u].op
                                 /\ job'[u].source = job[u].source
                                 /\ job'[u].copies = job[u].copies
    BY <2>1 DEF Begin, Inv, TypeOK, Job
  <2>4. ASSUME NEW f \in job'[t].copies
        PROVE  /\ job'[t].op = "delete"
               /\ f \notin uploads' /\ f \notin unused'
               /\ SourceOf[f] = job'[t].source /\ DisplayOf[f] = job'[t].source
    BY <2>1, <2>2, <2>4 DEF CopiesOf
  <2>5. QED BY <2>1, <2>3, <2>4 DEF Deleting, Busy
<1>3. ASSUME NEW t \in Threads, Step(t) PROVE Deleting'
  <2>1. \A u \in Threads : Busy(u)' => /\ Busy(u) /\ job'[u].op = job[u].op
                                       /\ job'[u].source = job[u].source
                                       /\ job'[u].copies = job[u].copies
    BY <1>3 DEF Step, ChangeChunks, SaveChunks, RebuildIndex, EmbedFails, Busy, Idle, Inv, TypeOK, Job
  <2>2. uploads' = uploads /\ unused' = unused
    BY <1>3 DEF Step, ChangeChunks, SaveChunks, RebuildIndex, EmbedFails, disk
  <2>3. QED BY <2>1, <2>2 DEF Deleting
<1>4. ASSUME NEW p \in Processes, Crash(p) \/ Boot(p) PROVE Deleting'
  <2>1. \A u \in Threads : Busy(u)' => job'[u] = job[u]
    BY <1>4 DEF Crash, Boot, Busy, Idle
  <2>2. uploads' = uploads /\ unused' = unused
    BY <1>4 DEF Crash, Boot, disk
  <2>3. QED BY <2>1, <2>2 DEF Deleting, Busy
<1>5. QED BY <1>1, <1>2, <1>3, <1>4, Steps DEF Inv

LEMMA NextGone ==
  ASSUME Inv, Deleting, Gone, [Next]_vars
  PROVE  Gone'
<1>1. CASE UNCHANGED vars
  BY <1>1 DEF vars, disk, history, Gone
<1>2. ASSUME NEW t \in Threads, Starts(t) PROVE Gone'
  <2>1. PICK op \in AllOperations, source \in Names, parsed \in List :
          /\ Begin(t, op, source, parsed)
          /\ FilesIn(parsed) \subseteq uploads \cup unused
          /\ uploads' \subseteq uploads \cup unused /\ unused' \subseteq unused
          /\ withdrawn' = withdrawn
    BY <1>2 DEF Starts, history
  <2>2. job'[t].parsed = parsed
    BY <2>1 DEF Begin, Inv, TypeOK
  <2>3. \A u \in Threads \ {t} : job'[u].at = job[u].at /\ job'[u].parsed = job[u].parsed
    BY <2>1 DEF Begin, Inv, TypeOK, Job
  <2>4. QED BY <2>1, <2>2, <2>3 DEF Gone
<1>3. ASSUME NEW t \in Threads, Step(t) PROVE Gone'
  <2>1. \A u \in Threads : job'[u].at = "parsed" => job'[u] = job[u]
    BY <1>3 DEF Step, ChangeChunks, SaveChunks, RebuildIndex, EmbedFails, Idle, Inv, TypeOK, Job
  <2>2. uploads' = uploads /\ unused' = unused
    BY <1>3 DEF Step, ChangeChunks, SaveChunks, RebuildIndex, EmbedFails, disk
  <2>3. ASSUME NEW f \in withdrawn'
        PROVE  \/ f \in withdrawn
               \/ /\ f \notin uploads /\ f \notin unused
                  /\ \A u \in Threads \ {t} : job[u].at = "parsed" => f \notin FilesIn(job[u].parsed)
                  /\ job'[t].at # "parsed"
    <3>1. CASE RebuildIndex(t)
      <4>1. Busy(t) /\ job'[t].at = "done"
        BY <3>1 DEF RebuildIndex, Busy, Inv, TypeOK, Idle
      <4>2. QED BY <3>1, <4>1 DEF RebuildIndex, Deleting
    <3>2. CASE ~RebuildIndex(t)
      BY <1>3, <3>2 DEF Step, ChangeChunks, SaveChunks, EmbedFails, history
    <3>3. QED BY <3>1, <3>2
  <2>4. QED BY <2>1, <2>2, <2>3 DEF Gone
<1>4. ASSUME NEW p \in Processes, Crash(p) \/ Boot(p) PROVE Gone'
  <2>1. \A u \in Threads : job'[u].at = "parsed" => job'[u] = job[u]
    BY <1>4 DEF Crash, Boot, Idle
  <2>2. uploads' = uploads /\ unused' = unused /\ withdrawn' = withdrawn
    BY <1>4 DEF Crash, Boot, disk, history
  <2>3. QED BY <2>1, <2>2 DEF Gone
<1>5. QED BY <1>1, <1>2, <1>3, <1>4, Steps DEF Inv

LEMMA NextCleared ==
  ASSUME Inv, Cleared, [Next]_vars
  PROVE  Cleared'
<1>1. CASE UNCHANGED vars
  BY <1>1 DEF vars, memory, Cleared, Inside
<1>2. ASSUME NEW t \in Threads, Starts(t) PROVE Cleared'
  <2>1. ~(Inside(t)') /\ chunks' = chunks
    BY <1>2 DEF Starts, Begin, Inside, memory, Inv, TypeOK
  <2>2. \A u \in Threads \ {t} : /\ job'[u].at = job[u].at /\ job'[u].op = job[u].op
                                 /\ job'[u].source = job[u].source
    BY <1>2 DEF Starts, Begin, Inv, TypeOK, Job
  <2>3. QED BY <2>1, <2>2 DEF Cleared, Inside
<1>3. ASSUME NEW t \in Threads, ChangeChunks(t) PROVE Cleared'
  <2>1. Home[t] \in Processes /\ chunks[Home[t]] \in List
    BY HomeAssumption DEF Inv, TypeOK
  <2>2. \A u \in Threads \ {t} : Inside(u) => Home[u] # Home[t]
    BY <1>3, NobodyAssumption DEF ChangeChunks, MayEnter, Inv, LockKept
  <2>3. /\ job'[t].op = job[t].op /\ job'[t].source = job[t].source
        /\ \A u \in Threads \ {t} : job'[u] = job[u]
    BY <1>3 DEF ChangeChunks, Inv, TypeOK, Job
  <2>4. /\ chunks'[Home[t]] = NewChunks(chunks[Home[t]], job[t])
        /\ \A q \in Processes \ {Home[t]} : chunks'[q] = chunks[q]
    BY <1>3, <2>1 DEF ChangeChunks, Inv, TypeOK
  <2>5. ASSUME job[t].op = "delete"
        PROVE  \A b \in BlocksIn(chunks'[Home[t]]) : b[1] # job[t].source
    <3>1. chunks'[Home[t]] = Without(chunks[Home[t]], job[t].source)
      BY <2>4, <2>5 DEF NewChunks
    <3>2. QED BY <2>1, <3>1, WithoutKeepsOthers
  <2>6. QED BY <2>2, <2>3, <2>4, <2>5, HomeAssumption DEF Cleared, Inside
<1>4. ASSUME NEW t \in Threads, SaveChunks(t) \/ RebuildIndex(t) \/ EmbedFails(t) PROVE Cleared'
  <2>1. \A u \in Threads : Inside(u)' => /\ Inside(u) /\ job'[u].op = job[u].op
                                         /\ job'[u].source = job[u].source
    BY <1>4 DEF SaveChunks, RebuildIndex, EmbedFails, Inside, Idle, Inv, TypeOK, Job
  <2>2. chunks' = chunks
    BY <1>4 DEF SaveChunks, RebuildIndex, EmbedFails, memory
  <2>3. QED BY <2>1, <2>2 DEF Cleared
<1>5. ASSUME NEW p \in Processes, Crash(p) \/ Boot(p) PROVE Cleared'
  <2>1. \A u \in Threads : Inside(u)' => Inside(u) /\ job'[u] = job[u]
    BY <1>5 DEF Crash, Boot, Inside, Idle
  <2>2. \A u \in Threads : Inside(u)' => chunks'[Home[u]] = chunks[Home[u]]
    BY <1>5, <2>1, HomeAssumption DEF Crash, Boot, Inv, TypeOK, LockKept, Inside, Busy
  <2>3. QED BY <2>1, <2>2 DEF Cleared
<1>6. QED BY <1>1, <1>2, <1>3, <1>4, <1>5, Steps DEF Inv, Step

(* Where a deletion ends, nothing it withdraws is in memory or on the disk.*)
LEMMA WithdrawnIsOut ==
  ASSUME Inv, Deleting, Cleared, PromisesSafe, SingleWriter,
         NEW t \in Threads, RebuildIndex(t), NEW f \in job[t].copies,
         NEW p \in deployment.processes
  PROVE  f \notin FilesIn(chunks[p]) /\ diskChunks = chunks[p]
<1>1. Busy(t) /\ Inside(t) /\ Home[t] \in Processes /\ t # Nobody
  BY HomeAssumption, NobodyAssumption DEF RebuildIndex, Busy, Inside
<1>2. Home[t] \in deployment.processes /\ deployment.processes \subseteq Processes
  BY <1>1, DeploymentsAssumption DEF Inv, TypeOK, LockKept
<1>3. Home[t] = p
  BY <1>2, HomeAssumption, FS_Subset, FS_Singleton DEF SingleWriter
<1>4. diskChunks = chunks[p]
  BY <1>1, <1>2, <1>3 DEF PromisesSafe, Safe, Inv, LockKept, RebuildIndex
<1>5. /\ SourceOf[f] = job[t].source /\ DisplayOf[f] = job[t].source
      /\ \A b \in BlocksIn(chunks[p]) : b[1] # job[t].source
  BY <1>1, <1>3 DEF Deleting, Cleared
<1>6. BlocksIn(chunks[p]) \subseteq Block
  BY <1>2 DEF Inv, TypeOK, List, BlocksIn
<1>7. \A b \in BlocksIn(chunks[p]) : b[2] # f
  BY <1>5, <1>6 DEF Block
<1>8. QED BY <1>4, <1>7 DEF FilesIn

(* The list after a change has files of the list before, and what was      *)
(* parsed.                                                                 *)
LEMMA NewFiles ==
  ASSUME NEW list \in List, NEW j \in Job, j.op \in AllOperations
  PROVE  FilesIn(NewChunks(list, j)) \subseteq FilesIn(list) \cup FilesIn(j.parsed)
<1> DEFINE others == Without(list, j.source)
<1>1. j.parsed \in List /\ others \in List /\ BlocksIn(others) \subseteq BlocksIn(list)
  BY WithoutKeepsOthers DEF Job
<1>2. \A l \in List, k \in List : BlocksIn(l \o k) \subseteq BlocksIn(l) \cup BlocksIn(k)
  BY DEF List, BlocksIn
<1> HIDE DEF others
<1>3. BlocksIn(NewChunks(list, j)) \subseteq BlocksIn(list) \cup BlocksIn(j.parsed)
  <2>1. CASE j.op \in {"upload", "add"}
    BY <1>1, <1>2, <2>1 DEF NewChunks
  <2>2. CASE j.op = "upsert"
    <3>1. NewChunks(list, j) = others \o j.parsed
      BY <2>2 DEF NewChunks, others
    <3>2. QED BY <1>1, <1>2, <3>1
  <2>3. CASE j.op = "delete"
    <3>1. NewChunks(list, j) = others
      BY <2>3 DEF NewChunks, others
    <3>2. QED BY <1>1, <3>1
  <2>4. CASE j.op \in {"rebuild", "clear"}
    BY <2>4 DEF NewChunks
  <2>5. QED BY <2>1, <2>2, <2>3, <2>4 DEF AllOperations
<1>4. QED BY <1>3 DEF FilesIn

LEMMA NextStaysDeleted ==
  ASSUME Inv, Deleting, Gone, Cleared, PromisesSafe, DeletedStaysDeleted, [Next]_vars
  PROVE  DeletedStaysDeleted'
<1>1. CASE UNCHANGED vars
  BY <1>1 DEF vars, memory, disk, history, DeletedStaysDeleted, SingleWriter
<1>2. SUFFICES ASSUME Next, SingleWriter, deployment' = deployment, NEW f \in withdrawn'
               PROVE  /\ \A p \in deployment.processes : f \notin FilesIn(chunks'[p])
                      /\ diskChunks' # Torn => f \notin FilesIn(diskChunks')
  BY <1>1, Steps DEF Inv, DeletedStaysDeleted, SingleWriter
<1>3. \A g \in withdrawn : /\ \A p \in deployment.processes : g \notin FilesIn(chunks[p])
                           /\ diskChunks # Torn => g \notin FilesIn(diskChunks)
  BY <1>2 DEF DeletedStaysDeleted
<1>4. deployment.processes \subseteq Processes
  BY DeploymentsAssumption DEF Inv, TypeOK
<1>5. ASSUME NEW t \in Threads, Starts(t)
      PROVE  /\ \A p \in deployment.processes : f \notin FilesIn(chunks'[p])
             /\ diskChunks' # Torn => f \notin FilesIn(diskChunks')
  BY <1>2, <1>3, <1>5 DEF Starts, memory, history
<1>6. ASSUME NEW t \in Threads, ChangeChunks(t)
      PROVE  /\ \A p \in deployment.processes : f \notin FilesIn(chunks'[p])
             /\ diskChunks' # Torn => f \notin FilesIn(diskChunks')
  <2>1. f \in withdrawn /\ diskChunks' = Torn
    BY <1>2, <1>6 DEF ChangeChunks
  <2>2. /\ job[t].op \in AllOperations /\ job[t] \in Job
        /\ Home[t] \in deployment.processes /\ Home[t] \in Processes
    BY <1>6, HomeAssumption, OperationsAssumption DEF ChangeChunks, Inv, TypeOK, LockKept, Busy
  <2>3. f \notin FilesIn(job[t].parsed)
    BY <1>6, <2>1 DEF ChangeChunks, Gone
  <2>4. f \notin FilesIn(NewChunks(chunks[Home[t]], job[t]))
    BY <1>3, <2>1, <2>2, <2>3, NewFiles DEF Inv, TypeOK
  <2>5. \A p \in deployment.processes :
          chunks'[p] = IF p = Home[t] THEN NewChunks(chunks[Home[t]], job[t]) ELSE chunks[p]
    BY <1>4, <1>6 DEF ChangeChunks, Inv, TypeOK
  <2>6. QED BY <1>3, <2>1, <2>4, <2>5
<1>7. ASSUME NEW t \in Threads, SaveChunks(t)
      PROVE  /\ \A p \in deployment.processes : f \notin FilesIn(chunks'[p])
             /\ diskChunks' # Torn => f \notin FilesIn(diskChunks')
  <2>1. Home[t] \in deployment.processes
    BY <1>7, HomeAssumption DEF SaveChunks, Inv, LockKept, Busy
  <2>2. QED BY <1>2, <1>3, <1>7, <2>1 DEF SaveChunks, memory, history
<1>8. ASSUME NEW t \in Threads, RebuildIndex(t)
      PROVE  /\ \A p \in deployment.processes : f \notin FilesIn(chunks'[p])
             /\ diskChunks' # Torn => f \notin FilesIn(diskChunks')
  <2>1. chunks' = chunks /\ diskChunks' = diskChunks /\ (f \in withdrawn \/ f \in job[t].copies)
    BY <1>2, <1>8 DEF RebuildIndex
  <2>2. CASE f \in withdrawn
    BY <1>3, <2>1, <2>2
  <2>3. CASE f \in job[t].copies
    <3>1. \A p \in deployment.processes : f \notin FilesIn(chunks[p]) /\ diskChunks = chunks[p]
      BY <1>2, <1>8, <2>3, WithdrawnIsOut
    <3>2. Home[t] \in deployment.processes
      BY <1>8, HomeAssumption DEF RebuildIndex, Inv, LockKept, Busy
    <3>3. QED BY <2>1, <3>1, <3>2
  <2>4. QED BY <2>1, <2>2, <2>3
<1>9. ASSUME NEW t \in Threads, EmbedFails(t)
      PROVE  /\ \A p \in deployment.processes : f \notin FilesIn(chunks'[p])
             /\ diskChunks' # Torn => f \notin FilesIn(diskChunks')
  BY <1>2, <1>3, <1>9 DEF EmbedFails, disk
<1>10. ASSUME NEW q \in Processes, Crash(q) \/ Boot(q)
       PROVE  /\ \A p \in deployment.processes : f \notin FilesIn(chunks'[p])
              /\ diskChunks' # Torn => f \notin FilesIn(diskChunks')
  BY <1>2, <1>3, <1>4, <1>10 DEF Crash, Boot, disk, history, Inv, TypeOK
<1>11. QED BY <1>2, <1>5, <1>6, <1>7, <1>8, <1>9, <1>10, Steps DEF Inv, Step

(* A process that has the data directory for itself does not index a       *)
(* document again that an answered deletion found (retriever.py:757): not  *)
(* by a rebuild from the directory, a redelivered event, a retry or a      *)
(* restart, in memory or on the disk.                                      *)
THEOREM DeletionsLast == Spec => []DeletedStaysDeleted
<1>1. Init => Deleting /\ Gone /\ Cleared /\ DeletedStaysDeleted
  <2>1. SUFFICES ASSUME Init PROVE Deleting /\ Gone /\ Cleared /\ DeletedStaysDeleted
    OBVIOUS
  <2>2. withdrawn = {} /\ \A t \in Threads : ~Busy(t) /\ ~Inside(t)
    BY <2>1 DEF Init, Busy, Inside, Idle
  <2>3. QED BY <2>2 DEF Deleting, Gone, Cleared, DeletedStaysDeleted
<1>2. Spec => [](Deleting /\ Gone)
  BY <1>1, NextDeleting, NextGone, Invariant, PTL DEF Spec
<1>3. Spec => []Cleared
  BY <1>1, NextCleared, Invariant, PTL DEF Spec
<1>4. QED BY <1>1, <1>2, <1>3, AlwaysSafe, NextStaysDeleted, Invariant, PTL DEF Spec
=============================================================================
