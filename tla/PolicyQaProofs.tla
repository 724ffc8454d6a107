---------------------------- MODULE PolicyQaProofs ----------------------------
(***************************************************************************)
(* Proofs about DocumentStore and PolicyQa, for any documents, questions,  *)
(* entries, handlers and settings of the cache.                            *)
(***************************************************************************)
EXTENDS PolicyQa, FiniteSetTheorems, WellFoundedInduction, TLAPS

-----------------------------------------------------------------------------
(* Sums over finite sets                                                     *)

\* A set of natural numbers that has 0 and, with a number, its successor has all.
LEMMA Induction ==
    ASSUME NEW S, 0 \in S, \A n \in Nat : n \in S => n + 1 \in S
    PROVE  Nat \subseteq S
<1> SUFFICES ASSUME Nat \ S # {} PROVE FALSE
  OBVIOUS
<1>1. OpToRel(<, Nat) = {ss \in Nat \X Nat : ss[1] < ss[2]}
  BY Zenon DEF OpToRel
<1>2. IsWellFoundedOn({ss \in Nat \X Nat : ss[1] < ss[2]}, Nat)
  BY <1>1, NatLessThanWellFounded, Zenon
<1>3. PICK x \in Nat \ S : \A y \in Nat \ S : ~ (<<y, x>> \in {ss \in Nat \X Nat : ss[1] < ss[2]})
  <2>1. Nat \ S \subseteq Nat
    OBVIOUS
  <2> QED
    BY <1>2, <2>1, WFMin
<1>4. x # 0 /\ x - 1 \in Nat \ S
  OBVIOUS
<1>5. <<x - 1, x>> \in {ss \in Nat \X Nat : ss[1] < ss[2]}
  BY <1>4
<1> QED
  BY <1>3, <1>4, <1>5

\* The element the fold of the community modules takes first.
One(s) == CHOOSE x \in s : TRUE

\* g[s] is what that fold makes of w over s, for every subset of D.
IsSum(g, D, w) ==
    g = [s \in SUBSET D |-> IF s = {} THEN 0 ELSE w[One(s)] + g[s \ {One(s)}]]

\* Taking one element out of a finite set.
LEMMA OneLess ==
    ASSUME NEW D, IsFiniteSet(D), NEW s \in SUBSET D, s # {}
    PROVE  /\ One(s) \in s /\ One(s) \in D /\ s \ {One(s)} \in SUBSET D
           /\ IsFiniteSet(s) /\ Cardinality(s) \in Nat /\ Cardinality(s) > 0
           /\ Cardinality(s \ {One(s)}) = Cardinality(s) - 1
<1>1. One(s) \in s
  BY DEF One
<1>2. IsFiniteSet(s)
  BY FS_Subset
<1>3. Cardinality(s) \in Nat /\ Cardinality(s) # 0
  BY <1>2, FS_CardinalityType, FS_EmptySet
<1>4. Cardinality(s \ {One(s)}) = Cardinality(s) - 1
  BY <1>1, <1>2, FS_RemoveElement
<1> QED
  BY <1>1, <1>2, <1>3, <1>4

\* There are such sums.
LEMMA SumExists ==
    ASSUME NEW D, IsFiniteSet(D), NEW w \in [D -> Int]
    PROVE  \E g \in [SUBSET D -> Int] : IsSum(g, D, w)
<1>1. \A s \in SUBSET D : Cardinality(s) \in Nat /\ (Cardinality(s) = 0 => s = {})
  BY FS_Subset, FS_CardinalityType, FS_EmptySet
<1>2. \A s \in SUBSET D : s # {} => /\ One(s) \in D /\ s \ {One(s)} \in SUBSET D
                                    /\ Cardinality(s \ {One(s)}) = Cardinality(s) - 1
  BY OneLess
<1> DEFINE Body(g, s) == IF s = {} THEN 0 ELSE w[One(s)] + g[s \ {One(s)}]
           Good(g, n) == \A s \in SUBSET D : Cardinality(s) <= n => g[s] = Body(g, s)
           UpTo == {n \in Nat : \E g \in [SUBSET D -> Int] : Good(g, n)}
<1>3. 0 \in UpTo
  <2> DEFINE g == [s \in SUBSET D |-> 0]
  <2>1. g \in [SUBSET D -> Int]
    OBVIOUS
  <2>2. ASSUME NEW s \in SUBSET D, Cardinality(s) <= 0 PROVE s = {}
    BY <1>1, <2>2
  <2>3. Good(g, 0)
    BY <2>2
  <2> HIDE DEF g, Good
  <2> QED
    BY <2>1, <2>3
<1>4. ASSUME NEW n \in Nat, n \in UpTo
      PROVE  n + 1 \in UpTo
  <2>1. PICK g \in [SUBSET D -> Int] :
           \A s \in SUBSET D : Cardinality(s) <= n => g[s] = Body(g, s)
    BY <1>4
  <2> DEFINE f == [s \in SUBSET D |-> Body(g, s)]
  <2>2. ASSUME NEW s \in SUBSET D PROVE Body(g, s) \in Int
    <3>1. CASE s = {}
      BY <3>1
    <3>2. CASE s # {}
      <4>1. w[One(s)] \in Int /\ g[s \ {One(s)}] \in Int
        BY <1>2, <3>2
      <4> QED
        BY <3>2, <4>1
    <3> QED
      BY <3>1, <3>2
  <2>3. f \in [SUBSET D -> Int]
    BY <2>2
  <2>4. ASSUME NEW s \in SUBSET D, Cardinality(s) <= n + 1
        PROVE  f[s] = Body(f, s)
    <3>1. CASE s = {}
      BY <3>1
    <3>2. CASE s # {}
      <4> DEFINE rest == s \ {One(s)}
      <4>1. rest \in SUBSET D /\ Cardinality(rest) <= n
        BY <1>2, <1>1, <2>4, <3>2
      <4>2. g[rest] = f[rest]
        BY <2>1, <4>1
      <4>3. f[s] = w[One(s)] + g[rest] /\ Body(f, s) = w[One(s)] + f[rest]
        BY <3>2
      <4> QED
        BY <4>2, <4>3
    <3> QED
      BY <3>1, <3>2
  <2>5. Good(f, n + 1)
    <3> HIDE DEF f, Body
    <3> QED
      BY <2>4
  <2> HIDE DEF f, Good
  <2> QED
    BY <2>3, <2>5
<1>5. Cardinality(D) \in UpTo
  <2> HIDE DEF UpTo
  <2>1. Nat \subseteq UpTo
    BY <1>3, <1>4, Induction
  <2> QED
    BY <2>1, FS_CardinalityType
<1>6. PICK g \in [SUBSET D -> Int] :
         \A s \in SUBSET D : Cardinality(s) <= Cardinality(D) => g[s] = Body(g, s)
  BY <1>5
<1>7. \A s \in SUBSET D : g[s] = Body(g, s)
  BY <1>6, FS_Subset
<1>8. g = [s \in SUBSET D |-> Body(g, s)]
  BY <1>7
<1> QED
  BY <1>8 DEF IsSum

\* Sums of integers are integers, and not negative if nothing in them is.
LEMMA SumType ==
    ASSUME NEW D, IsFiniteSet(D), NEW w \in [D -> Int], NEW g, IsSum(g, D, w)
    PROVE  /\ g[D] \in Int
           /\ (\A i \in D : w[i] >= 0) => g[D] >= 0
<1>1. \A s \in SUBSET D : Cardinality(s) \in Nat /\ (Cardinality(s) = 0 => s = {})
  BY FS_Subset, FS_CardinalityType, FS_EmptySet
<1>2. \A s \in SUBSET D : s # {} => /\ One(s) \in D /\ s \ {One(s)} \in SUBSET D
                                    /\ Cardinality(s \ {One(s)}) = Cardinality(s) - 1
  BY OneLess
<1> DEFINE OK(s) == g[s] \in Int /\ ((\A i \in D : w[i] >= 0) => g[s] >= 0)
           S == {n \in Nat : \A s \in SUBSET D : Cardinality(s) = n => OK(s)}
<1>3. \A s \in SUBSET D : g[s] = IF s = {} THEN 0 ELSE w[One(s)] + g[s \ {One(s)}]
  BY DEF IsSum
<1>4. 0 \in S
  <2>1. ASSUME NEW s \in SUBSET D, Cardinality(s) = 0 PROVE OK(s)
    <3>1. s = {}
      BY <1>1, <2>1
    <3>2. g[s] = 0
      BY <1>3, <3>1
    <3> QED
      BY <3>2
  <2> QED
    BY <2>1
<1>5. ASSUME NEW n \in Nat, n \in S
      PROVE  n + 1 \in S
  <2>1. ASSUME NEW s \in SUBSET D, Cardinality(s) = n + 1 PROVE OK(s)
    <3>1. s # {}
      BY <2>1, FS_EmptySet
    <3>2. OK(s \ {One(s)}) /\ One(s) \in D
      BY <1>2, <1>5, <2>1, <3>1
    <3>3. g[s] = w[One(s)] + g[s \ {One(s)}] /\ w[One(s)] \in Int
      BY <1>3, <3>1, <3>2
    <3> QED
      BY <3>2, <3>3
  <2> QED
    BY <2>1
<1>6. Cardinality(D) \in S
  <2> HIDE DEF S
  <2>1. Nat \subseteq S
    BY <1>4, <1>5, Induction
  <2> QED
    BY <2>1, FS_CardinalityType
<1> QED
  BY <1>6

\* dot() is such a sum.
LEMMA DotIsSum ==
    ASSUME NEW a, NEW b, IsFiniteSet(DOMAIN a), \A i \in DOMAIN a : a[i] * b[i] \in Int
    PROVE  \E g : /\ IsSum(g, DOMAIN a, [i \in DOMAIN a |-> a[i] * b[i]])
                  /\ dot(a, b) = g[DOMAIN a]
<1> DEFINE w == [i \in DOMAIN a |-> a[i] * b[i]]
           IsIter(g) == g = [s \in SUBSET DOMAIN a |->
                               IF s = {} THEN 0
                               ELSE LET x == CHOOSE x \in s : TRUE IN a[x] * b[x] + g[s \ {x}]]
<1>1. dot(a, b) = LET iter == CHOOSE g : IsIter(g) IN iter[DOMAIN a]
  BY Zenon DEF dot, MapThenSumSet, MapThenFoldSet
<1>2. ASSUME NEW g PROVE IsIter(g) <=> IsSum(g, DOMAIN a, w)
  <2>1. ASSUME NEW s \in SUBSET DOMAIN a, s # {}
        PROVE  w[One(s)] = a[One(s)] * b[One(s)]
    BY <2>1, OneLess
  <2>2. [s \in SUBSET DOMAIN a |->
           IF s = {} THEN 0 ELSE a[One(s)] * b[One(s)] + g[s \ {One(s)}]]
        = [s \in SUBSET DOMAIN a |-> IF s = {} THEN 0 ELSE w[One(s)] + g[s \ {One(s)}]]
    <3> HIDE DEF w
    <3> QED
      BY <2>1
  <2>3. IsIter(g) <=> g = [s \in SUBSET DOMAIN a |->
           IF s = {} THEN 0 ELSE a[One(s)] * b[One(s)] + g[s \ {One(s)}]]
    BY Zenon DEF One
  <2> HIDE DEF w, IsIter
  <2> QED
    BY <2>2, <2>3 DEF IsSum
<1>3. \E g : IsSum(g, DOMAIN a, w)
  <2>1. w \in [DOMAIN a -> Int]
    OBVIOUS
  <2> HIDE DEF w
  <2> QED
    BY <2>1, SumExists
<1>4. \E g : IsIter(g)
  <2> HIDE DEF IsIter, w
  <2> QED
    BY <1>2, <1>3
<1>5. IsIter(CHOOSE g : IsIter(g))
  <2> HIDE DEF IsIter
  <2> QED
    BY <1>4, Zenon
<1> HIDE DEF IsIter, w
<1>6. dot(a, b) = (CHOOSE g : IsIter(g))[DOMAIN a]
  BY <1>1
<1> QED
  BY <1>2, <1>5, <1>6 DEF w

-----------------------------------------------------------------------------
(* The similarity of two questions *)

\* A vector's product with itself is not negative, and any product is an integer.
LEMMA DotType ==
    ASSUME NEW a \in Seq(Int), NEW b \in Seq(Int), Len(a) = Len(b)
    PROVE  dot(a, b) \in Int /\ (a = b => dot(a, b) >= 0)
<1>1. /\ DOMAIN a = 1..Len(a) /\ Len(a) \in Nat /\ DOMAIN b = 1..Len(a)
      /\ \A i \in DOMAIN a : a[i] \in Int /\ b[i] \in Int /\ a[i] * b[i] \in Int
  OBVIOUS
<1>2. IsFiniteSet(DOMAIN a)
  BY <1>1, FS_Interval
<1> DEFINE w == [i \in DOMAIN a |-> a[i] * b[i]]
<1>3. PICK g : IsSum(g, DOMAIN a, w) /\ dot(a, b) = g[DOMAIN a]
  BY <1>1, <1>2, DotIsSum
<1>4. w \in [DOMAIN a -> Int]
  BY <1>1
<1>5. a = b => \A i \in DOMAIN a : w[i] >= 0
  <2>1. \A x \in Int : x * x >= 0
    OBVIOUS
  <2> QED
    BY <1>1, <2>1
<1> HIDE DEF w
<1> QED
  BY <1>2, <1>3, <1>4, <1>5, SumType

\* A similarity is a fraction with a positive denominator.
LEMMA SimilarityType ==
    ASSUME NEW a \in Seq(Int), NEW b \in Seq(Int)
    PROVE  /\ cosineSimilarity(a, b)[1] \in Int
           /\ cosineSimilarity(a, b)[2] \in Nat /\ cosineSimilarity(a, b)[2] > 0
<1>1. CASE Len(a) # Len(b) \/ a = <<>> \/ dot(a, a) = 0 \/ dot(b, b) = 0
  BY <1>1 DEF cosineSimilarity
<1>2. CASE ~(Len(a) # Len(b) \/ a = <<>> \/ dot(a, a) = 0 \/ dot(b, b) = 0)
  <2>1. PICK x \in Int, y \in Int, z \in Int :
           x = dot(a, b) /\ y = dot(a, a) /\ z = dot(b, b) /\ y > 0 /\ z > 0
    BY <1>2, DotType
  <2>2. cosineSimilarity(a, b) = <<IF x < 0 THEN -x * x ELSE x * x, y * z>>
    BY <1>2, <2>1 DEF cosineSimilarity
  <2>3. y * z \in Nat /\ y * z > 0
    BY <2>1
  <2>4. (IF x < 0 THEN -x * x ELSE x * x) \in Int
    OBVIOUS
  <2> QED
    BY <2>2, <2>3, <2>4
<1> QED
  BY <1>1, <1>2

\* The order of fractions is transitive.
LEMMA AtLeastTransitive ==
    ASSUME NEW x, NEW y, NEW z,
           x[1] \in Int, x[2] \in Nat, x[2] > 0, y[1] \in Int, y[2] \in Nat, y[2] > 0,
           z[1] \in Int, z[2] \in Nat, z[2] > 0,
           AtLeast(x, y), AtLeast(y, z)
    PROVE  AtLeast(x, z)
<1> PICK a \in Int, b \in Nat, c \in Int, d \in Nat, e \in Int, f \in Nat :
       /\ a = x[1] /\ b = x[2] /\ c = y[1] /\ d = y[2] /\ e = z[1] /\ f = z[2]
       /\ b > 0 /\ d > 0 /\ f > 0
  OBVIOUS
<1>1. a * d >= c * b /\ c * f >= e * d
  BY DEF AtLeast
<1>2. (a * d) * f >= (c * b) * f /\ (c * f) * b >= (e * d) * b
  BY <1>1
<1>3. (a * f) * d >= (e * b) * d
  <2>1. (a * f) * d = (a * d) * f /\ (c * b) * f = (c * f) * b /\ (e * b) * d = (e * d) * b
    OBVIOUS
  <2>2. /\ (a * f) * d \in Int /\ (c * b) * f \in Int /\ (e * b) * d \in Int
    OBVIOUS
  <2> QED
    BY <1>2, <2>1, <2>2
<1>4. a * f >= e * b
  BY <1>3
<1> QED
  BY <1>4 DEF AtLeast

-----------------------------------------------------------------------------
(* What the searches return *)

\* The smaller of two numbers.
LEMMA MinOfTwo ==
    ASSUME NEW k \in Nat, NEW m \in Nat
    PROVE  Min({k, m}) = IF k <= m THEN k ELSE m
<1>1. \E x \in {k, m} : \A y \in {k, m} : x <= y
  OBVIOUS
<1>2. Min({k, m}) \in {k, m} /\ \A y \in {k, m} : Min({k, m}) <= y
  BY <1>1, Zenon DEF Min
<1> QED
  BY <1>2

\* What First() gives are k elements of S, or all of them.
LEMMA FirstSize ==
    ASSUME NEW S, IsFiniteSet(S), NEW k \in Nat, NEW T \in SUBSET S,
           Cardinality(T) = Min({k, Cardinality(S)})
    PROVE  /\ IsFiniteSet(T) /\ Cardinality(T) \in Nat /\ Cardinality(S) \in Nat
           /\ Cardinality(T) = IF k <= Cardinality(S) THEN k ELSE Cardinality(S)
  BY MinOfTwo, FS_Subset, FS_CardinalityType

-----------------------------------------------------------------------------
(* Ingestion *)

\* The rows before the next one of an ingestion are stored.
InFlight(g) ==
    ingest[g] # NoIngest =>
        \E d \in DocIds, text \in Texts, n \in Nat \ {0} :
            /\ ingest[g] = Ingesting(d, text, n) /\ n <= Len(text.parts)
            /\ \A i \in 1..(n - 1) : Chunk(d, text, i) \in chunks

StoreInv ==
    /\ chunks \subseteq Row
    /\ ingest = [g \in Ingesters |-> ingest[g]]
    /\ \A g \in Ingesters : InFlight(g)
    /\ IngestedWhole

\* The rows of a text are rows.
LEMMA ChunkIsRow ==
    ASSUME NEW d \in DocIds, NEW text \in Texts, NEW i \in 1..Len(text.parts)
    PROVE  Chunk(d, text, i) \in Row
  BY TextsAssumption DEF Chunk, Row

\* Of a text that is posted the first row is to come.
LEMMA StartIngestInv ==
    ASSUME StoreInv, NEW g \in Ingesters, NEW d \in DocIds, NEW text \in Texts,
           StartIngest(g, d, text)
    PROVE  StoreInv' /\ chunks \subseteq chunks'
<1>1. /\ ingest' = [ingest EXCEPT ![g] = Ingesting(d, text, 1)]
      /\ UNCHANGED <<chunks, reported>> /\ text.parts # <<>>
  BY DEF StartIngest
<1>2. 1 <= Len(text.parts)
  <2>1. text.parts \in Seq(Seq(Int))
    BY TextsAssumption
  <2> QED
    BY <1>1, <2>1
<1>3. ingest'[g] = Ingesting(d, text, 1) /\ \A k \in Ingesters : k # g => ingest'[k] = ingest[k]
  BY <1>1 DEF StoreInv
<1>4. \A k \in Ingesters : InFlight(k)'
  <2>1. InFlight(g)'
    BY <1>2, <1>3 DEF InFlight
  <2>2. ASSUME NEW k \in Ingesters, k # g PROVE InFlight(k)'
    BY <1>1, <1>3, <2>2 DEF InFlight, StoreInv
  <2> QED
    BY <2>1, <2>2
<1>5. ingest' = [k \in Ingesters |-> ingest'[k]]
  BY <1>1 DEF StoreInv
<1> QED
  BY <1>1, <1>4, <1>5 DEF StoreInv, IngestedWhole

\* The next row, and after the last one the answer.
LEMMA InsertChunkInv ==
    ASSUME StoreInv, NEW g \in Ingesters, InsertChunk(g)
    PROVE  StoreInv' /\ chunks \subseteq chunks'
<1>1. PICK d \in DocIds, text \in Texts, n \in Nat \ {0} :
         /\ ingest[g] = Ingesting(d, text, n) /\ n <= Len(text.parts)
         /\ \A i \in 1..(n - 1) : Chunk(d, text, i) \in chunks
  BY DEF StoreInv, InFlight, InsertChunk
<1>2. /\ ingest[g].doc = d /\ ingest[g].text = text /\ ingest[g].next = n
      /\ text.parts \in Seq(Seq(Int)) /\ Len(text.parts) \in Nat
      /\ DOMAIN text.parts = 1..Len(text.parts)
  BY <1>1, TextsAssumption DEF Ingesting
<1> PICK c : c = Chunk(d, text, n)
  OBVIOUS
<1>3. chunks' = chunks \cup {c} /\ c \in Row /\ c.documentId = d /\ c.part = n
  BY <1>1, <1>2, ChunkIsRow DEF InsertChunk, Chunk
<1>4. \A i \in 1..n : Chunk(d, text, i) \in chunks'
  BY <1>1, <1>3
<1>5. \/ /\ n = Len(text.parts) /\ reported' = reported \cup {[doc |-> d, text |-> text]}
         /\ ingest' = [ingest EXCEPT ![g] = NoIngest]
      \/ /\ n # Len(text.parts) /\ reported' = reported
         /\ ingest' = [ingest EXCEPT ![g] = Ingesting(d, text, n + 1)]
  BY <1>2 DEF InsertChunk
<1>6. /\ ingest' = [k \in Ingesters |-> ingest'[k]]
      /\ \A k \in Ingesters : k # g => ingest'[k] = ingest[k]
      /\ ingest'[g] = NoIngest \/ (n < Len(text.parts) /\ ingest'[g] = Ingesting(d, text, n + 1))
  BY <1>1, <1>2, <1>5 DEF StoreInv
<1>7. \A k \in Ingesters : InFlight(k)'
  <2>1. InFlight(g)'
    BY <1>2, <1>4, <1>6 DEF InFlight
  <2>2. ASSUME NEW k \in Ingesters, k # g PROVE InFlight(k)'
    BY <1>3, <1>6, <2>2 DEF InFlight, StoreInv
  <2> QED
    BY <2>1, <2>2
<1>8. ASSUME NEW r \in reported' PROVE Whole(r.doc, r.text) \subseteq chunks'
  <2>1. CASE r \in reported
    BY <1>3, <2>1 DEF StoreInv, IngestedWhole
  <2>2. CASE r \notin reported
    <3>1. n = Len(text.parts) /\ r.doc = d /\ r.text = text
      BY <1>5, <2>2
    <3> QED
      BY <1>2, <1>4, <3>1 DEF Whole
  <2> QED
    BY <2>1, <2>2
<1>9. ASSUME NEW x \in chunks', NEW i \in 1..(x.part - 1)
      PROVE  \E b \in chunks' : b.documentId = x.documentId /\ b.part = i
  <2>1. CASE x \in chunks
    BY <1>3, <2>1 DEF StoreInv, IngestedWhole
  <2>2. CASE x \notin chunks
    <3>1. i \in 1..(n - 1) /\ x.documentId = d
      BY <1>3, <2>2
    <3>2. /\ Chunk(d, text, i) \in chunks'
          /\ Chunk(d, text, i).documentId = d /\ Chunk(d, text, i).part = i
      BY <1>4, <3>1 DEF Chunk
    <3> QED
      BY <3>1, <3>2
  <2> QED
    BY <2>1, <2>2
<1> QED
  BY <1>3, <1>6, <1>7, <1>8, <1>9 DEF StoreInv, IngestedWhole

\* Every step of the store keeps its invariant and the rows.
LEMMA StoreNextInv ==
    ASSUME StoreInv, [StoreNext]_storeVars
    PROVE  StoreInv' /\ chunks \subseteq chunks'
<1>1. ASSUME NEW g \in Ingesters, IngestFails(g)
      PROVE  StoreInv' /\ chunks \subseteq chunks'
  <2>1. ingest' = [ingest EXCEPT ![g] = NoIngest] /\ UNCHANGED <<chunks, reported>>
    BY <1>1 DEF IngestFails
  <2>2. /\ ingest' = [k \in Ingesters |-> ingest'[k]] /\ ingest'[g] = NoIngest
        /\ \A k \in Ingesters : k # g => ingest'[k] = ingest[k]
    BY <2>1 DEF StoreInv
  <2>3. \A k \in Ingesters : InFlight(k)'
    BY <2>1, <2>2 DEF InFlight, StoreInv
  <2> QED
    BY <2>1, <2>2, <2>3 DEF StoreInv, IngestedWhole
<1>2. CASE UNCHANGED storeVars
  BY <1>2 DEF storeVars, StoreInv, InFlight, IngestedWhole
<1> QED
  BY <1>1, <1>2, StartIngestInv, InsertChunkInv DEF StoreNext

\* The store begins empty.
LEMMA StoreInitInv == StoreInit => StoreInv
  BY DEF StoreInit, StoreInv, InFlight, IngestedWhole

-----------------------------------------------------------------------------
(* The inductive invariant *)

\* What answers may be grounded on.
Policies == {c \in chunks : c.source = "policy:"}

\* An entry was set no earlier than the time it carries.
EntryOK(i) ==
    /\ entry[i].question \in Questions /\ entry[i].context \subseteq Policies
    /\ entry[i].cachedAt \in Nat /\ entry[i].setAt \in Nat
    /\ entry[i].cachedAt <= entry[i].setAt /\ entry[i].setAt <= now

\* b is what the lookup of h should return; there is nothing it should return.
AnsweredBy(h, b) ==
    /\ isHit(h, b)
    /\ \A i \in Stored : Eligible(h, i) => AtLeast(Similarity(h, b), Similarity(h, i))
NoneAnswers(h) == \A i \in Stored : Eligible(h, i) => ~isHit(h, i)

\* What a question in flight relies on between two awaits.
AskOK(h) ==
    /\ ask[h].context \subseteq Policies
    /\ ask[h].known \subseteq Stored /\ ask[h].ids \subseteq Stored
    /\ ~At(h, "idle") => ask[h].question \in Questions
    /\ At(h, "prune") => ask[h].cutoff \in Int /\ ask[h].cutoff + ttl <= now
    /\ At(h, "store") => ask[h].cachedAt \in Nat /\ ask[h].cachedAt <= now
    /\ At(h, "fetch") => \A i \in Stored : Eligible(h, i) => i \in ask[h].ids
    /\ At(h, "heal") => \A i \in ask[h].ids : ~Live(i)
    /\ (At(h, "hit") \/ (At(h, "heal") /\ ask[h].best # Null))
          => \E b \in Stored : ask[h].best = b /\ AnsweredBy(h, b)
    /\ (At(h, "retrieve") \/ At(h, "invoke") \/ (At(h, "heal") /\ ask[h].best = Null))
          => NoneAnswers(h)

QaInv ==
    /\ StoreInv
    /\ now \in Nat
    /\ IsFiniteSet(Stored) /\ index \subseteq Stored
    /\ entry = [i \in EntryIds |-> entry[i]]
    /\ ask = [h \in Handlers |-> ask[h]]
    /\ \A i \in Stored : EntryOK(i)
    /\ LiveEntriesIndexed
    /\ \A h \in Handlers : AskOK(h)

\* The invariant says what the properties ask.
LEMMA QaInvImplies ==
    QaInv => /\ LiveEntriesIndexed /\ HitIsBest /\ MissGenuine /\ AnswersGrounded
             /\ IngestedWhole
<1> SUFFICES ASSUME QaInv
             PROVE  /\ LiveEntriesIndexed /\ HitIsBest /\ MissGenuine /\ AnswersGrounded
                    /\ IngestedWhole
  OBVIOUS
<1>1. HitIsBest
  BY DEF QaInv, AskOK, AnsweredBy, HitIsBest
<1>2. MissGenuine
  BY DEF QaInv, AskOK, NoneAnswers, MissGenuine, At
<1>3. AnswersGrounded
  BY DEF QaInv, AskOK, EntryOK, Policies, AnswersGrounded
<1> QED
  BY <1>1, <1>2, <1>3 DEF QaInv, StoreInv

\* The invariant holds initially.
LEMMA QaInitInv == QaInit => QaInv
<1> SUFFICES ASSUME QaInit PROVE QaInv
  OBVIOUS
<1>1. StoreInv
  BY StoreInitInv DEF QaInit
<1>2. Stored = {}
  BY DEF QaInit, Stored
<1>3. \A h \in Handlers : AskOK(h)
  BY DEF QaInit, NoAsk, LookingUp, AskOK, At
<1> QED
  BY <1>1, <1>2, <1>3, FS_EmptySet DEF QaInit, QaInv, LiveEntriesIndexed

-----------------------------------------------------------------------------
(* Its preservation *)

\* Entries and rows stay, and the clock does not go back.
CacheGrows ==
    /\ chunks \subseteq chunks'
    /\ now' \in Nat /\ now <= now'
    /\ IsFiniteSet(Stored') /\ Stored \subseteq Stored'
    /\ \A i \in Stored : entry'[i] = entry[i]

\* An entry a lookup has to consider, it had to consider before.
LEMMA EligibleBefore ==
    ASSUME QaInv, CacheGrows, NEW h \in Handlers, ask'[h].known = ask[h].known,
           NEW i, Eligible(h, i)'
    PROVE  i \in Stored /\ Eligible(h, i)
<1>1. i \in ask[h].known /\ i \in Stored /\ entry'[i] = entry[i] /\ EntryOK(i)
  BY DEF QaInv, AskOK, Eligible, CacheGrows
<1>2. entry[i].cachedAt > now - ttl
  BY <1>1, CacheAssumption DEF Eligible, CacheGrows, QaInv, EntryOK
<1> DEFINE newer == {j \in Stored \ {i} : entry[j].cachedAt >= entry[i].cachedAt}
           newerNow == {j \in Stored' \ {i} : entry'[j].cachedAt >= entry'[i].cachedAt}
<1>3. newer \subseteq newerNow /\ newerNow \subseteq Stored'
  BY <1>1 DEF CacheGrows
<1>4. Cardinality(newerNow) < maxCandidates
  BY DEF Eligible
<1> HIDE DEF newer, newerNow
<1>5. /\ IsFiniteSet(newerNow) /\ Cardinality(newer) <= Cardinality(newerNow)
      /\ Cardinality(newer) \in Nat /\ Cardinality(newerNow) \in Nat
  BY <1>3, FS_Subset, FS_CardinalityType DEF CacheGrows
<1>6. Cardinality(newer) < maxCandidates
  BY <1>4, <1>5, CacheAssumption
<1> QED
  BY <1>1, <1>2, <1>6 DEF Eligible, newer

\* Similarities do not change while the entry and the question do not.
LEMMA SameSimilarity ==
    ASSUME NEW h, NEW i, ask'[h].question = ask[h].question, entry'[i] = entry[i]
    PROVE  Similarity(h, i)' = Similarity(h, i) /\ (isHit(h, i)' <=> isHit(h, i))
<1>1. Similarity(h, i)' = Similarity(h, i)
  BY DEF Similarity
<1> QED
  BY <1>1 DEF isHit

\* What a lookup should return stays so, and nothing stays nothing.
LEMMA LookupKept ==
    ASSUME QaInv, CacheGrows, NEW h \in Handlers, ask'[h].known = ask[h].known,
           ask'[h].question = ask[h].question
    PROVE  /\ NoneAnswers(h) => NoneAnswers(h)'
           /\ \A b \in Stored : AnsweredBy(h, b) => AnsweredBy(h, b)'
<1>1. \A i \in Stored : /\ Similarity(h, i)' = Similarity(h, i)
                        /\ isHit(h, i)' <=> isHit(h, i)
  BY SameSimilarity DEF CacheGrows
<1>2. \A i : Eligible(h, i)' => i \in Stored /\ Eligible(h, i)
  BY EligibleBefore
<1>3. NoneAnswers(h) => NoneAnswers(h)'
  BY <1>1, <1>2 DEF NoneAnswers
<1>4. ASSUME NEW b \in Stored, AnsweredBy(h, b) PROVE AnsweredBy(h, b)'
  BY <1>1, <1>2, <1>4 DEF AnsweredBy
<1> QED
  BY <1>3, <1>4

\* What is dead stays dead.
LEMMA DeadStays ==
    ASSUME QaInv, CacheGrows, NEW i \in Stored, ~Live(i)
    PROVE  ~Live(i)'
  BY CacheAssumption DEF QaInv, EntryOK, CacheGrows, Live, Stored

\* A question that does not move keeps what it has.
LEMMA AskStable ==
    ASSUME QaInv, CacheGrows, NEW h \in Handlers, ask'[h] = ask[h]
    PROVE  AskOK(h)'
<1>1. AskOK(h) /\ Policies \subseteq Policies'
  BY DEF QaInv, CacheGrows, Policies
<1>2. /\ ask[h].context \subseteq Policies' /\ ask[h].known \subseteq Stored'
      /\ ask[h].ids \subseteq Stored /\ ask[h].ids \subseteq Stored'
  BY <1>1 DEF AskOK, CacheGrows
<1>3. At(h, "prune") => ask[h].cutoff \in Int /\ ask[h].cutoff + ttl <= now'
  BY <1>1, CacheAssumption DEF AskOK, CacheGrows, QaInv
<1>4. At(h, "store") => ask[h].cachedAt \in Nat /\ ask[h].cachedAt <= now'
  BY <1>1 DEF AskOK, CacheGrows, QaInv
<1>5. At(h, "fetch") => \A i \in Stored' : Eligible(h, i)' => i \in ask[h].ids
  BY <1>1, EligibleBefore DEF AskOK
<1>6. At(h, "heal") => \A i \in ask[h].ids : ~Live(i)'
  BY <1>1, <1>2, DeadStays DEF AskOK
<1>7. /\ NoneAnswers(h) => NoneAnswers(h)'
      /\ \A b \in Stored : b \in Stored' /\ (AnsweredBy(h, b) => AnsweredBy(h, b)')
  BY LookupKept DEF CacheGrows
<1> QED
  BY <1>1, <1>2, <1>3, <1>4, <1>5, <1>6, <1>7 DEF AskOK, At

\* A step of one question has to establish what that question has.
LEMMA AskMoves ==
    ASSUME QaInv, CacheGrows, NEW h \in Handlers, NEW q, Step(h, q),
           ask'[h] = q => AskOK(h)'
    PROVE  /\ ask' = [k \in Handlers |-> ask'[k]]
           /\ \A k \in Handlers : AskOK(k)'
<1>1. /\ ask'[h] = q /\ \A k \in Handlers : k # h => ask'[k] = ask[k]
      /\ ask' = [k \in Handlers |-> ask'[k]]
  BY DEF QaInv, Step
<1> QED
  BY <1>1, AskStable

\* A step that leaves the entries and the clock alone.
LEMMA EntriesKept ==
    ASSUME QaInv, StoreInv', chunks \subseteq chunks', UNCHANGED <<now, entry>>
    PROVE  /\ CacheGrows /\ Stored' = Stored /\ \A i : Live(i)' <=> Live(i)
           /\ \A i \in Stored' : EntryOK(i)'
<1>1. Stored' = Stored /\ Policies \subseteq Policies'
  BY DEF Stored, Policies
<1> QED
  BY <1>1 DEF QaInv, CacheGrows, EntryOK, Live

\* A question moves, the index may lose what is not live.
LEMMA QuestionMoves ==
    ASSUME QaInv, UNCHANGED <<storeVars, now, entry>>, index' \subseteq index,
           \A i \in index \ index' : ~Live(i) \/ entry[i].cachedAt <= now - ttl,
           NEW h \in Handlers, NEW q, Step(h, q), ask'[h] = q => AskOK(h)'
    PROVE  QaInv'
<1>1. StoreInv' /\ chunks \subseteq chunks'
  BY StoreNextInv DEF QaInv, storeVars
<1>2. /\ CacheGrows /\ Stored' = Stored /\ \A i : Live(i)' <=> Live(i)
      /\ \A i \in Stored' : EntryOK(i)'
  BY <1>1, EntriesKept
<1>3. ASSUME NEW i \in Stored', Live(i)', entry[i].cachedAt > now - ttl
      PROVE  i \in index'
  <2>1. i \in index
    BY <1>2, <1>3 DEF QaInv, LiveEntriesIndexed
  <2>2. ~(entry[i].cachedAt <= now - ttl)
    BY <1>2, <1>3, CacheAssumption DEF QaInv, EntryOK
  <2> QED
    BY <1>2, <1>3, <2>1, <2>2
<1>4. LiveEntriesIndexed'
  BY <1>3 DEF LiveEntriesIndexed
<1>5. ask' = [k \in Handlers |-> ask'[k]] /\ \A k \in Handlers : AskOK(k)'
  BY <1>2, AskMoves
<1> QED
  BY <1>1, <1>2, <1>4, <1>5 DEF QaInv

\* Similarities are fractions of integers.
LEMMA SimilarityIsFraction ==
    ASSUME QaInv, NEW h \in Handlers, ~At(h, "idle"), NEW i \in Stored
    PROVE  /\ Similarity(h, i)[1] \in Int
           /\ Similarity(h, i)[2] \in Nat /\ Similarity(h, i)[2] > 0
<1>1. ask[h].question \in Seq(Int) /\ entry[i].question \in Seq(Int)
  BY QuestionsAssumption DEF QaInv, AskOK, EntryOK
<1> QED
  BY <1>1, SimilarityType DEF Similarity

\* What a lookup has to consider is in the index.
LEMMA EligibleIndexed ==
    ASSUME QaInv, NEW h \in Handlers, NEW i \in Stored, Eligible(h, i)
    PROVE  Live(i) /\ i \in index
<1>1. entry[i].cachedAt > now - ttl
  BY DEF Eligible
<1>2. Live(i)
  BY <1>1, CacheAssumption DEF QaInv, EntryOK, Live, Stored
<1> QED
  BY <1>1, <1>2 DEF QaInv, LiveEntriesIndexed

\* The maxCandidates newest ids of the index are enough to consider.
LEMMA ScanFinds ==
    ASSUME QaInv, NEW h \in Handlers, NEW i \in Stored, Eligible(h, i),
           NEW ids \in SUBSET index, Cardinality(ids) = Min({maxCandidates, Cardinality(index)}),
           \A j \in ids, k \in index \ ids : entry[j].cachedAt >= entry[k].cachedAt
    PROVE  i \in ids
<1> SUFFICES ASSUME i \notin ids PROVE FALSE
  OBVIOUS
<1>1. IsFiniteSet(index) /\ IsFiniteSet(Stored) /\ index \subseteq Stored /\ i \in index
  BY EligibleIndexed, FS_Subset DEF QaInv
<1>2. /\ IsFiniteSet(ids) /\ Cardinality(ids) \in Nat /\ Cardinality(index) \in Nat
      /\ Cardinality(ids) = IF maxCandidates <= Cardinality(index)
                             THEN maxCandidates ELSE Cardinality(index)
  BY <1>1, CacheAssumption, FirstSize
<1> DEFINE newer == {j \in Stored \ {i} : entry[j].cachedAt >= entry[i].cachedAt}
<1>3. Cardinality(newer) < maxCandidates
  BY DEF Eligible
<1>4. ids \subseteq newer /\ newer \subseteq Stored
  BY <1>1
<1> HIDE DEF newer
<1>5. Cardinality(ids) <= Cardinality(newer) /\ Cardinality(newer) \in Nat
  BY <1>1, <1>4, FS_Subset, FS_CardinalityType
<1>6. Cardinality(ids) = Cardinality(index)
  <2>1. maxCandidates \in Nat
    BY CacheAssumption
  <2>2. CASE maxCandidates <= Cardinality(index)
    <3>1. Cardinality(ids) = maxCandidates
      BY <1>2, <2>2
    <3> QED
      BY <1>3, <1>5, <2>1, <3>1
  <2> QED
    BY <1>2, <2>2
<1>7. ids = index
  BY <1>1, <1>6, FS_Subset
<1> QED
  BY <1>1, <1>7

\* The first of the candidates that are left is the one to return, if any is.
LEMMA FetchFinds ==
    ASSUME QaInv, NEW h \in Handlers, At(h, "fetch"),
           NEW found, found = {i \in ask[h].ids : Live(i)}, NEW T \in Best(h, found),
           NEW best, best = IF \E i \in T : isHit(h, i) THEN CHOOSE i \in T : TRUE ELSE Null
    PROVE  \/ best # Null /\ best \in Stored /\ AnsweredBy(h, best)
           \/ best = Null /\ NoneAnswers(h)
<1>0. /\ AskOK(h) /\ ~At(h, "idle") /\ IsFiniteSet(found) /\ found \subseteq Stored
      /\ Stored \subseteq EntryIds
  BY FS_Subset DEF QaInv, AskOK, At, Stored
<1>1. /\ T \in SUBSET found /\ Cardinality(T) = Min({1, Cardinality(found)})
      /\ \A x \in T, y \in found \ T : AtLeast(Similarity(h, x), Similarity(h, y))
  BY DEF Best, First
<1>2. /\ IsFiniteSet(T) /\ Cardinality(T) \in Nat /\ Cardinality(found) \in Nat
      /\ Cardinality(T) = IF 1 <= Cardinality(found) THEN 1 ELSE Cardinality(found)
  BY <1>0, <1>1, FirstSize
<1>3. found = {} \/ \E x \in found : T = {x}
  BY <1>0, <1>1, <1>2, FS_EmptySet, FS_Singleton
<1>4. \A i \in Stored : Eligible(h, i) => i \in found
  BY <1>0, EligibleIndexed DEF AskOK
<1>5. CASE found = {}
  <2>1. best = Null
    BY <1>1, <1>5
  <2> QED
    BY <1>4, <1>5, <2>1 DEF NoneAnswers
<1>6. ASSUME NEW x \in found, T = {x}
      PROVE  \/ best # Null /\ best \in Stored /\ AnsweredBy(h, best)
             \/ best = Null /\ NoneAnswers(h)
  <2>1. x \in Stored /\ x # Null
    BY <1>0, CacheAssumption
  <2>2. \A i \in Stored : /\ Similarity(h, i)[1] \in Int
                          /\ Similarity(h, i)[2] \in Nat /\ Similarity(h, i)[2] > 0
    BY <1>0, SimilarityIsFraction
  <2>3. \A i \in found : AtLeast(Similarity(h, x), Similarity(h, i))
    <3>1. AtLeast(Similarity(h, x), Similarity(h, x))
      <4> PICK a \in Int, b \in Nat : a = Similarity(h, x)[1] /\ b = Similarity(h, x)[2]
        BY <2>1, <2>2
      <4>1. a * b >= a * b
        OBVIOUS
      <4> QED
        BY <4>1 DEF AtLeast
    <3> QED
      BY <1>1, <1>6, <3>1
  <2>4. CASE isHit(h, x)
    <3>1. best = x
      BY <1>6, <2>4
    <3> QED
      BY <1>4, <2>1, <2>3, <2>4, <3>1 DEF AnsweredBy
  <2>5. CASE ~isHit(h, x)
    <3>1. best = Null
      BY <1>6, <2>5
    <3>2. ASSUME NEW i \in Stored, Eligible(h, i), isHit(h, i) PROVE FALSE
      <4>1. AtLeast(Similarity(h, x), Similarity(h, i))
        BY <1>4, <2>3, <3>2
      <4>2. AtLeast(Similarity(h, i), similarityThreshold)
        BY <3>2 DEF isHit
      <4>3. /\ similarityThreshold[1] \in Int
            /\ similarityThreshold[2] \in Nat /\ similarityThreshold[2] > 0
        BY CacheAssumption
      <4>4. AtLeast(Similarity(h, x), similarityThreshold)
        BY <2>1, <2>2, <4>1, <4>2, <4>3, AtLeastTransitive
      <4> QED
        BY <2>5, <4>4 DEF isHit
    <3> QED
      BY <3>1, <3>2 DEF NoneAnswers
  <2> QED
    BY <2>4, <2>5
<1> QED
  BY <1>3, <1>5, <1>6

\* The steps of a lookup.
LEMMA LookupInv ==
    ASSUME QaInv, NEW h \in Handlers,
           \/ \E question \in Questions : StartAsk(h, question)
           \/ EmbedQuery(h) \/ Prune(h) \/ Scan(h) \/ Fetch(h) \/ Heal(h)
    PROVE  QaInv'
<1> AskOK(h) /\ now \in Nat /\ ttl \in Nat
  BY CacheAssumption DEF QaInv
<1>0. ASSUME UNCHANGED <<storeVars, now, entry>>
      PROVE  CacheGrows /\ Stored' = Stored
  BY <1>0, EntriesKept, StoreNextInv DEF QaInv, storeVars
<1>1. ASSUME NEW question \in Questions, StartAsk(h, question)
      PROVE  QaInv'
  <2> PICK q : q = LookingUp("embed", question, {}, 0, {}, Null)
    OBVIOUS
  <2>1. Step(h, q) /\ UNCHANGED <<storeVars, cacheVars>>
    BY <1>1 DEF StartAsk
  <2>2. ASSUME ask'[h] = q PROVE AskOK(h)'
    BY <2>2 DEF LookingUp, AskOK, At
  <2> QED
    BY <2>1, <2>2, QuestionMoves DEF cacheVars
<1>2. ASSUME EmbedQuery(h)
      PROVE  QaInv'
  <2> PICK q : q = LookingUp("prune", ask[h].question, Stored, now - ttl, {}, Null)
    OBVIOUS
  <2>1. Step(h, q) /\ UNCHANGED <<storeVars, cacheVars>> /\ At(h, "embed")
    BY <1>2 DEF EmbedQuery
  <2>2. Stored' = Stored /\ now' = now /\ ask[h].question \in Questions
    BY <1>0, <2>1 DEF cacheVars, AskOK, At
  <2>3. ASSUME ask'[h] = q PROVE AskOK(h)'
    BY <2>2, <2>3 DEF LookingUp, AskOK, At
  <2> QED
    BY <2>1, <2>3, QuestionMoves DEF cacheVars
<1>3. ASSUME Prune(h)
      PROVE  QaInv'
  <2> PICK q : q = LookingUp("scan", ask[h].question, ask[h].known, 0, {}, Null)
    OBVIOUS
  <2>1. /\ Step(h, q) /\ UNCHANGED <<storeVars, now, entry>> /\ At(h, "prune")
        /\ index' = {i \in index : entry[i].cachedAt > ask[h].cutoff}
    BY <1>3 DEF Prune
  <2>2. ASSUME NEW i \in index \ index' PROVE entry[i].cachedAt <= now - ttl
    <3>1. ~(entry[i].cachedAt > ask[h].cutoff) /\ i \in Stored
      BY <2>1, <2>2 DEF QaInv
    <3>2. entry[i].cachedAt \in Nat
      BY <3>1 DEF QaInv, EntryOK
    <3>3. ask[h].cutoff \in Int /\ ask[h].cutoff + ttl <= now
      BY <2>1 DEF AskOK
    <3> QED
      BY <3>1, <3>2, <3>3
  <2>3. Stored' = Stored /\ ask[h].question \in Questions /\ ask[h].known \subseteq Stored
    BY <1>0, <2>1 DEF AskOK, At
  <2>4. ASSUME ask'[h] = q PROVE AskOK(h)'
    BY <2>3, <2>4 DEF LookingUp, AskOK, At
  <2> QED
    BY <2>1, <2>2, <2>4, QuestionMoves
<1>4. ASSUME Scan(h)
      PROVE  QaInv'
  <2>0. PICK ids :
           /\ ids \in SUBSET index /\ Cardinality(ids) = Min({maxCandidates, Cardinality(index)})
           /\ \A i \in ids, j \in index \ ids : entry[i].cachedAt >= entry[j].cachedAt
           /\ Step(h, LookingUp(IF ids = {} THEN "retrieve" ELSE "fetch",
                                ask[h].question, ask[h].known, 0, ids, Null))
    BY <1>4 DEF Scan, First
  <2> PICK q : q = LookingUp(IF ids = {} THEN "retrieve" ELSE "fetch",
                             ask[h].question, ask[h].known, 0, ids, Null)
    OBVIOUS
  <2>1. Step(h, q) /\ UNCHANGED <<storeVars, cacheVars>> /\ At(h, "scan")
    BY <1>4, <2>0 DEF Scan
  <2>2. CacheGrows /\ Stored' = Stored
    BY <1>0, <2>1 DEF cacheVars
  <2>3. ids \subseteq Stored /\ ask[h].question \in Questions /\ ask[h].known \subseteq Stored
    BY <2>0, <2>1 DEF QaInv, AskOK, At
  <2>4. \A i \in Stored : Eligible(h, i) => i \in ids
    BY <2>0, ScanFinds
  <2>5. ASSUME ask'[h] = q PROVE AskOK(h)'
    <3>1. /\ ask'[h].pc = IF ids = {} THEN "retrieve" ELSE "fetch"
          /\ ask'[h].question = ask[h].question /\ ask'[h].known = ask[h].known
          /\ ask'[h].ids = ids /\ ask'[h].context = {}
      BY <2>5 DEF LookingUp
    <3>2. \A i : Eligible(h, i)' => i \in ids
      BY <2>2, <2>4, <3>1, EligibleBefore
    <3> QED
      BY <2>2, <2>3, <3>1, <3>2 DEF AskOK, At, NoneAnswers
  <2> QED
    BY <2>1, <2>5, QuestionMoves DEF cacheVars
<1>5. ASSUME Fetch(h)
      PROVE  QaInv'
  <2> PICK found : found = {i \in ask[h].ids : Live(i)}
    OBVIOUS
  <2>1. PICK T \in Best(h, found) : \E best :
           /\ best = IF \E i \in T : isHit(h, i) THEN CHOOSE i \in T : TRUE ELSE Null
           /\ Step(h, LookingUp(IF ask[h].ids # found THEN "heal" ELSE afterLookup(best),
                                ask[h].question, ask[h].known, 0, ask[h].ids \ found, best))
    BY <1>5 DEF Fetch
  <2> PICK best :
           /\ best = IF \E i \in T : isHit(h, i) THEN CHOOSE i \in T : TRUE ELSE Null
           /\ Step(h, LookingUp(IF ask[h].ids # found THEN "heal" ELSE afterLookup(best),
                                ask[h].question, ask[h].known, 0, ask[h].ids \ found, best))
    BY <2>1
  <2> PICK q : q = LookingUp(IF ask[h].ids # found THEN "heal" ELSE afterLookup(best),
                             ask[h].question, ask[h].known, 0, ask[h].ids \ found, best)
    OBVIOUS
  <2>2. Step(h, q) /\ UNCHANGED <<storeVars, cacheVars>> /\ At(h, "fetch")
    BY <1>5 DEF Fetch
  <2>3. /\ CacheGrows /\ Stored' = Stored /\ \A i : Live(i)' <=> Live(i)
        /\ ask[h].question \in Questions /\ ask[h].known \subseteq Stored
        /\ ask[h].ids \subseteq Stored
    BY <1>0, <2>2 DEF cacheVars, AskOK, At, Live
  <2>4. \/ best # Null /\ best \in Stored /\ AnsweredBy(h, best)
        \/ best = Null /\ NoneAnswers(h)
    BY <2>2, FetchFinds
  <2>5. ASSUME ask'[h] = q PROVE AskOK(h)'
    <3>1. /\ ask'[h].pc = IF ask[h].ids # found THEN "heal" ELSE afterLookup(best)
          /\ ask'[h].question = ask[h].question /\ ask'[h].known = ask[h].known
          /\ ask'[h].ids = ask[h].ids \ found /\ ask'[h].context = {}
          /\ ask'[h].best = best
      BY <2>5 DEF LookingUp
    <3>2. \/ best # Null /\ best \in Stored /\ AnsweredBy(h, best)'
          \/ best = Null /\ NoneAnswers(h)'
      BY <2>3, <2>4, <3>1, LookupKept
    <3>3. \A i \in ask[h].ids \ found : ~Live(i)'
      BY <2>3
    <3> QED
      BY <2>3, <3>1, <3>2, <3>3 DEF AskOK, At, afterLookup
  <2> QED
    BY <2>2, <2>5, QuestionMoves DEF cacheVars
<1>6. ASSUME Heal(h)
      PROVE  QaInv'
  <2> PICK q : q = LookingUp(afterLookup(ask[h].best), ask[h].question, ask[h].known,
                             0, {}, ask[h].best)
    OBVIOUS
  <2>1. /\ Step(h, q) /\ UNCHANGED <<storeVars, now, entry>> /\ At(h, "heal")
        /\ index' = index \ ask[h].ids
    BY <1>6 DEF Heal
  <2>2. \A i \in index \ index' : ~Live(i)
    BY <2>1 DEF AskOK
  <2>3. /\ CacheGrows /\ Stored' = Stored
        /\ ask[h].question \in Questions /\ ask[h].known \subseteq Stored
    BY <1>0, <2>1 DEF AskOK, At
  <2>4. ASSUME ask'[h] = q PROVE AskOK(h)'
    <3>1. /\ ask'[h].pc = afterLookup(ask[h].best)
          /\ ask'[h].question = ask[h].question /\ ask'[h].known = ask[h].known
          /\ ask'[h].ids = {} /\ ask'[h].context = {} /\ ask'[h].best = ask[h].best
      BY <2>4 DEF LookingUp
    <3>2. /\ NoneAnswers(h) => NoneAnswers(h)'
          /\ \A b \in Stored : AnsweredBy(h, b) => AnsweredBy(h, b)'
      BY <2>3, <3>1, LookupKept
    <3>3. /\ ask[h].best # Null => \E b \in Stored : ask[h].best = b /\ AnsweredBy(h, b)
          /\ ask[h].best = Null => NoneAnswers(h)
      BY <2>1 DEF AskOK
    <3> QED
      BY <2>3, <3>1, <3>2, <3>3 DEF AskOK, At, afterLookup
  <2> QED
    BY <2>1, <2>2, <2>4, QuestionMoves
<1> QED
  BY <1>1, <1>2, <1>3, <1>4, <1>5, <1>6

\* The steps of a question behind its lookup.
LEMMA AnswerInv ==
    ASSUME QaInv, NEW h \in Handlers, Retrieve(h) \/ Invoke(h) \/ AskFails(h)
    PROVE  QaInv'
<1> AskOK(h) /\ now \in Nat
  BY DEF QaInv
<1>0. UNCHANGED <<storeVars, cacheVars>>
  BY DEF Retrieve, Invoke, AskFails
<1>1. CacheGrows /\ Stored' = Stored /\ Policies' = Policies /\ now' = now
  BY <1>0, EntriesKept, StoreNextInv DEF QaInv, storeVars, cacheVars, Policies
<1>2. ASSUME Retrieve(h)
      PROVE  QaInv'
  <2>1. PICK context \in similaritySearch(ask[h].question, RETRIEVAL_TOP_K, "policy:") :
           Step(h, Answering("invoke", ask[h].question, ask[h].known, context, 0))
    BY <1>2 DEF Retrieve
  <2> PICK q : q = Answering("invoke", ask[h].question, ask[h].known, context, 0)
    OBVIOUS
  <2>2. /\ context \subseteq Policies /\ At(h, "retrieve")
        /\ ask[h].question \in Questions /\ ask[h].known \subseteq Stored /\ NoneAnswers(h)
    BY <1>2 DEF Retrieve, similaritySearch, First, Policies, AskOK, At
  <2>3. ASSUME ask'[h] = q PROVE AskOK(h)'
    <3>1. /\ ask'[h].pc = "invoke" /\ ask'[h].question = ask[h].question
          /\ ask'[h].known = ask[h].known /\ ask'[h].ids = {} /\ ask'[h].context = context
      BY <2>3 DEF Answering
    <3>2. NoneAnswers(h)'
      BY <1>1, <2>2, <3>1, LookupKept
    <3> QED
      BY <1>1, <2>2, <3>1, <3>2 DEF AskOK, At
  <2> QED
    BY <1>0, <2>1, <2>3, QuestionMoves DEF cacheVars
<1>3. ASSUME Invoke(h)
      PROVE  QaInv'
  <2> PICK q : q = Answering("store", ask[h].question, {}, ask[h].context, now)
    OBVIOUS
  <2>1. /\ Step(h, q) /\ ask[h].question \in Questions /\ ask[h].context \subseteq Policies
    BY <1>3 DEF Invoke, AskOK, At
  <2>2. ASSUME ask'[h] = q PROVE AskOK(h)'
    BY <1>1, <2>1, <2>2 DEF Answering, AskOK, At
  <2> QED
    BY <1>0, <2>1, <2>2, QuestionMoves DEF cacheVars
<1>4. ASSUME AskFails(h)
      PROVE  QaInv'
  <2>1. Step(h, NoAsk)
    BY <1>4 DEF AskFails
  <2>2. ASSUME ask'[h] = NoAsk PROVE AskOK(h)'
    BY <2>2 DEF NoAsk, LookingUp, AskOK, At
  <2> QED
    BY <1>0, <2>1, <2>2, QuestionMoves DEF cacheVars
<1> QED
  BY <1>2, <1>3, <1>4

\* A new entry is in the index, and young.
LEMMA StoreAnswerInv ==
    ASSUME QaInv, NEW h \in Handlers, NEW i \in EntryIds, Store(h, i)
    PROVE  QaInv'
<1> PICK e : e = [question |-> ask[h].question, context |-> ask[h].context,
                  cachedAt |-> ask[h].cachedAt, setAt |-> now]
  OBVIOUS
<1>1. /\ entry' = [entry EXCEPT ![i] = e] /\ index' = index \cup {i} /\ Step(h, NoAsk)
      /\ UNCHANGED <<storeVars, now>> /\ entry[i] = Null /\ At(h, "store")
  BY DEF Store
<1>2. /\ ask[h].question \in Questions /\ ask[h].context \subseteq Policies
      /\ ask[h].cachedAt \in Nat /\ ask[h].cachedAt <= now /\ now \in Nat
      /\ Policies \subseteq Row
  BY <1>1 DEF QaInv, StoreInv, AskOK, At, Policies
<1>3. /\ e.question \in Questions /\ e.context \subseteq Policies
      /\ e.cachedAt \in Nat /\ e.cachedAt <= e.setAt /\ e.setAt = now
  BY <1>2
<1>4. e # Null
  <2>1. e \in Entry
    BY <1>2 DEF Entry
  <2> QED
    BY <2>1, CacheAssumption
<1>5. /\ entry'[i] = e /\ \A j \in EntryIds : j # i => entry'[j] = entry[j]
      /\ entry' = [j \in EntryIds |-> entry'[j]]
  BY <1>1 DEF QaInv
<1>6. Stored' = Stored \cup {i} /\ i \notin Stored /\ Stored \subseteq EntryIds
  BY <1>1, <1>4, <1>5 DEF Stored
<1>7. StoreInv' /\ Policies' = Policies /\ now' = now /\ chunks \subseteq chunks'
  BY <1>1, StoreNextInv DEF QaInv, storeVars, Policies
<1>8. IsFiniteSet(Stored') /\ CacheGrows
  BY <1>2, <1>5, <1>6, <1>7, FS_AddElement DEF QaInv, CacheGrows
<1>9. \A j \in Stored' : EntryOK(j)'
  <2>1. EntryOK(i)'
    BY <1>2, <1>3, <1>5, <1>7 DEF EntryOK
  <2>2. ASSUME NEW j \in Stored PROVE EntryOK(j)'
    BY <1>5, <1>6, <1>7 DEF QaInv, EntryOK
  <2> QED
    BY <1>6, <2>1, <2>2
<1>10. LiveEntriesIndexed'
  <2>1. ASSUME NEW j \in Stored, Live(j)', entry'[j].cachedAt > now' - ttl PROVE j \in index
    BY <1>5, <1>6, <1>7, <2>1 DEF QaInv, LiveEntriesIndexed, Live
  <2> QED
    BY <1>1, <1>6, <2>1 DEF LiveEntriesIndexed
<1>11. ASSUME ask'[h] = NoAsk PROVE AskOK(h)'
  BY <1>11 DEF NoAsk, LookingUp, AskOK, At
<1>12. ask' = [k \in Handlers |-> ask'[k]] /\ \A k \in Handlers : AskOK(k)'
  BY <1>1, <1>8, <1>11, AskMoves
<1> QED
  BY <1>1, <1>2, <1>5, <1>6, <1>7, <1>8, <1>9, <1>10, <1>12 DEF QaInv

\* Every step keeps the invariant.
LEMMA QaNextInv ==
    ASSUME QaInv, [QaNext]_vars
    PROVE  QaInv'
<1>1. ASSUME [StoreNext]_storeVars, UNCHANGED <<cacheVars, ask>>
      PROVE  QaInv'
  <2>1. StoreInv' /\ chunks \subseteq chunks'
    BY <1>1, StoreNextInv DEF QaInv
  <2>2. /\ CacheGrows /\ Stored' = Stored /\ \A i : Live(i)' <=> Live(i)
        /\ \A i \in Stored' : EntryOK(i)'
    BY <1>1, <2>1, EntriesKept DEF cacheVars
  <2>3. LiveEntriesIndexed'
    BY <1>1, <2>2 DEF QaInv, LiveEntriesIndexed, cacheVars
  <2>4. \A h \in Handlers : AskOK(h)'
    BY <1>1, <2>2, AskStable
  <2> QED
    BY <1>1, <2>1, <2>2, <2>3, <2>4 DEF QaInv, cacheVars
<1>2. ASSUME Tick
      PROVE  QaInv'
  <2>1. now' = now + 1 /\ UNCHANGED <<storeVars, index, entry, ask>>
    BY <1>2 DEF Tick
  <2>2. StoreInv' /\ Policies' = Policies /\ chunks \subseteq chunks'
    BY <2>1, StoreNextInv DEF QaInv, storeVars, Policies
  <2>3. Stored' = Stored /\ CacheGrows
    BY <2>1, <2>2 DEF QaInv, Stored, CacheGrows
  <2>4. \A i \in Stored : EntryOK(i)'
    BY <2>1, <2>2 DEF QaInv, EntryOK
  <2>5. LiveEntriesIndexed'
    <3>1. ASSUME NEW i \in Stored, Live(i)', entry'[i].cachedAt > now' - ttl
          PROVE  i \in index'
      <4>1. Live(i)
        BY <2>3, <3>1, DeadStays
      <4>2. /\ entry[i].cachedAt \in Nat /\ now \in Nat /\ ttl \in Nat
            /\ entry'[i] = entry[i] /\ now' = now + 1
        BY <2>1, CacheAssumption DEF QaInv, EntryOK
      <4>3. entry[i].cachedAt > now - ttl
        BY <3>1, <4>2
      <4> QED
        BY <2>1, <4>1, <4>3 DEF QaInv, LiveEntriesIndexed
    <3> QED
      BY <2>3, <3>1 DEF LiveEntriesIndexed
  <2>6. \A h \in Handlers : AskOK(h)'
    BY <2>1, <2>3, AskStable
  <2> QED
    BY <2>1, <2>2, <2>3, <2>4, <2>5, <2>6 DEF QaInv
<1>3. CASE UNCHANGED vars
  BY <1>1, <1>3 DEF vars
<1>4. ASSUME QaNext
      PROVE  QaInv'
  <2>1. ASSUME NEW h \in Handlers,
               \/ \E question \in Questions : StartAsk(h, question)
               \/ EmbedQuery(h) \/ Prune(h) \/ Scan(h) \/ Fetch(h) \/ Heal(h)
        PROVE  QaInv'
    BY <2>1, LookupInv
  <2>2. ASSUME NEW h \in Handlers, Retrieve(h) \/ Invoke(h) \/ AskFails(h)
        PROVE  QaInv'
    BY <2>2, AnswerInv
  <2>3. ASSUME NEW h \in Handlers, NEW i \in EntryIds, Store(h, i)
        PROVE  QaInv'
    BY <2>3, StoreAnswerInv
  <2> QED
    BY <1>1, <1>2, <1>4, <2>1, <2>2, <2>3 DEF QaNext
<1> QED
  BY <1>3, <1>4

-----------------------------------------------------------------------------
(* The theorems *)

\* QaInv is an invariant.
LEMMA QaInvariance == QaSpec => []QaInv
<1>1. QaInv /\ [QaNext]_vars => QaInv'
  BY QaNextInv
<1> QED
  BY QaInitInv, <1>1, PTL DEF QaSpec

\* Whoever was told that a document is ingested finds all of it, and no document
\* has a gap before one of its rows: insertChunks() inserts in order and answers
\* after the last row, and a failure takes nothing back.
THEOREM IngestionsAreWhole == QaSpec => []IngestedWhole
  BY QaInvariance, QaInvImplies, PTL

\* Every answer, in flight or cached, is grounded on stored policy chunks: the
\* search of ask() returns rows of the store, which only grows.
THEOREM AnswersAreGrounded == QaSpec => []AnswersGrounded
  BY QaInvariance, QaInvImplies, PTL

\* Neither the prune nor the self-heal of lookup() drops an answer that is
\* within its ttl from the index: a cutoff only gets older on its way to Redis,
\* and what MGET did not return does not come back.
THEOREM IndexIsComplete == QaSpec => []LiveEntriesIndexed
  BY QaInvariance, QaInvImplies, PTL

\* A hit is similar enough, and no entry the lookup had to consider is more
\* similar: from ZREVRANGE to MGET, what has to be considered only gets less.
THEOREM HitsAreBest == QaSpec => []HitIsBest
  BY QaInvariance, QaInvImplies, PTL

\* The model is called only if no entry the lookup had to consider is similar
\* enough: the best candidate decides for all, because the order of similarities
\* is transitive (cosineSimilarity(), whatever the dimension).
THEOREM MissesAreGenuine == QaSpec => []MissGenuine
  BY QaInvariance, QaInvImplies, PTL

-----------------------------------------------------------------------------
(* Refinement *)

\* What a question in flight is to AnswerCache.
LEMMA ViewFacts ==
    ASSUME NEW question, NEW known, NEW cutoff, NEW ids, NEW best, NEW context, NEW t
    PROVE  /\ View(NoAsk) = Cache!Idle
           /\ View(LookingUp("embed", question, known, cutoff, ids, Null))
                = Cache!Asking("asked", question, known, Null, {}, 0)
           /\ \A pc \in {"prune", "scan", "fetch"} :
                 View(LookingUp(pc, question, known, cutoff, ids, Null))
                   = Cache!Asking("looking", question, known, Null, {}, 0)
           /\ best # Null => \A pc \in {"heal", "hit"} :
                 View(LookingUp(pc, question, known, cutoff, ids, best))
                   = Cache!Asking("hit", question, known, best, {}, 0)
           /\ \A pc \in {"heal", "retrieve"} :
                 View(LookingUp(pc, question, known, cutoff, ids, Null))
                   = Cache!Asking("missed", question, known, Null, {}, 0)
           /\ View(Answering("invoke", question, known, context, t))
                = Cache!Asking("grounded", question, known, Null, context, t)
           /\ View(Answering("store", question, known, context, t))
                = Cache!Asking("answered", question, known, Null, context, t)
  BY DEF View, PhaseOf, NoAsk, LookingUp, Answering, Cache!Asking, Cache!Idle

\* Before its verdict a lookup has no answer, and on the way to it nothing of what
\* ask() keeps after a miss.
Blank(q) ==
    /\ q.pc \in {"prune", "scan", "fetch"} => q.best = Null
    /\ q.pc \in {"prune", "scan", "fetch", "heal"} => q.context = {} /\ q.cachedAt = 0
LookupBlank == \A h \in Handlers : Blank(ask[h])

\* What LookingUp and Answering make is blank where it has to be.
LEMMA MadeBlank ==
    /\ \A pc, question, known, cutoff, ids :
          Blank(LookingUp(pc, question, known, cutoff, ids, Null))
    /\ \A pc \in {"heal", "hit", "retrieve"} : \A question, known, cutoff, ids, best :
          Blank(LookingUp(pc, question, known, cutoff, ids, best))
    /\ \A pc \in {"invoke", "store"} : \A question, known, context, t :
          Blank(Answering(pc, question, known, context, t))
  BY DEF Blank, LookingUp, Answering

\* Every step keeps LookupBlank.
LEMMA BlankStep ==
    ASSUME QaInv, LookupBlank, [QaNext]_vars
    PROVE  LookupBlank'
<1>1. CASE UNCHANGED ask
  BY <1>1 DEF LookupBlank
<1>2. ASSUME NEW h \in Handlers, NEW q, Step(h, q), Blank(q)
      PROVE  LookupBlank'
  BY <1>2 DEF LookupBlank, Step, QaInv
<1>3. ASSUME NEW h \in Handlers, NEW question \in Questions, StartAsk(h, question)
      PROVE  LookupBlank'
  BY <1>2, <1>3, MadeBlank DEF StartAsk
<1>4. ASSUME NEW h \in Handlers, EmbedQuery(h) \/ Prune(h)
      PROVE  LookupBlank'
  BY <1>2, <1>4, MadeBlank DEF EmbedQuery, Prune
<1>5. ASSUME NEW h \in Handlers, Scan(h)
      PROVE  LookupBlank'
  <2>1. PICK pc, ids :
           Step(h, LookingUp(pc, ask[h].question, ask[h].known, 0, ids, Null))
    BY <1>5 DEF Scan
  <2> QED
    BY <1>2, <2>1, MadeBlank
<1>6. ASSUME NEW h \in Handlers, Fetch(h) \/ Heal(h)
      PROVE  LookupBlank'
  <2>1. PICK pc \in {"heal", "hit", "retrieve"} : \E ids, best :
           Step(h, LookingUp(pc, ask[h].question, ask[h].known, 0, ids, best))
    BY <1>6 DEF Fetch, Heal, afterLookup
  <2> QED
    BY <1>2, <2>1, MadeBlank
<1>7. ASSUME NEW h \in Handlers, Retrieve(h) \/ Invoke(h)
      PROVE  LookupBlank'
  <2>1. PICK pc \in {"invoke", "store"} : \E known, context, t :
           Step(h, Answering(pc, ask[h].question, known, context, t))
    BY <1>7 DEF Retrieve, Invoke
  <2> QED
    BY <1>2, <2>1, MadeBlank
<1>8. ASSUME NEW h \in Handlers, AskFails(h) \/ \E i \in EntryIds : Store(h, i)
      PROVE  LookupBlank'
  BY <1>2, <1>8, MadeBlank DEF AskFails, Store, NoAsk
<1> QED
  BY <1>1, <1>3, <1>4, <1>5, <1>6, <1>7, <1>8 DEF QaNext, Tick, vars

\* A step of one question is a step of what AnswerCache sees of it.
LEMMA MoveMaps ==
    ASSUME QaInv, NEW h \in Handlers, NEW q, Step(h, q), UNCHANGED <<now, chunks>>
    PROVE  Cache!Move(h, View(q))
<1> DEFINE asked == [k \in Handlers |-> View(ask[k])]
<1>1. ask'[h] = q /\ \A k \in Handlers : k # h => ask'[k] = ask[k]
  BY DEF QaInv, Step
<1>2. asked' = [asked EXCEPT ![h] = View(q)]
  <2>1. asked' = [k \in Handlers |-> View(ask'[k])]
    OBVIOUS
  <2>2. \A k \in Handlers : View(ask'[k]) = IF k = h THEN View(q) ELSE View(ask[k])
    BY <1>1
  <2> QED
    BY <2>1, <2>2
<1> QED
  BY <1>2 DEF Cache!Move

\* What AnswerCache sees of one question.
LEMMA AskedIs ==
    ASSUME NEW h \in Handlers
    PROVE  LET asked == [k \in Handlers |-> View(ask[k])] IN
           /\ asked[h] = View(ask[h])
           /\ asked[h].phase = PhaseOf(ask[h])
           /\ asked[h].question = ask[h].question /\ asked[h].known = ask[h].known
           /\ asked[h].best = ask[h].best /\ asked[h].context = ask[h].context
           /\ asked[h].cachedAt = ask[h].cachedAt
  BY DEF View

\* The verdict of a lookup is the same before and after the step that gives it.
LEMMA SameVerdict ==
    ASSUME UNCHANGED <<now, entry>>, NEW h \in Handlers,
           ask'[h].known = ask[h].known, ask'[h].question = ask[h].question
    PROVE  /\ NoneAnswers(h)' <=> NoneAnswers(h)
           /\ \A b : AnsweredBy(h, b)' <=> AnsweredBy(h, b)
<1>1. Stored' = Stored
  BY DEF Stored
<1>2. \A i : /\ Similarity(h, i)' = Similarity(h, i)
             /\ isHit(h, i)' <=> isHit(h, i)
  BY DEF Similarity, isHit
<1>3. \A i : Eligible(h, i)' <=> Eligible(h, i)
  BY <1>1 DEF Eligible
<1> QED
  BY <1>1, <1>2, <1>3 DEF NoneAnswers, AnsweredBy

\* The entries to consider are the eligible ones.
LEMMA ConsiderEligible ==
    ASSUME QaInv, NEW h \in Handlers
    PROVE  \A i \in Cache!ToConsider(h) : i \in Stored /\ Eligible(h, i)
<1>1. ask[h].known \subseteq Stored
  BY DEF QaInv, AskOK
<1>2. Cache!Saved = Stored
  BY DEF Cache!Saved, Stored
<1> QED
  BY <1>1, <1>2, AskedIs DEF Cache!ToConsider, Eligible

\* The similarities of AnswerCache are those of lookup().
LEMMA SimilarIs ==
    ASSUME QaInv, NEW h \in Handlers, ~At(h, "idle"), NEW i \in Stored
    PROVE  /\ Cache!Answers(i, h) <=> isHit(h, i)
           /\ \A j \in Stored : Cache!AtLeastAsGood(i, j, h)
                                  <=> AtLeast(Similarity(h, i), Similarity(h, j))
<1>1. /\ ask[h].question \in Questions
      /\ \A j \in Stored : entry[j].question \in Questions
  BY DEF QaInv, AskOK, EntryOK
<1>2. Cache!Answers(i, h) <=> isHit(h, i)
  BY <1>1, AskedIs DEF Cache!Answers, isHit, Similarity
<1>3. ASSUME NEW j \in Stored
      PROVE  Cache!AtLeastAsGood(i, j, h) <=> AtLeast(Similarity(h, i), Similarity(h, j))
  BY <1>1, AskedIs DEF Cache!AtLeastAsGood, Similarity
<1> QED
  BY <1>2, <1>3

\* A lookup that is decided for b, or for nothing, is decided as AnswerCache
\* demands.
LEMMA VerdictMaps ==
    ASSUME QaInv, QaInv', NEW h \in Handlers, ask[h].pc \in {"scan", "fetch"},
           UNCHANGED <<storeVars, cacheVars>>,
           NEW q, Step(h, q), q.known = ask[h].known, q.question = ask[h].question
    PROVE  /\ \A b \in Stored :
                 /\ Live(b) /\ q.best = b /\ q.pc \in {"heal", "hit"}
                 /\ View(q) = Cache!Asking("hit", ask[h].question, ask[h].known, b, {}, 0)
                 => Cache!Hit(h, b)
           /\ /\ q.best = Null /\ q.pc \in {"heal", "retrieve"}
              /\ View(q) = Cache!Asking("missed", ask[h].question, ask[h].known, Null, {}, 0)
              => Cache!Miss(h)
<1>1. ask'[h] = q
  BY DEF QaInv, Step
<1>2. UNCHANGED <<now, entry, chunks>>
  BY DEF cacheVars, storeVars
<1>3. /\ NoneAnswers(h)' <=> NoneAnswers(h)
      /\ \A b : AnsweredBy(h, b)' <=> AnsweredBy(h, b)
  BY <1>1, <1>2, SameVerdict
<1>4. Cache!Move(h, View(q))
  BY <1>2, MoveMaps
<1>5. Cache!In(h, "looking") /\ ~At(h, "idle")
  BY AskedIs DEF Cache!In, PhaseOf, At
<1>6. \A j \in Cache!ToConsider(h) : j \in Stored /\ Eligible(h, j)
  BY ConsiderEligible
<1>7. ASSUME NEW b \in Stored, Live(b), q.best = b, q.pc \in {"heal", "hit"},
             View(q) = Cache!Asking("hit", ask[h].question, ask[h].known, b, {}, 0)
      PROVE  Cache!Hit(h, b)
  <2>1. b # Null
    BY CacheAssumption DEF Stored
  <2>2. AnsweredBy(h, b)
    <3>1. AskOK(h)'
      BY DEF QaInv
    <3>2. AnsweredBy(h, b)'
      BY <1>1, <1>7, <2>1, <3>1 DEF AskOK, At
    <3> QED
      BY <1>3, <3>2
  <2>3. Cache!Answers(b, h) /\ \A j \in Cache!ToConsider(h) : Cache!AtLeastAsGood(b, j, h)
    BY <1>5, <1>6, <2>2, SimilarIs DEF AnsweredBy
  <2>4. b \in Cache!Saved /\ Cache!Fresh(b)
    BY <1>7 DEF Cache!Saved, Cache!Fresh, Stored, Live
  <2>5. UNCHANGED entry /\ Cache!Move(h, Cache!Asking("hit", ask[h].question, ask[h].known, b, {}, 0))
    BY <1>2, <1>4, <1>7
  <2> QED
    BY <1>5, <2>3, <2>4, <2>5, AskedIs DEF Cache!Hit
<1>8. ASSUME q.best = Null, q.pc \in {"heal", "retrieve"},
             View(q) = Cache!Asking("missed", ask[h].question, ask[h].known, Null, {}, 0)
      PROVE  Cache!Miss(h)
  <2>1. NoneAnswers(h)
    <3>1. AskOK(h)'
      BY DEF QaInv
    <3>2. NoneAnswers(h)'
      BY <1>1, <1>8, <3>1 DEF AskOK, At
    <3> QED
      BY <1>3, <3>2
  <2>2. \A j \in Cache!ToConsider(h) : ~Cache!Answers(j, h)
    BY <1>5, <1>6, <2>1, SimilarIs DEF NoneAnswers
  <2>3. UNCHANGED entry /\ Cache!Move(h, Cache!Asking("missed", ask[h].question, ask[h].known, Null, {}, 0))
    BY <1>2, <1>4, <1>8
  <2> QED
    BY <1>5, <2>2, <2>3, AskedIs DEF Cache!Miss
<1> QED
  BY <1>7, <1>8

\* The commands of a lookup: only the last one before the verdict is seen.
LEMMA LookupMaps ==
    ASSUME QaInv, QaInv', LookupBlank, NEW h \in Handlers,
           \/ \E question \in Questions : StartAsk(h, question)
           \/ EmbedQuery(h) \/ Prune(h) \/ Scan(h) \/ Fetch(h) \/ Heal(h)
    PROVE  Cache!Next \/ UNCHANGED Cache!vars
<1> DEFINE same == Cache!Move(h, View(ask[h])) /\ UNCHANGED entry
<1>1. same => UNCHANGED Cache!vars
  BY DEF Cache!Move, Cache!vars
<1>2. ASSUME NEW question \in Questions, StartAsk(h, question)
      PROVE  Cache!Next
  <2>1. Cache!Move(h, Cache!Asking("asked", question, {}, Null, {}, 0)) /\ UNCHANGED entry
    BY <1>2, MoveMaps, ViewFacts DEF StartAsk, cacheVars, storeVars
  <2>2. Cache!In(h, "idle") \/ Cache!In(h, "hit")
    BY <1>2, AskedIs DEF StartAsk, Done, PhaseOf, Cache!In
  <2> QED
    BY <2>1, <2>2 DEF Cache!Ask, Cache!Next
<1>3. ASSUME EmbedQuery(h)
      PROVE  Cache!Next
  <2>1. /\ Cache!Move(h, Cache!Asking("looking", ask[h].question, Stored, Null, {}, 0))
        /\ UNCHANGED entry
    BY <1>3, MoveMaps, ViewFacts DEF EmbedQuery, cacheVars, storeVars
  <2>2. Cache!In(h, "asked") /\ Cache!Saved = Stored
    BY <1>3, AskedIs DEF EmbedQuery, At, PhaseOf, Cache!In, Cache!Saved, Stored
  <2> QED
    BY <2>1, <2>2, AskedIs DEF Cache!Consult, Cache!Next
<1>4. ASSUME Prune(h)
      PROVE  same
  <2>1. View(ask[h]) = Cache!Asking("looking", ask[h].question, ask[h].known, Null, {}, 0)
    BY <1>4 DEF Prune, At, LookupBlank, Blank, View, PhaseOf, Cache!Asking
  <2> QED
    BY <1>4, <2>1, MoveMaps, ViewFacts DEF Prune, storeVars
<1>5. ASSUME Scan(h)
      PROVE  Cache!Next \/ same
  <2>1. PICK ids :
           /\ Step(h, LookingUp(IF ids = {} THEN "retrieve" ELSE "fetch",
                                ask[h].question, ask[h].known, 0, ids, Null))
           /\ At(h, "scan") /\ UNCHANGED <<storeVars, cacheVars>>
    BY <1>5 DEF Scan
  <2>2. CASE ids = {}
    <3> DEFINE q == LookingUp("retrieve", ask[h].question, ask[h].known, 0, ids, Null)
    <3>1. /\ q.pc = "retrieve" /\ q.best = Null
          /\ q.known = ask[h].known /\ q.question = ask[h].question
      BY DEF LookingUp
    <3>2. View(q) = Cache!Asking("missed", ask[h].question, ask[h].known, Null, {}, 0)
      BY ViewFacts
    <3>3. Step(h, q) /\ ask[h].pc \in {"scan", "fetch"}
      BY <2>1, <2>2 DEF At
    <3> HIDE DEF q
    <3>4. Cache!Miss(h)
      BY <2>1, <3>1, <3>2, <3>3, VerdictMaps
    <3> QED
      BY <3>4 DEF Cache!Next
  <2>3. CASE ids # {}
    <3>1. View(ask[h]) = Cache!Asking("looking", ask[h].question, ask[h].known, Null, {}, 0)
      BY <2>1 DEF At, LookupBlank, Blank, View, PhaseOf, Cache!Asking
    <3> QED
      BY <2>1, <2>3, <3>1, MoveMaps, ViewFacts DEF cacheVars, storeVars
  <2> QED
    BY <2>2, <2>3
<1>6. ASSUME Fetch(h)
      PROVE  Cache!Next
  <2> DEFINE found == {i \in ask[h].ids : Live(i)}
  <2>1. PICK T \in Best(h, found) :
           LET best == IF \E i \in T : isHit(h, i) THEN CHOOSE i \in T : TRUE ELSE Null IN
           Step(h, LookingUp(IF ask[h].ids # found THEN "heal" ELSE afterLookup(best),
                             ask[h].question, ask[h].known, 0, ask[h].ids \ found, best))
    BY <1>6 DEF Fetch
  <2>2. T \subseteq found
    BY DEF Best, First
  <2>3. PICK best, pc : /\ pc = IF ask[h].ids # found THEN "heal" ELSE afterLookup(best)
                        /\ best = Null \/ best \in found
                        /\ Step(h, LookingUp(pc, ask[h].question, ask[h].known, 0,
                                             ask[h].ids \ found, best))
    BY <2>1, <2>2
  <2> DEFINE q == LookingUp(pc, ask[h].question, ask[h].known, 0, ask[h].ids \ found, best)
  <2>4. /\ q.pc = pc /\ q.best = best /\ q.known = ask[h].known /\ q.question = ask[h].question
        /\ Step(h, q)
    BY <2>3 DEF LookingUp
  <2>5. ask[h].pc \in {"scan", "fetch"} /\ UNCHANGED <<storeVars, cacheVars>>
    BY <1>6 DEF Fetch, At
  <2>6. CASE best = Null
    <3>1. pc \in {"heal", "retrieve"}
      BY <2>3, <2>6 DEF afterLookup
    <3>2. View(q) = Cache!Asking("missed", ask[h].question, ask[h].known, Null, {}, 0)
      BY <2>6, <3>1, ViewFacts
    <3> HIDE DEF q
    <3>3. Cache!Miss(h)
      BY <2>4, <2>5, <2>6, <3>1, <3>2, VerdictMaps
    <3> QED
      BY <3>3 DEF Cache!Next
  <2>7. CASE best # Null
    <3>1. pc \in {"heal", "hit"}
      BY <2>3, <2>7 DEF afterLookup
    <3>2. best \in Stored /\ Live(best) /\ best \in EntryIds
      BY <2>3, <2>7 DEF QaInv, AskOK, Stored
    <3>3. View(q) = Cache!Asking("hit", ask[h].question, ask[h].known, best, {}, 0)
      BY <2>7, <3>1, ViewFacts
    <3> HIDE DEF q
    <3>4. Cache!Hit(h, best)
      BY <2>4, <2>5, <3>1, <3>2, <3>3, VerdictMaps
    <3> QED
      BY <3>2, <3>4 DEF Cache!Next
  <2> QED
    BY <2>6, <2>7
<1>7. ASSUME Heal(h)
      PROVE  same
  <2>1. PICK best : best = ask[h].best
    OBVIOUS
  <2>2. /\ ask[h].pc = "heal" /\ ask[h].context = {} /\ ask[h].cachedAt = 0
        /\ Step(h, LookingUp(afterLookup(best), ask[h].question, ask[h].known, 0, {}, best))
        /\ UNCHANGED <<storeVars, now, entry>>
    BY <1>7, <2>1 DEF Heal, At, LookupBlank, Blank
  <2>3. View(LookingUp(afterLookup(best), ask[h].question, ask[h].known, 0, {}, best))
          = View(ask[h])
    BY <2>1, <2>2 DEF View, PhaseOf, LookingUp, afterLookup
  <2> QED
    BY <2>2, <2>3, MoveMaps DEF storeVars
<1> HIDE DEF same
<1> QED
  BY <1>1, <1>2, <1>3, <1>4, <1>5, <1>6, <1>7

\* After a miss, and when a question is given up.
LEMMA AnswerMaps ==
    ASSUME QaInv, NEW h \in Handlers,
           \/ Retrieve(h) \/ Invoke(h) \/ AskFails(h)
           \/ \E i \in EntryIds : Store(h, i)
    PROVE  Cache!Next
<1>1. ASSUME Retrieve(h)
      PROVE  Cache!Next
  <2>1. PICK context \in similaritySearch(ask[h].question, RETRIEVAL_TOP_K, "policy:") :
           /\ Step(h, Answering("invoke", ask[h].question, ask[h].known, context, 0))
           /\ At(h, "retrieve") /\ UNCHANGED <<storeVars, cacheVars>>
    BY <1>1 DEF Retrieve
  <2>2. context \in SUBSET {c \in chunks : c.source = "policy:"}
    BY DEF similaritySearch, First
  <2>3. /\ Cache!Move(h, Cache!Asking("grounded", ask[h].question, ask[h].known, Null, context, 0))
        /\ UNCHANGED entry
    BY <2>1, MoveMaps, ViewFacts DEF cacheVars, storeVars
  <2>4. Cache!In(h, "missed")
    BY <2>1, AskedIs DEF At, PhaseOf, Cache!In
  <2>5. Cache!Ground(h, context)
    BY <2>3, <2>4, AskedIs DEF Cache!Ground
  <2> QED
    BY <2>2, <2>5 DEF Cache!Next
<1>2. ASSUME Invoke(h)
      PROVE  Cache!Next
  <2>1. /\ Cache!Move(h, Cache!Asking("answered", ask[h].question, {}, Null, ask[h].context, now))
        /\ UNCHANGED entry
    BY <1>2, MoveMaps, ViewFacts DEF Invoke, cacheVars, storeVars
  <2>2. Cache!In(h, "grounded")
    BY <1>2, AskedIs DEF Invoke, At, PhaseOf, Cache!In
  <2> QED
    BY <2>1, <2>2, AskedIs DEF Cache!Answer, Cache!Next
<1>3. ASSUME AskFails(h)
      PROVE  Cache!Next
  <2>1. Cache!Move(h, Cache!Idle) /\ UNCHANGED entry
    BY <1>3, MoveMaps, ViewFacts DEF AskFails, cacheVars, storeVars
  <2> QED
    BY <2>1 DEF Cache!GiveUp, Cache!Next
<1>4. ASSUME NEW i \in EntryIds, Store(h, i)
      PROVE  Cache!Next
  <2>1. Cache!Move(h, Cache!Idle)
    BY <1>4, MoveMaps, ViewFacts DEF Store, storeVars
  <2>2. Cache!In(h, "answered")
    BY <1>4, AskedIs DEF Store, At, PhaseOf, Cache!In
  <2>3. Cache!Save(h, i)
    BY <1>4, <2>1, <2>2, AskedIs DEF Store, Cache!Save
  <2> QED
    BY <2>3 DEF Cache!Next
<1> QED
  BY <1>1, <1>2, <1>3, <1>4

\* Every step of PolicyQa is one of AnswerCache, or is not seen there.
LEMMA CacheStep ==
    ASSUME QaInv, LookupBlank, [QaNext]_vars
    PROVE  [Cache!Next]_Cache!vars
<1>1. QaInv'
  BY QaNextInv
<1>2. ASSUME NEW h \in Handlers,
             \/ \E question \in Questions : StartAsk(h, question)
             \/ EmbedQuery(h) \/ Prune(h) \/ Scan(h) \/ Fetch(h) \/ Heal(h)
      PROVE  [Cache!Next]_Cache!vars
  BY <1>1, <1>2, LookupMaps
<1>3. ASSUME NEW h \in Handlers,
             \/ Retrieve(h) \/ Invoke(h) \/ AskFails(h)
             \/ \E i \in EntryIds : Store(h, i)
      PROVE  [Cache!Next]_Cache!vars
  BY <1>3, AnswerMaps
<1>4. UNCHANGED ask => UNCHANGED [h \in Handlers |-> View(ask[h])]
  OBVIOUS
<1>5. ASSUME StoreNext, UNCHANGED <<cacheVars, ask>>
      PROVE  Cache!Next
  <2>1. chunks \subseteq chunks'
    BY <1>5, StoreNextInv DEF QaInv
  <2> QED
    BY <1>4, <1>5, <2>1 DEF Cache!Next, Cache!Add, cacheVars
<1>6. ASSUME Tick
      PROVE  Cache!Next
  BY <1>4, <1>6 DEF Tick, storeVars, Cache!Next, Cache!Pass
<1>7. CASE UNCHANGED vars
  BY <1>4, <1>7 DEF vars, storeVars, cacheVars, Cache!vars
<1> QED
  BY <1>2, <1>3, <1>5, <1>6, <1>7 DEF QaNext

\* lookup() is several commands of Redis with other questions between them, and
\* ask() several awaits; still, which cached answer a question gets, if any, is
\* decided at one moment, when that answer is fresh and the best of those to be
\* considered: PolicyQa implements AnswerCache.
THEOREM LookupIsAtomic == QaSpec => ImplementsCache
<1>1. QaInit => Cache!Init /\ LookupBlank
  <2> SUFFICES ASSUME QaInit PROVE Cache!Init /\ LookupBlank
    OBVIOUS
  <2>1. /\ now = 0 /\ chunks = {} /\ entry = [i \in EntryIds |-> Null]
        /\ ask = [h \in Handlers |-> NoAsk]
    BY DEF QaInit, StoreInit
  <2>2. [h \in Handlers |-> View(ask[h])] = [h \in Handlers |-> Cache!Idle]
    BY <2>1, ViewFacts
  <2>3. LookupBlank
    BY <2>1, MadeBlank DEF LookupBlank, NoAsk
  <2> QED
    BY <2>1, <2>2, <2>3 DEF Cache!Init
<1> QED
  BY <1>1, QaInvariance, BlankStep, CacheStep, PTL DEF QaSpec, ImplementsCache, Cache!Spec

===============================================================================
