-------------------------- MODULE Bm25CorpusProofs --------------------------
(***************************************************************************)
(* Proofs about Bm25Corpus, for any documents, terms, cap and number of    *)
(* goroutines: the counters are those of the documents, and every vector   *)
(* is of the corpus as it was when its Embed held the mutex.  The sort of  *)
(* the terms is characterised first: it exists, and a term stands where    *)
(* the number of terms before it says.                                     *)
(***************************************************************************)
EXTENDS Bm25Corpus, FiniteSetTheorems, SequenceTheorems, TLAPS

\* The order of buildVocab, over any counters.
Earlier(w, t, u) == w[t] < w[u] \/ (w[t] = w[u] /\ t < u)
Prior(S, w, t) == { u \in S : Earlier(w, u, t) }
Place(S, w, t) == 1 + Cardinality(Prior(S, w, t))
Weighed(S, w) == S \subseteq Nat /\ IsFiniteSet(S) /\ \A t \in S : w[t] \in Nat
InOrder(s, S, w) ==
  /\ s \in [1 .. Cardinality(S) -> S]
  /\ \A i, j \in 1 .. Cardinality(S) : i < j => Earlier(w, s[i], s[j])

LEMMA TotalOrder ==
  ASSUME NEW S, NEW w, Weighed(S, w), NEW t \in S, NEW u \in S
  PROVE  /\ t # u => Earlier(w, t, u) \/ Earlier(w, u, t)
         /\ ~ (Earlier(w, t, u) /\ Earlier(w, u, t))
         /\ ~ Earlier(w, t, t)
         /\ \A v \in S : Earlier(w, v, t) /\ Earlier(w, t, u) => Earlier(w, v, u)
  BY DEF Weighed, Earlier

LEMMA PlaceRises ==
  ASSUME NEW S, NEW w, Weighed(S, w), NEW t \in S, NEW u \in S
  PROVE  /\ Cardinality(S) \in Nat
         /\ Place(S, w, t) \in 1 .. Cardinality(S)
         /\ Earlier(w, t, u) => Place(S, w, t) < Place(S, w, u)
         /\ Place(S, w, t) = Place(S, w, u) => t = u
<1>1. IsFiniteSet(S) /\ Cardinality(S) \in Nat
  BY FS_CardinalityType DEF Weighed
<1>2. ASSUME NEW v \in S
      PROVE  /\ IsFiniteSet(Prior(S, w, v)) /\ Cardinality(Prior(S, w, v)) \in Nat
             /\ Cardinality(Prior(S, w, v)) < Cardinality(S)
  <2>1. Prior(S, w, v) \in SUBSET (S \ {v})
    BY TotalOrder DEF Prior
  <2>2. IsFiniteSet(S \ {v}) /\ Cardinality(S \ {v}) = Cardinality(S) - 1
    BY <1>1, FS_RemoveElement
  <2> QED
    BY <1>1, <2>1, <2>2, FS_Subset, FS_CardinalityType
<1>3. ASSUME NEW v \in S, NEW x \in S, Earlier(w, v, x)
      PROVE  Place(S, w, v) < Place(S, w, x)
  <2>1. Prior(S, w, v) \cup {v} \in SUBSET Prior(S, w, x)
    BY <1>3, TotalOrder DEF Prior
  <2>2. v \notin Prior(S, w, v)
    BY TotalOrder DEF Prior
  <2>3. /\ IsFiniteSet(Prior(S, w, v) \cup {v})
        /\ Cardinality(Prior(S, w, v) \cup {v}) = Cardinality(Prior(S, w, v)) + 1
    BY <1>2, <2>2, FS_AddElement
  <2>4. Cardinality(Prior(S, w, v) \cup {v}) <= Cardinality(Prior(S, w, x))
    BY <1>2, <2>1, FS_Subset
  <2> QED
    BY <1>2, <2>3, <2>4 DEF Place
<1>4. Place(S, w, t) \in 1 .. Cardinality(S)
  BY <1>1, <1>2 DEF Place
<1>5. Place(S, w, t) = Place(S, w, u) => t = u
  <2> SUFFICES ASSUME Place(S, w, t) = Place(S, w, u), t # u PROVE FALSE
    OBVIOUS
  <2>1. Place(S, w, t) < Place(S, w, u) \/ Place(S, w, u) < Place(S, w, t)
    BY <1>3, TotalOrder
  <2> QED
    BY <1>4, <2>1
<1> QED
  BY <1>1, <1>3, <1>4, <1>5

\* The terms can be sorted: each goes to its place.
LEMMA SortExists ==
  ASSUME NEW S, NEW w, Weighed(S, w)
  PROVE  \E s : InOrder(s, S, w)
<1> DEFINE n == Cardinality(S)
           f == [t \in S |-> Place(S, w, t)]
<1>1. IsFiniteSet(S) /\ n \in Nat
  BY FS_CardinalityType DEF Weighed
<1>2. f \in Injection(S, 1 .. n)
  BY PlaceRises DEF Injection, IsInjective
<1>3. IsFiniteSet(1 .. n) /\ Cardinality(1 .. n) = n
  BY <1>1, FS_Interval
<1>4. f \in Surjection(S, 1 .. n)
  <2> HIDE DEF f, n
  <2> QED
    BY <1>2, <1>3, FS_Injection DEF n
<1>5. \A i \in 1 .. n : \E t \in S : Place(S, w, t) = i
  BY <1>4 DEF Surjection
<1> DEFINE s == [i \in 1 .. n |-> CHOOSE t \in S : Place(S, w, t) = i]
<1>6. \A i \in 1 .. n : s[i] \in S /\ Place(S, w, s[i]) = i
  BY <1>5
<1>7. s \in [1 .. n -> S]
  BY <1>6
<1> HIDE DEF s, f
<1>8. ASSUME NEW i \in 1 .. n, NEW j \in 1 .. n, i < j
      PROVE  Earlier(w, s[i], s[j])
  <2>1. s[i] \in S /\ s[j] \in S /\ Place(S, w, s[i]) = i /\ Place(S, w, s[j]) = j
    BY <1>6
  <2>2. s[i] # s[j]
    BY <1>1, <1>8, <2>1
  <2>3. ~ Earlier(w, s[j], s[i])
    BY <1>1, <1>8, <2>1, PlaceRises
  <2> QED
    BY <2>1, <2>2, <2>3, TotalOrder
<1> QED
  BY <1>7, <1>8 DEF InOrder

\* Once sorted, each is at its place.
LEMMA SortedAtPlace ==
  ASSUME NEW S, NEW w, Weighed(S, w), NEW s, InOrder(s, S, w)
  PROVE  /\ Cardinality(S) \in Nat
         /\ \A i \in 1 .. Cardinality(S) : s[i] \in S /\ Place(S, w, s[i]) = i
         /\ \A t \in S : Place(S, w, t) \in 1 .. Cardinality(S) /\ s[Place(S, w, t)] = t
<1> DEFINE n == Cardinality(S)
<1>1. IsFiniteSet(S) /\ n \in Nat /\ s \in [1 .. n -> S]
  BY FS_CardinalityType DEF Weighed, InOrder
<1>2. ASSUME NEW i \in 1 .. n, NEW j \in 1 .. n, i < j
      PROVE  Earlier(w, s[i], s[j]) /\ s[i] # s[j]
  BY <1>1, <1>2, TotalOrder DEF InOrder
<1>3. \A i, j \in 1 .. n : s[i] = s[j] => i = j
  <2> SUFFICES ASSUME NEW i \in 1 .. n, NEW j \in 1 .. n, s[i] = s[j], i # j PROVE FALSE
    OBVIOUS
  <2>1. i < j \/ j < i
    BY <1>1
  <2> QED
    BY <1>2, <2>1
<1>4. \A t \in S : \E i \in 1 .. n : s[i] = t
  <2>1. s \in Injection(1 .. n, S)
    BY <1>1, <1>3 DEF Injection, IsInjective
  <2>2. Cardinality(1 .. n) = n
    BY <1>1, FS_Interval
  <2>3. s \in Surjection(1 .. n, S)
    <3> HIDE DEF n
    <3> QED
      BY <1>1, <2>1, <2>2, FS_Injection DEF n
  <2> QED
    BY <2>3 DEF Surjection
<1>5. ASSUME NEW i \in 1 .. n
      PROVE  s[i] \in S /\ Place(S, w, s[i]) = i
  <2> DEFINE P == Prior(S, w, s[i])
             g == [j \in 1 .. i - 1 |-> s[j]]
  <2>1. \A j \in 1 .. i - 1 : j \in 1 .. n /\ s[j] \in P
    BY <1>1, <1>2 DEF Prior
  <2>2. ASSUME NEW u \in P PROVE \E j \in 1 .. i - 1 : g[j] = u
    <3>1. u \in S /\ Earlier(w, u, s[i]) /\ s[i] \in S
      BY <1>1 DEF Prior
    <3>2. PICK j \in 1 .. n : s[j] = u
      BY <1>4, <3>1
    <3>3. j < i
      <4>1. CASE j = i
        BY <3>1, <3>2, <4>1, TotalOrder
      <4>2. CASE i < j
        BY <1>2, <3>1, <3>2, <4>2, TotalOrder
      <4> QED
        BY <1>1, <4>1, <4>2
    <3> QED
      BY <1>1, <3>2, <3>3
  <2>3. g \in [1 .. i - 1 -> P] /\ \A j, k \in 1 .. i - 1 : g[j] = g[k] => j = k
    BY <1>3, <2>1
  <2> HIDE DEF g, P
  <2>4. g \in Injection(1 .. i - 1, P) /\ g \in Surjection(1 .. i - 1, P)
    BY <2>2, <2>3 DEF Injection, IsInjective, Surjection
  <2>5. ExistsBijection(1 .. i - 1, P)
    BY <2>4 DEF ExistsBijection, Bijection
  <2>6. Cardinality(P) = i - 1
    <3>1. i - 1 \in Nat
      BY <1>1
    <3> QED
      BY <2>5, <3>1, FS_CountingElements
  <2> QED
    BY <1>1, <2>6 DEF Place, P
<1> QED
  BY <1>1, <1>4, <1>5
-----------------------------------------------------------------------------
\* What buildVocab sorts, and what it makes of it.
TermsInUse == { t \in DOMAIN df : df[t] > 0 }

LEMMA VocabBuilt ==
  ASSUME Weighed(TermsInUse, df)
  PROVE  BuiltVocab = [ t \in { u \in TermsInUse : Place(TermsInUse, df, u) <= MaxDims } |->
                          Place(TermsInUse, df, t) ]
<1> DEFINE S == TermsInUse
           n == Cardinality(S)
           s == SortedTerms
           m == IF Len(s) > MaxDims THEN MaxDims ELSE Len(s)
           kept == SubSeq(s, 1, m)
<1>1. InOrder(s, S, df)
  <2>1. \E r \in [1 .. n -> S] : \A i, j \in DOMAIN r : i < j => Before(r[i], r[j])
    <3>1. PICK r : InOrder(r, S, df)
      BY SortExists
    <3> QED
      BY <3>1 DEF InOrder, Before, Earlier
  <2>2. s \in [1 .. n -> S] /\ \A i, j \in DOMAIN s : i < j => Before(s[i], s[j])
    BY <2>1 DEF SortedTerms, TermsInUse
  <2> QED
    BY <2>2 DEF InOrder, Before, Earlier
<1> HIDE DEF s
<1>2. /\ n \in Nat
      /\ \A i \in 1 .. n : s[i] \in S /\ Place(S, df, s[i]) = i
      /\ \A t \in S : Place(S, df, t) \in 1 .. n /\ s[Place(S, df, t)] = t
  BY <1>1, SortedAtPlace
<1> HIDE DEF S
<1>3. Len(s) = n /\ MaxDims \in Nat
  BY <1>1, <1>2, CorpusAssumption DEF InOrder
<1>4. m \in Nat /\ m <= n /\ \A i \in 1 .. n : i <= m <=> i <= MaxDims
  BY <1>2, <1>3
<1> HIDE DEF n, m
<1>5. Len(kept) = m /\ DOMAIN kept = 1 .. m /\ \A i \in 1 .. m : kept[i] = s[i]
  <2>1. \A i \in 1 .. m : s[i] \in S
    BY <1>2, <1>4
  <2>2. kept \in Seq(S) /\ Len(kept) = m /\ \A i \in 1 .. m : kept[i] = s[i]
    BY <1>4, <2>1, SubSeqProperties
  <2> QED
    BY <2>2, LenProperties
<1> HIDE DEF kept
<1>6. \A t : t \in ToSet(kept) <=> t \in S /\ Place(S, df, t) <= MaxDims
  BY <1>2, <1>4, <1>5 DEF ToSet
<1>7. ASSUME NEW t \in ToSet(kept)
      PROVE  (CHOOSE i \in DOMAIN kept : kept[i] = t) = Place(S, df, t)
  <2>1. /\ Place(S, df, t) \in DOMAIN kept /\ kept[Place(S, df, t)] = t
        /\ \A i \in DOMAIN kept : kept[i] = t => i = Place(S, df, t)
    BY <1>2, <1>4, <1>5, <1>6
  <2> QED
    BY <2>1
<1>8. BuiltVocab = [ t \in ToSet(kept) |-> CHOOSE i \in DOMAIN kept : kept[i] = t ]
  BY DEF BuiltVocab, kept, m, s
<1>9. ToSet(kept) = { u \in S : Place(S, df, u) <= MaxDims }
  BY <1>6
<1> QED
  BY <1>7, <1>8, <1>9 DEF S
-----------------------------------------------------------------------------
\* A corpus, and counters that are its own.
Corpus(c) ==
  /\ IsFiniteSet(DOMAIN c) /\ \A d \in DOMAIN c : c[d] \in Seq(Terms)
  /\ IsFiniteSet(CorpusTerms(c)) /\ IsFiniteSet(Tokens(c))
Counts(f, c) ==
  /\ DOMAIN f = CorpusTerms(c)
  /\ \A t \in DOMAIN f : f[t] = Cardinality(Holding(c, t))

LEMMA TermsOfText ==
  ASSUME NEW text \in Seq(Terms)
  PROVE  /\ TermsOf(text) \subseteq Terms /\ IsFiniteSet(TermsOf(text))
         /\ Len(text) \in Nat /\ DOMAIN text = 1 .. Len(text)
         /\ \A t : (Occurrences(t, text) > 0 <=> t \in TermsOf(text))
<1>1. Len(text) \in Nat /\ DOMAIN text = 1 .. Len(text)
  BY LenProperties
<1>2. TermsOf(text) \subseteq Terms
  BY <1>1, ElementOfSeq DEF TermsOf, ToSet
<1>3. IsFiniteSet(DOMAIN text)
  <2> DEFINE l == Len(text)
  <2>1. l \in Nat
    BY <1>1
  <2> HIDE DEF l
  <2>2. IsFiniteSet(1 .. l)
    BY <2>1, FS_Interval
  <2> QED
    BY <1>1, <2>2 DEF l
<1>4. IsFiniteSet(TermsOf(text))
  <2> DEFINE g == [i \in DOMAIN text |-> text[i]]
  <2>1. g \in Surjection(DOMAIN text, TermsOf(text))
    BY DEF Surjection, TermsOf, ToSet
  <2> HIDE DEF g
  <2> QED
    BY <1>3, <2>1, FS_Surjection
<1>5. ASSUME NEW t
      PROVE  Occurrences(t, text) > 0 <=> t \in TermsOf(text)
  <2> DEFINE At == { i \in DOMAIN text : text[i] = t }
  <2>1. IsFiniteSet(At)
    BY <1>3, FS_Subset
  <2>2. At # {} <=> t \in TermsOf(text)
    BY DEF TermsOf, ToSet
  <2> HIDE DEF At
  <2>3. Cardinality(At) \in Nat /\ (Cardinality(At) = 0 <=> At = {})
    BY <2>1, FS_CardinalityType, FS_EmptySet
  <2>4. Cardinality(At) > 0 <=> t \in TermsOf(text)
    BY <2>2, <2>3
  <2> QED
    BY <2>4 DEF At, Occurrences
<1> QED
  BY <1>1, <1>2, <1>4, <1>5

LEMMA HoldingFinite ==
  ASSUME NEW c, Corpus(c), NEW t
  PROVE  /\ Holding(c, t) \subseteq DOMAIN c /\ IsFiniteSet(Holding(c, t))
         /\ Cardinality(Holding(c, t)) \in Nat
         /\ Cardinality(Holding(c, t)) = 0 <=> t \notin CorpusTerms(c)
<1>1. Holding(c, t) \in SUBSET DOMAIN c
  BY DEF Holding
<1>2. IsFiniteSet(Holding(c, t)) /\ Cardinality(Holding(c, t)) \in Nat
  BY <1>1, FS_Subset, FS_CardinalityType DEF Corpus
<1>3. Holding(c, t) = {} <=> t \notin CorpusTerms(c)
  BY DEF Holding, CorpusTerms
<1>4. Cardinality(Holding(c, t)) = 0 <=> Holding(c, t) = {}
  BY <1>2, FS_EmptySet
<1> QED
  BY <1>1, <1>2, <1>3, <1>4

\* A document takes the place of another, or of none.
Replaced(c, id, text) ==
  [ d \in DOMAIN c \cup {id} |-> IF d = id THEN text ELSE c[d] ]
TextIn(c, id) == IF id \in DOMAIN c THEN c[id] ELSE << >>

LEMMA HoldingReplaced ==
  ASSUME NEW c, Corpus(c), NEW id, NEW text \in Seq(Terms), NEW t
  PROVE  LET left == Cardinality(Holding(c, t)) -
                       (IF t \in TermsOf(TextIn(c, id)) THEN 1 ELSE 0)
         IN /\ left \in Nat
            /\ Cardinality(Holding(Replaced(c, id, text), t)) =
                 left + (IF t \in TermsOf(text) THEN 1 ELSE 0)
<1> DEFINE H == Holding(c, t)
           rest == H \ {id}
           R == Holding(Replaced(c, id, text), t)
<1>1. IsFiniteSet(H) /\ Cardinality(H) \in Nat
  BY HoldingFinite
<1>2. id \in H <=> t \in TermsOf(TextIn(c, id))
  <2>1. t \notin TermsOf(<< >>)
    BY DEF TermsOf, ToSet
  <2> QED
    BY <2>1 DEF Holding, TextIn
<1>3. R = IF t \in TermsOf(text) THEN rest \cup {id} ELSE rest
  BY DEF Holding, Replaced
<1> HIDE DEF H, R
<1>4. /\ IsFiniteSet(rest) /\ Cardinality(rest) \in Nat
      /\ Cardinality(rest) = IF id \in H THEN Cardinality(H) - 1 ELSE Cardinality(H)
  BY <1>1, FS_RemoveElement, FS_CardinalityType
<1>5. Cardinality(rest \cup {id}) = Cardinality(rest) + 1
  BY <1>4, FS_AddElement
<1> HIDE DEF rest
<1>6. /\ Cardinality(H) - (IF t \in TermsOf(TextIn(c, id)) THEN 1 ELSE 0) = Cardinality(rest)
      /\ Cardinality(R) = Cardinality(rest) + (IF t \in TermsOf(text) THEN 1 ELSE 0)
  BY <1>1, <1>2, <1>3, <1>4, <1>5
<1> QED
  BY <1>4, <1>6 DEF H, R

\* A corpus stays one, and as long as its documents are.
LEMMA ReplacedCorpus ==
  ASSUME NEW c, Corpus(c), NEW id, NEW text \in Seq(Terms)
  PROVE  /\ Corpus(Replaced(c, id, text))
         /\ Cardinality(Tokens(Replaced(c, id, text))) =
              (Cardinality(Tokens(c)) - Len(TextIn(c, id))) + Len(text)
<1> DEFINE c2 == Replaced(c, id, text)
           old == TextIn(c, id)
           Old == {id} \X DOMAIN old
           New == {id} \X DOMAIN text
<1>1. DOMAIN c2 = DOMAIN c \cup {id} /\ IsFiniteSet(DOMAIN c2)
  BY FS_AddElement DEF Corpus, Replaced
<1>2. \A d \in DOMAIN c2 : c2[d] \in Seq(Terms)
  BY DEF Corpus, Replaced
<1>3. old \in Seq(Terms)
  BY DEF Corpus, TextIn
<1>4. ASSUME NEW s \in Seq(Terms)
      PROVE  IsFiniteSet({id} \X DOMAIN s) /\ Cardinality({id} \X DOMAIN s) = Len(s)
             /\ Len(s) \in Nat
  <2> DEFINE l == Len(s)
  <2>1. l \in Nat /\ DOMAIN s = 1 .. l
    BY LenProperties
  <2> HIDE DEF l
  <2>2. IsFiniteSet(1 .. l) /\ Cardinality(1 .. l) = l
    BY <2>1, FS_Interval
  <2>3. IsFiniteSet({id}) /\ Cardinality({id}) = 1
    BY FS_Singleton
  <2>4. IsFiniteSet({id} \X (1 .. l)) /\ Cardinality({id} \X (1 .. l)) = l
    BY <2>1, <2>2, <2>3, FS_Product
  <2> QED
    BY <2>1, <2>4 DEF l
<1>5. IsFiniteSet(CorpusTerms(c2))
  <2>1. CorpusTerms(c2) \in SUBSET (CorpusTerms(c) \cup TermsOf(text))
    BY <1>1 DEF CorpusTerms, Replaced
  <2>2. IsFiniteSet(CorpusTerms(c) \cup TermsOf(text))
    BY TermsOfText, FS_Union DEF Corpus
  <2> QED
    BY <2>1, <2>2, FS_Subset
<1>6. Tokens(c2) = (Tokens(c) \ Old) \cup New
  <2>1. \A d \in DOMAIN c2 : c2[d] = IF d = id THEN text ELSE c[d]
    BY DEF Replaced
  <2>2. \A d, i : << d, i >> \in Tokens(c) <=> d \in DOMAIN c /\ i \in DOMAIN c[d]
    BY DEF Tokens
  <2>3. \A d, i : << d, i >> \in Tokens(c2) <=> d \in DOMAIN c2 /\ i \in DOMAIN c2[d]
    BY DEF Tokens
  <2>4. \A d, i : << d, i >> \in Old <=> d = id /\ id \in DOMAIN c /\ i \in DOMAIN c[id]
    BY DEF TextIn
  <2>5. \A d, i : << d, i >> \in New <=> d = id /\ i \in DOMAIN text
    OBVIOUS
  <2>6. \A x \in Tokens(c2) \cup Tokens(c) \cup New : \E d, i : x = << d, i >>
    BY DEF Tokens
  <2> HIDE DEF c2, Old, New
  <2>7. \A d, i : << d, i >> \in Tokens(c2) <=> << d, i >> \in (Tokens(c) \ Old) \cup New
    BY <1>1, <2>1, <2>2, <2>3, <2>4, <2>5
  <2> QED
    BY <2>6, <2>7
<1>7. Old \subseteq Tokens(c) /\ (Tokens(c) \ Old) \cap New = {}
  <2>1. Old \subseteq Tokens(c)
    BY DEF TextIn, Tokens
  <2>2. ASSUME NEW x \in Tokens(c), x \in New PROVE x \in Old
    BY <2>2 DEF TextIn, Tokens
  <2> QED
    BY <2>1, <2>2
<1> HIDE DEF c2, old, Old, New
<1>8. /\ IsFiniteSet(Old) /\ Cardinality(Old) = Len(old) /\ Len(old) \in Nat
      /\ IsFiniteSet(New) /\ Cardinality(New) = Len(text) /\ Len(text) \in Nat
  BY <1>3, <1>4 DEF Old, New
<1>9. IsFiniteSet(Tokens(c)) /\ Cardinality(Tokens(c)) \in Nat
  BY FS_CardinalityType DEF Corpus
<1>10. /\ IsFiniteSet(Tokens(c) \ Old) /\ Cardinality(Tokens(c) \ Old) \in Nat
       /\ Cardinality(Tokens(c) \ Old) = Cardinality(Tokens(c)) - Len(old)
  <2>1. Tokens(c) \cap Old = Old
    BY <1>7
  <2>2. /\ IsFiniteSet(Tokens(c) \ Old)
        /\ Cardinality(Tokens(c) \ Old) = Cardinality(Tokens(c)) - Cardinality(Tokens(c) \cap Old)
    BY <1>9, FS_Difference
  <2>3. Cardinality(Tokens(c) \ Old) \in Nat
    BY <2>2, FS_CardinalityType
  <2> QED
    BY <1>8, <1>9, <2>1, <2>2, <2>3
<1>11. /\ IsFiniteSet(Tokens(c2))
       /\ Cardinality(Tokens(c2)) = Cardinality(Tokens(c) \ Old) + Len(text)
  <2>1. Cardinality((Tokens(c) \ Old) \cap New) = 0
    BY <1>7, FS_EmptySet
  <2> DEFINE rest == Tokens(c) \ Old
  <2>2. IsFiniteSet(rest) /\ Cardinality(rest) \in Nat
    BY <1>10
  <2> HIDE DEF rest
  <2>3. /\ IsFiniteSet(rest \cup New)
        /\ Cardinality(rest \cup New)
             = Cardinality(rest) + Cardinality(New) - Cardinality(rest \cap New)
    BY <1>8, <2>2, FS_Union
  <2>4. Cardinality(rest \cup New) = Cardinality(rest) + Len(text)
    BY <1>8, <2>1, <2>2, <2>3 DEF rest
  <2> QED
    BY <1>6, <2>3, <2>4 DEF rest
<1> QED
  BY <1>1, <1>2, <1>5, <1>10, <1>11 DEF c2, old, Corpus

\* The counters follow.
LEMMA CountsFollow ==
  ASSUME NEW c, Corpus(c), NEW id, NEW text \in Seq(Terms), NEW f, Counts(f, c)
  PROVE  Counts(Counted(Discounted(f, TextIn(c, id)), text), Replaced(c, id, text))
<1> DEFINE c2 == Replaced(c, id, text)
           old == TextIn(c, id)
           f1 == Discounted(f, old)
           f2 == Counted(f1, text)
           h(t) == Cardinality(Holding(c, t))
           h2(t) == Cardinality(Holding(c2, t))
           left(t) == h(t) - (IF t \in TermsOf(old) THEN 1 ELSE 0)
<1>1. Corpus(c2)
  BY ReplacedCorpus
<1>2. ASSUME NEW t
      PROVE  /\ left(t) \in Nat /\ h(t) \in Nat
             /\ h2(t) = left(t) + (IF t \in TermsOf(text) THEN 1 ELSE 0)
             /\ h(t) = 0 <=> t \notin CorpusTerms(c)
             /\ h2(t) = 0 <=> t \notin CorpusTerms(c2)
  BY <1>1, HoldingReplaced, HoldingFinite
<1>3. DOMAIN f = CorpusTerms(c) /\ \A t \in DOMAIN f : f[t] = h(t)
  BY DEF Counts
<1> HIDE DEF c2, old, h, h2
<1>4. ASSUME NEW t
      PROVE  /\ t \in DOMAIN f1 <=> left(t) # 0
             /\ t \in DOMAIN f1 => f1[t] = left(t)
  <2>1. DOMAIN f1 = DOMAIN f \ { u \in TermsOf(old) : f[u] = 1 }
    BY DEF Discounted
  <2>2. t \in DOMAIN f1 => f1[t] = IF t \in TermsOf(old) THEN f[t] - 1 ELSE f[t]
    BY DEF Discounted
  <2> HIDE DEF f1
  <2>3. /\ left(t) \in Nat /\ h(t) \in Nat
        /\ h(t) = 0 <=> t \notin DOMAIN f
        /\ t \in DOMAIN f => f[t] = h(t)
    BY <1>2, <1>3
  <2> QED
    BY <2>1, <2>2, <2>3
<1>5. ASSUME NEW t
      PROVE  /\ t \in DOMAIN f2 <=> h2(t) # 0
             /\ t \in DOMAIN f2 => f2[t] = h2(t)
  <2>1. t \in DOMAIN f2 <=> t \in DOMAIN f1 \/ t \in TermsOf(text)
    BY DEF Counted
  <2>2. t \in DOMAIN f2 => f2[t] = Count(f1, t) + (IF t \in TermsOf(text) THEN 1 ELSE 0)
    BY DEF Counted
  <2>3. Count(f1, t) = left(t)
    <3> HIDE DEF f1
    <3> QED
      BY <1>4 DEF Count
  <2> HIDE DEF f1, f2
  <2>4. left(t) \in Nat /\ h2(t) = left(t) + (IF t \in TermsOf(text) THEN 1 ELSE 0)
    BY <1>2
  <2> HIDE DEF left
  <2> QED
    BY <1>4, <2>1, <2>2, <2>3, <2>4
<1> HIDE DEF f1, f2
<1>6. DOMAIN f2 = CorpusTerms(c2) /\ \A t \in DOMAIN f2 : f2[t] = h2(t)
  BY <1>2, <1>5
<1> QED
  BY <1>6 DEF Counts, f1, f2, c2, old, h2
-----------------------------------------------------------------------------
\* The term index of a corpus.
VocabIn(c) ==
  [ t \in { u \in CorpusTerms(c) : Rank(c, u) <= MaxDims } |-> Rank(c, t) ]

LEMMA RankIsPlace ==
  ASSUME NEW c, Corpus(c), NEW f, Counts(f, c)
  PROVE  /\ CorpusTerms(c) \subseteq Terms /\ Weighed(CorpusTerms(c), f)
         /\ \A t \in CorpusTerms(c) : f[t] > 0 /\ Rank(c, t) = Place(CorpusTerms(c), f, t)
<1>1. CorpusTerms(c) \subseteq Terms
  BY TermsOfText DEF CorpusTerms, Corpus
<1>2. \A t \in CorpusTerms(c) : f[t] = Cardinality(Holding(c, t)) /\ f[t] \in Nat /\ f[t] # 0
  BY HoldingFinite DEF Counts
<1>3. Weighed(CorpusTerms(c), f)
  BY <1>1, <1>2, CorpusAssumption DEF Weighed, Corpus
<1>4. ASSUME NEW t \in CorpusTerms(c)
      PROVE  Rank(c, t) = Place(CorpusTerms(c), f, t)
  <2>1. { u \in CorpusTerms(c) :
            LET du == Cardinality(Holding(c, u))
                dt == Cardinality(Holding(c, t))
            IN du < dt \/ (du = dt /\ u < t) } = Prior(CorpusTerms(c), f, t)
    BY <1>2 DEF Prior, Earlier
  <2> QED
    BY <2>1 DEF Rank, Place
<1> QED
  BY <1>1, <1>2, <1>3, <1>4

LEMMA VocabOfCorpus ==
  ASSUME Corpus(docs), Counts(df, docs)
  PROVE  BuiltVocab = VocabIn(docs)
<1>1. TermsInUse = CorpusTerms(docs)
  BY RankIsPlace DEF TermsInUse, Counts
<1>2. /\ Weighed(CorpusTerms(docs), df)
      /\ \A t \in CorpusTerms(docs) : Rank(docs, t) = Place(CorpusTerms(docs), df, t)
  BY RankIsPlace
<1>3. BuiltVocab = [ t \in { u \in CorpusTerms(docs) : Place(CorpusTerms(docs), df, u) <= MaxDims } |->
                       Place(CorpusTerms(docs), df, t) ]
  BY <1>1, <1>2, VocabBuilt
<1> QED
  BY <1>2, <1>3 DEF VocabIn

\* A snapshot that is of a corpus gives each text its vector in that corpus.
SnapshotOf(s, c, built) ==
  /\ built[s.idx] = VocabIn(c) /\ Counts(s.df, c)
  /\ s.n = Cardinality(DOMAIN c) /\ s.total = Cardinality(Tokens(c))

LEMMA VectorOfCorpus ==
  ASSUME NEW c, Corpus(c), NEW s, SnapshotOf(s, c, maps), NEW text \in Seq(Terms)
  PROVE  Vector(s, text) = VectorIn(c, text)
<1> DEFINE idx == maps[s.idx]
           held == { t \in DOMAIN idx : Occurrences(t, text) > 0 }
           all == { t \in CorpusTerms(c) \cap TermsOf(text) : Rank(c, t) <= MaxDims }
           w(t) == << Occurrences(t, text), Count(s.df, t), s.n, s.total, Len(text) >>
           x(t) == << Occurrences(t, text), Cardinality(Holding(c, t)),
                      Cardinality(DOMAIN c), Cardinality(Tokens(c)), Len(text) >>
<1>1. DOMAIN idx = { u \in CorpusTerms(c) : Rank(c, u) <= MaxDims }
      /\ \A t \in DOMAIN idx : idx[t] = Rank(c, t)
  BY DEF SnapshotOf, VocabIn
<1>2. held = all
  BY <1>1, TermsOfText
<1>3. \A t \in all : idx[t] = Rank(c, t) /\ w(t) = x(t)
  <2>1. \A t \in all : Count(s.df, t) = Cardinality(Holding(c, t))
    BY DEF SnapshotOf, Counts, Count
  <2> QED
    BY <1>1, <2>1 DEF SnapshotOf
<1>4. \A t, u \in all : Rank(c, t) = Rank(c, u) => t = u
  <2>1. all \subseteq CorpusTerms(c) /\ Counts(s.df, c)
    BY DEF SnapshotOf
  <2> HIDE DEF all
  <2> QED
    BY <2>1, RankIsPlace, PlaceRises
<1> DEFINE W(i) == w(CHOOSE u \in held : idx[u] = i)
           X(i) == x(CHOOSE u \in all : Rank(c, u) = i)
           At == { idx[t] : t \in held }
           Where == { Rank(c, t) : t \in all }
<1>5. Vector(s, text) = [ i \in At |-> W(i) ]
  BY DEF Vector
<1>6. VectorIn(c, text) = [ i \in Where |-> X(i) ]
  BY DEF VectorIn
<1> HIDE DEF held, all, idx, w, x
<1>7. At = Where
  BY <1>2, <1>3
<1>8. ASSUME NEW i \in Where
      PROVE  W(i) = X(i)
  <2>1. PICK t \in all : Rank(c, t) = i
    OBVIOUS
  <2>2. \A u \in all : idx[u] = i <=> u = t
    BY <1>3, <1>4, <2>1
  <2>3. (CHOOSE u \in held : idx[u] = i) = t
    BY <1>2, <2>2
  <2>4. (CHOOSE u \in all : Rank(c, u) = i) = t
    BY <1>4, <2>1
  <2> QED
    BY <1>3, <2>3, <2>4
<1> HIDE DEF W, X, At, Where
<1> QED
  BY <1>5, <1>6, <1>7, <1>8
-----------------------------------------------------------------------------
Vocabs == UNION { [S -> Nat] : S \in SUBSET Terms }
EmbFields == {"pc", "texts", "idx", "n", "total", "df", "vectors"}

LEMMA OneMore ==
  ASSUME NEW k \in Nat, NEW f
  PROVE  Append([i \in 1 .. k |-> f[i]], f[k + 1]) = [i \in 1 .. k + 1 |-> f[i]]
<1> DEFINE v == [i \in 1 .. k |-> f[i]]
           V == { f[i] : i \in 1 .. k + 1 }
           y == f[k + 1]
<1>1. v \in Seq(V) /\ Len(v) = k /\ \A i \in 1 .. k : v[i] = f[i]
  OBVIOUS
<1>2. y \in V
  OBVIOUS
<1> HIDE DEF v, V, y
<1>3. /\ Append(v, y) \in Seq(V) /\ Len(Append(v, y)) = k + 1
      /\ \A i \in 1 .. k : Append(v, y)[i] = v[i]
      /\ Append(v, y)[k + 1] = y
  BY <1>1, <1>2, AppendProperties
<1> DEFINE z == Append(v, y)
           more == [i \in 1 .. k + 1 |-> f[i]]
<1>4. z \in Seq(V) /\ Len(z) = k + 1 /\ \A i \in 1 .. k + 1 : z[i] = f[i]
  BY <1>1, <1>3 DEF y
<1>5. more \in Seq(V) /\ Len(more) = k + 1 /\ \A i \in 1 .. k + 1 : more[i] = f[i]
  BY DEF V
<1> HIDE DEF z, more
<1>6. z = more
  BY <1>4, <1>5, SeqEqual
<1> QED
  BY <1>6 DEF z, more, v, y

\* What an Embed in flight holds is of the corpus it has seen.
OfOneCorpus(s, c, built) ==
  /\ DOMAIN s = EmbFields
  /\ Corpus(c) /\ SnapshotOf(s, c, built)
  /\ s.idx \in 1 .. Len(built)
  /\ s.texts \in Seq(Seq(Terms))
  /\ \E k \in 0 .. Len(s.texts) : s.vectors = [i \in 1 .. k |-> VectorIn(c, s.texts[i])]

\* The counters, and the index unless it is stale, are of the documents.
Whole ==
  /\ Corpus(docs) /\ CountsMatchCorpus
  /\ maps \in Seq(Vocabs)
  /\ ~ dirty => Len(maps) > 0 /\ maps[Len(maps)] = VocabIn(docs)
  /\ DOMAIN emb = Embedders /\ DOMAIN seen = Embedders
  /\ \A e \in Embedders : emb[e].pc = "computing" => OfOneCorpus(emb[e], seen[e], maps)

LEMMA WholeInit == Init => Whole
<1> SUFFICES ASSUME Init PROVE Whole
  OBVIOUS
<1>1. DOMAIN docs = {} /\ DOMAIN df = {} /\ totalLen = 0
  BY DEF Init
<1>2. CorpusTerms(docs) = {} /\ Tokens(docs) = {}
  BY <1>1 DEF CorpusTerms, Tokens
<1>3. Corpus(docs) /\ CountsMatchCorpus
  BY <1>1, <1>2, FS_EmptySet DEF Corpus, CountsMatchCorpus
<1>4. maps \in Seq(Vocabs)
  BY EmptySeq DEF Init
<1> QED
  BY <1>3, <1>4 DEF Init, Whole, Idle

LEMMA WholeNext ==
  ASSUME Whole, [Next]_vars
  PROVE  Whole'
<1>0. Corpus(docs) /\ Counts(df, docs) /\ totalLen = Cardinality(Tokens(docs))
  BY DEF Whole, CountsMatchCorpus, Counts
<1>1. ASSUME NEW id \in Docs, NEW text \in Texts, Index(id, text)
      PROVE  Whole'
  <2>1. text \in Seq(Terms)
    BY CorpusAssumption
  <2>2. /\ docs' = Replaced(docs, id, text) /\ OldText(id) = TextIn(docs, id)
        /\ df' = Counted(Discounted(df, TextIn(docs, id)), text)
        /\ totalLen' = (totalLen - Len(TextIn(docs, id))) + Len(text)
        /\ dirty' = TRUE /\ UNCHANGED << maps, emb, seen >>
    BY <1>1 DEF Index, Replaced, OldText, TextIn
  <2>3. Corpus(docs')
    BY <1>0, <2>1, <2>2, ReplacedCorpus
  <2>4. totalLen' = Cardinality(Tokens(docs'))
    BY <1>0, <2>1, <2>2, ReplacedCorpus
  <2>5. Counts(df', docs')
    BY <1>0, <2>1, <2>2, CountsFollow
  <2>6. Corpus(docs)' /\ CountsMatchCorpus'
    BY <2>3, <2>4, <2>5 DEF Corpus, CountsMatchCorpus, Counts, CorpusTerms, Tokens, Holding
  <2> QED
    BY <2>2, <2>6 DEF Whole
<1>2. ASSUME NEW e \in Embedders, NEW texts \in Batches, EmbedLocked(e, texts)
      PROVE  Whole'
  <2>1. /\ maps' = IF dirty THEN Append(maps, BuiltVocab) ELSE maps
        /\ vocabIdx' = Len(maps')
        /\ emb' = [emb EXCEPT ![e] = Snapshot(texts, vocabIdx')]
        /\ seen' = [seen EXCEPT ![e] = docs]
        /\ dirty' = FALSE /\ UNCHANGED << docs, df, totalLen >>
    BY <1>2 DEF EmbedLocked
  <2>2. BuiltVocab = VocabIn(docs) /\ VocabIn(docs) \in Vocabs
    <3>1. BuiltVocab = VocabIn(docs)
      BY <1>0, VocabOfCorpus
    <3>2. /\ CorpusTerms(docs) \subseteq Terms
          /\ \A t \in CorpusTerms(docs) : Rank(docs, t) \in Nat
      BY <1>0, RankIsPlace, PlaceRises
    <3> QED
      BY <3>1, <3>2 DEF VocabIn, Vocabs
  <2>3. /\ maps' \in Seq(Vocabs) /\ Len(maps') > 0 /\ maps'[Len(maps')] = VocabIn(docs)
        /\ Len(maps) \in Nat /\ Len(maps') \in Nat /\ Len(maps) <= Len(maps')
        /\ \A i \in 1 .. Len(maps) : maps'[i] = maps[i]
    <3>1. maps \in Seq(Vocabs) /\ Len(maps) \in Nat
      BY LenProperties DEF Whole
    <3>2. CASE dirty
      BY <2>1, <2>2, <3>1, <3>2, AppendProperties
    <3>3. CASE ~ dirty
      BY <2>1, <3>1, <3>3 DEF Whole
    <3> QED
      BY <3>2, <3>3
  <2>4. ASSUME NEW g \in Embedders, emb'[g].pc = "computing"
        PROVE  OfOneCorpus(emb[g], seen[g], maps)'
    <3>1. CASE g = e
      <4> DEFINE s == Snapshot(texts, Len(maps'))
      <4>1. emb'[g] = s /\ seen'[g] = docs
        BY <2>1, <3>1 DEF Whole
      <4>2. /\ DOMAIN s = EmbFields /\ s.idx = Len(maps') /\ s.df = df
            /\ s.n = Cardinality(DOMAIN docs) /\ s.total = totalLen
            /\ s.texts = texts /\ s.vectors = << >>
        BY DEF Snapshot, EmbFields
      <4> HIDE DEF s
      <4>3. s.texts \in Seq(Seq(Terms)) /\ Len(s.texts) \in Nat
        BY <4>2, CorpusAssumption, LenProperties
      <4>4. s.vectors = [i \in 1 .. 0 |-> VectorIn(docs, s.texts[i])]
        BY <4>2
      <4>5. /\ maps'[s.idx] = VocabIn(docs) /\ Counts(s.df, docs)
            /\ s.n = Cardinality(DOMAIN docs) /\ s.total = Cardinality(Tokens(docs))
            /\ s.idx \in 1 .. Len(maps')
        BY <1>0, <2>3, <4>2
      <4>6. \E k \in 0 .. Len(s.texts) :
              s.vectors = [i \in 1 .. k |-> VectorIn(docs, s.texts[i])]
        BY <4>3, <4>4
      <4> QED
        BY <1>0, <4>1, <4>2, <4>3, <4>5, <4>6 DEF OfOneCorpus, SnapshotOf
    <3>2. CASE g # e
      <4>1. emb'[g] = emb[g] /\ seen'[g] = seen[g]
        BY <2>1, <3>2 DEF Whole
      <4>2. OfOneCorpus(emb[g], seen[g], maps)
        BY <2>4, <4>1 DEF Whole
      <4>3. maps'[emb[g].idx] = maps[emb[g].idx] /\ emb[g].idx \in 1 .. Len(maps')
        BY <2>3, <4>2 DEF OfOneCorpus
      <4> QED
        BY <4>1, <4>2, <4>3 DEF OfOneCorpus, SnapshotOf
    <3> QED
      BY <3>1, <3>2
  <2>5. DOMAIN emb' = Embedders /\ DOMAIN seen' = Embedders
    BY <2>1 DEF Whole
  <2>6. Corpus(docs)' /\ CountsMatchCorpus' /\ VocabIn(docs)' = VocabIn(docs)
    BY <2>1 DEF Whole, Corpus, CountsMatchCorpus, CorpusTerms, Tokens, Holding, VocabIn, Rank
  <2> QED
    BY <2>1, <2>3, <2>4, <2>5, <2>6 DEF Whole
<1>3. ASSUME NEW e \in Embedders, EmbedText(e)
      PROVE  Whole'
  <2> DEFINE ts == emb[e].texts
             v == emb[e].vectors
  <2>1. /\ emb[e].pc = "computing" /\ Len(v) < Len(ts)
        /\ emb' = [emb EXCEPT ![e].vectors = Append(v, Vector(emb[e], ts[Len(v) + 1]))]
        /\ UNCHANGED << docs, df, totalLen, maps, dirty, seen >>
    BY <1>3 DEF EmbedText
  <2>2. OfOneCorpus(emb[e], seen[e], maps)
    BY <2>1 DEF Whole
  <2>3. PICK k \in 0 .. Len(ts) : v = [i \in 1 .. k |-> VectorIn(seen[e], ts[i])]
    BY <2>2 DEF OfOneCorpus
  <2>4. ts \in Seq(Seq(Terms)) /\ Len(ts) \in Nat /\ DOMAIN emb[e] = EmbFields
    BY <2>2, LenProperties DEF OfOneCorpus
  <2> DEFINE r == Append(v, Vector(emb[e], ts[Len(v) + 1]))
             f == [i \in 1 .. Len(ts) |-> VectorIn(seen[e], ts[i])]
  <2>5. Len(v) = k /\ k \in Nat /\ k < Len(ts) /\ v = [i \in 1 .. k |-> f[i]]
    BY <2>1, <2>3, <2>4
  <2>6. Vector(emb[e], ts[k + 1]) = f[k + 1]
    <3>1. ts[k + 1] \in Seq(Terms) /\ k + 1 \in 1 .. Len(ts)
      BY <2>4, <2>5, ElementOfSeq
    <3> QED
      BY <2>2, <3>1, VectorOfCorpus DEF OfOneCorpus
  <2>7. r = [i \in 1 .. k + 1 |-> VectorIn(seen[e], ts[i])] /\ k + 1 \in 0 .. Len(ts)
    <3>1. r = [i \in 1 .. k + 1 |-> f[i]]
      <4> HIDE DEF f
      <4> QED
        BY <2>5, <2>6, OneMore
    <3>2. \A i \in 1 .. k + 1 : f[i] = VectorIn(seen[e], ts[i])
      BY <2>4, <2>5
    <3> QED
      BY <2>4, <2>5, <3>1, <3>2
  <2>8. /\ DOMAIN emb' = Embedders /\ DOMAIN emb'[e] = EmbFields
        /\ \A field \in EmbFields \ {"vectors"} : emb'[e][field] = emb[e][field]
        /\ emb'[e].vectors = r
        /\ \A g \in Embedders : g # e => emb'[g] = emb[g]
    <3> HIDE DEF r
    <3> QED
      BY <2>1, <2>4 DEF Whole, EmbFields, r
  <2> HIDE DEF r
  <2>9. ASSUME NEW g \in Embedders, emb'[g].pc = "computing"
        PROVE  OfOneCorpus(emb[g], seen[g], maps)'
    <3>1. CASE g = e
      <4>1. /\ emb'[e].idx = emb[e].idx /\ emb'[e].n = emb[e].n
            /\ emb'[e].total = emb[e].total /\ emb'[e].df = emb[e].df /\ emb'[e].texts = ts
        BY <2>8 DEF EmbFields
      <4>2. \E j \in 0 .. Len(ts) : emb'[e].vectors = [i \in 1 .. j |-> VectorIn(seen[e], ts[i])]
        BY <2>7, <2>8
      <4> DEFINE z == emb'[e]
      <4>3. /\ DOMAIN z = EmbFields /\ z.idx = emb[e].idx /\ z.n = emb[e].n
            /\ z.total = emb[e].total /\ z.df = emb[e].df /\ z.texts = ts
        BY <2>8, <4>1
      <4> HIDE DEF z
      <4>4. SnapshotOf(z, seen[e], maps)
        BY <2>2, <4>3 DEF OfOneCorpus, SnapshotOf
      <4>5. OfOneCorpus(z, seen[e], maps)
        BY <2>2, <4>2, <4>3, <4>4 DEF OfOneCorpus, z
      <4> QED
        BY <2>1, <3>1, <4>5 DEF z
    <3>2. CASE g # e
      <4>1. emb'[g] = emb[g] /\ OfOneCorpus(emb[g], seen[g], maps)
        BY <2>8, <2>9, <3>2 DEF Whole
      <4> QED
        BY <2>1, <4>1
    <3> QED
      BY <3>1, <3>2
  <2>10. Corpus(docs)' /\ CountsMatchCorpus' /\ VocabIn(docs)' = VocabIn(docs)
    BY <2>1 DEF Whole, Corpus, CountsMatchCorpus, CorpusTerms, Tokens, Holding, VocabIn, Rank
  <2> QED
    BY <2>1, <2>8, <2>9, <2>10 DEF Whole
<1>4. ASSUME NEW e \in Embedders, EmbedCancelled(e) \/ EmbedReturns(e)
      PROVE  Whole'
  <2>1. /\ emb' = [emb EXCEPT ![e] = Idle] /\ seen' = [seen EXCEPT ![e] = << >>]
        /\ UNCHANGED << docs, df, totalLen, maps, dirty >>
    BY <1>4 DEF EmbedCancelled, EmbedReturns
  <2>2. DOMAIN emb' = Embedders /\ DOMAIN seen' = Embedders /\ emb'[e].pc = "idle"
        /\ \A g \in Embedders : g # e => emb'[g] = emb[g] /\ seen'[g] = seen[g]
    BY <2>1 DEF Whole, Idle
  <2>3. \A g \in Embedders : emb'[g].pc = "computing" => OfOneCorpus(emb[g], seen[g], maps)'
    BY <2>1, <2>2 DEF Whole
  <2>4. Corpus(docs)' /\ CountsMatchCorpus' /\ VocabIn(docs)' = VocabIn(docs)
    BY <2>1 DEF Whole, Corpus, CountsMatchCorpus, CorpusTerms, Tokens, Holding, VocabIn, Rank
  <2> QED
    BY <2>1, <2>2, <2>3, <2>4 DEF Whole
<1>5. CASE UNCHANGED vars
  <2>1. UNCHANGED << docs, df, totalLen, maps, dirty, emb, seen >>
    BY <1>5 DEF vars
  <2>2. Corpus(docs)' /\ CountsMatchCorpus' /\ VocabIn(docs)' = VocabIn(docs)
    BY <2>1 DEF Whole, Corpus, CountsMatchCorpus, CorpusTerms, Tokens, Holding, VocabIn, Rank
  <2>3. \A g \in Embedders : emb'[g].pc = "computing" => OfOneCorpus(emb[g], seen[g], maps)'
    BY <2>1 DEF Whole
  <2> QED
    BY <2>1, <2>2, <2>3 DEF Whole
<1> QED
  BY <1>1, <1>2, <1>3, <1>4, <1>5 DEF Next

\* However often documents are replaced, a term is counted in exactly the
\* documents that hold it, and the length is that of all of them (bm25.go:97-121).
THEOREM CountersMatchDocuments == Spec => []CountsMatchCorpus
<1>1. Whole => CountsMatchCorpus
  BY DEF Whole
<1> QED
  BY <1>1, WholeInit, WholeNext, PTL DEF Spec

\* Every vector that was computed without the mutex is the one its text has, by
\* the definition of BM25, in the corpus as it was when Embed held it, whatever
\* was indexed and rebuilt since (bm25.go:184-247).
THEOREM VectorsAreOfOneCorpus == Spec => []VectorsOfOneCorpus
<1>1. ASSUME Whole PROVE VectorsOfOneCorpus
  <2> SUFFICES ASSUME NEW e \in Embedders, emb[e].pc = "computing",
                      NEW i \in DOMAIN emb[e].vectors
               PROVE  emb[e].vectors[i] = VectorIn(seen[e], emb[e].texts[i])
    BY DEF VectorsOfOneCorpus
  <2> QED
    BY <1>1 DEF Whole, OfOneCorpus
<1> QED
  BY <1>1, WholeInit, WholeNext, PTL DEF Spec
=============================================================================
