---------------------------- MODULE SearchProofs ----------------------------
(***************************************************************************)
(* Proofs about Search and addresses, for any content of the vector store  *)
(* and any nodes the graph returns: what a search answers is wanted,       *)
(* sorted and no longer than asked for; what it leaves out is no nearer,   *)
(* and no result is missing while the over-fetch covers the store; and the *)
(* Source of a result leads back to it where no alias has a colon.         *)
(***************************************************************************)
EXTENDS Search, FiniteSetTheorems, SequenceTheorems,
        WellFoundedInduction, TLAPS

LEMMA MinOfTwo ==
  ASSUME NEW a \in Int, NEW b \in Int
  PROVE  Min({a, b}) = IF a <= b THEN a ELSE b
<1>1. \E x \in {a, b} : \A y \in {a, b} : x <= y
  OBVIOUS
<1> QED
  BY <1>1 DEF Min

LEMMA MaxOfTwo ==
  ASSUME NEW a \in Int, NEW b \in Int
  PROVE  Max({a, b}) = IF a >= b THEN a ELSE b
<1>1. \E x \in {a, b} : \A y \in {a, b} : x >= y
  OBVIOUS
<1> QED
  BY <1>1 DEF Max

-----------------------------------------------------------------------------
\* Strings, as sequences of letters and separators.
Text == Seq(Letters)

LEMMA Separators == ":" \in Letters /\ "/" \in Letters
  BY ConstantsAssumption

LEMMA OneLetter ==
  ASSUME NEW x \in Letters
  PROVE  << x >> \in Text /\ Len(<< x >>) = 1 /\ << x >>[1] = x
<1>1. << x >> = [i \in 1 .. 1 |-> x]
  OBVIOUS
<1>2. [i \in 1 .. 1 |-> x] \in Seq(Letters)
  OBVIOUS
<1> QED
  BY <1>1, <1>2 DEF Text

LEMMA Concat ==
  ASSUME NEW s \in Text, NEW t \in Text
  PROVE  /\ s \o t \in Text /\ Len(s) \in Nat /\ Len(t) \in Nat
         /\ Len(s \o t) = Len(s) + Len(t)
         /\ \A i \in 1 .. Len(s) + Len(t) :
              (s \o t)[i] = IF i <= Len(s) THEN s[i] ELSE t[i - Len(s)]
  BY ConcatProperties, LenProperties DEF Text

\* A letter after a string, ...
LEMMA Ended ==
  ASSUME NEW s \in Text, NEW x \in Letters
  PROVE  /\ s \o << x >> \in Text /\ Len(s) \in Nat
         /\ Len(s \o << x >>) = Len(s) + 1
         /\ \A i \in 1 .. Len(s) + 1 : (s \o << x >>)[i] = IF i <= Len(s) THEN s[i] ELSE x
<1> DEFINE t == << x >>
<1>1. t \in Text /\ Len(t) = 1 /\ t[1] = x
  BY OneLetter
<1> HIDE DEF t
<1>2. /\ s \o t \in Text /\ Len(s) \in Nat /\ Len(s \o t) = Len(s) + Len(t)
      /\ \A i \in 1 .. Len(s) + Len(t) :
           (s \o t)[i] = IF i <= Len(s) THEN s[i] ELSE t[i - Len(s)]
  BY <1>1, Concat
<1>3. /\ s \o t \in Text /\ Len(s) \in Nat /\ Len(s \o t) = Len(s) + 1
      /\ \A i \in 1 .. Len(s) + 1 : (s \o t)[i] = IF i <= Len(s) THEN s[i] ELSE x
  BY <1>1, <1>2
<1> QED
  BY <1>3 DEF t

\* ... and between two.
LEMMA Joined ==
  ASSUME NEW s \in Text, NEW x \in Letters, NEW t \in Text
  PROVE  /\ s \o << x >> \o t \in Text /\ Len(s) \in Nat /\ Len(t) \in Nat
         /\ Len(s \o << x >> \o t) = Len(s) + 1 + Len(t)
         /\ \A i \in 1 .. Len(s) + 1 + Len(t) :
              (s \o << x >> \o t)[i] = IF i <= Len(s) THEN s[i] ELSE
                                      IF i = Len(s) + 1 THEN x ELSE t[i - (Len(s) + 1)]
<1> DEFINE sx == s \o << x >>
<1>1. /\ sx \in Text /\ Len(s) \in Nat /\ Len(sx) = Len(s) + 1
      /\ \A i \in 1 .. Len(s) + 1 : sx[i] = IF i <= Len(s) THEN s[i] ELSE x
  BY Ended
<1> HIDE DEF sx
<1>2. /\ sx \o t \in Text /\ Len(t) \in Nat /\ Len(sx \o t) = Len(sx) + Len(t)
      /\ \A i \in 1 .. Len(sx) + Len(t) :
           (sx \o t)[i] = IF i <= Len(sx) THEN sx[i] ELSE t[i - Len(sx)]
  BY <1>1, Concat
<1>3. /\ sx \o t \in Text /\ Len(s) \in Nat /\ Len(t) \in Nat
      /\ Len(sx \o t) = Len(s) + 1 + Len(t)
      /\ \A i \in 1 .. Len(s) + 1 + Len(t) :
           (sx \o t)[i] = IF i <= Len(s) THEN s[i] ELSE
                          IF i = Len(s) + 1 THEN x ELSE t[i - (Len(s) + 1)]
  BY <1>1, <1>2
<1> QED
  BY <1>3 DEF sx

\* The first letters of a string, and what follows them.
LEMMA Cut ==
  ASSUME NEW s \in Text, NEW m \in 1 .. Len(s) + 1, NEW n \in m - 1 .. Len(s)
  PROVE  /\ SubSeq(s, m, n) \in Text /\ Len(SubSeq(s, m, n)) = n - m + 1
         /\ \A i \in 1 .. n - m + 1 : SubSeq(s, m, n)[i] = s[m + i - 1]
<1>1. Len(s) \in Nat
  BY LenProperties DEF Text
<1>2. \A i \in m .. n : s[i] \in Letters
  BY <1>1, ElementOfSeq DEF Text
<1>3. m \in Int /\ n \in Int /\ m - 1 <= n
  BY <1>1
<1> QED
  BY <1>2, <1>3, SubSeqProperties DEF Text

LEMMA Same ==
  ASSUME NEW s \in Text, NEW t \in Text, Len(s) = Len(t), \A i \in 1 .. Len(s) : s[i] = t[i]
  PROVE  s = t
  BY SeqEqual DEF Text

LEMMA FirstColonIs ==
  ASSUME NEW s \in Text
  PROVE  \/ FirstColon(s) = 0 /\ \A i \in 1 .. Len(s) : s[i] # ":"
         \/ /\ FirstColon(s) \in 1 .. Len(s) /\ s[FirstColon(s)] = ":"
            /\ \A j \in 1 .. FirstColon(s) - 1 : s[j] # ":"
<1>0. Len(s) \in Nat /\ DOMAIN s = 1 .. Len(s)
  BY LenProperties DEF Text
<1>1. CASE \A i \in 1 .. Len(s) : s[i] # ":"
  BY <1>0, <1>1 DEF FirstColon
<1>2. CASE \E i \in 1 .. Len(s) : s[i] = ":"
  <2> DEFINE C == { i \in 1 .. Len(s) : s[i] = ":" }
  <2>1. C \in SUBSET Nat /\ C # {}
    BY <1>2, <1>0
  <2>2. PICK i \in C : \A j \in C : i <= j
    <3> DEFINE less == OpToRel(<, Nat)
    <3>1. \A i, j \in Nat : i < j => << i, j >> \in less
      BY DEF OpToRel
    <3>2. \E i \in C : \A j \in C : << j, i >> \notin less
      <4> HIDE DEF less, C
      <4> QED
        BY <2>1, NatLessThanWellFounded, WFMin DEF less
    <3> QED
      <4>1. PICK i \in C : \A j \in C : << j, i >> \notin less
        BY <3>2
      <4>2. ASSUME NEW j \in C PROVE i <= j
        <5>1. i \in Nat /\ j \in Nat /\ << j, i >> \notin less
          BY <2>1, <4>1
        <5> HIDE DEF less, C
        <5> QED
          BY <3>1, <5>1
      <4> QED
        BY <4>1, <4>2
  <2>3. i \in DOMAIN s /\ s[i] = ":" /\ \A j \in 1 .. i - 1 : s[j] # ":"
    BY <1>0, <2>2
  <2> QED
    BY <1>0, <2>3 DEF FirstColon
<1> QED
  BY <1>1, <1>2

\* The reference that a colon puts together, the first colon takes apart.
LEMMA CutAtColon ==
  ASSUME NEW a \in Text, NEW p \in Text, a # << >>, \A i \in 1 .. Len(a) : a[i] # ":"
  PROVE  LET s == a \o Colon \o p IN
           s \in Text /\ FirstColon(s) = Len(a) + 1 /\ Before(s) = a /\ After(s) = p
<1> DEFINE s == a \o Colon \o p
<1>1. /\ s \in Text /\ Len(a) \in Nat /\ Len(p) \in Nat
      /\ Len(s) = Len(a) + 1 + Len(p)
      /\ \A i \in 1 .. Len(a) + 1 + Len(p) :
           s[i] = IF i <= Len(a) THEN a[i] ELSE
                  IF i = Len(a) + 1 THEN ":" ELSE p[i - (Len(a) + 1)]
  BY Joined, Separators DEF Colon
<1> HIDE DEF s
<1>2. /\ s[Len(a) + 1] = ":" /\ \A i \in 1 .. Len(a) : s[i] # ":" /\ s[i] = a[i]
      /\ \A i \in 1 .. Len(p) : s[Len(a) + 1 + i] = p[i]
  BY <1>1
<1>3. FirstColon(s) = Len(a) + 1
  <2> DEFINE f == FirstColon(s)
  <2>1. \/ f = 0 /\ \A i \in 1 .. Len(s) : s[i] # ":"
        \/ f \in 1 .. Len(s) /\ s[f] = ":" /\ \A j \in 1 .. f - 1 : s[j] # ":"
    BY <1>1, FirstColonIs
  <2>2. Len(a) + 1 \in 1 .. Len(s)
    BY <1>1
  <2>3. f \in 1 .. Len(s) /\ s[f] = ":" /\ \A j \in 1 .. f - 1 : s[j] # ":"
    BY <1>2, <2>1, <2>2
  <2> HIDE DEF f
  <2>4. ~ (f <= Len(a))
    BY <1>1, <1>2, <2>3
  <2>5. ~ (Len(a) + 1 <= f - 1)
    BY <1>1, <1>2, <2>3
  <2>6. f = Len(a) + 1
    BY <1>1, <2>3, <2>4, <2>5
  <2> QED
    BY <2>6 DEF f
<1>4. Before(s) = a
  <2>1. /\ SubSeq(s, 1, Len(a)) \in Text /\ Len(SubSeq(s, 1, Len(a))) = Len(a)
        /\ \A i \in 1 .. Len(a) : SubSeq(s, 1, Len(a))[i] = s[i]
    BY <1>1, Cut
  <2>2. SubSeq(s, 1, Len(a)) = a
    BY <1>2, <2>1, Same
  <2> QED
    BY <1>1, <1>3, <2>2 DEF Before
<1>5. After(s) = p
  <2> DEFINE m == Len(a) + 2
  <2>1. /\ SubSeq(s, m, Len(s)) \in Text /\ Len(SubSeq(s, m, Len(s))) = Len(p)
        /\ \A i \in 1 .. Len(p) : SubSeq(s, m, Len(s))[i] = s[m + i - 1]
    <3>1. m \in 1 .. Len(s) + 1 /\ Len(s) \in m - 1 .. Len(s) /\ Len(s) - m + 1 = Len(p)
      BY <1>1
    <3> HIDE DEF m
    <3> QED
      BY <1>1, <3>1, Cut
  <2>2. \A i \in 1 .. Len(p) : s[m + i - 1] = p[i]
    <3> SUFFICES ASSUME NEW i \in 1 .. Len(p) PROVE s[m + i - 1] = p[i]
      OBVIOUS
    <3>1. m + i - 1 = Len(a) + 1 + i
      BY <1>1
    <3> QED
      BY <1>2, <3>1
  <2>3. SubSeq(s, m, Len(s)) = p
    BY <2>1, <2>2, Same
  <2>4. FirstColon(s) + 1 = m
    BY <1>1, <1>3
  <2> QED
    BY <2>3, <2>4 DEF After
<1> QED
  BY <1>1, <1>3, <1>4, <1>5 DEF s

\* A scope path and a slash begin the path of a concept just when it lies in the
\* directory of that name.
LEMMA PrefixIsDirectory ==
  ASSUME NEW sub \in Text, NEW path \in Text
  PROVE  (path = sub \/ IsPrefix(sub \o Slash, path)) <=> InDirectory(path, sub)
<1> DEFINE ss == sub \o Slash
           n == Len(sub)
<1>1. /\ n \in Nat /\ ss \in Text /\ Len(ss) = n + 1
      /\ \A i \in 1 .. n + 1 : ss[i] = IF i <= n THEN sub[i] ELSE "/"
  BY Ended, Separators DEF Slash
<1>2. Len(path) \in Nat /\ DOMAIN path = 1 .. Len(path)
  BY LenProperties DEF Text
<1> HIDE DEF ss
<1>3. SubSeq(ss, 1, n + 1) = ss
  BY <1>1, SubSeqFull DEF Text
<1>4. ASSUME NEW k \in 0 .. Len(path)
      PROVE  /\ SubSeq(path, 1, k) \in Text /\ Len(SubSeq(path, 1, k)) = k
             /\ \A i \in 1 .. k : SubSeq(path, 1, k)[i] = path[i]
  BY <1>2, Cut
<1>5. ASSUME IsPrefix(ss, path)
      PROVE  n + 1 \in DOMAIN path /\ path[n + 1] = "/" /\ SubSeq(path, 1, n) = sub
  <2>1. n + 1 <= Len(path) /\ SubSeq(path, 1, n + 1) = ss
    BY <1>1, <1>3, <1>5 DEF IsPrefix
  <2>2. n + 1 \in 0 .. Len(path) /\ n \in 0 .. Len(path) /\ n + 1 \in 1 .. Len(path)
    BY <1>1, <1>2, <2>1
  <2>3. \A i \in 1 .. n + 1 : path[i] = ss[i]
    BY <1>4, <2>1, <2>2
  <2>4. path[n + 1] = "/" /\ \A i \in 1 .. n : path[i] = sub[i]
    BY <1>1, <2>3
  <2>5. SubSeq(path, 1, n) = sub
    <3>1. /\ SubSeq(path, 1, n) \in Text /\ Len(SubSeq(path, 1, n)) = n
          /\ \A i \in 1 .. n : SubSeq(path, 1, n)[i] = path[i]
      BY <1>4, <2>2
    <3>2. \A i \in 1 .. n : SubSeq(path, 1, n)[i] = sub[i]
      BY <2>4, <3>1
    <3> QED
      BY <3>1, <3>2, Same
  <2> QED
    BY <1>2, <2>2, <2>4, <2>5
<1>6. ASSUME NEW i \in DOMAIN path, path[i] = "/", SubSeq(path, 1, i - 1) = sub
      PROVE  IsPrefix(ss, path)
  <2>1. i - 1 \in 0 .. Len(path) /\ i \in 0 .. Len(path)
    BY <1>2
  <2>2. i = n + 1 /\ \A j \in 1 .. n : path[j] = sub[j]
    BY <1>1, <1>4, <1>6, <2>1
  <2>3. \A j \in 1 .. n + 1 : path[j] = ss[j]
    BY <1>1, <1>6, <2>2
  <2>4. SubSeq(path, 1, n + 1) = ss
    BY <1>1, <1>4, <2>1, <2>2, <2>3, Same
  <2> QED
    BY <1>1, <1>2, <1>3, <2>1, <2>2, <2>4 DEF IsPrefix
<1> QED
  BY <1>5, <1>6 DEF InDirectory, ss

LEMMA AfterColon ==
  ASSUME NEW s \in Text
  PROVE  After(s) \in Text
<1> DEFINE m == FirstColon(s) + 1
<1>1. Len(s) \in Nat
  BY LenProperties DEF Text
<1>2. FirstColon(s) = 0 \/ FirstColon(s) \in 1 .. Len(s)
  BY FirstColonIs
<1>3. m \in 1 .. Len(s) + 1 /\ Len(s) \in m - 1 .. Len(s)
  BY <1>1, <1>2
<1>4. SubSeq(s, m, Len(s)) \in Text
  <2> HIDE DEF m
  <2> QED
    BY <1>3, Cut
<1> QED
  BY <1>4 DEF After

\* What the scope parser hands on.
ScopeShape(sc) ==
  /\ sc.kind \in {"global", "bundle", "path"}
  /\ sc.kind = "path" => sc.sub \in Text

LEMMA ParsedScope ==
  ASSUME NEW s \in Text
  PROVE  ParseScope(s) = Malformed \/ ScopeShape(ParseScope(s))
<1> DEFINE rest == After(s)
<1>1. rest \in Text /\ After(rest) \in Text
  BY AfterColon
<1> HIDE DEF rest
<1>2. \/ ParseScope(s) = [kind |-> "global"]
      \/ ParseScope(s) = [kind |-> "bundle", alias |-> rest]
      \/ ParseScope(s) = [kind |-> "path", alias |-> Before(rest), sub |-> After(rest)]
      \/ ParseScope(s) = Malformed
  BY DEF ParseScope, rest
<1>3. ScopeShape([kind |-> "global"]) /\ ScopeShape([kind |-> "bundle", alias |-> rest])
      /\ ScopeShape([kind |-> "path", alias |-> Before(rest), sub |-> After(rest)])
  BY <1>1 DEF ScopeShape
<1> QED
  BY <1>2, <1>3

\* The scope filter keeps what a caller means by the scope.
LEMMA ScopeMeans ==
  ASSUME NEW sc, ScopeShape(sc), NEW c \in Concepts
  PROVE  ChunkMatchesScope(c, sc) <=>
           /\ sc.kind # "global" => c.alias = sc.alias
           /\ sc.kind = "path" => InDirectory(c.path, sc.sub)
<1>1. c.path \in Text
  BY ConstantsAssumption DEF Text
<1>2. sc.kind = "path" =>
        ((c.path = sc.sub \/ IsPrefix(sc.sub \o Slash, c.path)) <=> InDirectory(c.path, sc.sub))
  BY <1>1, PrefixIsDirectory DEF ScopeShape
<1> QED
  BY <1>2 DEF ChunkMatchesScope, ScopeShape
-----------------------------------------------------------------------------
\* o lists members of C by descending score, none of them twice and at most k;
\* if any are left out, the list is full and they score no higher.
Best(o, C, sc, k) ==
  /\ o \in Seq(C) /\ (Len(o) = 0 \/ Len(o) <= k)
  /\ \A i, j \in 1 .. Len(o) : i < j => o[i] # o[j] /\ sc[o[i]] >= sc[o[j]]
  /\ \A d \in C : (\A i \in 1 .. Len(o) : o[i] # d) =>
       Len(o) = k /\ \A i \in 1 .. Len(o) : sc[o[i]] >= sc[d]

\* An injection of as many as there are reaches them all.
LEMMA Onto ==
  ASSUME NEW C, IsFiniteSet(C), NEW s \in [1 .. Cardinality(C) -> C],
         \A i, j \in 1 .. Cardinality(C) : i < j => s[i] # s[j]
  PROVE  /\ Cardinality(C) \in Nat
         /\ \A d \in C : \E i \in 1 .. Cardinality(C) : s[i] = d
<1> DEFINE n == Cardinality(C)
<1>1. n \in Nat
  BY FS_CardinalityType
<1>2. \A i, j \in 1 .. n : s[i] = s[j] => i = j
  <2> SUFFICES ASSUME NEW i \in 1 .. n, NEW j \in 1 .. n, s[i] = s[j], i # j PROVE FALSE
    OBVIOUS
  <2>1. i < j \/ j < i
    BY <1>1
  <2> QED
    BY <2>1
<1>3. s \in Injection(1 .. n, C)
  BY <1>2 DEF Injection, IsInjective
<1>4. Cardinality(1 .. n) = n
  BY <1>1, FS_Interval
<1>5. s \in Surjection(1 .. n, C)
  <2> HIDE DEF n
  <2> QED
    BY <1>3, <1>4, FS_Injection DEF n
<1> QED
  BY <1>1, <1>5 DEF Surjection

LEMMA OntoRising ==
  ASSUME NEW E, IsFiniteSet(E), E \subseteq Nat, NEW kept \in [1 .. Cardinality(E) -> E],
         \A i, j \in DOMAIN kept : i < j => kept[i] < kept[j]
  PROVE  /\ Cardinality(E) \in Nat
         /\ \A e \in E : \E i \in 1 .. Cardinality(E) : kept[i] = e
<1>1. \A i, j \in 1 .. Cardinality(E) : i < j => kept[i] # kept[j]
  <2> SUFFICES ASSUME NEW i \in 1 .. Cardinality(E), NEW j \in 1 .. Cardinality(E), i < j
               PROVE  kept[i] # kept[j]
    OBVIOUS
  <2>1. kept[i] \in Nat /\ kept[j] \in Nat /\ kept[i] < kept[j]
    OBVIOUS
  <2> QED
    BY <2>1
<1> QED
  BY <1>1, Onto, ZenonT(60)

\* Sorting them all and cutting the list at k leaves the best k.
LEMMA RankIsBest ==
  ASSUME NEW C, IsFiniteSet(C), NEW sc, \A c \in C : sc[c] \in Int, NEW k \in Nat \ {0},
         NEW s \in [1 .. Cardinality(C) -> C],
         \A i, j \in 1 .. Cardinality(C) : i < j => s[i] # s[j] /\ sc[s[i]] >= sc[s[j]]
  PROVE  Best(SubSeq(s, 1, Min({k, Len(s)})), C, sc, k)
<1> DEFINE n == Cardinality(C)
<1>1. n \in Nat /\ \A d \in C : \E i \in 1 .. n : s[i] = d
  <2>1. \A i, j \in 1 .. Cardinality(C) : i < j => s[i] # s[j]
    OBVIOUS
  <2> QED
    BY <2>1, Onto, Zenon
<1> HIDE DEF n
<1>2. s \in Seq(C) /\ Len(s) = n
  BY <1>1 DEF n
<1> DEFINE m == Min({k, Len(s)})
           o == SubSeq(s, 1, m)
<1>3. m \in Nat /\ m <= n /\ m <= k /\ (m < n => m = k)
  BY <1>1, <1>2, MinOfTwo
<1> HIDE DEF m
<1>4. o \in Seq(C) /\ Len(o) = m /\ \A i \in 1 .. m : o[i] = s[i]
  <2>1. \A i \in 1 .. m : s[i] \in C
    BY <1>1, <1>3 DEF n
  <2> QED
    BY <1>3, <2>1, SubSeqProperties
<1> HIDE DEF o
<1>5. \A i, j \in 1 .. m : i < j => o[i] # o[j] /\ sc[o[i]] >= sc[o[j]]
  BY <1>1, <1>3, <1>4 DEF n
<1>6. ASSUME NEW d \in C, \A i \in 1 .. m : o[i] # d
      PROVE  m = k /\ \A i \in 1 .. m : sc[o[i]] >= sc[d]
  <2>1. PICK j \in 1 .. n : s[j] = d
    BY <1>1
  <2>2. m < j
    BY <1>1, <1>3, <1>4, <1>6, <2>1
  <2>3. \A i \in 1 .. m : i \in 1 .. n /\ i < j
    BY <1>1, <1>3, <2>2
  <2> QED
    BY <1>1, <1>3, <1>4, <2>1, <2>2, <2>3 DEF n
<1> QED
  BY <1>3, <1>4, <1>5, <1>6 DEF Best, o, m

\* Keeping what scores at least t of the best k leaves the best k of what scores
\* at least t.
Sifted(o, C, sc, t, E, kept, D, r) ==
  /\ E \subseteq DOMAIN o /\ \A i \in DOMAIN o : i \in E <=> sc[o[i]] >= t
  /\ kept \in [1 .. Cardinality(E) -> E]
  /\ \A i, j \in DOMAIN kept : i < j => kept[i] < kept[j]
  /\ D \subseteq C /\ \A c \in C : c \in D <=> sc[c] >= t
  /\ r \in [1 .. Cardinality(E) -> D] /\ \A i \in DOMAIN r : r[i] = o[kept[i]]

LEMMA FilterIsBest ==
  ASSUME NEW C, NEW sc, \A c \in C : sc[c] \in Int, NEW k \in Int, NEW t \in Int,
         NEW o, Best(o, C, sc, k), NEW E, NEW kept, NEW D, NEW r,
         Sifted(o, C, sc, t, E, kept, D, r)
  PROVE  Best(r, D, sc, k)
<1> USE DEF Sifted
<1> DEFINE N == Cardinality(E)
<1>1. /\ o \in Seq(C) /\ Len(o) \in Nat /\ DOMAIN o = 1 .. Len(o)
      /\ \A i \in 1 .. Len(o) : o[i] \in C
  BY LenProperties, ElementOfSeq DEF Best
<1>2. /\ IsFiniteSet(1 .. Len(o)) /\ Cardinality(1 .. Len(o)) = Len(o)
      /\ IsFiniteSet(E) /\ N <= Len(o)
  <2>1. IsFiniteSet(1 .. Len(o)) /\ Cardinality(1 .. Len(o)) = Len(o)
    <3> DEFINE l == Len(o)
    <3>1. l \in Nat
      BY <1>1
    <3> HIDE DEF l
    <3>2. IsFiniteSet(1 .. l) /\ Cardinality(1 .. l) = l
      BY <3>1, FS_Interval
    <3> QED
      BY <3>2 DEF l
  <2>2. E \subseteq 1 .. Len(o)
    BY <1>1
  <2> QED
    BY <2>1, <2>2, FS_Subset
<1>3. \A i \in E : i \in 1 .. Len(o) /\ o[i] \in D
  BY <1>1
<1>4. N \in Nat /\ \A e \in E : \E i \in 1 .. N : kept[i] = e
  <2>1. IsFiniteSet(E)
    BY <1>2
  <2>2. E \subseteq Nat
    BY <1>1
  <2>3. kept \in [1 .. Cardinality(E) -> E]
    OBVIOUS
  <2>4. \A i, j \in DOMAIN kept : i < j => kept[i] < kept[j]
    OBVIOUS
  <2>5. /\ Cardinality(E) \in Nat
        /\ \A e \in E : \E i \in 1 .. Cardinality(E) : kept[i] = e
    BY ONLY <2>1, <2>2, <2>3, <2>4, OntoRising
  <2> QED
    BY <2>5
<1>5. r \in [1 .. N -> D] /\ \A i \in 1 .. N : r[i] = o[kept[i]] /\ kept[i] \in E
  BY <1>3
<1> HIDE DEF N
<1>6. r \in Seq(D) /\ Len(r) = N
  BY <1>4, <1>5
<1>7. ASSUME NEW i \in 1 .. N, NEW j \in 1 .. N, i < j
      PROVE  r[i] # r[j] /\ sc[r[i]] >= sc[r[j]]
  <2>1. kept[i] < kept[j] /\ kept[i] \in 1 .. Len(o) /\ kept[j] \in 1 .. Len(o)
    BY <1>3, <1>5, <1>7 DEF N
  <2> QED
    BY <1>5, <2>1 DEF Best
<1>8. ASSUME NEW d \in D, \A i \in 1 .. N : r[i] # d
      PROVE  N = k /\ \A i \in 1 .. N : sc[r[i]] >= sc[d]
  <2>1. ASSUME NEW i \in 1 .. Len(o), o[i] = d PROVE FALSE
    <3>1. i \in E
      BY <1>1, <2>1
    <3> QED
      BY <1>4, <1>5, <1>8, <2>1, <3>1
  <2>2. Len(o) = k /\ \A i \in 1 .. Len(o) : sc[o[i]] >= sc[d]
    BY <2>1 DEF Best
  <2>3. E = 1 .. Len(o)
    <3>1. \A i \in 1 .. Len(o) : sc[o[i]] >= t
      <4>1. sc[d] >= t /\ sc[d] \in Int
        OBVIOUS
      <4> QED
        BY <1>1, <2>2, <4>1
    <3> QED
      BY <1>1, <3>1
  <2>4. N = Len(o)
    BY <1>2, <2>3 DEF N
  <2> QED
    BY <1>3, <1>5, <2>2, <2>4
<1>9. N = 0 \/ N <= k
  <2>1. Len(o) = 0 \/ Len(o) <= k
    BY DEF Best
  <2> QED
    BY <1>1, <1>2, <1>4, <2>1
<1> QED
  BY <1>6, <1>7, <1>8, <1>9 DEF Best
-----------------------------------------------------------------------------
\* A search on its way to its answer, or answered.
Asked == pc \in {"embed", "store", "rank", "filter"} \/ (pc = "done" /\ reply # "error")
Near == { c \in Candidates : score[c] >= ask.min }

\* What each stage hands to the next.
Sound ==
  /\ score \in [Concepts -> 0 .. MaxScore \cup {Absent}]
  /\ topK \in Int /\ nodes \subseteq Held /\ out \in Seq(nodes)
  /\ Asked => /\ ScopeShape(scope) /\ ask.min \in Nat
              /\ ask.tool \notin {"search_rag", "cli"} => ask.min = 0
  /\ pc \in {"call", "embed", "store"} => nodes = {}
  /\ pc \in {"call", "embed", "store", "rank"} => out = << >>
  /\ pc = "rank" => topK > 0
  /\ pc = "filter" => Best(out, Candidates, score, topK)
  /\ pc = "done" /\ reply # "error" => Best(out, Near, score, topK)

LEMMA Scores ==
  ASSUME Sound
  PROVE  /\ IsFiniteSet(Held) /\ Held \subseteq Concepts
         /\ \A c \in Held : score[c] \in Nat
         /\ IsFiniteSet(nodes) /\ nodes \subseteq Held
         /\ IsFiniteSet(Candidates) /\ Candidates \subseteq nodes
<1>1. Held \subseteq Concepts /\ nodes \subseteq Held /\ Candidates \subseteq nodes
  BY DEF Held, Sound, Candidates
<1>2. \A c \in Held : score[c] \in Nat
  BY ConstantsAssumption DEF Held, Sound
<1>3. IsFiniteSet(Held)
  BY <1>1, ConstantsAssumption, FS_Subset
<1>4. IsFiniteSet(nodes)
  BY <1>1, <1>3, FS_Subset
<1>5. IsFiniteSet(Candidates)
  BY <1>1, <1>4, FS_Subset
<1> QED
  BY <1>1, <1>2, <1>3, <1>4, <1>5

LEMMA EmptyIsBest ==
  ASSUME NEW C, NEW sc, NEW k
  PROVE  << >> \in Seq(C) /\ (C = {} => Best(<< >>, C, sc, k))
<1>1. << >> \in Seq(C) /\ Len(<< >>) = 0
  BY EmptySeq
<1> QED
  BY <1>1 DEF Best

LEMMA SoundInit == Init => Sound
  BY EmptyIsBest DEF Init, Sound, Asked

LEMMA SoundNext ==
  ASSUME Sound, [Next]_vars
  PROVE  Sound'
<1>1. CASE Call
  <2>1. PICK tool \in Tools, text \in Texts, k \in TopKs, min \in MinScores :
          /\ tool # "search_rag" => min = 0
          /\ ask' = [tool |-> tool, text |-> text, topK |-> k, min |-> min]
          /\ scope' = ParseScope(text)
          /\ topK' = TopK(tool, k)
    BY <1>1 DEF Call
  <2>2. /\ pc = "call" /\ UNCHANGED << score, nodes, out >>
        /\ \/ pc' = "done" /\ reply' = "error"
           \/ pc' = "embed" /\ scope' # Malformed
    BY <1>1 DEF Call
  <2>3. min \in Nat
    BY ConstantsAssumption
  <2>4. scope' = Malformed \/ ScopeShape(scope')
    <3>1. text \in Text
      BY ConstantsAssumption DEF Text
    <3> QED
      BY <2>1, <3>1, ParsedScope
  <2>5. topK' \in Int
    <3>1. k = Absent \/ k \in Int
      BY ConstantsAssumption
    <3>2. CASE k = Absent
      BY <2>1, <3>2, ConstantsAssumption DEF TopK, Tools
    <3>3. CASE k # Absent
      <4>1. k \in Int /\ RagMax \in Nat
        BY <3>1, <3>3, ConstantsAssumption
      <4>2. Max({k, 1}) \in Int
        BY <4>1, MaxOfTwo
      <4>3. Min({Max({k, 1}), RagMax}) \in Int
        BY <4>1, <4>2, MinOfTwo
      <4> QED
        BY <2>1, <3>3, <4>1, <4>2, <4>3 DEF TopK, Tools
    <3> QED
      BY <3>2, <3>3
  <2>6. ask'.min = min /\ ask'.tool = tool
    BY <2>1
  <2>7. Held' = Held
    BY <2>2 DEF Held
  <2> QED
    BY <2>1, <2>2, <2>3, <2>4, <2>5, <2>6, <2>7 DEF Sound, Asked
<1>2. CASE Embed \/ EmbedFails
  BY <1>2 DEF Embed, EmbedFails, Sound, Asked, Held
<1>3. CASE FetchNothing
  <2>1. nodes = {} /\ out = << >> /\ Candidates' = {}
    BY <1>3 DEF FetchNothing, Sound, Candidates
  <2>2. Best(out', Candidates', score', topK')
    BY <1>3, <2>1, EmptyIsBest DEF FetchNothing
  <2> QED
    BY <1>3, <2>2 DEF FetchNothing, Sound, Asked, Held
<1>4. CASE Fetch
  BY <1>4, EmptyIsBest DEF Fetch, Sound, Asked, Held
<1>5. CASE Rank
  <2>1. PICK s \in Ranked(Candidates) : out' = SubSeq(s, 1, Min({topK, Len(s)}))
    BY <1>5 DEF Rank
  <2>2. /\ s \in [1 .. Cardinality(Candidates) -> Candidates]
        /\ \A i, j \in 1 .. Cardinality(Candidates) :
             i < j => s[i] # s[j] /\ score[s[i]] >= score[s[j]]
    BY <2>1 DEF Ranked
  <2>3. /\ IsFiniteSet(Candidates) /\ topK \in Nat \ {0}
        /\ \A c \in Candidates : score[c] \in Int
    BY <1>5, Scores DEF Rank, Sound
  <2>4. Best(out', Candidates, score, topK)
    BY <2>1, <2>2, <2>3, RankIsBest, Zenon
  <2>5. Candidates' = Candidates /\ score' = score /\ topK' = topK
    BY <1>5 DEF Rank, Candidates
  <2>6. out' \in Seq(nodes)
    BY <2>4, Scores, SeqMonotonic DEF Best
  <2> QED
    BY <1>5, <2>4, <2>5, <2>6 DEF Rank, Sound, Asked, Held
<1>6. CASE Filter
  <2>1. /\ pc = "filter" /\ pc' = "done" /\ Asked
        /\ UNCHANGED << score, ask, scope, topK, nan, nodes >>
        /\ Candidates' = Candidates /\ Near' = Near /\ Best(out, Candidates, score, topK)
    BY <1>6 DEF Filter, Candidates, Near, Sound, Asked
  <2>2. ask.min \in Int /\ topK \in Int /\ \A c \in Candidates : score[c] \in Nat
    BY <2>1, Scores DEF Sound
  <2>3. Best(out', Near, score, topK)
    <3>1. CASE ask.tool \in {"search_rag", "cli"}
      <4>1. PICK kept \in [1 .. Cardinality(Enough) -> Enough] :
              /\ \A i, j \in DOMAIN kept : i < j => kept[i] < kept[j]
              /\ out' = [i \in DOMAIN kept |-> out[kept[i]]]
        BY <1>6, <3>1 DEF Filter
      <4>2. /\ Enough \in SUBSET (DOMAIN out)
            /\ \A i \in DOMAIN out : i \in Enough <=> score[out[i]] >= ask.min
        BY DEF Enough
      <4>3. \A c \in Candidates : score[c] \in Int
        BY <2>2
      <4>4. \A i, j \in DOMAIN kept : i < j => kept[i] < kept[j]
        BY <4>1
      <4>5. /\ Near \in SUBSET Candidates
            /\ \A c \in Candidates : c \in Near <=> score[c] >= ask.min
        BY DEF Near
      <4>6. Best(out, Candidates, score, topK) /\ ask.min \in Int /\ topK \in Int
        BY <2>1, <2>2
      <4>7. kept \in [1 .. Cardinality(Enough) -> Enough]
        BY <4>1
      <4>8. /\ out' \in [1 .. Cardinality(Enough) -> Near]
            /\ \A i \in DOMAIN out' : out'[i] = out[kept[i]]
        <5>1. \A i \in Enough : out[i] \in Near
          <6>1. DOMAIN out = 1 .. Len(out) /\ \A i \in 1 .. Len(out) : out[i] \in Candidates
            BY <4>6, LenProperties, ElementOfSeq DEF Best
          <6> QED
            BY <4>2, <4>5, <6>1
        <5> QED
          BY <4>1, <4>7, <5>1
      <4>9. Sifted(out, Candidates, score, ask.min, Enough, kept, Near, out')
        BY ONLY <4>2, <4>4, <4>5, <4>7, <4>8 DEF Sifted
      <4> QED
        BY <4>3, <4>6, <4>9, FilterIsBest, Zenon
    <3>2. CASE ask.tool \notin {"search_rag", "cli"}
      <4>1. out' = out /\ ask.min = 0
        BY <1>6, <2>1, <3>2 DEF Filter, Sound
      <4>2. Near = Candidates
        BY <2>2, <4>1 DEF Near
      <4> QED
        BY <2>1, <4>1, <4>2
    <3> QED
      BY <3>1, <3>2
  <2>4. out' \in Seq(nodes)
    <3>1. Near \subseteq nodes
      BY Scores DEF Near
    <3> QED
      BY <2>3, <3>1, SeqMonotonic DEF Best
  <2> QED
    BY <2>1, <2>3, <2>4 DEF Sound, Asked, Held
<1>7. CASE UNCHANGED vars
  BY <1>7 DEF vars, Sound, Asked, Held, Candidates, Near
<1> QED
  BY <1>1, <1>2, <1>3, <1>4, <1>5, <1>6, <1>7 DEF Next

THEOREM StagesAreSound == Spec => []Sound
<1>1. Init => Sound
  BY SoundInit
<1>2. Sound /\ [Next]_vars => Sound'
  BY SoundNext
<1> QED
  BY <1>1, <1>2, PTL DEF Spec
-----------------------------------------------------------------------------
\* The answer, as a set.
LEMMA ReturnedOnce ==
  ASSUME Sound, Answered
  PROVE  /\ Best(out, Near, score, topK)
         /\ Len(out) \in Nat /\ DOMAIN out = 1 .. Len(out)
         /\ \A d : d \in Returned <=> \E i \in 1 .. Len(out) : out[i] = d
         /\ Returned \subseteq Near
         /\ IsFiniteSet(Returned) /\ Cardinality(Returned) = Len(out)
<1> DEFINE l == Len(out)
<1>1. Best(out, Near, score, topK)
  BY DEF Answered, Sound
<1>2. l \in Nat /\ DOMAIN out = 1 .. l /\ \A i \in 1 .. l : out[i] \in Near
  BY <1>1, LenProperties, ElementOfSeq DEF Best
<1> HIDE DEF l
<1>3. \A d : d \in Returned <=> \E i \in 1 .. l : out[i] = d
  BY <1>2 DEF Returned, ToSet
<1>4. IsFiniteSet(Returned) /\ Cardinality(Returned) = l
  <2>1. IsFiniteSet(1 .. l) /\ Cardinality(1 .. l) = l
    BY <1>2, FS_Interval
  <2> DEFINE f == [i \in 1 .. l |-> out[i]]
  <2>2. f \in [1 .. l -> Returned]
    BY <1>3
  <2>3. \A i, j \in 1 .. l : i < j => out[i] # out[j]
    BY <1>1 DEF Best, l
  <2>4. \A i, j \in 1 .. l : f[i] = f[j] => i = j
    <3> SUFFICES ASSUME NEW i \in 1 .. l, NEW j \in 1 .. l, f[i] = f[j], i # j PROVE FALSE
      OBVIOUS
    <3>1. (i < j \/ j < i) /\ out[i] = out[j]
      BY <1>2
    <3> QED
      BY <2>3, <3>1
  <2>5. \A d \in Returned : \E i \in 1 .. l : f[i] = d
    BY <1>3
  <2> HIDE DEF f
  <2>6. f \in Injection(1 .. l, Returned)
    BY <2>2, <2>4 DEF Injection, IsInjective
  <2>7. f \in Surjection(1 .. l, Returned)
    BY <2>2, <2>5 DEF Surjection
  <2>8. Bijection(1 .. l, Returned) # {}
    BY <2>6, <2>7 DEF Bijection
  <2> QED
    BY <2>1, <2>8, FS_Bijection DEF ExistsBijection
<1> QED
  BY <1>1, <1>2, <1>3, <1>4 DEF l

\* What is near among the nodes the graph returned is what is wanted of them.
LEMMA NearIsWanted ==
  ASSUME Sound, Answered
  PROVE  \A c : c \in Near <=> c \in nodes /\ c \in Wanted
<1>1. ~ nan /\ ScopeShape(scope)
  BY DEF Answered, Sound, Asked
<1>2. nodes \subseteq Held /\ Held \subseteq Concepts
  BY Scores
<1>3. ASSUME NEW c \in nodes
      PROVE  c \in Near <=> c \in Wanted
  <2>1. ChunkMatchesScope(c, scope) <=>
          /\ scope.kind # "global" => c.alias = scope.alias
          /\ scope.kind = "path" => InDirectory(c.path, scope.sub)
    BY <1>1, <1>2, ScopeMeans
  <2>2. c \in Near <=> ChunkMatchesScope(c, scope) /\ score[c] >= ask.min
    BY <1>1 DEF Near, Candidates
  <2>3. c \in Held
    BY <1>2
  <2> QED
    BY <2>1, <2>2, <2>3 DEF Wanted
<1>4. Near \subseteq nodes
  BY DEF Near, Candidates
<1> QED
  BY <1>3, <1>4

\* Whatever nodes the graph returns: what is answered is in scope and above the
\* threshold, nothing is answered twice, the list descends and is no longer than
\* asked for (hnsw.go:141-164, search.go:91-96).
THEOREM OnlyTheWantedIsAnswered == Spec => []AnswersAreWanted
<1>1. ASSUME Sound PROVE AnswersAreWanted
  <2> SUFFICES ASSUME Answered
               PROVE  /\ Returned \subseteq Wanted
                      /\ Cardinality(Returned) = Len(out)
                      /\ \A i, j \in DOMAIN out : i < j => score[out[i]] >= score[out[j]]
                      /\ Len(out) <= Max({topK, 0})
    BY DEF AnswersAreWanted
  <2> USE <1>1
  <2>1. Returned \subseteq Wanted
    BY ReturnedOnce, NearIsWanted
  <2>2. \A i, j \in DOMAIN out : i < j => score[out[i]] >= score[out[j]]
    BY ReturnedOnce DEF Best
  <2>3. Len(out) <= Max({topK, 0})
    <3>1. topK \in Int
      BY DEF Sound
    <3>2. Max({topK, 0}) = IF topK >= 0 THEN topK ELSE 0
      BY <3>1, MaxOfTwo
    <3>3. Len(out) \in Nat /\ (Len(out) = 0 \/ Len(out) <= topK)
      BY ReturnedOnce DEF Best
    <3> QED
      BY <3>1, <3>2, <3>3
  <2> QED
    BY <2>1, <2>2, <2>3, ReturnedOnce
<1> QED
  BY <1>1, StagesAreSound, PTL

\* A wanted chunk that a full answer of near ones leaves out, or that the graph
\* left out, is no nearer than one returned.
LEMMA LeftOutIsFurther ==
  ASSUME Sound, Answered, GraphWasExact, NEW c \in Returned, NEW d \in Wanted \ Returned
  PROVE  score[c] >= score[d]
<1>1. PICK i \in 1 .. Len(out) : out[i] = c
  BY ReturnedOnce
<1>2. c \in nodes /\ d \in Held
  BY ReturnedOnce, NearIsWanted DEF Wanted
<1>3. CASE d \in nodes
  <2>1. d \in Near /\ \A j \in 1 .. Len(out) : out[j] # d
    BY <1>3, ReturnedOnce, NearIsWanted
  <2> QED
    BY <1>1, <2>1, ReturnedOnce DEF Best
<1>4. CASE d \notin nodes
  <2>1. topK > 0
    <3>1. Len(out) \in Nat /\ Len(out) # 0 /\ topK \in Int
      BY <1>1, ReturnedOnce DEF Sound
    <3>2. Len(out) <= topK
      BY <3>1, ReturnedOnce DEF Best
    <3> QED
      BY <3>1, <3>2
  <2> QED
    BY <1>2, <1>4, <2>1 DEF GraphWasExact
<1> QED
  BY <1>3, <1>4

\* The over-fetch, the filter, the sort and the cut pass over no chunk for one
\* that is further away, unless the graph did (hnsw.go:128-164).
THEOREM NoNearerIsPassedOver == Spec => []NoneNearerLeftOut
<1>1. ASSUME Sound PROVE NoneNearerLeftOut
  BY <1>1, LeftOutIsFurther DEF NoneNearerLeftOut
<1> QED
  BY <1>1, StagesAreSound, PTL

\* Nothing is missing: the graph returned all there is, or as many as the caller
\* asked for and nothing was filtered by scope.
LEMMA AllThatFit ==
  ASSUME Sound, Answered, GraphWasExact, topK > 0,
         scope.kind # "global" => Cardinality(Held) <= topK * Oversample
  PROVE  Returned = Wanted \/ (Len(out) = topK /\ topK <= Cardinality(Wanted))
<1>1. topK \in Int /\ FetchK \in Int /\ Cardinality(Held) \in Nat /\ Cardinality(nodes) \in Nat
  <2>1. topK \in Int /\ Oversample \in Int
    BY ConstantsAssumption DEF Sound
  <2> QED
    BY <2>1, Scores, FS_CardinalityType DEF FetchK
<1>2. /\ IsFiniteSet(Wanted) /\ Cardinality(Wanted) \in Nat
      /\ Returned \subseteq Wanted /\ Len(out) <= Cardinality(Wanted)
  <2>1. Wanted \subseteq Held /\ IsFiniteSet(Held)
    BY Scores DEF Wanted
  <2>2. IsFiniteSet(Wanted)
    BY <2>1, FS_Subset
  <2>3. Returned \subseteq Wanted
    BY ReturnedOnce, NearIsWanted
  <2> QED
    BY <2>2, <2>3, ReturnedOnce, FS_Subset, FS_CardinalityType
<1>3. CASE \E d \in Near : d \notin Returned
  <2>1. PICK d \in Near : \A i \in 1 .. Len(out) : out[i] # d
    BY <1>3, ReturnedOnce
  <2>2. Len(out) = topK
    BY <2>1, ReturnedOnce DEF Best
  <2> QED
    BY <1>2, <2>2
<1>4. CASE \A d \in Near : d \in Returned
  <2>1. Returned = Near
    BY <1>4, ReturnedOnce
  <2>2. Cardinality(nodes) = IF FetchK <= Cardinality(Held) THEN FetchK ELSE Cardinality(Held)
    BY <1>1, MinOfTwo DEF GraphWasExact
  <2>3. CASE nodes = Held
    <3>1. Wanted = Near
      BY <2>3, NearIsWanted DEF Wanted
    <3> QED
      BY <2>1, <3>1
  <2>4. CASE nodes # Held
    <3>1. Cardinality(nodes) # Cardinality(Held)
      BY <2>4, Scores, FS_Subset
    <3>2. scope.kind = "global" /\ Cardinality(nodes) = topK
      BY <1>1, <2>2, <3>1 DEF FetchK
    <3>3. CASE \A e \in nodes : score[e] >= ask.min
      <4>1. Near = nodes
        <5>1. \A e \in nodes : e \in Held /\ e \in Concepts
          BY Scores
        <5> QED
          BY <3>2, <3>3, <5>1, NearIsWanted DEF Wanted
      <4> QED
        BY <1>2, <2>1, <3>2, <4>1, ReturnedOnce
    <3>4. CASE \E e \in nodes : ~ (score[e] >= ask.min)
      <4>1. PICK e \in nodes : ~ (score[e] >= ask.min)
        BY <3>4
      <4>2. ASSUME NEW d \in Wanted PROVE d \in nodes
        <5>1. SUFFICES ASSUME d \notin nodes PROVE FALSE
          OBVIOUS
        <5>2. d \in Held /\ score[d] >= ask.min /\ score[e] >= score[d]
          BY <5>1 DEF Wanted, GraphWasExact
        <5>3. score[d] \in Nat /\ score[e] \in Nat /\ ask.min \in Nat
          BY <5>2, Scores DEF Sound, Asked, Answered
        <5> QED
          BY <4>1, <5>2, <5>3
      <4>3. Wanted = Near
        BY <4>2, NearIsWanted
      <4> QED
        BY <2>1, <4>3
    <3> QED
      BY <3>3, <3>4
  <2> QED
    BY <2>3, <2>4
<1> QED
  BY <1>3, <1>4

\* As many as asked for, if there are as many, while the over-fetch covers the
\* store (hnsw.go:115-116, 128-131).
THEOREM NothingIsMissing == Spec => []FullWhenItFits
<1>1. ASSUME Sound PROVE FullWhenItFits
  <2> SUFFICES ASSUME Answered, GraphWasExact,
                      scope.kind # "global" => Cardinality(Held) <= topK * Oversample
               PROVE  Len(out) = Min({Max({topK, 0}), Cardinality(Wanted)})
    BY DEF FullWhenItFits
  <2> USE <1>1
  <2>1. /\ topK \in Int /\ Len(out) \in Nat /\ Cardinality(Wanted) \in Nat
        /\ Len(out) = 0 \/ Len(out) <= topK
    <3>1. Wanted \subseteq Held
      BY DEF Wanted
    <3>2. IsFiniteSet(Wanted)
      BY <3>1, Scores, FS_Subset
    <3> QED
      BY <3>2, ReturnedOnce, FS_CardinalityType DEF Sound, Best
  <2>2. Max({topK, 0}) = IF topK >= 0 THEN topK ELSE 0
    BY <2>1, MaxOfTwo
  <2> DEFINE m == Max({topK, 0})
  <2>3. Min({m, Cardinality(Wanted)}) = IF m <= Cardinality(Wanted) THEN m ELSE Cardinality(Wanted)
    <3>1. m \in Int
      BY <2>1, <2>2
    <3> HIDE DEF m
    <3> QED
      BY <2>1, <3>1, MinOfTwo
  <2>4. CASE topK <= 0
    BY <2>1, <2>2, <2>3, <2>4
  <2>5. CASE topK > 0
    <3>1. Returned = Wanted \/ (Len(out) = topK /\ topK <= Cardinality(Wanted))
      BY <2>5, AllThatFit
    <3>2. Cardinality(Returned) = Len(out)
      BY ReturnedOnce
    <3> QED
      BY <2>1, <2>2, <2>3, <2>5, <3>1, <3>2
  <2> QED
    BY <2>1, <2>4, <2>5
<1> QED
  BY <1>1, StagesAreSound, PTL
-----------------------------------------------------------------------------
\* The aliases a reference can name.  HandleBundleAdd refuses one with a colon
\* (handlers.go:53), the CLI takes any, and neither refuses the empty one.
PlainAliases ==
  \A c \in Concepts : c.alias # << >> /\ \A i \in 1 .. Len(c.alias) : c.alias[i] # ":"

\* Where no alias has a colon, the Source of every result is a reference that
\* leads back to its bundle and its path, whatever colons the path has
\* (hnsw.go:169, domain/chunk.go:22, handlers.go:423-433).
THEOREM SourceIsAReference == PlainAliases => (Spec => []SourceLeadsBack)
<1> SUFFICES ASSUME PlainAliases PROVE Spec => []SourceLeadsBack
  OBVIOUS
<1>1. ASSUME Sound PROVE SourceLeadsBack
  <2> SUFFICES ASSUME NEW c \in Returned
               PROVE  ParseConceptRef(Source(c)) =
                        [kind |-> "ref", alias |-> c.alias, path |-> c.path]
    BY DEF SourceLeadsBack
  <2>1. c \in Concepts
    <3>1. out \in Seq(nodes)
      BY <1>1 DEF Sound
    <3>2. DOMAIN out = 1 .. Len(out) /\ \A i \in 1 .. Len(out) : out[i] \in nodes
      BY <3>1, LenProperties, ElementOfSeq
    <3>3. c \in nodes
      BY <3>2 DEF Returned, ToSet
    <3> QED
      BY <1>1, <3>3, Scores
  <2>2. /\ c.alias \in Text /\ c.path \in Text /\ c.alias # << >>
        /\ \A i \in 1 .. Len(c.alias) : c.alias[i] # ":"
    BY <2>1, ConstantsAssumption DEF Text, PlainAliases
  <2>3. Len(c.alias) \in Nat /\ Len(c.alias) # 0
    BY <2>2, LenProperties, EmptySeq DEF Text
  <2> DEFINE s == c.alias \o Colon \o c.path
  <2>4. FirstColon(s) = Len(c.alias) + 1 /\ Before(s) = c.alias /\ After(s) = c.path
    BY <2>2, CutAtColon
  <2>5. Source(c) = s
    BY DEF Source
  <2> HIDE DEF s
  <2> QED
    BY <2>3, <2>4, <2>5 DEF ParseConceptRef
<1> QED
  BY <1>1, StagesAreSound, PTL
=============================================================================
