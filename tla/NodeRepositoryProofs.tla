------------------------ MODULE NodeRepositoryProofs ------------------------
(***************************************************************************)
(* Proofs about NodeRepository, PathResolver and Document, for any tree,    *)
(* any links in it, any edits by hand and any spellings of the callers: a   *)
(* write changes nothing outside its bundle, what was put is read back,     *)
(* listings, types and broken links are those of the documents, and after a *)
(* Put its index can be written.                                            *)
(*                                                                         *)
(* Frame is the invariant under all of them: what the tree is, and what a   *)
(* call between two steps holds. Inside adds to it that the path a write    *)
(* has checked is still inside the bundle, Kept that what was put is in the *)
(* file, Plainly that no directory has the name of a reserved file.         *)
(***************************************************************************)
EXTENDS NodeRepository, FiniteSetTheorems, SequenceTheorems,
        WellFoundedInduction, TLAPS

-----------------------------------------------------------------------------
(* Going along a sequence. The library's induction takes an operator, so it *)
(* is stated here for sets: what holds is the set of the numbers, or of the *)
(* sequences, it holds for.                                                 *)

LEMMA Least ==
  ASSUME NEW C \in SUBSET Nat, C # {}
  PROVE  \E i \in C : \A j \in C : i <= j
<1> DEFINE less == OpToRel(<, Nat)
<1>1. \A i, j \in Nat : i < j => << i, j >> \in less
  BY DEF OpToRel
<1>2. PICK i \in C : \A j \in C : << j, i >> \notin less
  <2> HIDE DEF less
  <2> QED
    BY NatLessThanWellFounded, WFMin DEF less
<1>3. ASSUME NEW j \in C PROVE i <= j
  <2>1. i \in Nat /\ j \in Nat /\ << j, i >> \notin less
    BY <1>2
  <2> HIDE DEF less
  <2> QED
    BY <1>1, <2>1
<1> QED
  BY <1>3

\* What holds at 0 and one further wherever it holds, holds up to n.
LEMMA UpTo ==
  ASSUME NEW n \in Nat, NEW T, 0 \in T, \A i \in 0 .. n - 1 : i \in T => i + 1 \in T
  PROVE  \A i \in 0 .. n : i \in T
<1> SUFFICES ASSUME { i \in 0 .. n : i \notin T } # {} PROVE FALSE
  OBVIOUS
<1>1. PICK i \in { k \in 0 .. n : k \notin T } : \A j \in { k \in 0 .. n : k \notin T } : i <= j
  <2>1. { i \in 0 .. n : i \notin T } \in SUBSET Nat
    OBVIOUS
  <2> QED
    BY <2>1, Least
<1>2. i # 0 /\ i - 1 \in 0 .. n - 1
  BY <1>1
<1>3. i - 1 \in T
  BY <1>1, <1>2
<1> QED
  BY <1>1, <1>2, <1>3

\* F takes a place and a name to the next place; g goes n names along s.
Goes(g, n, F, start, s) == g[0] = start /\ \A i \in 1 .. n : g[i] = F[<< g[i - 1], s[i] >>]

LEMMA Walk ==
  ASSUME NEW A, NEW C, NEW F, F \in [A \X C -> A], NEW start \in A, NEW s \in Seq(C)
  PROVE  \E g \in [0 .. Len(s) -> A] : Goes(g, Len(s), F, start, s)
<1> DEFINE T == { n \in 0 .. Len(s) : \E g \in [0 .. n -> A] : Goes(g, n, F, start, s) }
<1>1. Len(s) \in Nat /\ \A i \in 1 .. Len(s) : s[i] \in C
  BY LenProperties
<1>2. 0 \in T
  <2> DEFINE g == [i \in 0 .. 0 |-> start]
  <2>1. g \in [0 .. 0 -> A] /\ Goes(g, 0, F, start, s)
    BY DEF Goes
  <2>2. \E h \in [0 .. 0 -> A] : Goes(h, 0, F, start, s)
    <3> HIDE DEF g
    <3> QED
      BY <2>1
  <2>3. 0 \in 0 .. Len(s)
    BY <1>1
  <2> QED
    BY <2>2, <2>3, Zenon
<1>3. ASSUME NEW n \in 0 .. Len(s) - 1, n \in T PROVE n + 1 \in T
  <2>1. PICK g \in [0 .. n -> A] : Goes(g, n, F, start, s)
    BY <1>3
  <2> DEFINE next == F[<< g[n], s[n + 1] >>]
             h == [i \in 0 .. n + 1 |-> IF i = n + 1 THEN next ELSE g[i]]
  <2>2. next \in A
    <3>1. g[n] \in A /\ s[n + 1] \in C
      BY <1>1
    <3> QED
      BY <3>1
  <2>3. h \in [0 .. n + 1 -> A]
    BY <2>2
  <2>4. h[0] = start /\ h[n + 1] = next /\ \A i \in 0 .. n : h[i] = g[i]
    BY <2>1 DEF Goes
  <2>5. ASSUME NEW i \in 1 .. n + 1 PROVE h[i] = F[<< h[i - 1], s[i] >>]
    <3>1. CASE i = n + 1
      <4>1. h[i - 1] = g[n]
        BY <2>4, <3>1
      <4> QED
        BY <2>4, <3>1, <4>1
    <3>2. CASE i \in 1 .. n
      <4>1. h[i] = g[i] /\ h[i - 1] = g[i - 1]
        BY <2>4, <3>2
      <4> QED
        BY <2>1, <3>2, <4>1 DEF Goes
    <3> QED
      BY <3>1, <3>2
  <2> HIDE DEF h
  <2>6. Goes(h, n + 1, F, start, s)
    BY <2>4, <2>5 DEF Goes
  <2>7. n + 1 \in 0 .. Len(s)
    BY <1>1
  <2> QED
    BY <2>3, <2>6, <2>7
<1>4. Len(s) \in T
  <2> HIDE DEF T
  <2>1. \A i \in 0 .. Len(s) : i \in T
    BY <1>1, <1>2, <1>3, UpTo
  <2> QED
    BY <1>1, <2>1
<1> QED
  BY <1>4

\* There is one walk, as far as it goes.
LEMMA OneWalk ==
  ASSUME NEW n \in Nat, NEW F, NEW start, NEW s, NEW g, NEW h,
         Goes(g, n, F, start, s), Goes(h, n, F, start, s)
  PROVE  \A i \in 0 .. n : g[i] = h[i]
<1> DEFINE T == { i \in 0 .. n : g[i] = h[i] }
<1>1. 0 \in T
  BY DEF Goes
<1>2. ASSUME NEW i \in 0 .. n - 1, i \in T PROVE i + 1 \in T
  <2>1. i + 1 \in 1 .. n /\ (i + 1) - 1 = i
    OBVIOUS
  <2>2. g[i + 1] = F[<< g[i], s[i + 1] >>] /\ h[i + 1] = F[<< h[i], s[i + 1] >>]
    BY <2>1 DEF Goes
  <2> QED
    BY <1>2, <2>1, <2>2
<1> HIDE DEF T
<1>3. \A i \in 0 .. n : i \in T
  BY <1>1, <1>2, UpTo
<1> QED
  BY <1>3 DEF T

\* What holds of the empty sequence, and of a longer one if of a shorter one.
LEMMA AllSequences ==
  ASSUME NEW S, NEW T, << >> \in T, \A p \in Seq(S), c \in S : p \in T => Append(p, c) \in T
  PROVE  \A p \in Seq(S) : p \in T
<1> SUFFICES ASSUME NEW p \in Seq(S) PROVE p \in T
  OBVIOUS
<1> DEFINE U == { i \in 0 .. Len(p) : SubSeq(p, 1, i) \in T }
<1>1. Len(p) \in Nat /\ \A i \in 1 .. Len(p) : p[i] \in S
  BY LenProperties
<1>2. 0 \in U
  <2>1. SubSeq(p, 1, 0) = << >>
    BY SubSeqEmpty
  <2>2. 0 \in 0 .. Len(p)
    BY <1>1
  <2> QED
    BY <2>1, <2>2, Zenon
<1>3. ASSUME NEW i \in 0 .. Len(p) - 1, i \in U PROVE i + 1 \in U
  <2>1. SubSeq(p, 1, i) \in Seq(S)
    BY <1>1, SubSeqProperties
  <2>2. SubSeq(p, 1, i + 1) = Append(SubSeq(p, 1, i), p[i + 1])
    <3>1. i + 1 \in 1 .. Len(p) /\ 1 \in 1 .. Len(p) /\ (i + 1) - 1 = i
      BY <1>1
    <3>2. SubSeq(p, 1, i + 1) = SubSeq(p, 1, i) \o << p[i + 1] >>
      BY <3>1, SubSeqRecursiveSecond
    <3> QED
      BY <1>1, <2>1, <3>1, <3>2, AppendIsConcat
  <2>3. SubSeq(p, 1, i) \in T /\ p[i + 1] \in S /\ i + 1 \in 0 .. Len(p)
    BY <1>1, <1>3
  <2>4. SubSeq(p, 1, i + 1) \in T
    BY <2>1, <2>2, <2>3, Zenon
  <2> QED
    BY <2>3, <2>4, Zenon
<1>4. Len(p) \in U
  <2> HIDE DEF U
  <2>1. \A i \in 0 .. Len(p) : i \in U
    BY <1>1, <1>2, <1>3, UpTo
  <2>2. Len(p) \in 0 .. Len(p)
    BY <1>1
  <2> QED
    BY <2>1, <2>2, Zenon
<1>5. SubSeq(p, 1, Len(p)) \in T
  BY <1>4, Zenon
<1> QED
  BY <1>5, SubSeqFull

\* The front and the last name of a path.
LEMMA FrontAndLast ==
  ASSUME NEW S, NEW p \in Seq(S), p # << >>
  PROVE  /\ Front(p) \in Seq(S) /\ Last(p) \in S /\ p = Append(Front(p), Last(p))
         /\ Len(Front(p)) = Len(p) - 1 /\ Len(p) \in Nat \ {0}
<1>1. PICK q \in Seq(S), c \in S : p = Append(q, c)
  BY SequenceEmptyOrAppend
<1>2. Len(p) = Len(q) + 1 /\ Len(q) \in Nat /\ p[Len(q) + 1] = c /\ \A i \in 1 .. Len(q) : p[i] = q[i]
  BY <1>1, AppendProperties, LenProperties
<1>3. \A i \in 1 .. Len(q) : p[i] \in S
  BY <1>2, ElementOfSeq
<1>4. SubSeq(p, 1, Len(q)) = q
  <2>1. /\ SubSeq(p, 1, Len(q)) \in Seq(S) /\ Len(SubSeq(p, 1, Len(q))) = Len(q)
        /\ \A i \in 1 .. Len(q) : SubSeq(p, 1, Len(q))[i] = p[i]
    BY <1>2, <1>3, SubSeqProperties
  <2> QED
    BY <1>2, <2>1, SeqEqual
<1>5. Front(p) = q /\ Last(p) = c
  BY <1>2, <1>4 DEF Front, Last
<1> QED
  BY <1>1, <1>2, <1>5

LEMMA FrontOfAppend ==
  ASSUME NEW S, NEW p \in Seq(S), NEW c \in S
  PROVE  Front(Append(p, c)) = p /\ Last(Append(p, c)) = c
<1>1. Append(p, c) \in Seq(S) /\ Append(p, c) # << >>
  BY AppendProperties
<1>2. LET q == Append(p, c) IN
        Front(q) \in Seq(S) /\ Last(q) \in S /\ q = Append(Front(q), Last(q))
  BY <1>1, FrontAndLast
<1> QED
  BY <1>2, AppendInjective

-----------------------------------------------------------------------------
(* Where a path leads.                                                      *)

LEMMA LinksAreReal ==
  /\ \A l \in Links : l.at \in Paths /\ l.to \in Paths
  /\ \A l, m \in Links : ~IsPrefix(l.at, m.to)
<1>1. ASSUME NEW p \in DOMAIN Tree, Tree[p].kind = "link"
      PROVE  p \in Paths /\ Tree[p].to \in Paths
  BY <1>1, ConstantsAssumption DEF IsTree, IsNode
<1>2. ASSUME NEW e \in Hands, "gone" \notin DOMAIN e /\ e.node.kind = "link"
      PROVE  e.path \in Paths /\ e.node.to \in Paths
  BY <1>2, ConstantsAssumption DEF IsNode
<1> QED
  BY <1>1, <1>2, ConstantsAssumption DEF Links

\* The links of a tree are among those there may be.
Linked(f) ==
  \A p \in DOMAIN f : f[p].kind = "link" => [at |-> p, to |-> f[p].to] \in Links

LEMMA EnteredIsAPath ==
  ASSUME NEW f, Linked(f), NEW p \in Paths, NEW c \in Names
  PROVE  Entered(f, p, c) \in Paths
<1>1. Append(p, c) \in Paths
  BY AppendProperties DEF Paths
<1>2. CASE IsKind(f, Append(p, c), "link")
  <2>1. [at |-> Append(p, c), to |-> f[Append(p, c)].to] \in Links
    BY <1>2 DEF IsKind, Linked
  <2>2. f[Append(p, c)].to \in Paths
    BY <2>1, LinksAreReal
  <2> QED
    BY <1>2, <2>2 DEF Entered
<1> QED
  BY <1>1, <1>2 DEF Entered

\* Follow is what it is defined to be: the end of a walk along the path.
LEMMA FollowWalks ==
  ASSUME NEW f, Linked(f), NEW p \in Paths
  PROVE  \E g \in [0 .. Len(p) -> Paths] :
           /\ g[0] = << >> /\ g[Len(p)] = Follow(f, p)
           /\ \A i \in 1 .. Len(p) : g[i] = Entered(f, g[i - 1], p[i])
<1> DEFINE F == [x \in Paths \X Names |-> Entered(f, x[1], x[2])]
           body(g) == [i \in 0 .. Len(p) |-> IF i = 0 THEN << >> ELSE Entered(f, g[i - 1], p[i])]
           at == CHOOSE g : g = body(g)
<1>1. Len(p) \in Nat /\ \A i \in 1 .. Len(p) : p[i] \in Names
  BY LenProperties DEF Paths
<1>2. \A q \in Paths, c \in Names : F[<< q, c >>] = Entered(f, q, c)
  OBVIOUS
<1>3. F \in [Paths \X Names -> Paths]
  <2>1. \A q \in Paths, c \in Names : Entered(f, q, c) \in Paths
    BY EnteredIsAPath
  <2> QED
    BY <2>1
<1>4. << >> \in Paths
  BY EmptySeq DEF Paths
<1>5. PICK g \in [0 .. Len(p) -> Paths] : Goes(g, Len(p), F, << >>, p)
  <2> HIDE DEF F
  <2>1. p \in Seq(Names)
    BY DEF Paths
  <2> QED
    BY <1>3, <1>4, <2>1, Walk
<1>6. \A i \in 1 .. Len(p) : g[i] = Entered(f, g[i - 1], p[i])
  <2> SUFFICES ASSUME NEW i \in 1 .. Len(p) PROVE g[i] = Entered(f, g[i - 1], p[i])
    OBVIOUS
  <2>1. g[i - 1] \in Paths /\ p[i] \in Names
    BY <1>1
  <2> HIDE DEF F
  <2> QED
    BY <1>2, <1>5, <2>1 DEF Goes
<1>7. g[0] = << >> /\ g = body(g)
  BY <1>1, <1>5, <1>6 DEF Goes
<1>8. at = body(at)
  <2> HIDE DEF body
  <2> QED
    BY <1>7
<1>9. Follow(f, p) = at[Len(p)]
  BY DEF Follow
<1>10. /\ at[0] = << >> /\ DOMAIN at = 0 .. Len(p)
       /\ \A i \in 1 .. Len(p) : at[i] = Entered(f, at[i - 1], p[i])
  <2> HIDE DEF at
  <2> QED
    BY <1>1, <1>8
<1>11. \A i \in 0 .. Len(p) : at[i] = g[i]
  <2> HIDE DEF at, body
  <2> DEFINE T == { i \in 0 .. Len(p) : at[i] = g[i] }
  <2>1. 0 \in T
    BY <1>1, <1>7, <1>10
  <2>2. ASSUME NEW i \in 0 .. Len(p) - 1, i \in T PROVE i + 1 \in T
    <3>1. i + 1 \in 1 .. Len(p) /\ (i + 1) - 1 = i /\ at[i] = g[i]
      BY <1>1, <2>2
    <3>2. at[i + 1] = Entered(f, at[i], p[i + 1]) /\ g[i + 1] = Entered(f, g[i], p[i + 1])
      BY <1>6, <1>10, <3>1
    <3> QED
      BY <1>1, <3>1, <3>2
  <2> HIDE DEF T
  <2>3. \A i \in 0 .. Len(p) : i \in T
    BY <1>1, <2>1, <2>2, UpTo
  <2> QED
    BY <2>3 DEF T
<1> QED
  <2> HIDE DEF at, body
  <2>1. g[Len(p)] = Follow(f, p)
    BY <1>1, <1>9, <1>11
  <2> QED
    BY <1>6, <1>7, <2>1

LEMMA FollowIsAPath ==
  ASSUME NEW f, Linked(f), NEW p \in Paths
  PROVE  Follow(f, p) \in Paths
<1>1. Len(p) \in Nat
  BY LenProperties DEF Paths
<1> QED
  BY <1>1, FollowWalks

LEMMA FollowNil ==
  ASSUME NEW f, Linked(f)
  PROVE  << >> \in Paths /\ Follow(f, << >>) = << >>
<1>1. << >> \in Paths /\ Len(<< >>) = 0
  BY EmptySeq DEF Paths
<1> QED
  BY <1>1, FollowWalks

LEMMA FollowAppend ==
  ASSUME NEW f, Linked(f), NEW p \in Paths, NEW c \in Names
  PROVE  Append(p, c) \in Paths /\ Follow(f, Append(p, c)) = Entered(f, Follow(f, p), c)
<1> DEFINE q == Append(p, c)
           F == [x \in Paths \X Names |-> Entered(f, x[1], x[2])]
<1>1. /\ Len(p) \in Nat /\ \A i \in 1 .. Len(p) : p[i] \in Names
      /\ q \in Paths /\ Len(q) = Len(p) + 1 /\ q[Len(p) + 1] = c
      /\ \A i \in 1 .. Len(p) : q[i] = p[i]
  BY LenProperties, AppendProperties DEF Paths
<1> HIDE DEF q
<1>2. \A r \in Paths, d \in Names : F[<< r, d >>] = Entered(f, r, d)
  OBVIOUS
<1> HIDE DEF F
<1>3. PICK g \in [0 .. Len(p) -> Paths] :
           /\ g[0] = << >> /\ g[Len(p)] = Follow(f, p)
           /\ \A i \in 1 .. Len(p) : g[i] = Entered(f, g[i - 1], p[i])
  BY FollowWalks
<1>4. PICK h \in [0 .. Len(q) -> Paths] :
           /\ h[0] = << >> /\ h[Len(q)] = Follow(f, q)
           /\ \A i \in 1 .. Len(q) : h[i] = Entered(f, h[i - 1], q[i])
  <2>1. q \in Paths
    BY <1>1
  <2> QED
    BY <2>1, FollowWalks, ZenonT(60)
<1>5. Goes(g, Len(p), F, << >>, p)
  <2> SUFFICES ASSUME NEW i \in 1 .. Len(p) PROVE g[i] = F[<< g[i - 1], p[i] >>]
    BY <1>3 DEF Goes
  <2>1. i - 1 \in 0 .. Len(p)
    BY <1>1
  <2>2. g[i - 1] \in Paths /\ p[i] \in Names
    BY <1>1, <2>1
  <2> QED
    BY <1>2, <1>3, <2>2
<1>6. Goes(h, Len(p), F, << >>, p)
  <2> SUFFICES ASSUME NEW i \in 1 .. Len(p) PROVE h[i] = F[<< h[i - 1], p[i] >>]
    BY <1>4 DEF Goes
  <2>1. i - 1 \in 0 .. Len(q) /\ i \in 1 .. Len(q) /\ q[i] = p[i]
    BY <1>1
  <2>2. h[i - 1] \in Paths /\ p[i] \in Names
    BY <1>1, <2>1
  <2> QED
    BY <1>2, <1>4, <2>1, <2>2
<1>7. g[Len(p)] = h[Len(p)]
  <2>1. Len(p) \in Nat /\ Len(p) \in 0 .. Len(p)
    BY <1>1
  <2>2. \A i \in 0 .. Len(p) : g[i] = h[i]
    BY <1>5, <1>6, <2>1, OneWalk
  <2> QED
    BY <2>1, <2>2
<1>8. h[Len(q)] = Entered(f, h[Len(p)], c)
  <2>1. Len(q) \in 1 .. Len(q) /\ Len(q) - 1 = Len(p) /\ q[Len(q)] = c
    BY <1>1
  <2> QED
    BY <1>4, <2>1
<1> QED
  BY <1>1, <1>3, <1>4, <1>7, <1>8 DEF q

\* The first names of a path, one more name added.
LEMMA FirstNames ==
  ASSUME NEW S, NEW p \in Seq(S), NEW c \in S
  PROVE  /\ Len(p) \in Nat /\ Append(p, c) \in Seq(S) /\ Len(Append(p, c)) = Len(p) + 1
         /\ SubSeq(p, 1, Len(p)) = p
         /\ SubSeq(Append(p, c), 1, Len(p) + 1) = Append(p, c)
         /\ \A i \in 0 .. Len(p) : SubSeq(Append(p, c), 1, i) = SubSeq(p, 1, i)
<1> DEFINE q == Append(p, c)
<1>1. /\ q \in Seq(S) /\ Len(q) = Len(p) + 1 /\ Len(p) \in Nat
      /\ \A i \in 1 .. Len(p) : q[i] = p[i] /\ p[i] \in S
  BY AppendProperties, LenProperties
<1> HIDE DEF q
<1>2. SubSeq(p, 1, Len(p)) = p /\ SubSeq(q, 1, Len(q)) = q
  BY <1>1, SubSeqFull
<1>3. ASSUME NEW i \in 0 .. Len(p) PROVE SubSeq(q, 1, i) = SubSeq(p, 1, i)
  <2>1. i \in Int /\ \A j \in 1 .. i : q[j] \in S /\ p[j] \in S /\ q[j] = p[j]
    BY <1>1
  <2>2. /\ SubSeq(p, 1, i) \in Seq(S) /\ Len(SubSeq(p, 1, i)) = i
        /\ \A j \in 1 .. i : SubSeq(p, 1, i)[j] = p[j]
    BY <1>1, <2>1, SubSeqProperties
  <2>3. /\ SubSeq(q, 1, i) \in Seq(S) /\ Len(SubSeq(q, 1, i)) = i
        /\ \A j \in 1 .. i : SubSeq(q, 1, i)[j] = q[j]
    BY <1>1, <2>1, SubSeqProperties
  <2> QED
    BY <2>1, <2>2, <2>3, SeqEqual
<1> QED
  BY <1>1, <1>2, <1>3 DEF q

\* No name on the path is a link.
Plain(f, p) == \A i \in 1 .. Len(p) : ~IsKind(f, SubSeq(p, 1, i), "link")

LEMMA PlainAppend ==
  ASSUME NEW f, NEW p \in Paths, NEW c \in Names
  PROVE  Plain(f, Append(p, c)) <=> Plain(f, p) /\ ~IsKind(f, Append(p, c), "link")
<1>1. /\ Len(p) \in Nat /\ Len(Append(p, c)) = Len(p) + 1
      /\ SubSeq(Append(p, c), 1, Len(p) + 1) = Append(p, c)
      /\ \A i \in 0 .. Len(p) : SubSeq(Append(p, c), 1, i) = SubSeq(p, 1, i)
  BY FirstNames DEF Paths
<1>2. 1 .. Len(Append(p, c)) = 1 .. Len(p) \cup {Len(p) + 1}
  BY <1>1
<1>3. \A i \in 1 .. Len(p) : i \in 0 .. Len(p)
  OBVIOUS
<1> QED
  BY <1>1, <1>2, <1>3 DEF Plain

\* Where a path leads there is no link any more.
LEMMA FollowIsPlain ==
  ASSUME NEW f, Linked(f), NEW p \in Paths
  PROVE  Plain(f, Follow(f, p))
<1> DEFINE T == { q \in Paths : Plain(f, Follow(f, q)) }
<1>1. << >> \in T
  <2>1. Plain(f, << >>)
    BY EmptySeq DEF Plain
  <2> QED
    BY <2>1, FollowNil
<1>2. ASSUME NEW q \in Seq(Names), NEW c \in Names, q \in T PROVE Append(q, c) \in T
  <2> DEFINE at == Follow(f, q)
  <2>1. /\ at \in Paths /\ Plain(f, at) /\ Append(q, c) \in Paths
        /\ Follow(f, Append(q, c)) = Entered(f, at, c)
    BY <1>2, FollowIsAPath, FollowAppend DEF Paths
  <2> HIDE DEF at
  <2>2. Plain(f, Entered(f, at, c))
    <3>1. CASE ~IsKind(f, Append(at, c), "link")
      BY <2>1, <3>1, PlainAppend DEF Entered
    <3>2. CASE IsKind(f, Append(at, c), "link")
      <4> DEFINE to == f[Append(at, c)].to
      <4>1. [at |-> Append(at, c), to |-> to] \in Links
        BY <3>2 DEF IsKind, Linked
      <4>2. to \in Paths /\ \A l \in Links : ~IsPrefix(l.at, to)
        BY <4>1, LinksAreReal
      <4> HIDE DEF to
      <4>3. ASSUME NEW i \in 1 .. Len(to), IsKind(f, SubSeq(to, 1, i), "link") PROVE FALSE
        <5> DEFINE r == SubSeq(to, 1, i)
        <5>1. [at |-> r, to |-> f[r].to] \in Links
          BY <4>3 DEF IsKind, Linked
        <5>2. r \in Paths /\ ~IsPrefix(r, to)
          BY <4>2, <5>1, LinksAreReal
        <5>3. Len(to) \in Nat /\ \A j \in 1 .. i : to[j] \in Names
          BY <4>2, LenProperties DEF Paths
        <5>4. Len(r) = i
          BY <5>3, SubSeqProperties
        <5>5. SubSeq(r, 1, Len(r)) = r
          BY <5>2, SubSeqFull DEF Paths
        <5> QED
          BY <5>2, <5>3, <5>4, <5>5 DEF IsPrefix
      <4> QED
        BY <3>2, <4>3 DEF Entered, Plain, to
    <3> QED
      BY <3>1, <3>2
  <2> QED
    BY <2>1, <2>2
<1> HIDE DEF T
<1>3. \A q \in Seq(Names) : q \in T
  BY <1>1, <1>2, AllSequences
<1> QED
  BY <1>3 DEF T, Paths

LEMMA ConcatAppend ==
  ASSUME NEW S, NEW p \in Seq(S), NEW q \in Seq(S), NEW c \in S
  PROVE  p \o q \in Seq(S) /\ p \o Append(q, c) = Append(p \o q, c)
<1>1. p \o q \in Seq(S) /\ << c >> \in Seq(S)
  BY ConcatProperties
<1>2. Append(q, c) = q \o << c >> /\ Append(p \o q, c) = (p \o q) \o << c >>
  BY <1>1, AppendIsConcat
<1> QED
  BY <1>1, <1>2, ConcatAssociative

\* A path goes on from where it has led, as long as no name there is a link.
LEMMA FollowOn ==
  ASSUME NEW f, Linked(f), NEW p \in Paths, NEW q \in Paths,
         Plain(f, Follow(f, p) \o q)
  PROVE  Follow(f, p \o q) = Follow(f, p) \o q
<1> DEFINE at == Follow(f, p)
           T == { r \in Paths : Plain(f, at \o r) => Follow(f, p \o r) = at \o r }
<1>1. at \in Paths
  BY FollowIsAPath
<1> HIDE DEF at
<1>2. << >> \in T
  <2>1. at \o << >> = at /\ p \o << >> = p
    BY <1>1, ConcatEmptySeq DEF Paths
  <2>2. Follow(f, p \o << >>) = at \o << >>
    BY <2>1 DEF at
  <2> QED
    BY <2>2, FollowNil
<1>3. ASSUME NEW r \in Seq(Names), NEW c \in Names, r \in T PROVE Append(r, c) \in T
  <2>1. /\ p \o r \in Paths /\ at \o r \in Paths
        /\ p \o Append(r, c) = Append(p \o r, c) /\ at \o Append(r, c) = Append(at \o r, c)
    <3>1. p \in Seq(Names) /\ at \in Seq(Names)
      BY <1>1 DEF Paths
    <3>2. p \o r \in Seq(Names) /\ p \o Append(r, c) = Append(p \o r, c)
      BY <3>1, ConcatAppend
    <3>3. at \o r \in Seq(Names) /\ at \o Append(r, c) = Append(at \o r, c)
      BY <3>1, ConcatAppend
    <3> QED
      BY <3>2, <3>3 DEF Paths
  <2>2. ASSUME Plain(f, Append(at \o r, c)) PROVE Follow(f, Append(p \o r, c)) = Append(at \o r, c)
    <3>1. Plain(f, at \o r) /\ ~IsKind(f, Append(at \o r, c), "link")
      BY <2>1, <2>2, PlainAppend
    <3>2. Follow(f, p \o r) = at \o r
      BY <1>3, <3>1
    <3>3. Follow(f, Append(p \o r, c)) = Entered(f, at \o r, c)
      <4>1. p \o r \in Paths
        BY <2>1
      <4>2. Follow(f, Append(p \o r, c)) = Entered(f, Follow(f, p \o r), c)
        BY <4>1, FollowAppend
      <4> QED
        BY <3>2, <4>2
    <3> QED
      BY <3>1, <3>3 DEF Entered
  <2>3. Append(r, c) \in Paths
    BY AppendProperties DEF Paths
  <2> QED
    BY <2>1, <2>2, <2>3
<1> HIDE DEF T
<1>4. \A r \in Seq(Names) : r \in T
  BY <1>2, <1>3, AllSequences
<1> QED
  BY <1>4 DEF T, Paths, at

LEMMA PlainLeads ==
  ASSUME NEW f, Linked(f), NEW p \in Paths, Plain(f, p)
  PROVE  Follow(f, p) = p
<1>1. << >> \in Paths /\ Follow(f, << >>) = << >> /\ << >> \o p = p
  BY FollowNil, ConcatEmptySeq DEF Paths
<1>2. Plain(f, Follow(f, << >>) \o p)
  BY <1>1
<1>3. Follow(f, << >> \o p) = Follow(f, << >>) \o p
  BY <1>1, <1>2, FollowOn
<1> QED
  BY <1>1, <1>3

\* Only the links decide where a path leads.
SameLinks(f, g) ==
  \A p : /\ IsKind(f, p, "link") <=> IsKind(g, p, "link")
         /\ IsKind(f, p, "link") => f[p].to = g[p].to

LEMMA LinksDecide ==
  ASSUME NEW f, NEW g, Linked(f), Linked(g), SameLinks(f, g), NEW p \in Paths
  PROVE  Follow(g, p) = Follow(f, p) /\ (Plain(g, p) <=> Plain(f, p))
<1> DEFINE T == { q \in Paths : Follow(g, q) = Follow(f, q) }
<1>1. << >> \in T
  BY FollowNil
<1>2. ASSUME NEW q \in Seq(Names), NEW c \in Names, q \in T PROVE Append(q, c) \in T
  <2>1. /\ Append(q, c) \in Paths
        /\ Follow(f, Append(q, c)) = Entered(f, Follow(f, q), c)
        /\ Follow(g, Append(q, c)) = Entered(g, Follow(f, q), c)
    BY <1>2, FollowAppend DEF Paths
  <2>2. Entered(f, Follow(f, q), c) = Entered(g, Follow(f, q), c)
    BY DEF Entered, SameLinks
  <2> QED
    BY <2>1, <2>2
<1> HIDE DEF T
<1>3. \A q \in Seq(Names) : q \in T
  BY <1>1, <1>2, AllSequences
<1> QED
  BY <1>3 DEF T, Paths, Plain, SameLinks

\* All that a path of the tree goes through is a directory.
LEMMA ThroughDirs ==
  ASSUME NEW f, IsTree(f), NEW p \in DOMAIN f
  PROVE  p \in Paths /\ p # << >> /\ \A i \in 1 .. Len(p) - 1 : IsKind(f, SubSeq(p, 1, i), "dir")
<1> DEFINE T == { q \in Paths : q \in DOMAIN f =>
                    \A i \in 1 .. Len(q) - 1 : IsKind(f, SubSeq(q, 1, i), "dir") }
<1>1. << >> \in T
  BY EmptySeq DEF Paths
<1>2. ASSUME NEW q \in Seq(Names), NEW c \in Names, q \in T PROVE Append(q, c) \in T
  <2>1. /\ Len(q) \in Nat /\ Append(q, c) \in Paths /\ Len(Append(q, c)) = Len(q) + 1
        /\ SubSeq(q, 1, Len(q)) = q
        /\ \A i \in 0 .. Len(q) : SubSeq(Append(q, c), 1, i) = SubSeq(q, 1, i)
    BY FirstNames DEF Paths
  <2>2. ASSUME Append(q, c) \in DOMAIN f, NEW i \in 1 .. Len(q)
        PROVE  IsKind(f, SubSeq(q, 1, i), "dir")
    <3>1. IsKind(f, q, "dir")
      <4>1. Len(Append(q, c)) > 1
        BY <2>1
      <4>2. IsKind(f, Front(Append(q, c)), "dir")
        BY <2>2, <4>1 DEF IsTree
      <4> QED
        BY <4>2, FrontOfAppend
    <3>2. CASE i = Len(q)
      BY <2>1, <3>1, <3>2
    <3>3. CASE i \in 1 .. Len(q) - 1
      BY <1>2, <3>1, <3>3 DEF IsKind
    <3>4. i = Len(q) \/ i \in 1 .. Len(q) - 1
      <4>1. Len(q) \in Nat
        BY <2>1
      <4> QED
        BY <4>1
    <3> QED
      BY <3>2, <3>3, <3>4
  <2>3. Append(q, c) \in DOMAIN f =>
          \A i \in 1 .. Len(Append(q, c)) - 1 : IsKind(f, SubSeq(Append(q, c), 1, i), "dir")
    <3>1. Len(Append(q, c)) - 1 = Len(q) /\ \A i \in 1 .. Len(q) : i \in 0 .. Len(q)
      BY <2>1
    <3> QED
      BY <2>1, <2>2, <3>1
  <2> QED
    BY <2>1, <2>3
<1> HIDE DEF T
<1>3. \A q \in Seq(Names) : q \in T
  BY <1>1, <1>2, AllSequences
<1> QED
  BY <1>3 DEF T, Paths, IsTree

-----------------------------------------------------------------------------
(* Cleaning a spelling.                                                     *)

Component == Names \cup {"", ".", ".."}

LEMMA CleanedIsAPath ==
  ASSUME NEW p \in Paths, NEW c \in Component
  PROVE  /\ Cleaned(p, c) \in Paths
         /\ c \in Names => Cleaned(p, c) = Append(p, c)
         /\ c \in {"", "."} => Cleaned(p, c) = p
<1>1. CASE c \in Names
  <2>1. c \notin {"", ".", ".."}
    BY <1>1, NamesAssumption
  <2>2. Append(p, c) \in Paths
    BY <1>1, AppendProperties DEF Paths
  <2> QED
    BY <2>1, <2>2 DEF Cleaned
<1>2. CASE c \in {"", "."}
  BY <1>2, NamesAssumption DEF Cleaned
<1>3. CASE c = ".."
  <2>1. CASE p = << >>
    BY <1>3, <2>1, NamesAssumption DEF Cleaned
  <2>2. CASE p # << >>
    <3>1. Front(p) \in Paths
      BY <2>2, FrontAndLast DEF Paths
    <3> QED
      BY <1>3, <2>2, <3>1, NamesAssumption DEF Cleaned
  <2> QED
    BY <2>1, <2>2
<1> QED
  BY <1>1, <1>2, <1>3 DEF Component

\* Clean is what it is defined to be: the end of a walk along the spelling.
LEMMA CleanWalks ==
  ASSUME NEW s \in Spellings
  PROVE  \E g \in [0 .. Len(s) -> Paths] :
           /\ g[0] = << >> /\ g[Len(s)] = Clean(s)
           /\ \A i \in 1 .. Len(s) : g[i] = Cleaned(g[i - 1], s[i])
<1> DEFINE F == [x \in Paths \X Component |-> Cleaned(x[1], x[2])]
           body(g) == [i \in 0 .. Len(s) |-> IF i = 0 THEN << >> ELSE Cleaned(g[i - 1], s[i])]
           at == CHOOSE g : g = body(g)
<1>1. Len(s) \in Nat /\ \A i \in 1 .. Len(s) : s[i] \in Component
  BY LenProperties DEF Spellings, Component
<1>2. \A q \in Paths, c \in Component : F[<< q, c >>] = Cleaned(q, c)
  OBVIOUS
<1>3. F \in [Paths \X Component -> Paths]
  <2>1. \A q \in Paths, c \in Component : Cleaned(q, c) \in Paths
    BY CleanedIsAPath
  <2> QED
    BY <2>1
<1>4. << >> \in Paths
  BY EmptySeq DEF Paths
<1>5. PICK g \in [0 .. Len(s) -> Paths] : Goes(g, Len(s), F, << >>, s)
  <2> HIDE DEF F
  <2>1. s \in Seq(Component)
    BY DEF Spellings, Component
  <2> QED
    BY <1>3, <1>4, <2>1, Walk
<1>6. \A i \in 1 .. Len(s) : g[i] = Cleaned(g[i - 1], s[i])
  <2> SUFFICES ASSUME NEW i \in 1 .. Len(s) PROVE g[i] = Cleaned(g[i - 1], s[i])
    OBVIOUS
  <2>1. g[i - 1] \in Paths /\ s[i] \in Component
    BY <1>1
  <2> HIDE DEF F
  <2> QED
    BY <1>2, <1>5, <2>1 DEF Goes
<1>7. g[0] = << >> /\ g = body(g)
  BY <1>1, <1>5, <1>6 DEF Goes
<1>8. at = body(at)
  <2> HIDE DEF body
  <2> QED
    BY <1>7
<1>9. Clean(s) = at[Len(s)]
  BY DEF Clean
<1>10. /\ at[0] = << >> /\ DOMAIN at = 0 .. Len(s)
       /\ \A i \in 1 .. Len(s) : at[i] = Cleaned(at[i - 1], s[i])
  <2> HIDE DEF at
  <2> QED
    BY <1>1, <1>8
<1>11. \A i \in 0 .. Len(s) : at[i] = g[i]
  <2> HIDE DEF at, body
  <2> DEFINE T == { i \in 0 .. Len(s) : at[i] = g[i] }
  <2>1. 0 \in T
    BY <1>1, <1>7, <1>10
  <2>2. ASSUME NEW i \in 0 .. Len(s) - 1, i \in T PROVE i + 1 \in T
    <3>1. i + 1 \in 1 .. Len(s) /\ (i + 1) - 1 = i /\ at[i] = g[i]
      BY <1>1, <2>2
    <3>2. at[i + 1] = Cleaned(at[i], s[i + 1]) /\ g[i + 1] = Cleaned(g[i], s[i + 1])
      BY <1>6, <1>10, <3>1
    <3> QED
      BY <1>1, <3>1, <3>2
  <2> HIDE DEF T
  <2>3. \A i \in 0 .. Len(s) : i \in T
    BY <1>1, <2>1, <2>2, UpTo
  <2> QED
    BY <2>3 DEF T
<1> QED
  <2> HIDE DEF at, body
  <2>1. g[Len(s)] = Clean(s)
    BY <1>1, <1>9, <1>11
  <2> QED
    BY <1>6, <1>7, <2>1

LEMMA CleanNil ==
  Clean(<< >>) = << >>
<1>1. << >> \in Spellings /\ Len(<< >>) = 0
  BY EmptySeq DEF Spellings
<1> QED
  BY <1>1, CleanWalks

LEMMA CleanIsAPath ==
  ASSUME NEW s \in Spellings
  PROVE  Clean(s) \in Paths
<1>1. Len(s) \in Nat
  BY LenProperties DEF Spellings
<1> QED
  BY <1>1, CleanWalks

LEMMA CleanAppend ==
  ASSUME NEW s \in Spellings, NEW c \in Component
  PROVE  Append(s, c) \in Spellings /\ Clean(Append(s, c)) = Cleaned(Clean(s), c)
<1> DEFINE q == Append(s, c)
           F == [x \in Paths \X Component |-> Cleaned(x[1], x[2])]
<1>1. /\ Len(s) \in Nat /\ \A i \in 1 .. Len(s) : s[i] \in Component
      /\ q \in Spellings /\ Len(q) = Len(s) + 1 /\ q[Len(s) + 1] = c
      /\ \A i \in 1 .. Len(s) : q[i] = s[i]
  <2>1. Spellings = Seq(Component) /\ s \in Seq(Component)
    BY DEF Spellings, Component
  <2> QED
    BY <2>1, LenProperties, AppendProperties
<1> HIDE DEF q
<1>2. \A r \in Paths, d \in Component : F[<< r, d >>] = Cleaned(r, d)
  OBVIOUS
<1> HIDE DEF F
<1>3. PICK g \in [0 .. Len(s) -> Paths] :
           /\ g[0] = << >> /\ g[Len(s)] = Clean(s)
           /\ \A i \in 1 .. Len(s) : g[i] = Cleaned(g[i - 1], s[i])
  BY CleanWalks
<1>4. PICK h \in [0 .. Len(q) -> Paths] :
           /\ h[0] = << >> /\ h[Len(q)] = Clean(q)
           /\ \A i \in 1 .. Len(q) : h[i] = Cleaned(h[i - 1], q[i])
  <2>1. q \in Spellings
    BY <1>1
  <2> QED
    BY <2>1, CleanWalks, ZenonT(60)
<1>5. Goes(g, Len(s), F, << >>, s)
  <2> SUFFICES ASSUME NEW i \in 1 .. Len(s) PROVE g[i] = F[<< g[i - 1], s[i] >>]
    BY <1>3 DEF Goes
  <2>1. i - 1 \in 0 .. Len(s)
    BY <1>1
  <2>2. g[i - 1] \in Paths /\ s[i] \in Component
    BY <1>1, <2>1
  <2> QED
    BY <1>2, <1>3, <2>2
<1>6. Goes(h, Len(s), F, << >>, s)
  <2> SUFFICES ASSUME NEW i \in 1 .. Len(s) PROVE h[i] = F[<< h[i - 1], s[i] >>]
    BY <1>4 DEF Goes
  <2>1. i - 1 \in 0 .. Len(q) /\ i \in 1 .. Len(q) /\ q[i] = s[i]
    BY <1>1
  <2>2. h[i - 1] \in Paths /\ s[i] \in Component
    BY <1>1, <2>1
  <2> QED
    BY <1>2, <1>4, <2>1, <2>2
<1>7. g[Len(s)] = h[Len(s)]
  <2>1. Len(s) \in Nat /\ Len(s) \in 0 .. Len(s)
    BY <1>1
  <2>2. \A i \in 0 .. Len(s) : g[i] = h[i]
    BY <1>5, <1>6, <2>1, OneWalk
  <2> QED
    BY <2>1, <2>2
<1>8. h[Len(q)] = Cleaned(h[Len(s)], c)
  <2>1. Len(q) \in 1 .. Len(q) /\ Len(q) - 1 = Len(s) /\ q[Len(q)] = c
    BY <1>1
  <2> QED
    BY <1>4, <2>1
<1> QED
  BY <1>1, <1>3, <1>4, <1>7, <1>8 DEF q

Downward == Names \cup {"", "."}

\* A path is clean, and stays where it is when what follows never goes up.
LEMMA CleanDown ==
  ASSUME NEW p \in Paths, NEW s \in Seq(Downward)
  PROVE  Clean(p \o s) = p \o Clean(s) /\ (s \in Paths => Clean(s) = s)
<1>1. Seq(Downward) \subseteq Spellings /\ Paths \subseteq Seq(Downward) /\ Downward \subseteq Component
  <2>1. ASSUME NEW t \in Seq(Downward) PROVE t \in Spellings
    BY SeqMonotonic DEF Spellings, Downward
  <2>2. ASSUME NEW t \in Paths PROVE t \in Seq(Downward)
    BY SeqMonotonic DEF Paths, Downward
  <2> QED
    BY <2>1, <2>2 DEF Component, Downward
<1>2. \A t \in Paths : Clean(t) = t
  <2> DEFINE T == { t \in Paths : Clean(t) = t }
  <2>1. << >> \in T
    BY CleanNil, EmptySeq DEF Paths
  <2>2. ASSUME NEW t \in Seq(Names), NEW c \in Names, t \in T PROVE Append(t, c) \in T
    <3>1. Append(t, c) \in Paths /\ t \in Spellings /\ t \in Paths /\ c \in Component
      BY <1>1, AppendProperties DEF Paths, Component
    <3>2. Clean(Append(t, c)) = Cleaned(t, c)
      BY <2>2, <3>1, CleanAppend
    <3> QED
      BY <3>1, <3>2, CleanedIsAPath
  <2> HIDE DEF T
  <2>3. \A t \in Seq(Names) : t \in T
    BY <2>1, <2>2, AllSequences
  <2> QED
    BY <2>3 DEF T, Paths
<1>3. \A t \in Seq(Downward) : Clean(p \o t) = p \o Clean(t)
  <2> DEFINE T == { t \in Seq(Downward) : Clean(p \o t) = p \o Clean(t) }
  <2>1. << >> \in T
    <3>1. p \o << >> = p /\ << >> \in Seq(Downward)
      BY ConcatEmptySeq, EmptySeq DEF Paths
    <3> QED
      BY <1>2, <3>1, CleanNil
  <2>2. ASSUME NEW t \in Seq(Downward), NEW c \in Downward, t \in T PROVE Append(t, c) \in T
    <3>1. /\ Append(t, c) \in Seq(Downward) /\ p \o t \in Seq(Downward)
          /\ p \o Append(t, c) = Append(p \o t, c)
      <4>1. p \in Seq(Downward)
        BY <1>1
      <4>2. p \o t \in Seq(Downward) /\ p \o Append(t, c) = Append(p \o t, c)
        BY <4>1, ConcatAppend
      <4> QED
        BY <4>2, AppendProperties
    <3>2. p \o t \in Spellings /\ t \in Spellings /\ c \in Component
      BY <1>1, <3>1
    <3>3. Clean(t) \in Paths /\ p \o Clean(t) \in Paths
      BY <3>2, CleanIsAPath, ConcatProperties DEF Paths
    <3>4. Clean(p \o Append(t, c)) = Cleaned(p \o Clean(t), c)
      <4>1. Clean(Append(p \o t, c)) = Cleaned(Clean(p \o t), c)
        BY <3>2, CleanAppend
      <4>2. Clean(p \o t) = p \o Clean(t)
        BY <2>2
      <4> QED
        BY <3>1, <4>1, <4>2
    <3>5. Clean(Append(t, c)) = Cleaned(Clean(t), c)
      BY <3>2, CleanAppend
    <3>6. Cleaned(p \o Clean(t), c) = p \o Cleaned(Clean(t), c)
      <4>1. CASE c \in Names
        <5>1. p \o Append(Clean(t), c) = Append(p \o Clean(t), c)
          <6>1. p \in Seq(Names) /\ Clean(t) \in Seq(Names)
            BY <3>3 DEF Paths
          <6> QED
            BY <4>1, <6>1, ConcatAppend
        <5> QED
          BY <3>2, <3>3, <4>1, <5>1, CleanedIsAPath
      <4>2. CASE c \in {"", "."}
        BY <3>2, <3>3, <4>2, CleanedIsAPath
      <4> QED
        BY <4>1, <4>2 DEF Downward
    <3> QED
      BY <3>1, <3>4, <3>5, <3>6
  <2> HIDE DEF T
  <2>3. \A t \in Seq(Downward) : t \in T
    BY <2>1, <2>2, AllSequences
  <2> QED
    BY <2>3 DEF T
<1> QED
  BY <1>2, <1>3

-----------------------------------------------------------------------------
(* Prefixes, and the paths the resolver lets through.                       *)

LEMMA PrefixHas ==
  ASSUME NEW S, NEW a \in Seq(S), NEW b \in Seq(S), IsPrefix(a, b)
  PROVE  /\ Len(a) \in Nat /\ Len(b) \in Nat /\ Len(a) <= Len(b)
         /\ \A i \in 1 .. Len(a) : SubSeq(a, 1, i) = SubSeq(b, 1, i)
         /\ SubSeq(b, 1, Len(a)) = a
         /\ SubSeq(b, Len(a) + 1, Len(b)) \in Seq(S)
         /\ b = a \o SubSeq(b, Len(a) + 1, Len(b))
         /\ Len(a) = Len(b) => a = b
<1>1. /\ Len(a) \in Nat /\ Len(b) \in Nat /\ Len(a) <= Len(b)
      /\ \A i \in 1 .. Len(a) : a[i] \in S
      /\ \A i \in 1 .. Len(b) : b[i] \in S
  BY LenProperties DEF IsPrefix
<1>2. SubSeq(b, 1, Len(a)) = a
  BY SubSeqFull DEF IsPrefix
<1>3. \A i \in 1 .. Len(a) : a[i] = b[i]
  BY <1>1, <1>2, SubSeqProperties
<1>4. ASSUME NEW i \in 1 .. Len(a) PROVE SubSeq(a, 1, i) = SubSeq(b, 1, i)
  <2>1. i \in Int /\ \A j \in 1 .. i : a[j] \in S /\ b[j] \in S /\ a[j] = b[j]
    BY <1>1, <1>3
  <2>2. /\ SubSeq(a, 1, i) \in Seq(S) /\ Len(SubSeq(a, 1, i)) = i
        /\ \A j \in 1 .. i : SubSeq(a, 1, i)[j] = a[j]
    BY <2>1, SubSeqProperties
  <2>3. /\ SubSeq(b, 1, i) \in Seq(S) /\ Len(SubSeq(b, 1, i)) = i
        /\ \A j \in 1 .. i : SubSeq(b, 1, i)[j] = b[j]
    BY <2>1, SubSeqProperties
  <2> QED
    BY <2>1, <2>2, <2>3, SeqEqual
<1>5. SubSeq(b, Len(a) + 1, Len(b)) \in Seq(S)
  BY <1>1, SubSeqProperties
<1>6. b = a \o SubSeq(b, Len(a) + 1, Len(b))
  <2>1. SubSeq(b, 1, Len(a)) \o SubSeq(b, Len(a) + 1, Len(b)) = SubSeq(b, 1, Len(b))
    <3>1. Len(a) \in 1 - 1 .. Len(b) /\ Len(b) \in Len(a) .. Len(b) /\ 1 \in 1 .. Len(b) + 1
      BY <1>1
    <3> QED
      BY <3>1, ConcatAdjacentSubSeq
  <2> QED
    BY <1>2, <2>1, SubSeqFull
<1>7. Len(a) = Len(b) => a = b
  BY <1>1, <1>3, SeqEqual
<1> QED
  BY <1>1, <1>2, <1>4, <1>5, <1>6, <1>7

LEMMA ConcatHasPrefix ==
  ASSUME NEW S, NEW a \in Seq(S), NEW b \in Seq(S)
  PROVE  /\ a \o b \in Seq(S) /\ Len(a \o b) = Len(a) + Len(b) /\ IsPrefix(a, a \o b)
         /\ SubSeq(a \o b, Len(a) + 1, Len(a \o b)) = b
         /\ b # << >> => a \o b # a
<1>1. /\ a \o b \in Seq(S) /\ Len(a \o b) = Len(a) + Len(b)
      /\ Len(a) \in Nat /\ Len(b) \in Nat
      /\ \A i \in 1 .. Len(a) : (a \o b)[i] = a[i] /\ a[i] \in S
      /\ \A i \in 1 .. Len(b) : (a \o b)[Len(a) + i] = b[i] /\ b[i] \in S
  BY ConcatProperties, LenProperties
<1> DEFINE s == a \o b
<1> HIDE DEF s
<1>2. \A i \in 1 .. Len(s) : s[i] \in S
  BY <1>1, LenProperties DEF s
<1>3. SubSeq(s, 1, Len(a)) = a
  <2>1. /\ SubSeq(s, 1, Len(a)) \in Seq(S) /\ Len(SubSeq(s, 1, Len(a))) = Len(a)
        /\ \A i \in 1 .. Len(a) : SubSeq(s, 1, Len(a))[i] = s[i]
    <3>1. Len(a) \in Int /\ \A i \in 1 .. Len(a) : s[i] \in S
      BY <1>1 DEF s
    <3> QED
      BY <1>1, <3>1, SubSeqProperties
  <2> QED
    BY <1>1, <2>1, SeqEqual DEF s
<1>4. SubSeq(s, Len(a) + 1, Len(s)) = b
  <2>1. Len(a) + 1 \in Int /\ Len(s) \in Int /\ \A i \in Len(a) + 1 .. Len(s) : s[i] \in S
    BY <1>1, <1>2 DEF s
  <2>2. /\ SubSeq(s, Len(a) + 1, Len(s)) \in Seq(S)
        /\ Len(SubSeq(s, Len(a) + 1, Len(s))) =
             IF Len(a) + 1 <= Len(s) THEN Len(s) - (Len(a) + 1) + 1 ELSE 0
        /\ \A i \in 1 .. Len(s) - (Len(a) + 1) + 1 :
             SubSeq(s, Len(a) + 1, Len(s))[i] = s[(Len(a) + 1) + i - 1]
    BY <2>1, SubSeqProperties
  <2>3. Len(SubSeq(s, Len(a) + 1, Len(s))) = Len(b)
    BY <1>1, <2>2 DEF s
  <2>4. ASSUME NEW i \in 1 .. Len(b) PROVE SubSeq(s, Len(a) + 1, Len(s))[i] = b[i]
    <3>1. i \in 1 .. Len(s) - (Len(a) + 1) + 1 /\ (Len(a) + 1) + i - 1 = Len(a) + i
      BY <1>1 DEF s
    <3> QED
      BY <1>1, <2>2, <3>1 DEF s
  <2> QED
    BY <2>2, <2>3, <2>4, SeqEqual
<1>5. SubSeq(a, 1, Len(a)) = a
  BY SubSeqFull
<1>6. b # << >> => s # a
  BY <1>1, EmptySeq DEF s
<1>7. Len(s) = Len(a) + Len(b) /\ s \in Seq(S)
  BY <1>1 DEF s
<1>8. IsPrefix(a, s)
  BY <1>1, <1>3, <1>5, <1>7 DEF IsPrefix
<1> QED
  BY <1>4, <1>6, <1>7, <1>8 DEF s

\* A path below one that is there, or that is not a link on the way.
LEMMA PlainPrefix ==
  ASSUME NEW f, NEW a \in Paths, NEW p \in Paths, IsPrefix(a, p), Plain(f, p)
  PROVE  Plain(f, a)
<1>1. /\ Len(a) \in Nat /\ Len(p) \in Nat /\ Len(a) <= Len(p)
      /\ \A i \in 1 .. Len(a) : SubSeq(a, 1, i) = SubSeq(p, 1, i)
  BY PrefixHas DEF Paths
<1> SUFFICES ASSUME NEW i \in 1 .. Len(a) PROVE ~IsKind(f, SubSeq(a, 1, i), "link")
  BY DEF Plain
<1>2. i \in 1 .. Len(p) /\ SubSeq(a, 1, i) = SubSeq(p, 1, i)
  BY <1>1
<1> QED
  BY <1>2 DEF Plain

LEMMA FirstNamesArePrefix ==
  ASSUME NEW S, NEW p \in Seq(S), NEW i \in 0 .. Len(p)
  PROVE  SubSeq(p, 1, i) \in Seq(S) /\ Len(SubSeq(p, 1, i)) = i /\ IsPrefix(SubSeq(p, 1, i), p)
<1>1. Len(p) \in Nat /\ i \in Int /\ \A j \in 1 .. i : p[j] \in S
  BY LenProperties
<1>2. SubSeq(p, 1, i) \in Seq(S) /\ Len(SubSeq(p, 1, i)) = i
  BY <1>1, SubSeqProperties
<1>3. SubSeq(SubSeq(p, 1, i), 1, i) = SubSeq(p, 1, i)
  BY <1>2, SubSeqFull
<1> QED
  BY <1>1, <1>2, <1>3 DEF IsPrefix

\* What is on the way to a path of the tree is there, and no link.
LEMMA OnTheWay ==
  ASSUME NEW f, IsTree(f), NEW p \in DOMAIN f, NEW a \in Paths, IsPrefix(a, p)
  PROVE  /\ a \in DOMAIN f \cup {<< >>}
         /\ a # p => Plain(f, a) /\ (a # << >> => IsKind(f, a, "dir"))
         /\ f[p].kind # "link" => Plain(f, p)
<1>1. p \in Paths /\ p # << >> /\ \A i \in 1 .. Len(p) - 1 : IsKind(f, SubSeq(p, 1, i), "dir")
  BY ThroughDirs
<1>2. /\ Len(a) \in Nat /\ Len(p) \in Nat /\ Len(a) <= Len(p) /\ (Len(a) = Len(p) => a = p)
      /\ \A i \in 1 .. Len(a) : SubSeq(a, 1, i) = SubSeq(p, 1, i)
      /\ SubSeq(p, 1, Len(a)) = a
  BY <1>1, PrefixHas DEF Paths
<1>3. a # << >> => Len(a) # 0
  BY EmptySeq DEF Paths
<1>4. ASSUME a # p, a # << >> PROVE IsKind(f, a, "dir")
  <2>1. Len(a) \in 1 .. Len(p) - 1
    BY <1>2, <1>3, <1>4
  <2> QED
    BY <1>1, <1>2, <2>1
<1>5. ASSUME a # p PROVE Plain(f, a)
  <2> SUFFICES ASSUME NEW i \in 1 .. Len(a) PROVE ~IsKind(f, SubSeq(a, 1, i), "link")
    BY DEF Plain
  <2>1. i \in 1 .. Len(p) - 1
    BY <1>2, <1>5
  <2> QED
    BY <1>1, <1>2, <2>1 DEF IsKind
<1>6. ASSUME f[p].kind # "link" PROVE Plain(f, p)
  <2> SUFFICES ASSUME NEW i \in 1 .. Len(p) PROVE ~IsKind(f, SubSeq(p, 1, i), "link")
    BY DEF Plain
  <2>1. SubSeq(p, 1, Len(p)) = p
    BY <1>1, SubSeqFull DEF Paths
  <2>2. i = Len(p) \/ i \in 1 .. Len(p) - 1
    BY <1>2
  <2> QED
    BY <1>1, <1>6, <2>1, <2>2 DEF IsKind
<1> QED
  BY <1>4, <1>5, <1>6 DEF IsKind

LEMMA JoinIsAPath ==
  ASSUME NEW p \in Paths, NEW s \in Spellings
  PROVE  p \o s \in Spellings /\ Join(p, s) \in Paths
<1>1. p \in Spellings
  BY SeqMonotonic DEF Paths, Spellings
<1>2. p \o s \in Spellings
  BY <1>1, ConcatProperties DEF Spellings
<1> QED
  BY <1>2, CleanIsAPath DEF Join

\* A last name stays the last name.
LEMMA JoinEnds ==
  ASSUME NEW p \in Paths, NEW s \in Spellings, s # << >>, Last(s) \in Names
  PROVE  /\ Front(s) \in Spellings /\ Join(p, Front(s)) \in Paths
         /\ Join(p, s) = Append(Join(p, Front(s)), Last(s))
         /\ Front(Join(p, s)) = Join(p, Front(s)) /\ Last(Join(p, s)) = Last(s)
<1>1. Spellings = Seq(Component) /\ p \in Seq(Component)
  BY SeqMonotonic DEF Paths, Spellings, Component
<1>2. Front(s) \in Spellings /\ Last(s) \in Component /\ s = Append(Front(s), Last(s))
  BY <1>1, FrontAndLast
<1>3. p \o s = Append(p \o Front(s), Last(s))
  <2>1. Front(s) \in Seq(Component)
    BY <1>1, <1>2
  <2>2. p \o Append(Front(s), Last(s)) = Append(p \o Front(s), Last(s))
    BY <1>1, <1>2, <2>1, ConcatAppend
  <2> QED
    BY <1>2, <2>2
<1>4. p \o Front(s) \in Spellings /\ Join(p, Front(s)) \in Paths
  BY <1>2, JoinIsAPath
<1>5. Clean(Append(p \o Front(s), Last(s))) = Cleaned(Clean(p \o Front(s)), Last(s))
  BY <1>2, <1>4, CleanAppend
<1>6. Join(p, s) = Cleaned(Join(p, Front(s)), Last(s))
  BY <1>3, <1>5 DEF Join
<1>7. Join(p, s) = Append(Join(p, Front(s)), Last(s))
  BY <1>2, <1>4, <1>6, CleanedIsAPath
<1>8. Front(Append(Join(p, Front(s)), Last(s))) = Join(p, Front(s))
      /\ Last(Append(Join(p, Front(s)), Last(s))) = Last(s)
  BY <1>4, FrontOfAppend DEF Paths
<1> QED
  BY <1>2, <1>4, <1>7, <1>8

\* A path the resolver lets through: below the real root, and no link on it.
LEMMA ResolvedReserved ==
  ASSUME NEW f, Linked(f), NEW root \in Paths, NEW rel \in Spellings,
         NEW p \in ResolveReserved(f, root, rel)
  PROVE  /\ Follow(f, root) \in Paths \cap (DOMAIN f \cup {<< >>})
         /\ p = Join(Follow(f, root), rel) /\ p \in Paths \ {<< >>}
         /\ Below(p, Follow(f, root)) /\ Plain(f, p)
<1> DEFINE canon == Follow(f, root)
<1>1. canon \in Paths /\ Plain(f, canon)
  BY FollowIsAPath, FollowIsPlain
<1>2. canon \in DOMAIN f \cup {<< >>}
  BY DEF ResolveReserved, canonicalRoot, Exists
<1>3. p \in containedPath(canon, rel) /\ symGuardNew(f, p, canon)
  BY DEF ResolveReserved, canonicalRoot
<1> HIDE DEF canon
<1>4. p = Join(canon, rel) /\ Below(p, canon)
  BY <1>3 DEF containedPath
<1>5. p \in Paths
  BY <1>1, <1>4, JoinIsAPath
<1>6. IsPrefix(canon, p) /\ p # canon
  BY <1>4 DEF Below, IsStrictPrefix
<1>7. /\ Len(canon) \in Nat /\ Len(p) \in Nat /\ Len(canon) <= Len(p)
      /\ \A i \in 1 .. Len(canon) : SubSeq(canon, 1, i) = SubSeq(p, 1, i)
      /\ Len(canon) = Len(p) => canon = p
  BY <1>1, <1>5, <1>6, PrefixHas DEF Paths
<1>8. p # << >>
  BY <1>6, <1>7, EmptySeq
<1>9. Plain(f, p)
  <2> SUFFICES ASSUME NEW i \in 1 .. Len(p) PROVE ~IsKind(f, SubSeq(p, 1, i), "link")
    BY DEF Plain
  <2>1. CASE i \in 1 .. Len(canon)
    <3>1. ~IsKind(f, SubSeq(canon, 1, i), "link") /\ SubSeq(canon, 1, i) = SubSeq(p, 1, i)
      BY <1>1, <1>7, <2>1 DEF Plain
    <3> QED
      BY <3>1
  <2>2. CASE i \in Len(canon) + 1 .. Len(p)
    BY <1>3, <2>2 DEF symGuardNew
  <2>3. i \in 1 .. Len(canon) \/ i \in Len(canon) + 1 .. Len(p)
    BY <1>7
  <2> QED
    BY <2>1, <2>2, <2>3
<1> QED
  BY <1>1, <1>2, <1>4, <1>5, <1>8, <1>9 DEF canon

LEMMA ResolvedNew ==
  ASSUME NEW f, NEW root, NEW rel, NEW p \in ResolveNew(f, root, rel)
  PROVE  p \in ResolveReserved(f, root, rel) /\ Last(p) \notin Reserved
BY DEF ResolveNew, ResolveReserved

-----------------------------------------------------------------------------
(* What the steps do to the tree.                                           *)

LEMMA FrontOfFirst ==
  ASSUME NEW p \in Paths, NEW i \in 1 .. Len(p)
  PROVE  /\ SubSeq(p, 1, i) \in Paths \ {<< >>} /\ Front(SubSeq(p, 1, i)) = SubSeq(p, 1, i - 1)
         /\ SubSeq(p, 1, i - 1) \in Paths
         /\ i - 1 \in 1 .. Len(p) \/ (i = 1 /\ SubSeq(p, 1, i - 1) = << >>)
<1>1. Len(p) \in Nat /\ i \in 0 .. Len(p) /\ i - 1 \in 0 .. Len(p)
  BY LenProperties DEF Paths
<1>2. /\ SubSeq(p, 1, i) \in Paths /\ Len(SubSeq(p, 1, i)) = i
      /\ SubSeq(p, 1, i - 1) \in Paths /\ Len(SubSeq(p, 1, i - 1)) = i - 1
  BY <1>1, FirstNamesArePrefix DEF Paths
<1>3. SubSeq(p, 1, i) # << >>
  BY <1>1, <1>2, EmptySeq
<1>4. \A j \in 1 .. i : SubSeq(p, 1, i)[j] = p[j] /\ p[j] \in Names
  <2>1. i \in Int /\ \A j \in 1 .. i : p[j] \in Names
    BY <1>1, LenProperties DEF Paths
  <2> QED
    BY <2>1, SubSeqProperties
<1>5. Front(SubSeq(p, 1, i)) = SubSeq(p, 1, i - 1)
  <2> DEFINE q == SubSeq(p, 1, i)
  <2>1. Front(q) = SubSeq(q, 1, i - 1)
    BY <1>2 DEF Front
  <2>2. i - 1 \in Int /\ \A j \in 1 .. i - 1 : q[j] = p[j] /\ q[j] \in Names /\ p[j] \in Names
    BY <1>1, <1>4
  <2> HIDE DEF q
  <2>3. /\ SubSeq(q, 1, i - 1) \in Seq(Names)
        /\ Len(SubSeq(q, 1, i - 1)) = IF 1 <= i - 1 THEN (i - 1) - 1 + 1 ELSE 0
        /\ \A j \in 1 .. (i - 1) - 1 + 1 : SubSeq(q, 1, i - 1)[j] = q[1 + j - 1]
    BY <2>2, SubSeqProperties
  <2>4. /\ SubSeq(p, 1, i - 1) \in Seq(Names)
        /\ Len(SubSeq(p, 1, i - 1)) = IF 1 <= i - 1 THEN (i - 1) - 1 + 1 ELSE 0
        /\ \A j \in 1 .. (i - 1) - 1 + 1 : SubSeq(p, 1, i - 1)[j] = p[1 + j - 1]
    BY <2>2, SubSeqProperties
  <2>5. \A j \in 1 .. Len(SubSeq(q, 1, i - 1)) : SubSeq(q, 1, i - 1)[j] = SubSeq(p, 1, i - 1)[j]
    BY <1>1, <2>2, <2>3, <2>4
  <2> QED
    BY <2>1, <2>3, <2>4, <2>5, SeqEqual DEF q
<1>6. i - 1 \in 1 .. Len(p) \/ (i = 1 /\ SubSeq(p, 1, i - 1) = << >>)
  <2>1. i = 1 => SubSeq(p, 1, i - 1) = << >>
    BY SubSeqEmpty
  <2> QED
    BY <1>1, <2>1
<1> QED
  BY <1>2, <1>3, <1>5, <1>6

\* One tree holds another, but for places where it has what is no link.
Extends(g, f) ==
  /\ \A p \in DOMAIN f : p \in DOMAIN g /\ (f[p].kind \in {"dir", "link"} => g[p] = f[p])
  /\ \A p \in DOMAIN g : g[p].kind = "link" => p \in DOMAIN f /\ g[p] = f[p]

LEMMA ExtendedLinks ==
  ASSUME NEW f, NEW g, Extends(g, f), Linked(f)
  PROVE  Linked(g) /\ SameLinks(f, g)
<1>1. Linked(g)
  BY DEF Extends, Linked
<1>2. SameLinks(f, g)
  BY DEF Extends, SameLinks, IsKind
<1> QED
  BY <1>1, <1>2

\* os.MkdirAll makes directories where nothing was, below directories.
LEMMA MadeIsTree ==
  ASSUME IsTree(fs), Linked(fs), NEW path \in Paths, CanMake(path)
  PROVE  /\ IsTree(Made(path)) /\ Extends(Made(path), fs)
         /\ DOMAIN Made(path) = DOMAIN fs \cup { Follow(fs, q) : q \in Missing(path) }
         /\ \A p \in DOMAIN fs : Made(path)[p] = fs[p]
         /\ \A p \in DOMAIN Made(path) \ DOMAIN fs : Made(path)[p] = Dir
<1> DEFINE D == { Follow(fs, q) : q \in Missing(path) }
           g == Made(path)
<1>1. \A x \in D : x \notin DOMAIN fs /\ x # << >>
  BY DEF Missing, Exists
<1>2. /\ DOMAIN g = DOMAIN fs \cup D
      /\ \A p \in DOMAIN fs : g[p] = fs[p]
      /\ \A p \in D : g[p] = Dir
  <2>1. g = [p \in DOMAIN fs \cup D |-> IF p \in DOMAIN fs THEN fs[p] ELSE Dir]
    BY DEF Made
  <2> HIDE DEF D, g
  <2> QED
    BY <1>1, <2>1
<1> HIDE DEF g
<1>3. ASSUME NEW x \in D
      PROVE  x \in Paths \ {<< >>} /\ (Len(x) > 1 => IsKind(g, Front(x), "dir"))
  <2>1. PICK i \in 1 .. Len(path) : x = Follow(fs, SubSeq(path, 1, i)) /\ SubSeq(path, 1, i) \in Missing(path)
    BY DEF Missing
  <2> DEFINE q == SubSeq(path, 1, i)
             q0 == SubSeq(path, 1, i - 1)
             y == Follow(fs, q0)
  <2>2. /\ q \in Paths \ {<< >>} /\ Front(q) = q0 /\ q0 \in Paths
        /\ i - 1 \in 1 .. Len(path) \/ q0 = << >>
    BY FrontOfFirst
  <2>3. y \in Paths /\ Plain(fs, y)
    BY <2>2, FollowIsAPath, FollowIsPlain
  <2>4. Last(q) \in Names
    BY <2>2, FrontAndLast DEF Paths
  <2>5. x = Append(y, Last(q))
    BY <2>1, <2>2 DEF CanMake
  <2>6. x \in Paths /\ Front(x) = y /\ Len(x) = Len(y) + 1 /\ Len(y) \in Nat
    BY <2>3, <2>4, <2>5, AppendProperties, FrontOfAppend, LenProperties DEF Paths
  <2>7. ASSUME Len(x) > 1 PROVE IsKind(g, y, "dir")
    <3>1. y # << >>
      BY <2>6, <2>7, EmptySeq
    <3>2. i - 1 \in 1 .. Len(path)
      BY <2>2, <3>1, FollowNil
    <3>3. CASE y \notin DOMAIN fs
      <4>1. q0 \in Missing(path)
        BY <3>1, <3>2, <3>3 DEF Missing, Exists
      <4> QED
        BY <1>2, <4>1 DEF IsKind, Dir
    <3>4. CASE y \in DOMAIN fs
      <4>1. SubSeq(y, 1, Len(y)) = y /\ Len(y) \in 1 .. Len(y)
        BY <2>3, <2>6, <2>7, SubSeqFull DEF Paths
      <4>2. fs[y].kind # "link"
        BY <2>3, <3>4, <4>1 DEF Plain, IsKind
      <4>3. fs[y].kind # "file"
        BY <3>2, <3>4 DEF CanMake, IsFile, IsKind
      <4>4. fs[y].kind = "dir"
        BY <3>4, <4>2, <4>3 DEF IsTree, IsNode
      <4> QED
        BY <1>2, <3>4, <4>4 DEF IsKind
    <3> QED
      BY <3>3, <3>4
  <2> QED
    BY <1>1, <2>6, <2>7
<1>4. IsTree(g)
  <2> SUFFICES ASSUME NEW p \in DOMAIN g
               PROVE  /\ p \in Paths \ {<< >>} /\ IsNode(g[p])
                      /\ Len(p) > 1 => IsKind(g, Front(p), "dir")
    BY DEF IsTree
  <2>1. CASE p \in D
    <3>1. IsNode(g[p])
      BY <1>2, <2>1 DEF IsNode, Dir
    <3> QED
      BY <1>3, <2>1, <3>1
  <2>2. CASE p \in DOMAIN fs
    BY <1>2, <2>2 DEF IsTree, IsKind
  <2> QED
    BY <1>2, <2>1, <2>2
<1>5. Extends(g, fs)
  BY <1>2 DEF Extends, Dir
<1> QED
  BY <1>2, <1>4, <1>5 DEF g

\* os.WriteFile makes or replaces one file, in a directory.
LEMMA WrittenIsTree ==
  ASSUME IsTree(fs), Linked(fs), NEW path \in Paths, CanWrite(path), NEW text
  PROVE  LET at == Follow(fs, path) g == Written(path, text) IN
         /\ IsTree(g) /\ Extends(g, fs) /\ DOMAIN g = DOMAIN fs \cup {at}
         /\ g[at] = File(text) /\ \A p \in DOMAIN fs \ {at} : g[p] = fs[p]
<1> DEFINE at == Follow(fs, path)
           g == Written(path, text)
<1>1. at \in Paths \ {<< >>} /\ Plain(fs, at)
  BY FollowIsAPath, FollowIsPlain DEF CanWrite
<1>2. ~IsKind(fs, at, "dir") /\ IsDir(fs, Front(at))
  BY DEF CanWrite
<1>3. DOMAIN g = DOMAIN fs \cup {at} /\ g[at] = File(text) /\ \A p \in DOMAIN fs \ {at} : g[p] = fs[p]
  <2>1. g = With(fs, at, File(text))
    BY DEF Written
  <2> HIDE DEF at, g
  <2> QED
    BY <2>1 DEF With
<1> HIDE DEF at, g
<1>4. /\ Front(at) \in Paths /\ Len(at) = Len(Front(at)) + 1 /\ Len(Front(at)) \in Nat
      /\ at = Append(Front(at), Last(at)) /\ Last(at) \in Names /\ Len(at) \in Nat
  BY <1>1, FrontAndLast, LenProperties DEF Paths
<1>5. ASSUME Len(at) > 1 PROVE IsKind(fs, Front(at), "dir")
  <2>1. Front(at) # << >>
    BY <1>4, <1>5, EmptySeq
  <2>2. Plain(fs, Front(at))
    <3>1. Plain(fs, Append(Front(at), Last(at)))
      BY <1>1, <1>4
    <3> QED
      BY <1>4, <3>1, PlainAppend
  <2>3. Follow(fs, Front(at)) = Front(at)
    BY <1>4, <2>2, PlainLeads
  <2> QED
    BY <1>2, <2>1, <2>3 DEF IsDir
<1>6. ~IsKind(fs, at, "link")
  <2>1. Plain(fs, Append(Front(at), Last(at)))
    BY <1>1, <1>4
  <2>2. ~IsKind(fs, Append(Front(at), Last(at)), "link")
    BY <1>4, <2>1, PlainAppend
  <2> QED
    BY <1>4, <2>2
<1>7. \A p : IsKind(fs, p, "dir") => IsKind(g, p, "dir")
  BY <1>2, <1>3 DEF IsKind
<1>8. IsTree(g)
  <2> SUFFICES ASSUME NEW p \in DOMAIN g
               PROVE  /\ p \in Paths \ {<< >>} /\ IsNode(g[p])
                      /\ Len(p) > 1 => IsKind(g, Front(p), "dir")
    BY DEF IsTree
  <2>1. CASE p = at
    <3>1. IsNode(g[p])
      BY <1>3, <2>1 DEF IsNode, File
    <3> QED
      BY <1>1, <1>5, <1>7, <2>1, <3>1
  <2>2. CASE p \in DOMAIN fs \ {at}
    BY <1>3, <1>7, <2>2 DEF IsTree
  <2> QED
    BY <1>3, <2>1, <2>2
<1>9. Extends(g, fs)
  BY <1>2, <1>3, <1>6 DEF Extends, File, IsKind
<1> QED
  BY <1>3, <1>8, <1>9 DEF at, g

\* What is left of a tree when a path is taken away with all below it, and what
\* is put there instead.
Rest(edit) == [ p \in { q \in DOMAIN fs : ~IsPrefix(edit.path, q) } |-> fs[p] ]
Edited(edit) ==
  IF "gone" \in DOMAIN edit THEN Rest(edit) ELSE With(Rest(edit), edit.path, edit.node)

LEMMA EditedIsTree ==
  ASSUME IsTree(fs), Linked(fs), NEW edit \in Hands, IsKind(fs, Front(edit.path), "dir")
  PROVE  /\ IsTree(Edited(edit)) /\ Linked(Edited(edit))
         /\ \A p \in DOMAIN fs : ~IsPrefix(edit.path, p) =>
              p \in DOMAIN Edited(edit) /\ Edited(edit)[p] = fs[p]
<1> DEFINE at == edit.path
           r == Rest(edit)
           g == Edited(edit)
<1>1. at \in Paths \ {<< >>} /\ ("gone" \in DOMAIN edit \/ IsNode(edit.node))
  BY ConstantsAssumption
<1>2. IsPrefix(at, at)
  BY <1>1, PrefixHas DEF IsPrefix
<1>3. Front(at) \in Paths /\ Len(at) = Len(Front(at)) + 1 /\ Len(Front(at)) \in Nat
  BY <1>1, FrontAndLast, LenProperties DEF Paths
<1>4. /\ DOMAIN r = { q \in DOMAIN fs : ~IsPrefix(at, q) }
      /\ \A p \in DOMAIN r : r[p] = fs[p]
  BY DEF Rest
<1>5. Front(at) \in DOMAIN r
  BY <1>3, <1>4 DEF IsKind, IsPrefix
<1>6. ASSUME NEW p \in DOMAIN r, Len(p) > 1 PROVE IsKind(r, Front(p), "dir")
  <2>1. p \in Paths \ {<< >>} /\ IsKind(fs, Front(p), "dir") /\ ~IsPrefix(at, p)
    BY <1>4, <1>6 DEF IsTree
  <2>2. /\ Front(p) \in Paths /\ Last(p) \in Names /\ p = Append(Front(p), Last(p))
        /\ Len(Front(p)) = Len(p) - 1 /\ Len(p) \in Nat
    BY <2>1, FrontAndLast DEF Paths
  <2>3. ~IsPrefix(at, Front(p))
    <3> SUFFICES ASSUME IsPrefix(at, Front(p)) PROVE FALSE
      OBVIOUS
    <3>1. SubSeq(Append(Front(p), Last(p)), 1, Len(at)) = SubSeq(Front(p), 1, Len(at))
      <4>1. Len(at) \in 0 .. Len(Front(p))
        BY <1>3, <2>2 DEF IsPrefix
      <4> QED
        BY <2>2, <4>1, FirstNames DEF Paths
    <3> QED
      BY <1>3, <2>1, <2>2, <3>1 DEF IsPrefix
  <2> QED
    BY <1>4, <2>1, <2>3 DEF IsKind
<1> HIDE DEF r
<1>7. IsTree(r) /\ Linked(r)
  BY <1>4, <1>6 DEF IsTree, Linked
<1>8. CASE "gone" \in DOMAIN edit
  BY <1>4, <1>7, <1>8 DEF Edited, r
<1>9. CASE "gone" \notin DOMAIN edit
  <2>1. g = With(r, at, edit.node)
    BY <1>9 DEF Edited, r
  <2> HIDE DEF g, at
  <2>2. DOMAIN g = DOMAIN r \cup {at} /\ g[at] = edit.node /\ \A p \in DOMAIN r \ {at} : g[p] = r[p]
    BY <2>1 DEF With
  <2>3. at \notin DOMAIN r
    BY <1>2, <1>4
  <2>4. \A p : IsKind(r, p, "dir") => IsKind(g, p, "dir")
    BY <2>2, <2>3 DEF IsKind
  <2>5. Len(at) > 1 => IsKind(g, Front(at), "dir")
    <3>1. IsKind(r, Front(at), "dir")
      BY <1>4, <1>5 DEF IsKind, at
    <3> QED
      BY <2>4, <3>1
  <2>6. IsTree(g)
    BY <1>1, <1>7, <1>9, <2>2, <2>3, <2>4, <2>5 DEF IsTree
  <2>7. Linked(g)
    <3> SUFFICES ASSUME NEW p \in DOMAIN g, g[p].kind = "link"
                 PROVE  [at |-> p, to |-> g[p].to] \in Links
      BY DEF Linked
    <3>1. CASE p = at
      BY <1>9, <2>2, <3>1 DEF Links, at
    <3>2. CASE p \in DOMAIN r
      BY <1>7, <2>2, <2>3, <3>2 DEF Linked
    <3> QED
      BY <2>2, <3>1, <3>2
  <2> QED
    BY <1>4, <2>2, <2>3, <2>6, <2>7 DEF g, at
<1> QED
  BY <1>8, <1>9

-----------------------------------------------------------------------------
(* The invariant the others stand on: what there is, and what a caller      *)
(* holds between the check of a path and the last step of a write.          *)

Resting == {"idle", "get", "got", "read_reserved", "read", "list", "listed", "types"}
Rests(k) == "pc" \in DOMAIN k /\ k.pc \in Resting
Writing(k) == k.pc \in {"mkdir", "write"}

\* A put holds a concept that is valid and a text it may be written as, and never
\* the path of a reserved file; the other writes hold no other path.
WriteOK(k) ==
  /\ {"pc", "op", "alias", "text", "path"} \subseteq DOMAIN k
  /\ k.path \in Paths \ {<< >>} /\ k.alias \in DOMAIN RootOf
  /\ k.op = "put" => /\ "concept" \in DOMAIN k
                     /\ k.concept \in Concepts /\ ValidateFrontmatter(k.concept.fm)
                     /\ k.text \in SerializeConcept(k.concept)
                     /\ Last(k.path) \notin Reserved
  /\ k.op # "put" => Last(k.path) \in Reserved
CallOK(k) == Rests(k) \/ (Writing(k) /\ WriteOK(k))

Calls == call = [c \in Callers |-> call[c]] /\ \A c \in Callers : CallOK(call[c])
Mutex == mu = {} \/ \E c \in Callers : mu = {c}
Puts == \A p \in DOMAIN put : p \in DOMAIN fs /\ put[p] \in Concepts
Bounds ==
  /\ raced \subseteq Callers
  /\ calls \in 0 .. MaxCalls /\ hands \in 0 .. MaxHands /\ faults \in 0 .. MaxFaults
Frame == IsTree(fs) /\ Linked(fs) /\ Calls /\ Mutex /\ Puts /\ Bounds

\* Only one call moves.
Moves(c) ==
  /\ call' = [d \in Callers |-> call'[d]]
  /\ \A d \in Callers \ {c} : call'[d] = call[d]

LEMMA GotoMoves ==
  ASSUME Calls, NEW c \in Callers, NEW k, Goto(c, k)
  PROVE  Moves(c) /\ call'[c] = k
BY DEF Calls, Goto, Moves

\* The steps that leave the tree alone: all that do not write, and the first step
\* of a write.
Reads(c) ==
  /\ Moves(c) /\ Rests(call'[c])
  /\ raced' \subseteq raced /\ raced \subseteq raced' \cup {c} /\ calls' \in 0 .. MaxCalls
  /\ UNCHANGED << fs, mu, put, hands, faults >>
Begins(c) ==
  /\ Moves(c) /\ call'[c].pc = "mkdir"
  /\ {"pc", "op", "alias", "text", "path"} \subseteq DOMAIN call'[c]
  /\ \E alias \in DOMAIN RootOf, rel \in Refs \cup Logs :
       /\ call'[c].alias = alias /\ call'[c].path \in ResolveReserved(fs, RootOf[alias], rel)
       /\ \/ /\ "concept" \in DOMAIN call'[c]
             /\ call'[c].op = "put" /\ call'[c].path \in ResolveNew(fs, RootOf[alias], rel)
             /\ call'[c].concept \in Concepts /\ ValidateFrontmatter(call'[c].concept.fm)
             /\ call'[c].text \in SerializeConcept(call'[c].concept)
          \/ call'[c].op # "put" /\ rel \in Logs
  /\ raced' = raced \ {c} /\ calls' \in 0 .. MaxCalls
  /\ UNCHANGED << fs, mu, put, hands, faults >>

LEMMA StartedMeans ==
  ASSUME Frame, NEW c \in Callers, Started(c)
  PROVE  /\ call[c].pc = "idle" /\ calls' \in 0 .. MaxCalls
         /\ raced' = raced \ {c} /\ UNCHANGED << fs, mu, put, hands, faults >>
BY ConstantsAssumption DEF Frame, Bounds, Started

LEMMA StartReads ==
  ASSUME Frame, NEW c \in Callers, Started(c),
         UNCHANGED call \/ \E k : Goto(c, k) /\ Rests(k)
  PROVE  Reads(c)
<1>1. /\ call[c].pc = "idle" /\ calls' \in 0 .. MaxCalls
      /\ raced' = raced \ {c} /\ UNCHANGED << fs, mu, put, hands, faults >>
  BY StartedMeans
<1>2. Moves(c) /\ Rests(call'[c])
  <2>1. CASE UNCHANGED call
    BY <1>1, <2>1 DEF Frame, Calls, CallOK, Moves, Rests, Resting, Writing
  <2>2. CASE \E k : Goto(c, k) /\ Rests(k)
    BY <2>2, GotoMoves DEF Frame
  <2> QED
    BY <2>1, <2>2
<1> QED
  BY <1>1, <1>2 DEF Reads

LEMMA GoReads ==
  ASSUME Frame, NEW c \in Callers, NEW k, Goto(c, k), Rests(k),
         UNCHANGED << fs, mu, put, raced, calls, hands, faults >>
  PROVE  Reads(c)
<1>1. Moves(c) /\ call'[c] = k
  BY GotoMoves DEF Frame
<1> QED
  BY <1>1 DEF Reads, Frame, Bounds

LEMMA PutBegins ==
  ASSUME Frame, NEW c \in Callers, NEW alias \in DOMAIN RootOf, NEW rel \in Refs,
         NEW concept \in Concepts, Put(c, alias, rel, concept)
  PROVE  Reads(c) \/ Begins(c)
<1>1. Started(c)
  BY DEF Put
<1>2. CASE UNCHANGED call
  BY <1>1, <1>2, StartReads
<1>3. CASE ~UNCHANGED call
  <2>1. PICK path \in ResolveNew(fs, RootOf[alias], rel), text \in SerializeConcept(concept) :
          /\ ValidateFrontmatter(concept.fm)
          /\ Goto(c, [pc |-> "mkdir", op |-> "put", alias |-> alias, text |-> text,
                      path |-> path, concept |-> concept])
    BY <1>3 DEF Put
  <2> DEFINE k == [pc |-> "mkdir", op |-> "put", alias |-> alias, text |-> text,
                   path |-> path, concept |-> concept]
  <2>2. Moves(c) /\ call'[c] = k
    BY <2>1, GotoMoves DEF Frame
  <2>3. /\ call'[c].pc = "mkdir" /\ call'[c].op = "put" /\ call'[c].alias = alias
        /\ call'[c].text = text /\ call'[c].path = path /\ call'[c].concept = concept
        /\ {"pc", "op", "alias", "text", "path", "concept"} \subseteq DOMAIN call'[c]
    BY <2>2
  <2>4. path \in ResolveReserved(fs, RootOf[alias], rel)
    BY ResolvedNew
  <2>5. /\ calls' \in 0 .. MaxCalls
        /\ raced' = raced \ {c} /\ UNCHANGED << fs, mu, put, hands, faults >>
    BY <1>1, StartedMeans
  <2> QED
    BY <2>1, <2>2, <2>3, <2>4, <2>5 DEF Begins
<1> QED
  BY <1>2, <1>3

LEMMA WriteReservedBegins ==
  ASSUME Frame, NEW c \in Callers, NEW alias \in DOMAIN RootOf, NEW rel \in Logs,
         NEW text, WriteReserved(c, alias, rel, text)
  PROVE  Reads(c) \/ Begins(c)
<1>1. Started(c)
  BY DEF WriteReserved
<1>2. CASE UNCHANGED call
  BY <1>1, <1>2, StartReads
<1>3. CASE ~UNCHANGED call
  <2>1. PICK path \in ResolveReserved(fs, RootOf[alias], rel) :
          Goto(c, [pc |-> "mkdir", op |-> "write_reserved", alias |-> alias,
                   text |-> text, path |-> path])
    BY <1>3 DEF WriteReserved
  <2> DEFINE k == [pc |-> "mkdir", op |-> "write_reserved", alias |-> alias,
                   text |-> text, path |-> path]
  <2>2. Moves(c) /\ call'[c] = k
    BY <2>1, GotoMoves DEF Frame
  <2>3. /\ call'[c].pc = "mkdir" /\ call'[c].op # "put" /\ call'[c].alias = alias
        /\ call'[c].path = path
        /\ {"pc", "op", "alias", "text", "path"} \subseteq DOMAIN call'[c]
    BY <2>2
  <2>4. /\ calls' \in 0 .. MaxCalls
        /\ raced' = raced \ {c} /\ UNCHANGED << fs, mu, put, hands, faults >>
    BY <1>1, StartedMeans
  <2> QED
    BY <2>1, <2>2, <2>3, <2>4 DEF Begins
<1> QED
  BY <1>2, <1>3

\* A step of a caller reads, begins a write, or is one of the steps of a write.
LEMMA StepKinds ==
  ASSUME Frame, NEW c \in Callers, Step(c)
  PROVE  Reads(c) \/ Begins(c) \/ MkdirAll(c) \/ WriteFile(c) \/ WriteFileFails(c)
<1>1. ASSUME NEW alias \in DOMAIN RootOf, NEW rel \in Refs, NEW concept \in Concepts,
             Put(c, alias, rel, concept)
      PROVE  Reads(c) \/ Begins(c)
  BY <1>1, PutBegins
<1>2. ASSUME NEW alias \in DOMAIN RootOf, NEW rel \in Refs, Get(c, alias, rel) PROVE Reads(c)
  <2>1. CASE UNCHANGED call
    BY <1>2, <2>1, StartReads DEF Get
  <2>2. CASE ~UNCHANGED call
    <3>1. PICK path \in Resolve(fs, RootOf[alias], rel) :
            Goto(c, [pc |-> "get", alias |-> alias, rel |-> rel, path |-> path])
      BY <1>2, <2>2 DEF Get
    <3>2. Rests([pc |-> "get", alias |-> alias, rel |-> rel, path |-> path])
      BY DEF Rests, Resting
    <3> QED
      BY <1>2, <3>1, <3>2, StartReads DEF Get
  <2> QED
    BY <2>1, <2>2
<1>3. ASSUME NEW alias \in DOMAIN RootOf, NEW sub \in Subs, List(c, alias, sub) PROVE Reads(c)
  <2>1. Rests([pc |-> "list", alias |-> alias, sub |-> sub])
    BY DEF Rests, Resting
  <2> QED
    BY <1>3, <2>1, StartReads DEF List
<1>4. ASSUME NEW alias \in DOMAIN RootOf, ListTypes(c, alias) PROVE Reads(c)
  <2> DEFINE k == [pc |-> "types", alias |-> alias, todo |-> Listed(alias, << "" >>),
                   types |-> {}]
  <2>1. Rests(k)
    BY DEF Rests, Resting
  <2>2. Started(c) /\ Goto(c, k)
    BY <1>4 DEF ListTypes
  <2> HIDE DEF k
  <2> QED
    BY <2>1, <2>2, StartReads
<1>5. ASSUME NEW alias \in DOMAIN RootOf, NEW rel \in Logs, ReadReserved(c, alias, rel)
      PROVE  Reads(c)
  <2>1. CASE UNCHANGED call
    BY <1>5, <2>1, StartReads DEF ReadReserved
  <2>2. CASE ~UNCHANGED call
    <3>1. PICK path \in ResolveReserved(fs, RootOf[alias], rel) :
            Goto(c, [pc |-> "read_reserved", path |-> path])
      BY <1>5, <2>2 DEF ReadReserved
    <3>2. Rests([pc |-> "read_reserved", path |-> path])
      BY DEF Rests, Resting
    <3> QED
      BY <1>5, <3>1, <3>2, StartReads DEF ReadReserved
  <2> QED
    BY <2>1, <2>2
<1>6. ASSUME NEW alias \in DOMAIN RootOf, NEW rel \in Logs,
             WriteReserved(c, alias, rel, EmptyText)
      PROVE  Reads(c) \/ Begins(c)
  BY <1>6, WriteReservedBegins
<1>7. CASE GetRead(c)
  <2> DEFINE k == [pc |-> "got", alias |-> call[c].alias, rel |-> call[c].rel,
                   answer |-> GetAt(call[c].alias, call[c].path)]
  <2>1. Rests(k)
    BY DEF Rests, Resting
  <2>2. Goto(c, k) /\ UNCHANGED << fs, mu, put, raced, calls, hands, faults >>
    BY <1>7 DEF GetRead
  <2> HIDE DEF k
  <2> QED
    BY <2>1, <2>2, GoReads
<1>8. CASE ReadReservedText(c)
  <2> DEFINE k == [pc |-> "read", answer |-> TextAt(call[c].path)]
  <2>1. Rests(k)
    BY DEF Rests, Resting
  <2>2. Goto(c, k) /\ UNCHANGED << fs, mu, put, raced, calls, hands, faults >>
    BY <1>8 DEF ReadReservedText
  <2> HIDE DEF k
  <2> QED
    BY <2>1, <2>2, GoReads
<1>9. CASE ListWalk(c)
  <2> DEFINE k == [pc |-> "listed", answer |-> Listed(call[c].alias, call[c].sub)]
  <2>1. Rests(k)
    BY DEF Rests, Resting
  <2>2. Goto(c, k) /\ UNCHANGED << fs, mu, put, raced, calls, hands, faults >>
    BY <1>9 DEF ListWalk
  <2> HIDE DEF k
  <2> QED
    BY <2>1, <2>2, GoReads
<1>10. CASE ListTypesNext(c)
  <2>1. PICK rel \in call[c].todo :
          Goto(c, [call[c] EXCEPT !.todo = @ \ {rel},
                                  !.types = @ \cup TypesOfFile(call[c].alias, rel)])
    BY <1>10 DEF ListTypesNext
  <2> DEFINE k == [call[c] EXCEPT !.todo = @ \ {rel},
                                  !.types = @ \cup TypesOfFile(call[c].alias, rel)]
  <2>2. Rests(call[c]) /\ call[c].pc = "types"
    BY <1>10 DEF ListTypesNext, Frame, Calls, CallOK, Writing
  <2>3. Rests(k)
    BY <2>2 DEF Rests
  <2>4. Goto(c, k) /\ UNCHANGED << fs, mu, put, raced, calls, hands, faults >>
    BY <1>10, <2>1 DEF ListTypesNext
  <2> HIDE DEF k
  <2> QED
    BY <2>3, <2>4, GoReads
<1>11. CASE Return(c)
  <2>1. Rests(Idle)
    BY DEF Rests, Resting, Idle
  <2> QED
    BY <1>11, <2>1, GoReads DEF Return
<1> QED
  BY <1>1, <1>2, <1>3, <1>4, <1>5, <1>6, <1>7, <1>8, <1>9, <1>10, <1>11 DEF Step

\* What a write holds, and what its steps make of it.
LEMMA MkdirMeans ==
  ASSUME Frame, NEW c \in Callers, MkdirAll(c)
  PROVE  LET k == call[c] dir == Front(k.path) IN
         /\ Writing(k) /\ WriteOK(k) /\ Moves(c) /\ dir \in Paths
         /\ UNCHANGED << put, raced, calls, hands, faults >>
         /\ \/ /\ CanMake(dir) /\ fs' = Made(dir) /\ mu' = {c}
               /\ Writing(call'[c]) /\ WriteOK(call'[c])
               /\ call'[c].path = k.path /\ call'[c].alias = k.alias
            \/ Rests(call'[c]) /\ UNCHANGED << fs, mu >>
<1> DEFINE k == call[c]
           dir == Front(k.path)
           e == [k EXCEPT !.pc = "write"]
<1>1. Writing(k) /\ WriteOK(k)
  BY DEF Frame, Calls, CallOK, Rests, Resting, MkdirAll, Writing
<1>2. dir \in Paths
  BY <1>1, FrontAndLast DEF WriteOK, Paths
<1>3. \/ CanMake(dir) /\ fs' = Made(dir) /\ mu' = {c} /\ Goto(c, e)
      \/ Goto(c, Idle) /\ UNCHANGED << fs, mu >>
  BY DEF MkdirAll
<1>4. UNCHANGED << put, raced, calls, hands, faults >>
  BY DEF MkdirAll
<1>5. CASE Goto(c, Idle) /\ UNCHANGED << fs, mu >>
  <2>1. Moves(c) /\ call'[c] = Idle
    BY <1>5, GotoMoves DEF Frame
  <2>2. Rests(Idle)
    BY DEF Rests, Resting, Idle
  <2> QED
    BY <1>1, <1>2, <1>4, <1>5, <2>1, <2>2
<1>6. CASE CanMake(dir) /\ fs' = Made(dir) /\ mu' = {c} /\ Goto(c, e)
  <2>1. e = [x \in DOMAIN k |-> IF x = "pc" THEN "write" ELSE k[x]]
    BY <1>1 DEF WriteOK
  <2>2. Moves(c) /\ call'[c] = e
    BY <1>6, GotoMoves DEF Frame
  <2> HIDE DEF e
  <2>3. /\ DOMAIN e = DOMAIN k /\ {"pc", "op", "alias", "text", "path"} \subseteq DOMAIN k
        /\ e.pc = "write" /\ e.op = k.op /\ e.alias = k.alias /\ e.text = k.text
        /\ e.path = k.path /\ (k.op = "put" => "concept" \in DOMAIN k /\ e.concept = k.concept)
    BY <1>1, <2>1 DEF WriteOK
  <2>4. Writing(e) /\ WriteOK(e)
    <3> HIDE DEF k
    <3>1. WriteOK(k)
      BY <1>1 DEF k
    <3> QED
      BY <2>3, <3>1 DEF Writing, WriteOK
  <2> QED
    BY <1>1, <1>2, <1>4, <1>6, <2>2, <2>3, <2>4
<1> QED
  BY <1>3, <1>5, <1>6

LEMMA WriteFileMeans ==
  ASSUME Frame, NEW c \in Callers, WriteFile(c)
  PROVE  LET k == call[c] at == Follow(fs, k.path) IN
         /\ Writing(k) /\ WriteOK(k) /\ Moves(c) /\ Rests(call'[c])
         /\ UNCHANGED << raced, calls, hands, faults >> /\ mu' = mu \ {c}
         /\ \/ /\ CanWrite(k.path) /\ fs' = Written(k.path, k.text)
               /\ put' = IF k.op = "put" THEN With(put, at, k.concept) ELSE put
            \/ UNCHANGED << fs, put >>
<1>1. Writing(call[c]) /\ WriteOK(call[c])
  BY DEF Frame, Calls, CallOK, Rests, Resting, WriteFile, Writing
<1>2. Goto(c, Idle) /\ mu' = mu \ {c}
  BY DEF WriteFile, Unlock
<1>3. Moves(c) /\ call'[c] = Idle
  BY <1>2, GotoMoves DEF Frame
<1>4. Rests(Idle)
  BY DEF Rests, Resting, Idle
<1> QED
  BY <1>1, <1>2, <1>3, <1>4 DEF WriteFile, Acknowledged

LEMMA WriteFailsMeans ==
  ASSUME Frame, NEW c \in Callers, WriteFileFails(c)
  PROVE  LET k == call[c] at == Follow(fs, k.path) IN
         /\ Writing(k) /\ WriteOK(k) /\ Moves(c) /\ Rests(call'[c])
         /\ UNCHANGED << raced, calls, hands >> /\ mu' = mu \ {c}
         /\ faults < MaxFaults /\ faults' = faults + 1
         /\ CanWrite(k.path) /\ fs' = Written(k.path, EmptyText)
         /\ put' = [ p \in DOMAIN put \ {at} |-> put[p] ]
<1>1. Writing(call[c]) /\ WriteOK(call[c])
  BY DEF Frame, Calls, CallOK, Rests, Resting, WriteFileFails, Writing
<1>2. Goto(c, Idle) /\ mu' = mu \ {c}
  BY DEF WriteFileFails, Unlock
<1>3. Moves(c) /\ call'[c] = Idle
  BY <1>2, GotoMoves DEF Frame
<1>4. Rests(Idle)
  BY DEF Rests, Resting, Idle
<1> QED
  BY <1>1, <1>2, <1>3, <1>4 DEF WriteFileFails

LEMMA BeginMeans ==
  ASSUME Frame, NEW c \in Callers, Begins(c)
  PROVE  /\ Writing(call'[c]) /\ WriteOK(call'[c])
         /\ LET k == call'[c] IN
            /\ Follow(fs, RootOf[k.alias]) \in DOMAIN fs \cup {<< >>}
            /\ Below(k.path, Follow(fs, RootOf[k.alias])) /\ Plain(fs, k.path)
<1>1. PICK alias \in DOMAIN RootOf, rel \in Refs \cup Logs :
       /\ call'[c].alias = alias /\ call'[c].path \in ResolveReserved(fs, RootOf[alias], rel)
       /\ \/ /\ "concept" \in DOMAIN call'[c]
             /\ call'[c].op = "put" /\ call'[c].path \in ResolveNew(fs, RootOf[alias], rel)
             /\ call'[c].concept \in Concepts /\ ValidateFrontmatter(call'[c].concept.fm)
             /\ call'[c].text \in SerializeConcept(call'[c].concept)
          \/ call'[c].op # "put" /\ rel \in Logs
  BY DEF Begins
<1> DEFINE p == call'[c].path
           canon == Follow(fs, RootOf[alias])
<1>2. RootOf[alias] \in Paths /\ rel \in Spellings \ {<< >>} /\ Linked(fs)
      /\ (rel \in Logs => Last(rel) \in Reserved)
  BY ConstantsAssumption DEF Frame
<1>3. /\ canon \in Paths \cap (DOMAIN fs \cup {<< >>})
      /\ p = Join(canon, rel) /\ p \in Paths \ {<< >>}
      /\ Below(p, canon) /\ Plain(fs, p)
  BY <1>1, <1>2, ResolvedReserved
<1>4. Writing(call'[c]) /\ {"pc", "op", "alias", "text", "path"} \subseteq DOMAIN call'[c]
  BY DEF Begins, Writing
<1>5. call'[c].op = "put" => Last(p) \notin Reserved
  BY <1>1, ResolvedNew
<1>6. call'[c].op # "put" => Last(p) \in Reserved
  <2> SUFFICES ASSUME rel \in Logs PROVE Last(p) \in Reserved
    BY <1>1
  <2>1. Last(rel) \in Component
    BY <1>2, FrontAndLast DEF Spellings, Component
  <2>2. Last(rel) \in Names
    BY <1>2, <2>1 DEF Reserved, Component
  <2> QED
    BY <1>2, <1>3, <2>2, JoinEnds
<1> QED
  BY <1>1, <1>3, <1>4, <1>5, <1>6 DEF WriteOK

LEMMA HandMeans ==
  ASSUME Frame, NEW edit \in Hands, ByHand(edit)
  PROVE  /\ IsKind(fs, Front(edit.path), "dir") /\ fs' = Edited(edit)
         /\ put' = [ p \in { q \in DOMAIN put : ~IsPrefix(edit.path, q) } |-> put[p] ]
         /\ raced' = { c \in Callers : call[c].pc # "idle" }
         /\ hands < MaxHands /\ hands' = hands + 1 /\ UNCHANGED << mu, call, calls, faults >>
BY DEF ByHand, Edited, Rest

\* What a step is.
LEMMA Steps ==
  ASSUME Frame, [Next]_vars
  PROVE  \/ \E c \in Callers : \/ Reads(c) \/ Begins(c) \/ MkdirAll(c) \/ WriteFile(c)
                               \/ WriteFileFails(c)
         \/ \E edit \in Hands : ByHand(edit)
         \/ UNCHANGED vars
BY StepKinds DEF Next

LEMMA FrameInit ==
  Init => Frame
<1> SUFFICES ASSUME Init PROVE Frame
  OBVIOUS
<1>1. IsTree(fs) /\ Linked(fs)
  BY ConstantsAssumption DEF Init, Linked, Links
<1>2. Calls
  <2>1. CallOK(Idle)
    BY DEF CallOK, Rests, Resting, Idle
  <2> QED
    BY <2>1 DEF Init, Calls
<1>3. Mutex /\ Puts
  BY DEF Init, Mutex, Puts
<1>4. Bounds
  BY ConstantsAssumption DEF Init, Bounds
<1> QED
  BY <1>1, <1>2, <1>3, <1>4 DEF Frame

\* The other callers are where they were.
LEMMA MovedCalls ==
  ASSUME Calls, NEW c \in Callers, Moves(c), CallOK(call'[c])
  PROVE  Calls'
BY DEF Calls, Moves

LEMMA FrameNext ==
  Frame /\ [Next]_vars => Frame'
<1> SUFFICES ASSUME Frame, [Next]_vars PROVE Frame'
  OBVIOUS
<1>1. IsTree(fs) /\ Linked(fs) /\ Calls /\ Mutex /\ Puts /\ Bounds
  BY DEF Frame
<1>2. ASSUME NEW c \in Callers, Reads(c) PROVE Frame'
  <2>1. CallOK(call'[c])
    BY <1>2 DEF Reads, CallOK
  <2>2. Calls'
    BY <1>1, <1>2, <2>1, MovedCalls DEF Reads
  <2>3. Bounds'
    BY <1>1, <1>2 DEF Reads, Bounds
  <2>4. fs' = fs /\ mu' = mu /\ put' = put
    BY <1>2 DEF Reads
  <2> QED
    BY <1>1, <2>2, <2>3, <2>4 DEF Frame, IsTree, IsKind, Linked, Mutex, Puts
<1>3. ASSUME NEW c \in Callers, Begins(c) PROVE Frame'
  <2>1. CallOK(call'[c])
    BY <1>3, BeginMeans DEF CallOK
  <2>2. Calls'
    BY <1>1, <1>3, <2>1, MovedCalls DEF Begins
  <2>3. Bounds'
    BY <1>1, <1>3 DEF Begins, Bounds
  <2>4. fs' = fs /\ mu' = mu /\ put' = put
    BY <1>3 DEF Begins
  <2> QED
    BY <1>1, <2>2, <2>3, <2>4 DEF Frame, IsTree, IsKind, Linked, Mutex, Puts
<1>4. ASSUME NEW c \in Callers, MkdirAll(c) PROVE Frame'
  <2> DEFINE dir == Front(call[c].path)
  <2>1. /\ Moves(c) /\ dir \in Paths /\ UNCHANGED << put, raced, calls, hands, faults >>
        /\ \/ CanMake(dir) /\ fs' = Made(dir) /\ mu' = {c} /\ Writing(call'[c]) /\ WriteOK(call'[c])
           \/ Rests(call'[c]) /\ UNCHANGED << fs, mu >>
    BY <1>4, MkdirMeans
  <2>2. Calls'
    BY <1>1, <2>1, MovedCalls DEF CallOK
  <2>3. Bounds' /\ Mutex'
    BY <1>1, <2>1 DEF Bounds, Mutex
  <2>4. CASE UNCHANGED << fs, mu >>
    BY <1>1, <2>1, <2>2, <2>3, <2>4 DEF Frame, IsTree, IsKind, Linked, Puts
  <2>5. CASE CanMake(dir) /\ fs' = Made(dir)
    <3> HIDE DEF dir
    <3>1. IsTree(fs') /\ Extends(fs', fs) /\ DOMAIN fs \subseteq DOMAIN fs'
      BY <1>1, <2>1, <2>5, MadeIsTree
    <3>2. Linked(fs')
      BY <1>1, <3>1, ExtendedLinks
    <3>3. Puts'
      BY <1>1, <2>1, <3>1 DEF Puts
    <3> QED
      BY <2>2, <2>3, <3>1, <3>2, <3>3 DEF Frame
  <2> QED
    BY <2>1, <2>4, <2>5
<1>5. ASSUME NEW c \in Callers, WriteFile(c) PROVE Frame'
  <2> DEFINE k == call[c]
             at == Follow(fs, k.path)
  <2>1. /\ Moves(c) /\ Rests(call'[c]) /\ WriteOK(k)
        /\ UNCHANGED << raced, calls, hands, faults >> /\ mu' = mu \ {c}
        /\ \/ /\ CanWrite(k.path) /\ fs' = Written(k.path, k.text)
              /\ put' = IF k.op = "put" THEN With(put, at, k.concept) ELSE put
           \/ UNCHANGED << fs, put >>
    BY <1>5, WriteFileMeans
  <2>2. Calls'
    BY <1>1, <2>1, MovedCalls DEF CallOK
  <2>3. Bounds' /\ Mutex'
    BY <1>1, <2>1 DEF Bounds, Mutex
  <2>4. CASE UNCHANGED << fs, put >>
    BY <1>1, <2>2, <2>3, <2>4 DEF Frame, IsTree, IsKind, Linked, Puts
  <2>5. CASE /\ CanWrite(k.path) /\ fs' = Written(k.path, k.text)
             /\ put' = IF k.op = "put" THEN With(put, at, k.concept) ELSE put
    <3>1. /\ k.path \in Paths /\ (k.op = "put" => k.concept \in Concepts)
      BY <2>1 DEF WriteOK
    <3>2. IsTree(fs') /\ Extends(fs', fs) /\ DOMAIN fs' = DOMAIN fs \cup {at}
      BY <1>1, <2>5, <3>1, WrittenIsTree
    <3>3. Linked(fs')
      BY <1>1, <3>2, ExtendedLinks
    <3>4. Puts'
      <4> HIDE DEF k, at
      <4> QED
        BY <1>1, <2>5, <3>1, <3>2 DEF Puts, With
    <3> QED
      BY <2>2, <2>3, <3>2, <3>3, <3>4 DEF Frame
  <2> QED
    BY <2>1, <2>4, <2>5
<1>6. ASSUME NEW c \in Callers, WriteFileFails(c) PROVE Frame'
  <2> DEFINE k == call[c]
             at == Follow(fs, k.path)
  <2>1. /\ Moves(c) /\ Rests(call'[c]) /\ WriteOK(k)
        /\ UNCHANGED << raced, calls, hands >> /\ mu' = mu \ {c}
        /\ faults < MaxFaults /\ faults' = faults + 1
        /\ CanWrite(k.path) /\ fs' = Written(k.path, EmptyText)
        /\ put' = [ p \in DOMAIN put \ {at} |-> put[p] ]
    BY <1>6, WriteFailsMeans
  <2>2. Calls'
    BY <1>1, <2>1, MovedCalls DEF CallOK
  <2>3. Bounds' /\ Mutex'
    <3>1. MaxFaults \in Nat
      BY ConstantsAssumption
    <3> QED
      BY <1>1, <2>1, <3>1 DEF Bounds, Mutex
  <2>4. k.path \in Paths
    BY <2>1 DEF WriteOK
  <2>5. IsTree(fs') /\ Extends(fs', fs) /\ DOMAIN fs' = DOMAIN fs \cup {at}
    BY <1>1, <2>1, <2>4, WrittenIsTree
  <2>6. Linked(fs')
    BY <1>1, <2>5, ExtendedLinks
  <2>7. Puts'
    <3> HIDE DEF k, at
    <3> QED
      BY <1>1, <2>1, <2>5 DEF Puts
  <2> QED
    BY <2>2, <2>3, <2>5, <2>6, <2>7 DEF Frame
<1>7. ASSUME NEW edit \in Hands, ByHand(edit) PROVE Frame'
  <2>1. /\ IsKind(fs, Front(edit.path), "dir") /\ fs' = Edited(edit)
        /\ put' = [ p \in { q \in DOMAIN put : ~IsPrefix(edit.path, q) } |-> put[p] ]
        /\ raced' = { c \in Callers : call[c].pc # "idle" }
        /\ hands < MaxHands /\ hands' = hands + 1 /\ UNCHANGED << mu, call, calls, faults >>
    BY <1>7, HandMeans
  <2>2. /\ IsTree(fs') /\ Linked(fs')
        /\ \A p \in DOMAIN fs : ~IsPrefix(edit.path, p) => p \in DOMAIN fs'
    BY <1>1, <2>1, EditedIsTree
  <2>3. Calls' /\ Mutex'
    BY <1>1, <2>1 DEF Calls, Mutex
  <2>4. Bounds'
    <3>1. MaxHands \in Nat
      BY ConstantsAssumption
    <3> QED
      BY <1>1, <2>1, <3>1 DEF Bounds
  <2>5. Puts'
    BY <1>1, <2>1, <2>2 DEF Puts
  <2> QED
    BY <2>2, <2>3, <2>4, <2>5 DEF Frame
<1>8. CASE UNCHANGED vars
  BY <1>1, <1>8 DEF vars, Frame, IsTree, IsKind, Linked, Calls, Mutex, Puts, Bounds
<1> QED
  BY <1>2, <1>3, <1>4, <1>5, <1>6, <1>7, <1>8, Steps

\* Whatever the calls, the hands and the disk do: the files stay a tree whose
\* links are those there may be, one call at most holds the mutex, and what a
\* write holds between its steps is a path, and a text its concept may be written
\* as, that the checks of Put or WriteReserved let through.
THEOREM FrameHolds ==
  Spec => []Frame
BY FrameInit, FrameNext, PTL DEF Spec

\* Whatever people do to the files by hand, and wherever the disk fails, the
\* files stay a tree, one caller at most writes, and every document that was put
\* and not replaced since is a place in the tree.
THEOREM TypeCorrect ==
  Spec => []TypeOK
<1>1. Frame => TypeOK
  <2> SUFFICES ASSUME Frame PROVE TypeOK
    OBVIOUS
  <2>1. mu \subseteq Callers /\ Cardinality(mu) <= 1
    <3>1. Cardinality({}) = 0
      BY FS_EmptySet
    <3>2. \A c : Cardinality({c}) = 1
      BY FS_Singleton
    <3> QED
      BY <3>1, <3>2 DEF Frame, Mutex
  <2>2. \A c \in Callers :
          call[c].pc \in {"idle", "mkdir", "write", "get", "got", "read_reserved", "read",
                         "list", "listed", "types"}
    BY DEF Frame, Calls, CallOK, Rests, Resting, Writing
  <2> QED
    BY <2>1, <2>2 DEF Frame, TypeOK, Puts, Bounds
<1> QED
  BY <1>1, FrameHolds, PTL

-----------------------------------------------------------------------------
(* Writes stay inside the bundle.                                          *)

LEMMA PrefixByName ==
  ASSUME NEW S, NEW a \in Seq(S), NEW b \in Seq(S)
  PROVE  IsPrefix(a, b) <=> Len(a) <= Len(b) /\ \A i \in 1 .. Len(a) : a[i] = b[i]
<1>1. /\ Len(a) \in Nat /\ Len(b) \in Nat
      /\ \A i \in 1 .. Len(a) : a[i] \in S
      /\ \A i \in 1 .. Len(b) : b[i] \in S
  BY LenProperties
<1>2. SubSeq(a, 1, Len(a)) = a
  BY SubSeqFull
<1>3. ASSUME Len(a) <= Len(b)
      PROVE  /\ SubSeq(b, 1, Len(a)) \in Seq(S) /\ Len(SubSeq(b, 1, Len(a))) = Len(a)
             /\ \A i \in 1 .. Len(a) : SubSeq(b, 1, Len(a))[i] = b[i]
  <2>1. Len(a) \in Int /\ \A i \in 1 .. Len(a) : b[i] \in S
    BY <1>1, <1>3
  <2> QED
    BY <1>1, <2>1, SubSeqProperties
<1>4. ASSUME IsPrefix(a, b) PROVE Len(a) <= Len(b) /\ \A i \in 1 .. Len(a) : a[i] = b[i]
  BY <1>2, <1>3, <1>4 DEF IsPrefix
<1>5. ASSUME Len(a) <= Len(b), \A i \in 1 .. Len(a) : a[i] = b[i] PROVE IsPrefix(a, b)
  <2>1. SubSeq(b, 1, Len(a)) = a
    BY <1>1, <1>3, <1>5, SeqEqual
  <2> QED
    BY <1>2, <1>5, <2>1 DEF IsPrefix
<1> QED
  BY <1>4, <1>5

\* Of two prefixes of one sequence the shorter one is a prefix of the other.
LEMMA PrefixesOrdered ==
  ASSUME NEW S, NEW a \in Seq(S), NEW b \in Seq(S), NEW p \in Seq(S),
         IsPrefix(a, p), IsPrefix(b, p)
  PROVE  IsPrefix(a, b) \/ IsStrictPrefix(b, a)
<1>1. /\ Len(a) \in Nat /\ Len(b) \in Nat
      /\ \A i \in 1 .. Len(a) : a[i] = p[i]
      /\ \A i \in 1 .. Len(b) : b[i] = p[i]
  BY PrefixByName, LenProperties
<1>2. CASE Len(a) <= Len(b)
  <2>1. \A i \in 1 .. Len(a) : a[i] = b[i]
    BY <1>1, <1>2
  <2> QED
    BY <1>2, <2>1, PrefixByName
<1>3. CASE Len(b) < Len(a)
  <2>1. Len(b) <= Len(a) /\ \A i \in 1 .. Len(b) : b[i] = a[i]
    BY <1>1, <1>3
  <2>2. b # a
    BY <1>1, <1>3
  <2> QED
    BY <2>1, <2>2, PrefixByName DEF IsStrictPrefix
<1> QED
  BY <1>1, <1>2, <1>3

LEMMA PrefixOfPrefix ==
  ASSUME NEW S, NEW a \in Seq(S), NEW b \in Seq(S), NEW p \in Seq(S),
         IsPrefix(a, b), IsPrefix(b, p)
  PROVE  IsPrefix(a, p) /\ (a # b \/ b # p => a # p)
<1>1. /\ Len(a) \in Nat /\ Len(b) \in Nat /\ Len(p) \in Nat
      /\ Len(a) <= Len(b) /\ Len(b) <= Len(p)
      /\ \A i \in 1 .. Len(a) : a[i] = b[i]
      /\ \A i \in 1 .. Len(b) : b[i] = p[i]
  BY PrefixByName, LenProperties
<1>2. \A i \in 1 .. Len(a) : a[i] = p[i]
  BY <1>1
<1>3. IsPrefix(a, p)
  BY <1>1, <1>2, PrefixByName
<1>4. a = p => a = b /\ b = p
  <2> SUFFICES ASSUME a = p PROVE a = b
    OBVIOUS
  <2>1. Len(a) = Len(b)
    BY <1>1
  <2> QED
    BY <1>1, <2>1, SeqEqual
<1> QED
  BY <1>3, <1>4

\* What a write holds of its bundle while no hand interferes: the root is there,
\* the path is below it, and no link is on the path.
Safe(f, k) ==
  LET canon == Follow(f, RootOf[k.alias]) IN
  canon \in DOMAIN f \cup {<< >>} /\ Below(k.path, canon) /\ Plain(f, k.path)
Inside == \A c \in Callers : Writing(call[c]) /\ c \notin raced => Safe(fs, call[c])

\* It does not mind what the other writes make.
LEMMA SafeExtends ==
  ASSUME NEW f, NEW g, Extends(g, f), Linked(f), NEW k, WriteOK(k), Safe(f, k)
  PROVE  Safe(g, k)
<1>1. k.path \in Paths /\ RootOf[k.alias] \in Paths
  BY ConstantsAssumption DEF WriteOK
<1>2. Linked(g) /\ SameLinks(f, g)
  BY ExtendedLinks
<1>3. Follow(g, RootOf[k.alias]) = Follow(f, RootOf[k.alias]) /\ (Plain(g, k.path) <=> Plain(f, k.path))
  BY <1>1, <1>2, LinksDecide
<1>4. DOMAIN f \subseteq DOMAIN g
  BY DEF Extends
<1> QED
  BY <1>3, <1>4 DEF Safe

\* What the steps of a caller have in common.
LEMMA CallerSteps ==
  ASSUME Frame, NEW c \in Callers,
         Reads(c) \/ Begins(c) \/ MkdirAll(c) \/ WriteFile(c) \/ WriteFileFails(c)
  PROVE  /\ Extends(fs', fs) /\ Moves(c) /\ raced \subseteq raced' \cup {c}
         /\ \/ Rests(call'[c])
            \/ Safe(fs', call'[c])
            \/ /\ MkdirAll(c) /\ Writing(call[c]) /\ raced' = raced
               /\ call'[c].path = call[c].path /\ call'[c].alias = call[c].alias
<1>1. Extends(fs, fs)
  BY DEF Extends
<1>2. CASE Reads(c)
  BY <1>1, <1>2 DEF Reads
<1>3. CASE Begins(c)
  <2>1. Safe(fs, call'[c])
    BY <1>3, BeginMeans DEF Safe
  <2> QED
    BY <1>1, <1>3, <2>1 DEF Begins
<1>4. CASE MkdirAll(c)
  <2>1. ASSUME NEW dir \in Paths, CanMake(dir) PROVE Extends(Made(dir), fs)
    BY <2>1, MadeIsTree DEF Frame
  <2> QED
    BY <1>1, <1>4, <2>1, MkdirMeans
<1>5. ASSUME NEW text, WriteOK(call[c]), CanWrite(call[c].path)
      PROVE  Extends(Written(call[c].path, text), fs)
  <2>1. call[c].path \in Paths
    BY <1>5 DEF WriteOK
  <2> QED
    BY <1>5, <2>1, WrittenIsTree DEF Frame
<1>6. CASE WriteFile(c)
  BY <1>1, <1>5, <1>6, WriteFileMeans
<1>7. CASE WriteFileFails(c)
  BY <1>1, <1>5, <1>7, WriteFailsMeans
<1> QED
  BY <1>2, <1>3, <1>4, <1>6, <1>7

LEMMA InsideInit ==
  Init => Inside
BY DEF Init, Inside, Idle, Writing

LEMMA InsideNext ==
  Frame /\ Inside /\ [Next]_vars => Inside'
<1> SUFFICES ASSUME Frame, Inside, [Next]_vars PROVE Inside'
  OBVIOUS
<1>1. Linked(fs) /\ Calls
  BY DEF Frame
<1>2. ASSUME NEW c \in Callers,
             Reads(c) \/ Begins(c) \/ MkdirAll(c) \/ WriteFile(c) \/ WriteFileFails(c)
      PROVE  Inside'
  <2>1. /\ Extends(fs', fs) /\ Moves(c) /\ raced \subseteq raced' \cup {c}
        /\ \/ Rests(call'[c])
           \/ Safe(fs', call'[c])
           \/ /\ MkdirAll(c) /\ Writing(call[c]) /\ raced' = raced
              /\ call'[c].path = call[c].path /\ call'[c].alias = call[c].alias
    BY <1>2, CallerSteps
  <2>2. ASSUME NEW d \in Callers, Writing(call[d]), d \notin raced PROVE Safe(fs', call[d])
    <3>1. WriteOK(call[d]) /\ Safe(fs, call[d])
      BY <1>1, <2>2 DEF Inside, Calls, CallOK, Rests, Resting, Writing
    <3> QED
      BY <1>1, <2>1, <3>1, SafeExtends
  <2>3. ASSUME NEW d \in Callers, Writing(call'[d]), d \notin raced' PROVE Safe(fs', call'[d])
    <3>1. CASE d # c
      <4>1. call'[d] = call[d] /\ d \notin raced
        BY <2>1, <2>3, <3>1 DEF Moves
      <4> QED
        BY <2>2, <2>3, <4>1
    <3>2. CASE d = c
      <4>1. ~Rests(call'[c])
        BY <2>3, <3>2 DEF Rests, Resting, Writing
      <4>2. CASE Safe(fs', call'[c])
        BY <3>2, <4>2
      <4>3. CASE /\ MkdirAll(c) /\ Writing(call[c]) /\ raced' = raced
                 /\ call'[c].path = call[c].path /\ call'[c].alias = call[c].alias
        <5>1. Safe(fs', call[c])
          BY <2>2, <2>3, <3>2, <4>3
        <5> QED
          BY <3>2, <4>3, <5>1 DEF Safe
      <4> QED
        BY <2>1, <4>1, <4>2, <4>3
    <3> QED
      BY <3>1, <3>2
  <2> QED
    BY <2>3 DEF Inside
<1>3. ASSUME NEW edit \in Hands, ByHand(edit) PROVE Inside'
  <2>1. raced' = { c \in Callers : call[c].pc # "idle" } /\ call' = call
    BY <1>3, HandMeans
  <2> QED
    BY <2>1 DEF Inside, Writing
<1>4. CASE UNCHANGED vars
  BY <1>4 DEF vars, Inside
<1> QED
  BY <1>2, <1>3, <1>4, Steps

\* What os.MkdirAll makes on the way to a path without links is on that path, and
\* below the root, which is there.
LEMMA MadeBelow ==
  ASSUME IsTree(fs), Linked(fs), NEW k, WriteOK(k), Safe(fs, k),
         NEW q \in Missing(Front(k.path))
  PROVE  Follow(fs, q) = q /\ Below(q, Follow(fs, RootOf[k.alias]))
<1> DEFINE canon == Follow(fs, RootOf[k.alias])
           path == k.path
           dir == Front(path)
<1>1. /\ path \in Paths \ {<< >>} /\ RootOf[k.alias] \in Paths
      /\ canon \in DOMAIN fs \cup {<< >>} /\ Below(path, canon) /\ Plain(fs, path)
  BY ConstantsAssumption DEF WriteOK, Safe
<1>2. canon \in Paths
  BY <1>1, FollowIsAPath
<1>3. dir \in Paths /\ Last(path) \in Names /\ path = Append(dir, Last(path)) /\ dir = Front(path)
  BY <1>1, FrontAndLast DEF Paths
<1> HIDE DEF canon, path, dir
<1>4. IsPrefix(dir, path)
  <2>1. \A i \in 1 .. Len(dir) : Append(dir, Last(path))[i] = dir[i]
    BY <1>3, AppendProperties DEF Paths
  <2>2. Len(Append(dir, Last(path))) = Len(dir) + 1 /\ Len(dir) \in Nat
    BY <1>3, AppendProperties, LenProperties DEF Paths
  <2> QED
    BY <1>1, <1>3, <2>1, <2>2, PrefixByName DEF Paths
<1>5. PICK i \in 1 .. Len(dir) : q = SubSeq(dir, 1, i) /\ ~Exists(fs, q)
  BY DEF Missing, dir, path
<1>6. q \in Paths /\ Len(q) = i /\ IsPrefix(q, dir)
  BY <1>3, <1>5, FirstNamesArePrefix DEF Paths
<1>7. IsPrefix(q, path)
  BY <1>1, <1>3, <1>4, <1>6, PrefixOfPrefix DEF Paths
<1>8. Plain(fs, q)
  BY <1>1, <1>6, <1>7, PlainPrefix
<1>9. Follow(fs, q) = q
  BY <1>6, <1>8, PlainLeads
<1>10. q \notin DOMAIN fs /\ q # << >>
  BY <1>5, <1>9 DEF Exists
<1>11. ~IsPrefix(q, canon)
  <2> SUFFICES ASSUME IsPrefix(q, canon) PROVE FALSE
    OBVIOUS
  <2>1. CASE canon \in DOMAIN fs
    BY <1>6, <1>10, <2>1, OnTheWay
  <2>2. CASE canon = << >>
    BY <1>5, <1>6, <2>2, EmptySeq DEF IsPrefix
  <2> QED
    BY <1>1, <2>1, <2>2
<1>12. IsPrefix(canon, path)
  BY <1>1 DEF Below, IsStrictPrefix
<1>13. IsStrictPrefix(canon, q)
  BY <1>1, <1>2, <1>6, <1>7, <1>11, <1>12, PrefixesOrdered DEF Paths
<1> QED
  BY <1>9, <1>13 DEF Below, canon

\* A write goes where it was resolved to.
LEMMA WrittenBelow ==
  ASSUME Linked(fs), NEW k, WriteOK(k), Safe(fs, k)
  PROVE  Follow(fs, k.path) = k.path /\ Below(k.path, Follow(fs, RootOf[k.alias]))
BY PlainLeads DEF Safe, WriteOK

StaysInside(c) ==
  \A p \in DOMAIN fs' : Changed(p) =>
    /\ Below(p, Canon(call[c].alias))
    /\ call[c].op = "put" /\ fs'[p].kind = "file" => Last(p) \notin Reserved

LEMMA WriteStaysInside ==
  ASSUME Frame, NEW c \in Callers, NEW text, WriteOK(call[c]), Safe(fs, call[c]),
         CanWrite(call[c].path), fs' = Written(call[c].path, text)
  PROVE  StaysInside(c)
<1> DEFINE k == call[c]
<1>1. IsTree(fs) /\ Linked(fs) /\ k.path \in Paths
      /\ (k.op = "put" => Last(k.path) \notin Reserved)
  BY DEF Frame, WriteOK
<1>2. Follow(fs, k.path) = k.path /\ Below(k.path, Canon(k.alias))
  BY <1>1, WrittenBelow DEF Canon
<1>3. DOMAIN fs' = DOMAIN fs \cup {k.path} /\ \A p \in DOMAIN fs \ {k.path} : fs'[p] = fs[p]
  BY <1>1, <1>2, WrittenIsTree
<1>4. \A p \in DOMAIN fs' : Changed(p) => p = k.path
  BY <1>3 DEF Changed
<1> QED
  BY <1>1, <1>2, <1>4 DEF StaysInside

LEMMA MkdirStaysInside ==
  ASSUME Frame, NEW c \in Callers, WriteOK(call[c]), Safe(fs, call[c]),
         CanMake(Front(call[c].path)), fs' = Made(Front(call[c].path))
  PROVE  StaysInside(c)
<1> DEFINE k == call[c]
           dir == Front(k.path)
<1>1. IsTree(fs) /\ Linked(fs) /\ dir \in Paths
  BY FrontAndLast DEF Frame, WriteOK, Paths
<1>2. /\ DOMAIN fs' = DOMAIN fs \cup { Follow(fs, q) : q \in Missing(dir) }
      /\ \A p \in DOMAIN fs : fs'[p] = fs[p]
      /\ \A p \in DOMAIN fs' \ DOMAIN fs : fs'[p] = Dir
  BY <1>1, MadeIsTree
<1>3. \A q \in Missing(dir) : Follow(fs, q) = q /\ Below(q, Canon(k.alias))
  BY <1>1, MadeBelow DEF Canon
<1> SUFFICES ASSUME NEW p \in DOMAIN fs', Changed(p)
             PROVE  /\ Below(p, Canon(k.alias))
                    /\ k.op = "put" /\ fs'[p].kind = "file" => Last(p) \notin Reserved
  BY DEF StaysInside
<1>4. p \notin DOMAIN fs
  BY <1>2 DEF Changed
<1>5. Below(p, Canon(k.alias)) /\ fs'[p] = Dir
  BY <1>2, <1>3, <1>4
<1> QED
  BY <1>5 DEF Dir

LEMMA StepStaysInside ==
  ASSUME Frame, Inside, [Next]_vars, NEW c \in Callers,
         Writing(call[c]), call'[c] # call[c], c \notin raced
  PROVE  StaysInside(c)
<1>1. WriteOK(call[c]) /\ Safe(fs, call[c])
  BY DEF Frame, Inside, Calls, CallOK, Rests, Resting, Writing
<1>2. CASE UNCHANGED fs
  BY <1>2 DEF StaysInside, Changed
<1>3. ASSUME NEW d \in Callers,
             Reads(d) \/ Begins(d) \/ MkdirAll(d) \/ WriteFile(d) \/ WriteFileFails(d)
      PROVE  StaysInside(c)
  <2>1. d = c
    BY <1>3, CallerSteps DEF Moves
  <2>2. CASE Reads(c) \/ Begins(c)
    BY <1>2, <2>2 DEF Reads, Begins
  <2>3. CASE MkdirAll(c)
    BY <1>1, <1>2, <2>3, MkdirMeans, MkdirStaysInside
  <2>4. CASE WriteFile(c)
    BY <1>1, <1>2, <2>4, WriteFileMeans, WriteStaysInside
  <2>5. CASE WriteFileFails(c)
    BY <1>1, <2>5, WriteFailsMeans, WriteStaysInside
  <2> QED
    BY <1>3, <2>1, <2>2, <2>3, <2>4, <2>5
<1>4. ASSUME NEW edit \in Hands, ByHand(edit) PROVE StaysInside(c)
  BY <1>4, HandMeans
<1>5. CASE UNCHANGED vars
  BY <1>5 DEF vars
<1> QED
  BY <1>3, <1>4, <1>5, Steps

\* Whatever the tree, the links in it and the spellings of the callers: what a
\* write makes or changes is below the real root of its bundle, and a Put changes
\* no reserved file, unless a hand changed the tree while the write was under way.
THEOREM WritesStayInsideHolds ==
  Spec => WritesStayInside
<1>1. Frame /\ Inside /\ [Next]_vars =>
        [\A c \in Callers :
           call[c].pc \in {"mkdir", "write"} /\ call'[c] # call[c] /\ c \notin raced =>
             \A p \in DOMAIN fs' : Changed(p) =>
               /\ Below(p, Canon(call[c].alias))
               /\ call[c].op = "put" /\ fs'[p].kind = "file" => Last(p) \notin Reserved]_vars
  BY StepStaysInside DEF StaysInside, Writing
<1> QED
  BY <1>1, FrameHolds, InsideInit, InsideNext, PTL DEF Spec, WritesStayInside

-----------------------------------------------------------------------------
(* What is written is what is read: a text a concept is serialized to       *)
(* parses to that concept.                                                  *)

\* An enumeration without repetition enumerates all.
LEMMA EnumeratesAll ==
  ASSUME NEW S, IsFiniteSet(S), NEW s \in SetToSeqs(S)
  PROVE  /\ s \in Seq(S) /\ \A x \in S : \E i \in 1 .. Len(s) : s[i] = x
         /\ \A i, j \in 1 .. Len(s) : s[i] = s[j] => i = j
<1> DEFINE n == Cardinality(S)
<1>1. n \in Nat
  BY FS_CardinalityType
<1>2. s \in [1 .. n -> S] /\ \A i, j \in 1 .. n : s[i] = s[j] => i = j
  BY DEF SetToSeqs
<1>3. s \in Injection(1 .. n, S)
  BY <1>2 DEF Injection, IsInjective
<1>4. Cardinality(1 .. n) = n
  BY <1>1, FS_Interval
<1> HIDE DEF n
<1>5. s \in Surjection(1 .. n, S)
  BY <1>3, <1>4, FS_Injection DEF n
<1>6. s \in Seq(S)
  BY <1>1, <1>2, SeqDef
<1>7. Len(s) = n
  BY <1>1, <1>2, <1>6, LenProperties
<1> QED
  BY <1>2, <1>5, <1>6, <1>7 DEF Surjection

\* The lines of a frontmatter: all of it, each once.
LEMMA EncodingHas ==
  ASSUME NEW fm, IsFiniteSet(fm), fm \subseteq TypeLines \cup ExtraLines,
         \A t, u \in TypeOf(fm) : t = u, NEW e \in Encodings(fm)
  PROVE  /\ e \in Seq(fm) /\ \A x \in fm : \E i \in 1 .. Len(e) : e[i] = x
         /\ \A i, j \in 1 .. Len(e) : e[i] = e[j] => i = j
<1> DEFINE S == fm \cap ExtraLines
<1>1. PICK type \in TypeOf(fm), extra \in SetToSeqs(S) : e = << type >> \o extra
  BY DEF Encodings
<1>2. type \in fm /\ type \in TypeLines /\ type \notin S
  BY LinesAssumption DEF TypeOf
<1>3. IsFiniteSet(S)
  BY FS_Subset
<1> HIDE DEF S
<1>4. /\ extra \in Seq(S) /\ \A x \in S : \E i \in 1 .. Len(extra) : extra[i] = x
      /\ \A i, j \in 1 .. Len(extra) : extra[i] = extra[j] => i = j
  BY <1>3, EnumeratesAll
<1>5. extra \in Seq(fm) /\ << type >> \in Seq(fm) /\ Len(<< type >>) = 1 /\ << type >>[1] = type
  BY <1>2, <1>4, SeqMonotonic DEF S
<1>6. Len(extra) \in Nat /\ \A i \in 1 .. Len(extra) : extra[i] \in S
  BY <1>4, LenProperties
<1>7. e \in Seq(fm) /\ Len(e) = 1 + Len(extra)
      /\ \A i \in 1 .. 1 + Len(extra) : e[i] = IF i <= 1 THEN << type >>[i] ELSE extra[i - 1]
  BY <1>1, <1>5, ConcatProperties
<1>8. e[1] = type /\ 1 \in 1 .. Len(e)
  BY <1>5, <1>6, <1>7
<1>9. ASSUME NEW i \in 1 .. Len(e), i # 1
      PROVE  i - 1 \in 1 .. Len(extra) /\ e[i] = extra[i - 1] /\ e[i] \in S
  <2>1. i - 1 \in 1 .. Len(extra)
    BY <1>6, <1>7, <1>9
  <2>2. i \in 1 .. 1 + Len(extra) /\ ~(i <= 1)
    BY <1>6, <1>7, <1>9
  <2> QED
    BY <1>6, <1>7, <2>1, <2>2
<1>10. ASSUME NEW x \in fm PROVE \E i \in 1 .. Len(e) : e[i] = x
  <2>1. CASE x \in TypeLines
    BY <1>1, <1>8, <2>1 DEF TypeOf
  <2>2. CASE x \in ExtraLines
    <3>1. PICK i \in 1 .. Len(extra) : extra[i] = x
      BY <1>4, <2>2 DEF S
    <3>2. i + 1 \in 1 .. Len(e) /\ i + 1 # 1 /\ (i + 1) - 1 = i
      BY <1>6, <1>7
    <3> QED
      BY <1>9, <3>1, <3>2
  <2> QED
    BY <2>1, <2>2
<1>11. ASSUME NEW i \in 1 .. Len(e), NEW j \in 1 .. Len(e), e[i] = e[j] PROVE i = j
  <2>1. CASE i = 1 \/ j = 1
    BY <1>2, <1>8, <1>9, <1>11, <2>1
  <2>2. CASE i # 1 /\ j # 1
    <3>1. /\ i - 1 \in 1 .. Len(extra) /\ j - 1 \in 1 .. Len(extra)
          /\ extra[i - 1] = extra[j - 1]
      BY <1>9, <1>11, <2>2
    <3>2. i - 1 = j - 1
      BY <1>4, <3>1
    <3> QED
      BY <3>2
  <2> QED
    BY <2>1, <2>2
<1> QED
  BY <1>7, <1>10, <1>11

LEMMA EncodingParses ==
  ASSUME NEW fm, IsFiniteSet(fm), fm \subseteq TypeLines \cup ExtraLines,
         \A t, u \in TypeOf(fm) : t = u, NEW e \in Encodings(fm)
  PROVE  parseFrontmatter(e) = { fm \ NullLines }
<1>1. /\ e \in Seq(fm) /\ \A x \in fm : \E i \in 1 .. Len(e) : e[i] = x
      /\ \A i, j \in 1 .. Len(e) : e[i] = e[j] => i = j
  BY EncodingHas
<1>2. DOMAIN e = 1 .. Len(e) /\ \A i \in 1 .. Len(e) : e[i] \in fm
  BY <1>1, LenProperties
<1>3. ToSet(e) = fm
  BY <1>1, <1>2 DEF ToSet
<1>4. "" \notin fm
  BY LinesAssumption
<1>5. fm \in { ToSet(e) \ {""} }
  BY <1>3, <1>4
<1>6. \A i, j \in 1 .. Len(e) : i # j /\ e[i] = e[j] => e[i] = ""
  BY <1>1
<1> DEFINE P(lines) == /\ lines \subseteq TypeLines \cup ExtraLines
                       /\ \A i, j \in 1 .. Len(e) : i # j /\ e[i] = e[j] => e[i] = ""
                       /\ \A t, u \in TypeOf(lines) : t = u
<1>7. { lines \in { ToSet(e) \ {""} } : P(lines) } = { fm }
  BY <1>3, <1>5, <1>6
<1>8. parseFrontmatter(e) = { lines \ NullLines
                             : lines \in { lines \in { ToSet(e) \ {""} } : P(lines) } }
  BY DEF parseFrontmatter
<1> HIDE DEF P
<1> QED
  BY <1>7, <1>8

LEMMA OneElement ==
  ASSUME NEW S, NEW x \in S
  PROVE  << x >> \in Seq(S) /\ Len(<< x >>) = 1 /\ << x >>[1] = x
OBVIOUS

\* Where a document is split.
LEMMA SplitsAt ==
  ASSUME NEW S, "---" \in S, NEW e \in Seq(S), NEW body \in Seq(S),
         \A i \in 1 .. Len(e) : ~Delimiter(e[i])
  PROVE  LET text == << "---" >> \o e \o << "---" >> \o body IN
         /\ text \in Seq(S)
         /\ splitFrontmatter(text) = [head |-> e, body |-> TrimNewline(Lines(body))]
<1> DEFINE n == Len(e)
           A == << "---" >>
           L == A \o e \o A
           text == L \o body
<1>1. n \in Nat /\ \A i \in 1 .. n : e[i] \in S
  BY LenProperties
<1>2. A \in Seq(S) /\ Len(A) = 1 /\ A[1] = "---"
  BY OneElement
<1> HIDE DEF A, n
<1>3. /\ A \o e \in Seq(S) /\ Len(A \o e) = n + 1
      /\ \A i \in 1 .. n + 1 : (A \o e)[i] = IF i <= 1 THEN A[i] ELSE e[i - 1]
  <2>1. /\ A \o e \in Seq(S) /\ Len(A \o e) = 1 + n
        /\ \A i \in 1 .. 1 + n : (A \o e)[i] = IF i <= 1 THEN A[i] ELSE e[i - 1]
    <3>1. /\ A \o e \in Seq(S) /\ Len(A \o e) = Len(A) + Len(e)
          /\ \A i \in 1 .. Len(A) + Len(e) :
               (A \o e)[i] = IF i <= Len(A) THEN A[i] ELSE e[i - Len(A)]
      BY <1>2, ConcatProperties
    <3> QED
      BY <1>2, <3>1 DEF n
  <2> QED
    BY <1>1, <2>1
<1>4. /\ L \in Seq(S) /\ Len(L) = n + 2 /\ L[1] = "---" /\ L[n + 2] = "---"
      /\ \A i \in 1 .. n : L[i + 1] = e[i]
  <2>1. /\ L \in Seq(S) /\ Len(L) = (n + 1) + 1
        /\ \A i \in 1 .. (n + 1) + 1 : L[i] = IF i <= n + 1 THEN (A \o e)[i] ELSE A[i - (n + 1)]
    <3>1. /\ L \in Seq(S) /\ Len(L) = Len(A \o e) + Len(A)
          /\ \A i \in 1 .. Len(A \o e) + Len(A) :
               L[i] = IF i <= Len(A \o e) THEN (A \o e)[i] ELSE A[i - Len(A \o e)]
      BY <1>2, <1>3, ConcatProperties
    <3> QED
      BY <1>2, <1>3, <3>1
  <2>2. L[1] = "---"
    BY <1>1, <1>2, <1>3, <2>1
  <2>3. L[n + 2] = "---"
    <3>1. n + 2 \in 1 .. (n + 1) + 1 /\ ~(n + 2 <= n + 1) /\ (n + 2) - (n + 1) = 1
      BY <1>1
    <3> QED
      BY <1>2, <2>1, <3>1
  <2>4. ASSUME NEW i \in 1 .. n PROVE L[i + 1] = e[i]
    <3>1. i + 1 \in 1 .. (n + 1) + 1 /\ i + 1 <= n + 1 /\ i + 1 \in 1 .. n + 1
          /\ ~(i + 1 <= 1) /\ (i + 1) - 1 = i
      BY <1>1
    <3> QED
      BY <1>3, <2>1, <3>1
  <2>5. Len(L) = n + 2
    BY <1>1, <2>1
  <2> QED
    BY <2>1, <2>2, <2>3, <2>4, <2>5
<1> HIDE DEF L
<1>5. /\ text \in Seq(S) /\ Len(text) = Len(L) + Len(body)
      /\ \A i \in 1 .. Len(L) + Len(body) : text[i] = IF i <= Len(L) THEN L[i] ELSE body[i - Len(L)]
  <2>1. L \in Seq(S)
    BY <1>4
  <2> QED
    BY <2>1, ConcatProperties
<1>6. SubSeq(text, Len(L) + 1, Len(text)) = body
  <2>1. L \in Seq(S)
    BY <1>4
  <2> QED
    BY <2>1, ConcatHasPrefix
<1>7. Len(body) \in Nat
  BY LenProperties
<1> HIDE DEF text
<1>8. /\ Len(text) = n + 2 + Len(body) /\ text[1] = "---" /\ text[n + 2] = "---"
      /\ \A i \in 1 .. n : text[i + 1] = e[i]
  <2>1. \A i \in 1 .. n + 2 : text[i] = L[i]
    BY <1>1, <1>4, <1>5, <1>7
  <2>2. \A i \in 1 .. n : i + 1 \in 1 .. n + 2
    BY <1>1
  <2> QED
    BY <1>1, <1>4, <1>5, <2>1, <2>2
<1> DEFINE closing == { i \in 2 .. Len(text) : Delimiter(text[i]) }
<1>0. Delimiter("---")
  BY LinesAssumption DEF Delimiter
<1>9. n + 2 \in closing
  <2>1. n + 2 \in 2 .. Len(text)
    BY <1>1, <1>7, <1>8
  <2>2. Delimiter(text[n + 2])
    BY <1>0, <1>8
  <2> QED
    BY <2>1, <2>2
<1>10. \A i \in closing : n + 2 <= i
  <2> SUFFICES ASSUME NEW i \in closing, i < n + 2 PROVE FALSE
    BY <1>1
  <2>1. i - 1 \in 1 .. n /\ (i - 1) + 1 = i
    BY <1>1
  <2>2. text[i] = e[i - 1]
    BY <1>8, <2>1
  <2> QED
    BY <2>1, <2>2 DEF n
<1>11. Min(closing) = n + 2
  <2>1. \E x \in closing : \A y \in closing : x =< y
    BY <1>9, <1>10
  <2>2. Min(closing) \in closing /\ \A y \in closing : Min(closing) <= y
    BY <2>1 DEF Min
  <2>3. closing \subseteq Int
    OBVIOUS
  <2> HIDE DEF closing
  <2>4. Min(closing) \in Int /\ Min(closing) <= n + 2 /\ n + 2 <= Min(closing)
    BY <1>9, <1>10, <2>2, <2>3
  <2> DEFINE m == Min(closing)
  <2> HIDE DEF m
  <2>5. m \in Int /\ m <= n + 2 /\ n + 2 <= m
    BY <2>4 DEF m
  <2>6. m = n + 2
    BY <1>1, <2>5
  <2> QED
    BY <2>6 DEF m
<1>12. SubSeq(text, 2, (n + 2) - 1) = e
  <2>1. \A i \in 2 .. n + 1 : text[i] \in S
    <3>1. \A i \in 2 .. n + 1 : i \in 1 .. Len(text)
      BY <1>1, <1>7, <1>8
    <3> QED
      BY <1>5, <3>1, LenProperties DEF text
  <2>2. /\ SubSeq(text, 2, n + 1) \in Seq(S)
        /\ Len(SubSeq(text, 2, n + 1)) = IF 2 <= n + 1 THEN (n + 1) - 2 + 1 ELSE 0
        /\ \A i \in 1 .. (n + 1) - 2 + 1 : SubSeq(text, 2, n + 1)[i] = text[2 + i - 1]
    BY <1>1, <2>1, SubSeqProperties
  <2>3. Len(SubSeq(text, 2, n + 1)) = n
    BY <1>1, <2>2
  <2>4. ASSUME NEW i \in 1 .. n PROVE SubSeq(text, 2, n + 1)[i] = e[i]
    <3>1. i \in 1 .. (n + 1) - 2 + 1 /\ 2 + i - 1 = i + 1
      BY <1>1
    <3> QED
      BY <1>8, <2>2, <3>1
  <2>5. SubSeq(text, 2, n + 1) = e
    BY <2>2, <2>3, <2>4, SeqEqual DEF n
  <2>6. (n + 2) - 1 = n + 1
    BY <1>1
  <2> QED
    BY <2>5, <2>6
<1>13. SubSeq(text, (n + 2) + 1, Len(text)) = body
  BY <1>4, <1>6
<1>14. Len(text) >= 2 /\ Delimiter(text[1]) /\ closing # {}
  <2>1. Len(text) >= 2
    BY <1>1, <1>7, <1>8
  <2>2. Delimiter(text[1])
    BY <1>0, <1>8
  <2>3. closing # {}
    BY <1>9
  <2> QED
    BY <2>1, <2>2, <2>3
<1>15. splitFrontmatter(text) = [head |-> e, body |-> TrimNewline(Lines(body))]
  <2>1. splitFrontmatter(text) =
          [head |-> SubSeq(text, 2, Min(closing) - 1),
           body |-> TrimNewline(Lines(SubSeq(text, Min(closing) + 1, Len(text))))]
    <3>1. ~(Len(text) < 2)
      BY <1>1, <1>7, <1>8
    <3> QED
      BY <1>14, <3>1 DEF splitFrontmatter
  <2> HIDE DEF closing
  <2> QED
    BY <1>11, <1>12, <1>13, <2>1
<1> QED
  BY <1>5, <1>15 DEF text, L, A

LEMMA HeadAndTail ==
  ASSUME NEW S, NEW s \in Seq(S), s # << >>
  PROVE  Tail(s) \in Seq(S) /\ s = << Head(s) >> \o Tail(s)
<1>1. /\ Head(s) \in S /\ Tail(s) \in Seq(S) /\ Len(Tail(s)) = Len(s)-1
      /\ \A i \in 1 .. Len(Tail(s)) : Tail(s)[i] = s[i+1]
  BY HeadTailProperties
<1>2. Len(s) \in Nat /\ Len(s) # 0
  BY LenProperties, EmptySeq
<1>3. Head(s) = s[1]
  OBVIOUS
<1>4. << Head(s) >> \in Seq(S) /\ Len(<< Head(s) >>) = 1 /\ << Head(s) >>[1] = Head(s)
  BY <1>1
<1>5. /\ << Head(s) >> \o Tail(s) \in Seq(S) /\ Len(<< Head(s) >> \o Tail(s)) = Len(<< Head(s) >>) + Len(Tail(s))
      /\ \A i \in 1 .. Len(<< Head(s) >>) + Len(Tail(s)) : 
           (<< Head(s) >> \o Tail(s))[i] = IF i <= Len(<< Head(s) >>) THEN << Head(s) >>[i] ELSE Tail(s)[i - Len(<< Head(s) >>)]
  BY <1>1, <1>4, ConcatProperties
<1>6. ASSUME NEW i \in 1 .. Len(s) PROVE (<< Head(s) >> \o Tail(s))[i] = s[i]
  <2>1. CASE i = 1
    BY <1>1, <1>2, <1>3, <1>4, <1>5, <2>1
  <2>2. CASE i # 1
    <3>1. i - 1 \in 1 .. Len(Tail(s)) /\ (i - 1) + 1 = i
      BY <1>1, <1>2, <2>2
    <3>2. Tail(s)[i - 1] = s[i]
      BY <1>1, <3>1
    <3> QED
      BY <1>1, <1>2, <1>4, <1>5, <2>2, <3>2
  <2> QED
    BY <2>1, <2>2
<1> QED
  BY <1>1, <1>2, <1>4, <1>5, <1>6, SeqEqual

LEMMA TrimsOneBlank ==
  ASSUME NEW S, "" \in S, NEW text \in Seq(S), text # << >>
  PROVE  /\ TrimNewline(text) \in Seq(S)
         /\ \E start \in Blank : text = start \o TrimNewline(text)
<1>1. CASE Len(text) > 1 /\ Head(text) = ""
  <2>1. Tail(text) \in Seq(S) /\ text = << Head(text) >> \o Tail(text)
    BY HeadAndTail
  <2>2. TrimNewline(text) = Tail(text)
    BY <1>1 DEF TrimNewline
  <2> QED
    BY <1>1, <2>1, <2>2 DEF Blank, EmptyText
<1>2. CASE ~(Len(text) > 1 /\ Head(text) = "")
  <2>1. TrimNewline(text) = text
    BY <1>2 DEF TrimNewline
  <2>2. << >> \o text = text
    BY ConcatEmptySeq
  <2> QED
    BY <2>1, <2>2 DEF Blank
<1> QED
  BY <1>1, <1>2

LEMMA EndsBlank ==
  ASSUME NEW S, "" \in S, NEW body \in Seq(S), body # << >>
  PROVE  /\ withNewline(body) \in Seq(S) \ {<< >>}
         /\ \E end \in Blank : body \o end = withNewline(body)
<1>1. CASE body = EmptyText \/ EndsWithNewline(body)
  <2>1. withNewline(body) = body
    BY <1>1 DEF withNewline
  <2>2. body \o << >> = body
    BY ConcatEmptySeq
  <2> QED
    BY <2>1, <2>2 DEF Blank
<1>2. CASE ~(body = EmptyText \/ EndsWithNewline(body))
  <2>1. withNewline(body) = Append(body, "")
    BY <1>2 DEF withNewline
  <2>2. body \o << "" >> = Append(body, "")
    BY AppendIsConcat
  <2>3. Append(body, "") \in Seq(S) /\ Append(body, "") # << >>
    BY AppendProperties
  <2> QED
    BY <2>1, <2>2, <2>3 DEF Blank, EmptyText
<1> QED
  BY <1>1, <1>2

\* What Get makes of a document Put has written, whatever is in it: lines of dashes
\* and blank lines of the body, any order of the keys. The frontmatter is the one
\* that was put but for the values that are read as null (parser.go:79-82 of what
\* parser.go:121-151 writes), a type among them.
THEOREM SerializedIsParsed ==
  ASSUME NEW concept, IsConcept(concept), NEW text \in SerializeConcept(concept)
  PROVE  /\ \E parsed \in ParseConcept(text) : TRUE
         /\ \A parsed \in ParseConcept(text) :
              /\ parsed.fm = concept.fm \ NullLines /\ parsed.body \in Seq(STRING)
              /\ \E start, end \in Blank : concept.body \o end = start \o parsed.body
<1> DEFINE fm == concept.fm
           nb == withNewline(concept.body)
<1>1. /\ IsFiniteSet(fm) /\ fm \subseteq TypeLines \cup ExtraLines
      /\ \A t, u \in TypeOf(fm) : t = u
      /\ concept.body \in Seq(STRING) /\ concept.body # << >>
  BY DEF IsConcept
<1>2. PICK e \in Encodings(fm) : text = << "---" >> \o e \o << "---" >> \o nb
  BY DEF SerializeConcept
<1>3. "" \in STRING /\ "---" \in STRING
  BY LinesAssumption
<1>4. /\ nb \in Seq(STRING) /\ nb # << >>
      /\ \E end \in Blank : concept.body \o end = nb
  BY <1>1, <1>3, EndsBlank
<1>5. TrimNewline(nb) \in Seq(STRING) /\ \E start \in Blank : nb = start \o TrimNewline(nb)
  <2> HIDE DEF nb
  <2> QED
    BY <1>3, <1>4, TrimsOneBlank
<1>6. e \in Seq(STRING) /\ \A i \in 1 .. Len(e) : ~Delimiter(e[i])
  <2>1. e \in Seq(fm)
    BY <1>1, EncodingHas
  <2>2. \A i \in 1 .. Len(e) : e[i] \in fm
    BY <2>1, LenProperties
  <2>3. fm \subseteq STRING /\ fm \cap Delimiters = {}
    BY <1>1, LinesAssumption
  <2>4. e \in Seq(STRING)
    BY <2>1, <2>3, SeqMonotonic
  <2> QED
    BY <2>2, <2>3, <2>4 DEF Delimiter
<1>7. splitFrontmatter(text) = [head |-> e, body |-> TrimNewline(Lines(nb))]
  <2> HIDE DEF nb
  <2> QED
    BY <1>2, <1>3, <1>4, <1>6, SplitsAt
<1>8. Lines(nb) = nb
  BY <1>4 DEF Lines
<1>9. parseFrontmatter(e) = { fm \ NullLines }
  BY <1>1, EncodingParses
<1>10. ParseConcept(text) = { [fm |-> x, body |-> TrimNewline(nb)] : x \in parseFrontmatter(e) }
  BY <1>7, <1>8 DEF ParseConcept
<1> HIDE DEF nb, fm
<1>11. ParseConcept(text) = { [fm |-> fm \ NullLines, body |-> TrimNewline(nb)] }
  BY <1>9, <1>10
<1>12. \A parsed \in ParseConcept(text) :
         parsed.fm = fm \ NullLines /\ parsed.body = TrimNewline(nb)
  BY <1>11
<1>13. \E start, end \in Blank : concept.body \o end = start \o TrimNewline(nb)
  BY <1>4, <1>5
<1> QED
  BY <1>5, <1>11, <1>12, <1>13 DEF fm

-----------------------------------------------------------------------------
(* What was put is read.                                                   *)

\* No link has the name of a reserved file, nor leads to one. A link index.md
\* that a hand makes while index.md is written would make that write replace the
\* document the link leads to.
ReservedNotLinked ==
  \A l \in Links : Last(l.at) \notin Reserved /\ (l.to # << >> => Last(l.to) \notin Reserved)

LEMMA ReservedStaysReserved ==
  ASSUME ReservedNotLinked, NEW f, Linked(f), NEW p \in Paths \ {<< >>}, Follow(f, p) # << >>
  PROVE  Last(Follow(f, p)) \in Reserved <=> Last(p) \in Reserved
<1> DEFINE at == Follow(f, Front(p))
           c == Last(p)
<1>1. Front(p) \in Paths /\ c \in Names /\ p = Append(Front(p), c)
  BY FrontAndLast DEF Paths
<1>2. at \in Paths
  BY <1>1, FollowIsAPath
<1>3. Follow(f, p) = Entered(f, at, c)
  <2>1. Follow(f, Append(Front(p), c)) = Entered(f, at, c)
    BY <1>1, FollowAppend
  <2> QED
    BY <1>1, <2>1
<1>4. Last(Append(at, c)) = c
  BY <1>1, <1>2, FrontOfAppend DEF Paths
<1> HIDE DEF at, c
<1>5. CASE IsKind(f, Append(at, c), "link")
  <2> DEFINE l == [at |-> Append(at, c), to |-> f[Append(at, c)].to]
  <2>1. l \in Links /\ l.at = Append(at, c) /\ l.to = Follow(f, p)
    BY <1>3, <1>5 DEF Linked, IsKind, Entered
  <2> HIDE DEF l
  <2> QED
    BY <1>4, <2>1 DEF ReservedNotLinked, c
<1>6. CASE ~IsKind(f, Append(at, c), "link")
  BY <1>3, <1>4, <1>6 DEF Entered, c
<1> QED
  BY <1>5, <1>6

\* What was put is a file that says what was put, and no reserved one.
KeptAt(p) ==
  /\ fs[p].kind = "file" /\ fs[p].text \in SerializeConcept(put[p]) /\ Last(p) \notin Reserved
Kept == \A p \in DOMAIN put : KeptAt(p)

LEMMA KeptInit ==
  Init => Kept
BY DEF Init, Kept

LEMMA KeptNext ==
  ASSUME ReservedNotLinked
  PROVE  Frame /\ Kept /\ [Next]_vars => Kept'
<1> SUFFICES ASSUME Frame, Kept, [Next]_vars PROVE Kept'
  OBVIOUS
<1>1. IsTree(fs) /\ Linked(fs) /\ Puts
  BY DEF Frame
<1>2. CASE UNCHANGED << fs, put >>
  BY <1>2 DEF Kept, KeptAt
<1>3. ASSUME NEW c \in Callers, MkdirAll(c) PROVE Kept'
  <2>1. PICK dir \in Paths : (CanMake(dir) /\ fs' = Made(dir)) \/ UNCHANGED fs
    BY <1>3, MkdirMeans
  <2>2. \A p \in DOMAIN fs : fs'[p] = fs[p]
    BY <1>1, <2>1, MadeIsTree
  <2>3. put' = put
    BY <1>3, MkdirMeans
  <2> QED
    BY <1>1, <2>2, <2>3 DEF Kept, KeptAt, Puts
<1>4. ASSUME NEW c \in Callers, NEW text, WriteOK(call[c]), CanWrite(call[c].path),
             fs' = Written(call[c].path, text)
      PROVE  LET at == Follow(fs, call[c].path) IN
             /\ fs'[at] = File(text) /\ \A p \in DOMAIN fs \ {at} : fs'[p] = fs[p]
             /\ Last(at) \in Reserved <=> Last(call[c].path) \in Reserved
  <2>1. call[c].path \in Paths \ {<< >>} /\ Follow(fs, call[c].path) # << >>
    BY <1>4 DEF WriteOK, CanWrite
  <2>2. Last(Follow(fs, call[c].path)) \in Reserved <=> Last(call[c].path) \in Reserved
    BY <1>1, <2>1, ReservedStaysReserved
  <2> QED
    BY <1>1, <1>4, <2>1, <2>2, WrittenIsTree
<1>5. ASSUME NEW c \in Callers, WriteFile(c), ~UNCHANGED << fs, put >> PROVE Kept'
  <2> DEFINE k == call[c]
             at == Follow(fs, k.path)
  <2>1. /\ WriteOK(k) /\ CanWrite(k.path) /\ fs' = Written(k.path, k.text)
        /\ put' = IF k.op = "put" THEN With(put, at, k.concept) ELSE put
    BY <1>5, WriteFileMeans
  <2>2. /\ fs'[at] = File(k.text) /\ \A p \in DOMAIN fs \ {at} : fs'[p] = fs[p]
        /\ Last(at) \in Reserved <=> Last(k.path) \in Reserved
    BY <1>4, <2>1
  <2> HIDE DEF at, k
  <2>3. CASE k.op = "put"
    <3>1. k.text \in SerializeConcept(k.concept) /\ Last(at) \notin Reserved
      BY <2>1, <2>2, <2>3 DEF WriteOK
    <3>2. DOMAIN put' = DOMAIN put \cup {at} /\ put'[at] = k.concept
          /\ \A p \in DOMAIN put \ {at} : put'[p] = put[p]
      BY <2>1, <2>3 DEF With
    <3>3. ASSUME NEW p, p = at PROVE KeptAt(p)'
      <4>1. fs'[p].kind = "file" /\ fs'[p].text = k.text
        BY <2>2, <3>3 DEF File
      <4> QED
        BY <3>1, <3>2, <3>3, <4>1 DEF KeptAt
    <3>4. ASSUME NEW p \in DOMAIN put, p # at PROVE KeptAt(p)'
      BY <1>1, <2>2, <3>2, <3>4 DEF Kept, KeptAt, Puts
    <3> QED
      BY <3>2, <3>3, <3>4 DEF Kept
  <2>4. CASE k.op # "put"
    <3>1. Last(at) \in Reserved /\ put' = put
      BY <2>1, <2>2, <2>4 DEF WriteOK
    <3>2. at \notin DOMAIN put
      BY <3>1 DEF Kept, KeptAt
    <3> QED
      BY <1>1, <2>2, <3>1, <3>2 DEF Kept, KeptAt, Puts
  <2> QED
    BY <2>3, <2>4
<1>6. ASSUME NEW c \in Callers, WriteFileFails(c) PROVE Kept'
  <2> DEFINE k == call[c]
             at == Follow(fs, k.path)
  <2>1. /\ WriteOK(k) /\ CanWrite(k.path) /\ fs' = Written(k.path, EmptyText)
        /\ put' = [ p \in DOMAIN put \ {at} |-> put[p] ]
    BY <1>6, WriteFailsMeans
  <2>2. \A p \in DOMAIN fs \ {at} : fs'[p] = fs[p]
    BY <1>4, <2>1
  <2> HIDE DEF at, k
  <2> QED
    BY <1>1, <2>1, <2>2 DEF Kept, KeptAt, Puts
<1>7. ASSUME NEW edit \in Hands, ByHand(edit) PROVE Kept'
  <2>1. /\ IsKind(fs, Front(edit.path), "dir") /\ fs' = Edited(edit)
        /\ put' = [ p \in { q \in DOMAIN put : ~IsPrefix(edit.path, q) } |-> put[p] ]
    BY <1>7, HandMeans
  <2>2. \A p \in DOMAIN fs : ~IsPrefix(edit.path, p) => fs'[p] = fs[p]
    BY <1>1, <2>1, EditedIsTree
  <2>3. \A p \in DOMAIN put' : p \in DOMAIN put /\ put'[p] = put[p] /\ fs'[p] = fs[p]
    BY <1>1, <2>1, <2>2 DEF Puts
  <2> QED
    BY <2>3 DEF Kept, KeptAt
<1>8. ASSUME NEW c \in Callers, Reads(c) \/ Begins(c) PROVE Kept'
  BY <1>2, <1>8 DEF Reads, Begins
<1>9. CASE UNCHANGED vars
  BY <1>2, <1>9 DEF vars
<1> QED
  BY <1>2, <1>3, <1>5, <1>6, <1>7, <1>8, <1>9, Steps

\* A file of the tree below the root is where it says, and can be resolved.
LEMMA FileResolves ==
  ASSUME NEW f, IsTree(f), Linked(f), NEW p \in DOMAIN f, f[p].kind # "link",
         NEW canon \in Paths, Below(p, canon)
  PROVE  /\ p \in Paths /\ Follow(f, p) = p /\ canon \in DOMAIN f \cup {<< >>} /\ Plain(f, canon)
         /\ symGuardExisting(f, p, canon)
<1>1. p \in Paths /\ p # << >> /\ \A i \in 1 .. Len(p) - 1 : IsKind(f, SubSeq(p, 1, i), "dir")
  BY ThroughDirs
<1>2. IsPrefix(canon, p) /\ canon # p
  BY DEF Below, IsStrictPrefix
<1>3. canon \in DOMAIN f \cup {<< >>} /\ Plain(f, canon) /\ Plain(f, p)
  BY <1>2, OnTheWay
<1>4. Follow(f, p) = p
  BY <1>1, <1>3, PlainLeads
<1>5. ~ThroughFile(f, p)
  <2> SUFFICES ASSUME NEW i \in 1 .. Len(p) - 1 PROVE ~IsFile(f, SubSeq(p, 1, i))
    BY DEF ThroughFile
  <2>1. i \in 0 .. Len(p)
    BY <1>1, LenProperties DEF Paths
  <2>2. SubSeq(p, 1, i) \in Paths /\ IsPrefix(SubSeq(p, 1, i), p)
    BY <1>1, <2>1, FirstNamesArePrefix DEF Paths
  <2>3. Plain(f, SubSeq(p, 1, i))
    BY <1>1, <1>3, <2>2, PlainPrefix
  <2>4. Follow(f, SubSeq(p, 1, i)) = SubSeq(p, 1, i)
    BY <2>2, <2>3, PlainLeads
  <2> QED
    BY <1>1, <2>4 DEF IsFile, IsKind
<1> QED
  BY <1>1, <1>2, <1>3, <1>4, <1>5 DEF symGuardExisting

LEMMA PutIsReadFromKept ==
  Frame /\ Kept => PutIsRead
<1> SUFFICES ASSUME Frame, Kept,
                    NEW alias \in DOMAIN RootOf, NEW rel \in Refs,
                    Join(Canon(alias), rel) \in DOMAIN put,
                    Below(Join(Canon(alias), rel), Canon(alias)),
                    Len(fs[Join(Canon(alias), rel)].text) <= MaxLines
             PROVE  LET p == Join(Canon(alias), rel) IN
                    \E path \in Resolve(fs, RootOf[alias], rel) :
                      \E concept \in GetAt(alias, path) :
                        /\ concept.fm = put[p].fm \ NullLines
                        /\ \E start, end \in Blank : put[p].body \o end = start \o concept.body
  BY DEF PutIsRead
<1> DEFINE canon == Canon(alias)
           p == Join(canon, rel)
<1>1. IsTree(fs) /\ Linked(fs) /\ p \in DOMAIN fs /\ IsConcept(put[p])
  BY ConstantsAssumption DEF Frame, Puts
<1>2. canon \in Paths /\ canon = Follow(fs, RootOf[alias])
  BY <1>1, FollowIsAPath, ConstantsAssumption DEF Canon
<1>3. fs[p].kind = "file" /\ fs[p].text \in SerializeConcept(put[p]) /\ Last(p) \notin Reserved
  BY DEF Kept, KeptAt
<1>4. Follow(fs, p) = p /\ canon \in DOMAIN fs \cup {<< >>} /\ symGuardExisting(fs, p, canon)
  <2> HIDE DEF canon, p
  <2>1. Below(p, canon)
    BY DEF p, canon
  <2> QED
    BY <1>1, <1>2, <1>3, <2>1, FileResolves
<1>5. p \in Resolve(fs, RootOf[alias], rel)
  <2>1. canon \in canonicalRoot(fs, RootOf[alias])
    BY <1>2, <1>4 DEF canonicalRoot, Exists
  <2>2. p \in containedPath(canon, rel)
    BY DEF containedPath
  <2> HIDE DEF canon, p
  <2> QED
    BY <1>3, <1>4, <2>1, <2>2 DEF Resolve
<1>6. fs[p].text \in TextAt(p)
  BY <1>1, <1>3, <1>4 DEF TextAt, IsFile, IsKind
<1> HIDE DEF p
<1>7. PICK parsed \in ParseConcept(fs[p].text) :
        /\ parsed.fm = put[p].fm \ NullLines
        /\ \E start, end \in Blank : put[p].body \o end = start \o parsed.body
  <2>1. /\ \E parsed \in ParseConcept(fs[p].text) : TRUE
        /\ \A parsed \in ParseConcept(fs[p].text) :
             /\ parsed.fm = put[p].fm \ NullLines
             /\ \E start, end \in Blank : put[p].body \o end = start \o parsed.body
    <3>1. IsConcept(put[p]) /\ fs[p].text \in SerializeConcept(put[p])
      BY <1>1, <1>3 DEF p
    <3> DEFINE d == put[p]
               text == fs[p].text
    <3> HIDE DEF d, text
    <3>2. IsConcept(d) /\ text \in SerializeConcept(d)
      BY <3>1 DEF d, text
    <3>3. /\ \E parsed \in ParseConcept(text) : TRUE
          /\ \A parsed \in ParseConcept(text) :
               /\ parsed.fm = d.fm \ NullLines /\ parsed.body \in Seq(STRING)
               /\ \E start, end \in Blank : d.body \o end = start \o parsed.body
      BY <3>2, SerializedIsParsed
    <3> QED
      BY <3>3 DEF d, text
  <2> QED
    BY <2>1
<1> DEFINE concept == [fm |-> parsed.fm, body |-> parsed.body,
                       broken |-> ExtractLinks(RootOf[alias], Front(p), parsed.body)]
<1>8. concept \in GetAt(alias, p)
  <2>1. parsed \in UNION { ParseConcept(text) : text \in TextAt(p) }
    BY <1>6
  <2> QED
    BY <2>1 DEF GetAt
<1>9. concept.fm = parsed.fm /\ concept.body = parsed.body
  OBVIOUS
<1> HIDE DEF concept
<1> QED
  BY <1>5, <1>7, <1>8, <1>9 DEF p

\* Whatever people do to other files, whatever else is written, and wherever the
\* disk fails: what was put last and acknowledged under a reference is what a Get
\* of every spelling of that reference reads, but for the values of its frontmatter
\* that YAML takes for null, which are gone.
THEOREM PutIsReadHolds ==
  ASSUME ReservedNotLinked
  PROVE  Spec => []PutIsRead
BY FrameHolds, KeptInit, KeptNext, PutIsReadFromKept, PTL DEF Spec

-----------------------------------------------------------------------------
(* Reading below a root: links, types and listings.                        *)

\* A spelling that never climbs above the place it starts at.
Descends(s) == \A path \in Paths : Join(path, s) = path \o Clean(s)

\* None with a "..", as the handlers and the use cases want it, does.
LEMMA DownwardDescends ==
  ASSUME NEW s \in Spellings, ".." \notin ToSet(s)
  PROVE  Descends(s)
<1>1. DOMAIN s = 1 .. Len(s) /\ Len(s) \in Nat /\ \A i \in 1 .. Len(s) : s[i] \in Component
  BY LenProperties DEF Spellings, Component
<1>2. \A i \in 1 .. Len(s) : s[i] \in Downward
  BY <1>1 DEF ToSet, Component, Downward
<1>3. s \in Seq(Downward)
  <2>1. s = [i \in 1 .. Len(s) |-> s[i]]
    BY <1>1, LenProperties DEF Spellings
  <2>2. s \in [1 .. Len(s) -> Downward]
    BY <1>2, <2>1
  <2> QED
    BY <1>1, <2>2, SeqDef
<1> QED
  BY <1>3, CleanDown DEF Descends, Join

\* A concatenation of paths is one, and its parts are where they are expected.
LEMMA PathsConcat ==
  ASSUME NEW p \in Paths, NEW q \in Paths
  PROVE  /\ p \o q \in Paths /\ IsPrefix(p, p \o q)
         /\ SubSeq(p \o q, Len(p) + 1, Len(p \o q)) = q
         /\ q # << >> => Below(p \o q, p)
BY ConcatHasPrefix DEF Paths, Below, IsStrictPrefix

\* A name in a directory is below the directory.
LEMMA NameIsBelow ==
  ASSUME NEW p \in Paths, NEW c \in Names
  PROVE  Append(p, c) \in Paths /\ IsPrefix(p, Append(p, c)) /\ Below(Append(p, c), p)
<1> DEFINE e == << c >>
<1>1. e \in Paths /\ e # << >>
  BY OneElement DEF Paths
<1>2. Append(p, c) = p \o e
  BY AppendIsConcat DEF Paths
<1> HIDE DEF e
<1> QED
  BY <1>1, <1>2, PathsConcat

\* A path below a root with no link under it is where it says.
LEMMA BelowIsPlain ==
  ASSUME NEW f, IsTree(f), Linked(f), NEW canon \in Paths, Plain(f, canon),
         \A p \in DOMAIN f : Below(p, canon) => f[p].kind # "link",
         NEW t \in Paths, IsPrefix(canon, t)
  PROVE  Plain(f, t) /\ Follow(f, t) = t
<1>1. ASSUME NEW i \in 1 .. Len(t), IsKind(f, SubSeq(t, 1, i), "link") PROVE FALSE
  <2> DEFINE q == SubSeq(t, 1, i)
  <2>1. Len(t) \in Nat /\ i \in 0 .. Len(t)
    BY LenProperties DEF Paths
  <2>2. q \in Paths /\ Len(q) = i /\ IsPrefix(q, t)
    BY <2>1, FirstNamesArePrefix DEF Paths
  <2> HIDE DEF q
  <2>3. q \in DOMAIN f /\ f[q].kind = "link"
    BY <1>1 DEF IsKind, q
  <2>4. ~IsStrictPrefix(canon, q)
    BY <2>3 DEF Below
  <2>5. IsPrefix(q, canon)
    BY <2>2, <2>4, PrefixesOrdered DEF Paths
  <2>6. /\ SubSeq(canon, 1, Len(q)) = q /\ Len(q) <= Len(canon)
        /\ Len(canon) \in Nat
    BY <2>2, <2>5, PrefixHas DEF Paths
  <2>7. Len(q) \in 1 .. Len(canon)
    BY <2>2, <2>6
  <2> QED
    BY <2>3, <2>6, <2>7 DEF Plain, IsKind
<1>2. Plain(f, t)
  BY <1>1 DEF Plain
<1> QED
  BY <1>2, PlainLeads

\* What follows a root that may be given through links leads below the real root.
LEMMA BelowRoot ==
  ASSUME Frame, NEW alias \in DOMAIN RootOf, ~HasLinks(alias), NEW s \in Paths
  PROVE  LET canon == Canon(alias) IN
         /\ canon \in Paths /\ canon \o s \in Paths
         /\ Follow(fs, canon \o s) = canon \o s
         /\ Follow(fs, RootOf[alias] \o s) = canon \o s
<1> DEFINE root == RootOf[alias]
           canon == Canon(alias)
<1>1. IsTree(fs) /\ Linked(fs) /\ root \in Paths
  BY ConstantsAssumption DEF Frame
<1>2. canon = Follow(fs, root) /\ canon \in Paths /\ Plain(fs, canon)
  BY <1>1, FollowIsAPath, FollowIsPlain DEF Canon
<1>3. \A p \in DOMAIN fs : Below(p, canon) => fs[p].kind # "link"
  BY DEF HasLinks
<1> HIDE DEF canon, root
<1>4. canon \o s \in Paths /\ IsPrefix(canon, canon \o s)
  BY <1>2, PathsConcat
<1>5. Plain(fs, canon \o s) /\ Follow(fs, canon \o s) = canon \o s
  BY <1>1, <1>2, <1>3, <1>4, BelowIsPlain
<1>6. Follow(fs, root \o s) = canon \o s
  BY <1>1, <1>2, <1>5, FollowOn
<1> QED
  BY <1>2, <1>4, <1>5, <1>6 DEF canon, root

\* The links in documents that start with a slash never climb above the bundle.
LinksDescend == \A line \in DOMAIN LinkOf : LinkOf[line].abs => Descends(LinkOf[line].to)

LEMMA BrokenIsMissingFromFrame ==
  ASSUME LinksDescend
  PROVE  Frame => BrokenIsMissing
<1> SUFFICES ASSUME Frame, NEW alias \in DOMAIN RootOf, ~HasLinks(alias),
                    NEW p \in DOMAIN put, NEW concept \in GetAt(alias, p),
                    NEW line \in ToSet(concept.body) \cap DOMAIN LinkOf,
                    Below(p, Canon(alias)),
                    Below(Join(IF LinkOf[line].abs THEN Canon(alias) ELSE Front(p),
                               LinkOf[line].to), Canon(alias))
             PROVE  line \in concept.broken
                      <=> Join(IF LinkOf[line].abs THEN Canon(alias) ELSE Front(p),
                               LinkOf[line].to) \notin DOMAIN fs
  BY DEF BrokenIsMissing
<1> DEFINE root == RootOf[alias]
           canon == Canon(alias)
           to == LinkOf[line].to
           from == IF LinkOf[line].abs THEN canon ELSE Front(p)
           seen == Join(IF LinkOf[line].abs THEN root ELSE Front(p), to)
           target == Join(from, to)
<1>1. IsTree(fs) /\ Linked(fs) /\ root \in Paths /\ to \in Spellings /\ p \in DOMAIN fs
  BY ConstantsAssumption DEF Frame, Puts
<1>2. line \in concept.broken <=> ~Exists(fs, seen)
  <2>1. PICK parsed : concept = [fm |-> parsed.fm, body |-> parsed.body,
                                 broken |-> ExtractLinks(root, Front(p), parsed.body)]
    BY DEF GetAt
  <2>2. concept.body = parsed.body /\ concept.broken = ExtractLinks(root, Front(p), parsed.body)
    BY <2>1
  <2> QED
    BY <2>2 DEF ExtractLinks
<1>3. canon \in Paths
  BY <1>1, FollowIsAPath DEF Canon
<1>4. Follow(fs, seen) = target
  <2>1. CASE LinkOf[line].abs
    <3>1. Clean(to) \in Paths /\ Join(root, to) = root \o Clean(to) /\ Join(canon, to) = canon \o Clean(to)
      BY <1>1, <1>3, <2>1, CleanIsAPath DEF LinksDescend, Descends
    <3>2. seen = root \o Clean(to) /\ target = canon \o Clean(to)
      BY <2>1, <3>1
    <3> HIDE DEF seen, target, to
    <3> QED
      BY <3>1, <3>2, BelowRoot
  <2>2. CASE ~LinkOf[line].abs
    <3>1. seen = target
      BY <2>2
    <3>2. p \in Paths /\ p # << >>
      BY <1>1 DEF IsTree
    <3>3. Front(p) \in Paths
      BY <3>2, FrontAndLast DEF Paths
    <3>4. target \in Paths
      BY <1>1, <2>2, <3>3, JoinIsAPath
    <3>5. Plain(fs, canon) /\ \A q \in DOMAIN fs : Below(q, canon) => fs[q].kind # "link"
      BY <1>1, FollowIsPlain DEF HasLinks, Canon
    <3>6. IsPrefix(canon, target)
      BY DEF Below, IsStrictPrefix
    <3> HIDE DEF target, canon, seen
    <3> QED
      BY <1>1, <1>3, <3>1, <3>4, <3>5, <3>6, BelowIsPlain
  <2> QED
    BY <2>1, <2>2
<1>5. target # << >>
  <2>1. canon # target /\ IsPrefix(canon, target)
    BY DEF Below, IsStrictPrefix
  <2> HIDE DEF canon, target
  <2>2. target = << >> => canon = << >>
    <3>1. Len(canon) \in Nat /\ Len(<< >>) = 0
      BY <1>3, LenProperties DEF Paths
    <3>2. target = << >> => Len(canon) = 0
      BY <2>1, <3>1 DEF IsPrefix
    <3> QED
      BY <1>3, <3>2, EmptySeq DEF Paths
  <2> QED
    BY <2>1, <2>2
<1>6. Exists(fs, seen) <=> target \in DOMAIN fs
  <2> HIDE DEF seen, target
  <2> QED
    BY <1>4, <1>5 DEF Exists
<1> QED
  BY <1>2, <1>6

\* Whatever links the root is given through, and wherever in the bundle a
\* document is: its links are marked broken exactly when nothing is there.
THEOREM BrokenIsMissingHolds ==
  ASSUME LinksDescend
  PROVE  Spec => []BrokenIsMissing
BY FrameHolds, BrokenIsMissingFromFrame, PTL

\* The root of every bundle, with the links on the way to it resolved, is no link
\* and no file, if it is there: filepath.WalkDir does not follow a root that is a
\* link itself, and visits a root that is a file.
PlainRoots ==
  \A alias \in DOMAIN RootOf :
    LET root == WalkRoot(RootOf[alias]) IN root \in DOMAIN fs => fs[root].kind = "dir"

LEMMA WalksFromRoot ==
  ASSUME Frame, PlainRoots, NEW alias \in DOMAIN RootOf
  PROVE  /\ WalkRoot(RootOf[alias]) = Canon(alias)
         /\ Canon(alias) \in DOMAIN fs => fs[Canon(alias)].kind = "dir"
<1> DEFINE root == RootOf[alias]
<1>1. Linked(fs) /\ root \in Paths
  BY ConstantsAssumption DEF Frame
<1>2. WalkRoot(root) \in DOMAIN fs => fs[WalkRoot(root)].kind = "dir"
  BY DEF PlainRoots
<1>3. CASE root = << >>
  BY <1>1, <1>2, <1>3, FollowNil DEF WalkRoot, Canon
<1>4. CASE root # << >>
  <2>1. Front(root) \in Paths /\ Last(root) \in Names /\ root = Append(Front(root), Last(root))
    BY <1>1, <1>4, FrontAndLast DEF Paths
  <2> DEFINE at == Append(Follow(fs, Front(root)), Last(root))
  <2>2. WalkRoot(root) = at
    BY <1>4 DEF WalkRoot
  <2>3. Follow(fs, root) = Entered(fs, Follow(fs, Front(root)), Last(root))
    <3>1. Follow(fs, Append(Front(root), Last(root))) = Entered(fs, Follow(fs, Front(root)), Last(root))
      BY <1>1, <2>1, FollowAppend
    <3> QED
      BY <2>1, <3>1
  <2>4. ~IsKind(fs, at, "link")
    BY <1>2, <2>2 DEF IsKind
  <2>5. Follow(fs, root) = at
    BY <2>3, <2>4 DEF Entered
  <2> QED
    BY <1>2, <2>2, <2>5 DEF Canon
<1> QED
  BY <1>3, <1>4

\* Where the walk of a listing starts, in the real bundle.
LEMMA WalksFrom ==
  ASSUME Frame, PlainRoots, NEW alias \in DOMAIN RootOf, NEW s \in Paths,
         s # << >> => Follow(fs, RootOf[alias] \o Front(s)) = Canon(alias) \o Front(s)
  PROVE  WalkRoot(RootOf[alias] \o s) = Canon(alias) \o s
<1> DEFINE root == RootOf[alias]
           canon == Canon(alias)
<1>1. root \in Paths /\ canon \in Paths
  BY FollowIsAPath, ConstantsAssumption DEF Frame, Canon
<1>2. CASE s = << >>
  <2>1. root \o s = root /\ canon \o s = canon
    BY <1>1, <1>2, ConcatEmptySeq DEF Paths
  <2> QED
    BY <2>1, WalksFromRoot
<1>3. CASE s # << >>
  <2>1. Front(s) \in Paths /\ Last(s) \in Names /\ s = Append(Front(s), Last(s))
    BY <1>3, FrontAndLast DEF Paths
  <2> DEFINE e == Front(s)
             n == Last(s)
  <2>0. e \in Seq(Names) /\ n \in Names /\ root \in Seq(Names) /\ canon \in Seq(Names)
    BY <1>1, <2>1 DEF Paths
  <2> HIDE DEF root, canon, e, n
  <2>9. /\ root \o Append(e, n) = Append(root \o e, n) /\ root \o e \in Seq(Names)
        /\ canon \o Append(e, n) = Append(canon \o e, n)
    BY <2>0, ConcatAppend
  <2>2. /\ root \o Append(Front(s), Last(s)) = Append(root \o Front(s), Last(s))
        /\ canon \o Append(Front(s), Last(s)) = Append(canon \o Front(s), Last(s))
        /\ root \o Front(s) \in Paths
    BY <2>9 DEF e, n, Paths
  <2>3. root \o s = Append(root \o Front(s), Last(s)) /\ canon \o s = Append(canon \o Front(s), Last(s))
    BY <2>1, <2>2
  <2>4. /\ Front(Append(root \o Front(s), Last(s))) = root \o Front(s)
        /\ Last(Append(root \o Front(s), Last(s))) = Last(s)
    <3> DEFINE p == root \o Front(s)
               c == Last(s)
    <3>1. p \in Seq(Names) /\ c \in Names
      BY <2>1, <2>2 DEF Paths
    <3> HIDE DEF p, c
    <3>2. Front(Append(p, c)) = p /\ Last(Append(p, c)) = c
      BY <3>1, FrontOfAppend
    <3> QED
      BY <3>2 DEF p, c
  <2>5. Append(root \o Front(s), Last(s)) # << >>
    BY <2>1, <2>2, AppendProperties DEF Paths
  <2>6. WalkRoot(root \o s) = Append(Follow(fs, root \o Front(s)), Last(s))
    BY <2>3, <2>4, <2>5 DEF WalkRoot
  <2> QED
    BY <1>3, <2>3, <2>6 DEF root, canon
<1> QED
  BY <1>2, <1>3

\* What a walk lists, and how it spells it.
Walked(top) ==
  { q \in DOMAIN fs : IsPrefix(top, q) /\ fs[q].kind # "dir" /\ Last(q) \in Md \ Reserved }
Beneath(q, p) == SubSeq(q, Len(p) + 1, Len(q))

LEMMA ListedMeans ==
  ASSUME Frame, NEW alias \in DOMAIN RootOf, NEW sub \in Spellings, Descends(sub),
         WalkRoot(RootOf[alias] \o Clean(sub)) = Canon(alias) \o Clean(sub)
  PROVE  Listed(alias, sub) = { Beneath(q, Canon(alias)) : q \in Walked(Canon(alias) \o Clean(sub)) }
<1> DEFINE root == RootOf[alias]
           canon == Canon(alias)
           s == Clean(sub)
           top == canon \o s
<1>1. root \in Paths /\ canon \in Paths /\ s \in Paths /\ IsTree(fs)
  BY FollowIsAPath, CleanIsAPath, ConstantsAssumption DEF Frame, Canon
<1>2. Join(root, sub) = root \o s
  BY <1>1 DEF Descends
<1>3. SubSeq(root \o s, Len(root) + 1, Len(root \o s)) = s
  BY <1>1, PathsConcat
<1>4. WalkRoot(root \o s) = top
  OBVIOUS
<1>5. Listed(alias, sub) = { s \o SubSeq(q, Len(top) + 1, Len(q)) : q \in Walked(top) }
  <2> HIDE DEF top, s
  <2> QED
    BY <1>2, <1>3, <1>4 DEF Listed, Walked
<1>6. ASSUME NEW q \in Walked(top) PROVE s \o SubSeq(q, Len(top) + 1, Len(q)) = Beneath(q, canon)
  <2> HIDE DEF canon, s, root
  <2>1. q \in Paths /\ IsPrefix(top, q)
    BY <1>1, <1>6 DEF Walked, IsTree
  <2> DEFINE r == SubSeq(q, Len(top) + 1, Len(q))
  <2>2. top \in Paths
    BY <1>1, PathsConcat
  <2>3. r \in Paths /\ q = top \o r
    <3> HIDE DEF top
    <3> QED
      BY <2>1, <2>2, PrefixHas DEF Paths
  <2> HIDE DEF r
  <2>4. q = canon \o (s \o r)
    BY <1>1, <2>3, ConcatAssociative DEF Paths
  <2>5. s \o r \in Paths
    BY <1>1, <2>3, PathsConcat
  <2>6. SubSeq(q, Len(canon) + 1, Len(q)) = s \o r
    BY <1>1, <2>4, <2>5, PathsConcat
  <2> QED
    BY <2>6 DEF Beneath, r
<1> HIDE DEF top, s, canon
<1>7. { s \o SubSeq(q, Len(top) + 1, Len(q)) : q \in Walked(top) } = { Beneath(q, canon) : q \in Walked(top) }
  BY <1>6
<1> QED
  BY <1>5, <1>7 DEF top, s, canon

LEMMA BeneathIs ==
  ASSUME NEW p \in Paths, NEW q \in Paths, IsPrefix(p, q)
  PROVE  Beneath(q, p) \in Paths /\ q = p \o Beneath(q, p) /\ (q # p => Beneath(q, p) # << >>)
<1>1. Beneath(q, p) \in Paths /\ q = p \o Beneath(q, p)
  BY PrefixHas DEF Paths, Beneath
<1>2. p \o << >> = p
  BY ConcatEmptySeq DEF Paths
<1> HIDE DEF Beneath
<1> QED
  BY <1>1, <1>2

\* The types in the file at a place.
TypesAt(path) ==
  UNION { TypeOf(concept.fm)
          : concept \in UNION { ParseConcept(text) : text \in TextAt(path) } }

LEMMA EmptySub ==
  << "" >> \in Spellings /\ Clean(<< "" >>) = << >> /\ Descends(<< "" >>)
<1>1. "" \in Downward /\ "" \in Component
  BY DEF Downward, Component
<1>2. << "" >> \in Seq(Downward) /\ << "" >> \in Spellings
  <2>1. << "" >> \in Seq(Downward) /\ << "" >> \in Seq(Component)
    BY <1>1, OneElement
  <2> QED
    BY <2>1 DEF Spellings, Component
<1>3. << "" >> = Append(<< >>, "") /\ << >> \in Spellings
  BY EmptySeq DEF Spellings
<1>4. Clean(<< "" >>) = Cleaned(Clean(<< >>), "")
  BY <1>1, <1>3, CleanAppend
<1>5. Clean(<< "" >>) = << >>
  BY <1>4, CleanNil DEF Cleaned
<1>6. Descends(<< "" >>)
  BY <1>2, CleanDown DEF Descends, Join
<1> QED
  BY <1>2, <1>5, <1>6

\* What is listed of a bundle is what is below its real root.
LEMMA ListedIsBelow ==
  ASSUME Frame, PlainRoots, NEW alias \in DOMAIN RootOf
  PROVE  LET canon == Canon(alias) IN
         Listed(alias, << "" >>) =
           { Beneath(q, canon) : q \in { q \in DOMAIN fs :
               Below(q, canon) /\ fs[q].kind # "dir" /\ Last(q) \in Md \ Reserved } }
<1> DEFINE root == RootOf[alias]
           canon == Canon(alias)
<1>1. root \in Paths /\ canon \in Paths /\ << >> \in Paths
  BY FollowIsAPath, FollowNil, ConstantsAssumption DEF Frame, Canon
<1>2. root \o << >> = root /\ canon \o << >> = canon
  BY <1>1, ConcatEmptySeq DEF Paths
<1>3. WalkRoot(root \o << >>) = canon \o << >> /\ (canon \in DOMAIN fs => fs[canon].kind = "dir")
  BY <1>2, WalksFromRoot
<1>4. Listed(alias, << "" >>) = { Beneath(q, canon) : q \in Walked(canon) }
  <2>1. Listed(alias, << "" >>) = { Beneath(q, canon) : q \in Walked(canon \o Clean(<< "" >>)) }
    <3>1. WalkRoot(root \o Clean(<< "" >>)) = canon \o Clean(<< "" >>)
      BY <1>3, EmptySub
    <3> QED
      BY <3>1, EmptySub, ListedMeans
  <2>2. canon \o Clean(<< "" >>) = canon
    BY <1>2, EmptySub
  <2> QED
    BY <2>1, <2>2
<1> HIDE DEF canon
<1>5. Walked(canon) = { q \in DOMAIN fs :
        Below(q, canon) /\ fs[q].kind # "dir" /\ Last(q) \in Md \ Reserved }
  BY <1>3 DEF Walked, Below, IsStrictPrefix
<1> QED
  BY <1>4, <1>5 DEF canon

LEMMA TypesFromFrame ==
  Frame /\ PlainRoots => TypesAreThoseRead
<1> SUFFICES ASSUME Frame, PlainRoots, NEW alias \in DOMAIN RootOf, ~HasLinks(alias)
             PROVE  UNION { TypesOfFile(alias, rel) : rel \in Listed(alias, << "" >>) }
                      = UNION { TypeOf(concept.fm) :
                          concept \in UNION { GetAt(alias, p) : p \in { q \in DOMAIN fs :
                            Below(q, Canon(alias)) /\ Last(q) \in Md \ Reserved } } }
  BY DEF TypesAreThoseRead
<1> DEFINE root == RootOf[alias]
           canon == Canon(alias)
           B == { q \in DOMAIN fs : Below(q, canon) /\ Last(q) \in Md \ Reserved }
           F == { q \in DOMAIN fs : Below(q, canon) /\ fs[q].kind # "dir" /\ Last(q) \in Md \ Reserved }
<1>1. root \in Paths /\ canon \in Paths /\ IsTree(fs)
  BY FollowIsAPath, ConstantsAssumption DEF Frame, Canon
<1>2. ASSUME NEW q \in DOMAIN fs, Below(q, canon)
      PROVE  Follow(fs, q) = q /\ TypesOfFile(alias, Beneath(q, canon)) = TypesAt(q)
  <2>1. q \in Paths /\ IsPrefix(canon, q)
    BY <1>1, <1>2 DEF Below, IsStrictPrefix, IsTree
  <2> DEFINE r == Beneath(q, canon)
  <2>2. r \in Paths /\ q = canon \o r
    BY <1>1, <2>1, BeneathIs
  <2> HIDE DEF r
  <2>3. Follow(fs, q) = q /\ Follow(fs, root \o r) = q
    BY <2>2, BelowRoot
  <2>4. Join(root, r) = root \o r
    <3>1. r \in Seq(Downward)
      BY <2>2, SeqMonotonic DEF Paths, Downward
    <3>2. Clean(root \o r) = root \o Clean(r) /\ Clean(r) = r
      BY <1>1, <2>2, <3>1, CleanDown
    <3> QED
      BY <3>2 DEF Join
  <2>5. TextAt(Join(root, r)) = TextAt(q)
    BY <2>3, <2>4 DEF TextAt, IsFile
  <2> QED
    BY <2>3, <2>5 DEF TypesOfFile, TypesAt, r
<1>3. \A q \in B : TypesAt(q) = UNION { TypeOf(concept.fm) : concept \in GetAt(alias, q) }
  <2> SUFFICES ASSUME NEW q \in B
               PROVE  TypesAt(q) = UNION { TypeOf(concept.fm) : concept \in GetAt(alias, q) }
    OBVIOUS
  <2> DEFINE P == UNION { ParseConcept(text) : text \in TextAt(q) }
  <2>1. GetAt(alias, q) = { [fm |-> concept.fm, body |-> concept.body,
                             broken |-> ExtractLinks(root, Front(q), concept.body)] : concept \in P }
    BY DEF GetAt
  <2> HIDE DEF P
  <2>2. \A concept \in GetAt(alias, q) : \E c \in P : c.fm = concept.fm
    BY <2>1
  <2>3. ASSUME NEW c \in P PROVE \E concept \in GetAt(alias, q) : c.fm = concept.fm
    <3> DEFINE concept == [fm |-> c.fm, body |-> c.body,
                           broken |-> ExtractLinks(root, Front(q), c.body)]
    <3>1. concept \in GetAt(alias, q)
      BY <2>1
    <3>2. concept.fm = c.fm
      OBVIOUS
    <3> HIDE DEF concept
    <3> QED
      BY <3>1, <3>2
  <2>4. TypesAt(q) = UNION { TypeOf(c.fm) : c \in P }
    BY DEF TypesAt, P
  <2> HIDE DEF B
  <2> QED
    BY <2>2, <2>3, <2>4
<1>4. \A q \in B \ F : TypesAt(q) = {}
  <2> SUFFICES ASSUME NEW q \in B \ F PROVE TypesAt(q) = {}
    OBVIOUS
  <2>1. Follow(fs, q) = q /\ fs[q].kind = "dir"
    BY <1>2
  <2>2. TextAt(q) = {}
    BY <2>1 DEF TextAt, IsFile, IsKind
  <2> QED
    BY <2>2 DEF TypesAt
<1>5. F \subseteq B
  OBVIOUS
<1>6. Listed(alias, << "" >>) = { Beneath(q, canon) : q \in F }
  BY ListedIsBelow
<1>7. \A q \in F : TypesOfFile(alias, Beneath(q, canon)) = TypesAt(q)
  BY <1>2
<1>8. UNION { TypeOf(concept.fm) : concept \in UNION { GetAt(alias, p) : p \in B } }
        = UNION { TypesAt(q) : q \in B }
  <2> HIDE DEF B, F
  <2> QED
    BY <1>3
<1>9. UNION { TypesOfFile(alias, rel) : rel \in Listed(alias, << "" >>) } = UNION { TypesAt(q) : q \in F }
  <2> HIDE DEF B, F
  <2> QED
    BY <1>6, <1>7
<1>10. UNION { TypesAt(q) : q \in B } = UNION { TypesAt(q) : q \in F }
  <2> HIDE DEF B, F
  <2> QED
    BY <1>4, <1>5
<1> QED
  BY <1>8, <1>9, <1>10

\* However the root is spelled and whatever hands make of the files: in a bundle
\* with no links the types listed are those of the documents that can be read.
THEOREM TypesAreThoseReadHolds ==
  Spec => [](PlainRoots => TypesAreThoseRead)
<1>1. Frame => (PlainRoots => TypesAreThoseRead)
  BY TypesFromFrame
<1> QED
  BY <1>1, FrameHolds, PTL

\* The callers spell the directory of a listing without climbing above the bundle.
SubsDescend == \A sub \in Subs : Descends(sub)

\* A path below another is beneath it, also in two steps.
LEMMA ConcatPrefixes ==
  ASSUME NEW p \in Paths, NEW s \in Paths, NEW q \in Paths, IsPrefix(p \o s, q)
  PROVE  IsPrefix(p, q) /\ (s # << >> => Below(q, p))
<1>1. p \o s \in Paths /\ IsPrefix(p, p \o s) /\ (s # << >> => Below(p \o s, p))
  BY PathsConcat
<1>2. IsPrefix(p, q) /\ (p # p \o s => p # q)
  <2> DEFINE t == p \o s
  <2>1. t \in Seq(Names) /\ IsPrefix(p, t) /\ IsPrefix(t, q) /\ p \in Seq(Names) /\ q \in Seq(Names)
    BY <1>1 DEF Paths
  <2> HIDE DEF t
  <2>2. IsPrefix(p, q) /\ (p # t \/ t # q => p # q)
    BY <2>1, PrefixOfPrefix
  <2> QED
    BY <2>2 DEF t
<1> QED
  BY <1>1, <1>2 DEF Below, IsStrictPrefix

LEMMA PutIsListed ==
  ASSUME Frame, Kept, PlainRoots, NEW alias \in DOMAIN RootOf, NEW p \in DOMAIN put,
         NEW sub \in Spellings, Descends(sub), Last(p) \in Md, Below(p, Canon(alias)),
         IsPrefix(Join(Canon(alias), sub), p)
  PROVE  Beneath(p, Canon(alias)) \in Listed(alias, sub)
<1> DEFINE root == RootOf[alias]
           canon == Canon(alias)
           s == Clean(sub)
<1>1. /\ IsTree(fs) /\ Linked(fs) /\ p \in DOMAIN fs /\ root \in Paths /\ canon \in Paths
      /\ canon = Follow(fs, root) /\ s \in Paths
  BY FollowIsAPath, CleanIsAPath, ConstantsAssumption DEF Frame, Puts, Canon
<1>2. fs[p].kind = "file" /\ Last(p) \notin Reserved
  BY DEF Kept, KeptAt
<1>3. Join(canon, sub) = canon \o s
  BY <1>1 DEF Descends
<1> HIDE DEF s, canon, root
<1>4. IsPrefix(canon \o s, p) /\ canon \o s \in Paths /\ p \in Paths
  BY <1>1, <1>3, PathsConcat DEF IsTree, canon
<1>5. ASSUME s # << >> PROVE Follow(fs, root \o Front(s)) = canon \o Front(s)
  <2>1. Front(s) \in Paths /\ Last(s) \in Names /\ s = Append(Front(s), Last(s))
    BY <1>1, <1>5, FrontAndLast DEF Paths
  <2> DEFINE d == canon \o Front(s)
  <2>2. d \in Paths /\ d \o << Last(s) >> = canon \o s
    <3>1. canon \o Append(Front(s), Last(s)) = Append(d, Last(s)) /\ d \in Paths
      BY <1>1, <2>1, ConcatAppend DEF Paths
    <3>2. Append(d, Last(s)) = d \o << Last(s) >>
      <4> HIDE DEF d
      <4> QED
        BY <2>1, <3>1, AppendIsConcat DEF Paths
    <3> QED
      BY <2>1, <3>1, <3>2
  <2> HIDE DEF d
  <2>3. << Last(s) >> \in Paths /\ << Last(s) >> # << >>
    BY <2>1, OneElement DEF Paths
  <2>4. IsPrefix(d, p) /\ d # p
    <3>1. IsPrefix(d \o << Last(s) >>, p)
      BY <1>4, <2>2
    <3> QED
      BY <1>4, <2>2, <2>3, <3>1, ConcatPrefixes DEF Below, IsStrictPrefix
  <2>5. Plain(fs, d)
    BY <1>1, <2>2, <2>4, OnTheWay
  <2> QED
    BY <1>1, <2>1, <2>5, FollowOn DEF d
<1>6. WalkRoot(root \o s) = canon \o s
  BY <1>1, <1>5, WalksFrom DEF root, canon
<1>7. Listed(alias, sub) = { Beneath(q, canon) : q \in Walked(canon \o s) }
  BY <1>6, ListedMeans DEF root, canon, s
<1>8. p \in Walked(canon \o s)
  BY <1>1, <1>2, <1>4 DEF Walked
<1> QED
  BY <1>7, <1>8 DEF canon

LEMMA ListedResolves ==
  ASSUME Frame, PlainRoots, NEW alias \in DOMAIN RootOf, ~HasLinks(alias),
         NEW sub \in Spellings, Descends(sub), NEW ref \in Listed(alias, sub)
  PROVE  Resolve(fs, RootOf[alias], ref) # {}
<1> DEFINE root == RootOf[alias]
           canon == Canon(alias)
           s == Clean(sub)
<1>1. /\ IsTree(fs) /\ Linked(fs) /\ root \in Paths /\ canon \in Paths
      /\ canon = Follow(fs, root) /\ s \in Paths
  BY FollowIsAPath, CleanIsAPath, ConstantsAssumption DEF Frame, Canon
<1>2. s # << >> => Follow(fs, root \o Front(s)) = canon \o Front(s)
  <2>1. s # << >> => Front(s) \in Paths
    BY <1>1, FrontAndLast DEF Paths
  <2> QED
    BY <2>1, BelowRoot
<1>3. WalkRoot(root \o s) = canon \o s
  BY <1>1, <1>2, WalksFrom
<1>4. PICK q \in Walked(canon \o s) : ref = Beneath(q, canon)
  BY <1>3, ListedMeans
<1>5. /\ q \in DOMAIN fs /\ IsPrefix(canon \o s, q) /\ fs[q].kind # "dir" /\ Last(q) \notin Reserved
      /\ q \in Paths
  BY <1>1 DEF Walked, IsTree
<1>6. IsPrefix(canon, q) /\ (s # << >> => Below(q, canon))
  BY <1>1, <1>5, ConcatPrefixes
<1>7. Below(q, canon)
  <2>1. canon \in DOMAIN fs => fs[canon].kind = "dir"
    BY WalksFromRoot
  <2> QED
    BY <1>5, <1>6, <2>1 DEF Below, IsStrictPrefix
<1>8. fs[q].kind # "link"
  BY <1>5, <1>7 DEF HasLinks
<1> HIDE DEF canon, root
<1>9. symGuardExisting(fs, q, canon) /\ canon \in DOMAIN fs \cup {<< >>}
  BY <1>1, <1>5, <1>7, <1>8, FileResolves
<1>10. Join(canon, ref) = q
  <2>1. ref \in Paths /\ q = canon \o ref
    BY <1>1, <1>4, <1>5, <1>6, BeneathIs
  <2>2. ref \in Seq(Downward)
    BY <2>1, SeqMonotonic DEF Paths, Downward
  <2>3. Clean(canon \o ref) = canon \o Clean(ref) /\ Clean(ref) = ref
    BY <1>1, <2>1, <2>2, CleanDown
  <2> QED
    BY <2>1, <2>3 DEF Join
<1>11. q \in containedPath(canon, ref)
  BY <1>7, <1>10 DEF containedPath
<1>12. canon \in canonicalRoot(fs, root)
  BY <1>1, <1>9 DEF canonicalRoot, Exists
<1>13. q \in Resolve(fs, root, ref)
  BY <1>5, <1>9, <1>11, <1>12 DEF Resolve
<1> QED
  BY <1>13 DEF root

LEMMA ListingFromKept ==
  ASSUME SubsDescend
  PROVE  Frame /\ Kept /\ PlainRoots => ListingLeadsBack
<1> SUFFICES ASSUME Frame, Kept, PlainRoots, NEW alias \in DOMAIN RootOf
             PROVE  /\ \A p \in DOMAIN put, sub \in Subs :
                         /\ Below(p, Canon(alias)) /\ Last(p) \in Md
                         /\ MayList(alias, sub) /\ IsPrefix(Join(Canon(alias), sub), p)
                         => SubSeq(p, Len(Canon(alias)) + 1, Len(p)) \in Listed(alias, sub)
                    /\ ~HasLinks(alias) =>
                         \A sub \in Subs : \A ref \in Listed(alias, sub) :
                           Resolve(fs, RootOf[alias], ref) # {}
  BY DEF ListingLeadsBack
<1>1. \A sub \in Subs : sub \in Spellings /\ Descends(sub)
  BY ConstantsAssumption DEF SubsDescend
<1>2. ASSUME NEW p \in DOMAIN put, NEW sub \in Subs, Below(p, Canon(alias)), Last(p) \in Md,
             IsPrefix(Join(Canon(alias), sub), p)
      PROVE  SubSeq(p, Len(Canon(alias)) + 1, Len(p)) \in Listed(alias, sub)
  BY <1>1, <1>2, PutIsListed DEF Beneath
<1>3. ASSUME ~HasLinks(alias), NEW sub \in Subs, NEW ref \in Listed(alias, sub)
      PROVE  Resolve(fs, RootOf[alias], ref) # {}
  BY <1>1, <1>3, ListedResolves
<1> QED
  BY <1>2, <1>3

\* Every document that was put is in the listings of the directories it is under,
\* and in a bundle with no links every reference listed leads to a path a Get may
\* read.
THEOREM ListingLeadsBackHolds ==
  ASSUME ReservedNotLinked, SubsDescend
  PROVE  Spec => [](PlainRoots => ListingLeadsBack)
<1>1. Frame /\ Kept => (PlainRoots => ListingLeadsBack)
  BY ListingFromKept
<1> QED
  BY <1>1, FrameHolds, KeptInit, KeptNext, PTL DEF Spec

-----------------------------------------------------------------------------
(* After a Put its directory can be listed and indexed.                    *)

\* No name, or no name but the last, is reserved.
Free(p) == \A i \in 1 .. Len(p) : p[i] \notin Reserved
Inner(p) == \A i \in 1 .. Len(p) - 1 : p[i] \notin Reserved

\* A reserved name is the end of a spelling.
OnlyEnds(s) == \A i, j \in 1 .. Len(s) : i < j /\ s[i] \in Reserved => s[j] \in {"", "."}

LEMMA JoinInner ==
  ASSUME NEW p \in Paths, Free(p), NEW rel \in Spellings, OnlyEnds(rel)
  PROVE  Inner(Join(p, rel))
<1> DEFINE Q(s) == Clean(p \o s)
           T == { s \in Spellings : OnlyEnds(s) =>
                    /\ Inner(Q(s))
                    /\ Q(s) # << >> /\ Last(Q(s)) \in Reserved => \E i \in 1 .. Len(s) : s[i] \in Reserved }
<1>1. Spellings = Seq(Component) /\ p \in Seq(Component) /\ p \in Seq(Downward)
  BY SeqMonotonic DEF Paths, Spellings, Component, Downward
<1>2. << >> \in T
  <2>1. p \o << >> = p /\ << >> \in Spellings
    BY <1>1, ConcatEmptySeq, EmptySeq
  <2>2. Clean(p) = p
    BY <1>1, CleanDown
  <2>3. Inner(p) /\ (p # << >> => Last(p) \notin Reserved)
    <3>1. Len(p) \in Nat /\ (p # << >> => Len(p) \in 1 .. Len(p))
      BY LenProperties, EmptySeq DEF Paths
    <3> QED
      BY <3>1 DEF Free, Inner, Last
  <2> QED
    BY <2>1, <2>2, <2>3
<1>3. ASSUME NEW s \in Spellings, NEW c \in Component, s \in T PROVE Append(s, c) \in T
  <2>1. /\ Append(s, c) \in Spellings /\ Len(Append(s, c)) = Len(s) + 1 /\ Len(s) \in Nat
        /\ Append(s, c)[Len(s) + 1] = c /\ \A i \in 1 .. Len(s) : Append(s, c)[i] = s[i]
    BY <1>1, AppendProperties, LenProperties
  <2> SUFFICES ASSUME OnlyEnds(Append(s, c))
               PROVE  /\ Inner(Q(Append(s, c)))
                      /\ Q(Append(s, c)) # << >> /\ Last(Q(Append(s, c))) \in Reserved =>
                           \E i \in 1 .. Len(Append(s, c)) : Append(s, c)[i] \in Reserved
    BY <2>1
  <2>2. OnlyEnds(s)
    <3> SUFFICES ASSUME NEW i \in 1 .. Len(s), NEW j \in 1 .. Len(s), i < j, s[i] \in Reserved
                 PROVE  s[j] \in {"", "."}
      BY DEF OnlyEnds
    <3>1. i \in 1 .. Len(s) + 1 /\ j \in 1 .. Len(s) + 1
      BY <2>1
    <3> QED
      BY <2>1, <3>1 DEF OnlyEnds
  <2>3. /\ Inner(Q(s))
        /\ Q(s) # << >> /\ Last(Q(s)) \in Reserved => \E i \in 1 .. Len(s) : s[i] \in Reserved
    BY <1>3, <2>2
  <2>4. p \o s \in Spellings /\ p \o Append(s, c) = Append(p \o s, c)
    BY <1>1, ConcatAppend
  <2>5. Q(Append(s, c)) = Cleaned(Q(s), c) /\ Q(s) \in Paths
    BY <2>4, CleanAppend, CleanIsAPath
  <2> DEFINE P == Q(s)
             R == Q(Append(s, c))
  <2> HIDE DEF Q, T
  <2>6. ASSUME P # << >> PROVE Len(P) \in Nat \ {0} /\ Last(P) \in Names
    BY <2>5, <2>6, FrontAndLast DEF Paths
  <2>7. CASE c \in {"", "."}
    <3>1. R = P
      BY <2>5, <2>7, CleanedIsAPath
    <3>2. \A i \in 1 .. Len(s) : i \in 1 .. Len(Append(s, c)) /\ Append(s, c)[i] = s[i]
      BY <2>1
    <3> QED
      BY <2>3, <3>1, <3>2
  <2>8. CASE c = ".." /\ P # << >>
    <3>1. R = Front(P)
      BY <2>5, <2>8 DEF Cleaned
    <3>2. Front(P) \in Paths /\ Len(Front(P)) = Len(P) - 1
      BY <2>5, <2>8, FrontAndLast DEF Paths
    <3>3. \A i \in 1 .. Len(P) - 1 : Front(P)[i] = P[i]
      <4>1. Len(P) - 1 \in Int /\ \A i \in 1 .. Len(P) - 1 : P[i] \in Names
        BY <2>5, <2>6, <2>8, LenProperties DEF Paths
      <4> HIDE DEF P
      <4> QED
        BY <4>1, SubSeqProperties DEF Front
    <3>4. \A i \in 1 .. Len(P) - 1 : Front(P)[i] \notin Reserved
      BY <2>3, <3>3 DEF Inner
    <3>5. Inner(R)
      BY <2>6, <2>8, <3>1, <3>2, <3>4 DEF Inner
    <3>6. R # << >> => Last(R) \notin Reserved
      <4>1. R # << >> => Len(R) \in 1 .. Len(P) - 1
        <5>1. R # << >> => Len(R) \in Nat \ {0}
          BY <3>1, <3>2, EmptySeq, LenProperties DEF Paths
        <5> QED
          BY <3>1, <3>2, <5>1
      <4> QED
        BY <3>1, <3>4, <4>1 DEF Last
    <3> QED
      BY <3>5, <3>6
  <2>9. CASE c = ".." /\ P = << >>
    <3>1. R = << >>
      BY <2>5, <2>9 DEF Cleaned
    <3> QED
      BY <2>3, <2>9, <3>1
  <2>10. CASE c \in Names
    <3>1. R = Append(P, c)
      BY <2>5, <2>10, CleanedIsAPath
    <3>2. /\ Len(Append(P, c)) = Len(P) + 1 /\ Len(P) \in Nat /\ Append(P, c)[Len(P) + 1] = c
          /\ \A i \in 1 .. Len(P) : Append(P, c)[i] = P[i]
      BY <2>5, <2>10, AppendProperties, LenProperties DEF Paths
    <3>3. P # << >> => Last(P) \notin Reserved
      <4> SUFFICES ASSUME P # << >>, Last(P) \in Reserved PROVE FALSE
        OBVIOUS
      <4>1. PICK i \in 1 .. Len(s) : s[i] \in Reserved
        BY <2>3
      <4>2. i \in 1 .. Len(Append(s, c)) /\ Len(s) + 1 \in 1 .. Len(Append(s, c)) /\ i < Len(s) + 1
        BY <2>1
      <4>3. c \in {"", "."}
        BY <2>1, <4>1, <4>2 DEF OnlyEnds
      <4> QED
        BY <2>10, <4>3, NamesAssumption
    <3>4. \A i \in 1 .. Len(P) : P[i] \notin Reserved
      <4> SUFFICES ASSUME NEW i \in 1 .. Len(P) PROVE P[i] \notin Reserved
        OBVIOUS
      <4>1. P # << >>
        BY <3>2, EmptySeq
      <4>2. i = Len(P) \/ i \in 1 .. Len(P) - 1
        BY <3>2
      <4> QED
        BY <2>3, <3>3, <4>1, <4>2 DEF Inner, Last
    <3>5. Inner(R)
      BY <3>1, <3>2, <3>4 DEF Inner
    <3>6. Last(R) = c
      BY <3>1, <3>2 DEF Last
    <3>7. Len(s) + 1 \in 1 .. Len(Append(s, c))
      BY <2>1
    <3> QED
      BY <2>1, <3>5, <3>6, <3>7
  <2> QED
    BY <2>7, <2>8, <2>9, <2>10 DEF Component
<1>4. rel \in T
  <2> HIDE DEF T
  <2> QED
    BY <1>1, <1>2, <1>3, AllSequences
<1> QED
  BY <1>4 DEF Join

\* No directory has the name of a reserved file at the start, no hand makes one,
\* and no spelling of a concept or a reserved file goes through one.
ReservedAreFiles ==
  /\ \A p \in DOMAIN Tree : Last(p) \in Reserved => Tree[p].kind # "dir"
  /\ \A edit \in Hands :
       "gone" \notin DOMAIN edit /\ Last(edit.path) \in Reserved => edit.node.kind # "dir"
  /\ \A rel \in Refs \cup Logs : OnlyEnds(rel)

NoReservedDir(f) == \A p \in DOMAIN f : Last(p) \in Reserved => f[p].kind # "dir"
InnerPaths == \A c \in Callers : Writing(call[c]) => Inner(call[c].path)
Plainly == NoReservedDir(fs) /\ InnerPaths

\* The directories of a tree have no reserved name on the way.
LEMMA DirIsFree ==
  ASSUME NEW f, IsTree(f), NoReservedDir(f), NEW d \in Paths, d = << >> \/ IsKind(f, d, "dir")
  PROVE  Free(d)
<1> SUFFICES ASSUME NEW i \in 1 .. Len(d) PROVE d[i] \notin Reserved
  BY DEF Free
<1> DEFINE q == SubSeq(d, 1, i)
<1>1. Len(d) \in Nat /\ d # << >>
  BY LenProperties DEF Paths
<1>2. d \in DOMAIN f /\ f[d].kind = "dir"
  BY <1>1 DEF IsKind
<1>3. q \in Paths /\ Len(q) = i /\ IsPrefix(q, d)
  <2>1. i \in 0 .. Len(d)
    BY <1>1
  <2> QED
    BY <2>1, FirstNamesArePrefix DEF Paths
<1> HIDE DEF q
<1>4. q # << >> /\ Last(q) = d[i]
  <2>1. \A j \in 1 .. Len(q) : q[j] = d[j]
    BY <1>3, PrefixByName DEF Paths
  <2>2. i \in 1 .. Len(q)
    BY <1>1, <1>3
  <2> QED
    BY <1>3, <2>1, <2>2 DEF Last
<1>5. IsKind(f, q, "dir")
  BY <1>2, <1>3, <1>4, OnTheWay DEF IsKind
<1> QED
  BY <1>4, <1>5 DEF NoReservedDir, IsKind

LEMMA BeginsInner ==
  ASSUME ReservedAreFiles, Frame, NoReservedDir(fs), NEW c \in Callers, Begins(c)
  PROVE  Inner(call'[c].path)
<1>1. PICK alias \in DOMAIN RootOf, rel \in Refs \cup Logs :
        call'[c].path \in ResolveReserved(fs, RootOf[alias], rel)
  BY DEF Begins
<1> DEFINE p == call'[c].path
           canon == Follow(fs, RootOf[alias])
<1>2. /\ RootOf[alias] \in Paths /\ rel \in Spellings /\ Linked(fs) /\ IsTree(fs)
      /\ OnlyEnds(rel)
  BY ConstantsAssumption DEF Frame, ReservedAreFiles
<1>3. /\ canon \in Paths \cap (DOMAIN fs \cup {<< >>})
      /\ p = Join(canon, rel) /\ p \in Paths \ {<< >>} /\ Below(p, canon)
  BY <1>1, <1>2, ResolvedReserved
<1>4. ~ThroughFile(fs, p)
  BY <1>1 DEF ResolveReserved, symGuardNew
<1>5. Plain(fs, canon) /\ Follow(fs, canon) = canon
  BY <1>2, <1>3, FollowIsPlain, PlainLeads
<1> HIDE DEF canon, p
<1>6. ASSUME canon # << >> PROVE IsKind(fs, canon, "dir")
  <2>1. IsPrefix(canon, p) /\ canon # p
    BY <1>3 DEF Below, IsStrictPrefix
  <2>2. /\ Len(canon) \in Nat /\ Len(p) \in Nat /\ Len(canon) <= Len(p) /\ SubSeq(p, 1, Len(canon)) = canon
        /\ (Len(canon) = Len(p) => canon = p)
        /\ Len(canon) # 0
    BY <1>3, <1>6, <2>1, PrefixHas, EmptySeq DEF Paths
  <2>3. Len(canon) \in 1 .. Len(p) - 1
    BY <2>1, <2>2
  <2>4. ~IsFile(fs, canon)
    BY <1>4, <2>2, <2>3 DEF ThroughFile
  <2>5. canon \in DOMAIN fs /\ fs[canon].kind # "file"
    BY <1>3, <1>5, <1>6, <2>4 DEF IsFile, IsKind
  <2>6. SubSeq(canon, 1, Len(canon)) = canon /\ Len(canon) \in 1 .. Len(canon)
    BY <1>3, <2>2, SubSeqFull DEF Paths
  <2>7. fs[canon].kind # "link"
    BY <1>5, <2>5, <2>6 DEF Plain, IsKind
  <2> QED
    BY <1>2, <2>5, <2>7 DEF IsTree, IsNode, IsKind
<1>7. Free(canon)
  BY <1>2, <1>3, <1>6, DirIsFree
<1> QED
  BY <1>2, <1>3, <1>7, JoinInner DEF p

LEMMA PlainlyInit ==
  ASSUME ReservedAreFiles
  PROVE  Init => Plainly
BY DEF ReservedAreFiles, Init, Plainly, NoReservedDir, InnerPaths, Writing, Idle

\* A directory that is made has no reserved name.
LEMMA MadeIsFree ==
  ASSUME Frame, NoReservedDir(fs), NEW path \in Paths \ {<< >>}, Inner(path), CanMake(Front(path))
  PROVE  NoReservedDir(Made(Front(path)))
<1> DEFINE dir == Front(path)
<1>1. /\ dir \in Paths /\ Len(dir) = Len(path) - 1 /\ Len(path) \in Nat \ {0}
      /\ path = Append(dir, Last(path)) /\ Last(path) \in Names
  BY FrontAndLast DEF Paths
<1>2. IsTree(fs) /\ Linked(fs)
  BY DEF Frame
<1> HIDE DEF dir
<1>3. /\ DOMAIN Made(dir) = DOMAIN fs \cup { Follow(fs, q) : q \in Missing(dir) }
      /\ \A p \in DOMAIN fs : Made(dir)[p] = fs[p]
  BY <1>1, <1>2, MadeIsTree DEF dir
<1>4. ASSUME NEW q \in Missing(dir) PROVE Last(Follow(fs, q)) \notin Reserved
  <2>1. PICK i \in 1 .. Len(dir) : q = SubSeq(dir, 1, i)
    BY DEF Missing
  <2>2. q \in Paths /\ Len(q) = i /\ IsPrefix(q, dir) /\ q # << >> /\ i \in Nat \ {0}
    <3>1. i \in 0 .. Len(dir) /\ i \in Nat \ {0}
      BY <1>1
    <3>2. q \in Paths /\ Len(q) = i /\ IsPrefix(q, dir)
      BY <1>1, <2>1, <3>1, FirstNamesArePrefix DEF Paths
    <3> QED
      BY <3>1, <3>2, EmptySeq
  <2>3. Last(q) = path[i]
    <3>1. Last(q) = dir[i]
      BY <1>1, <2>2, PrefixByName DEF Paths, Last
    <3>2. Append(dir, Last(path))[i] = dir[i]
      BY <1>1, AppendProperties DEF Paths
    <3> QED
      BY <1>1, <3>1, <3>2
  <2>4. i \in 1 .. Len(path) - 1
    BY <1>1
  <2>5. Last(q) \notin Reserved
    BY <2>3, <2>4 DEF Inner
  <2>6. Follow(fs, q) = Append(Follow(fs, Front(q)), Last(q))
    BY DEF CanMake, dir
  <2>7. Front(q) \in Paths /\ Last(q) \in Names
    BY <2>2, FrontAndLast DEF Paths
  <2>8. Follow(fs, Front(q)) \in Paths
    BY <1>2, <2>7, FollowIsAPath
  <2>9. Last(Append(Follow(fs, Front(q)), Last(q))) = Last(q)
    <3> DEFINE y == Follow(fs, Front(q))
               z == Last(q)
    <3>1. y \in Seq(Names) /\ z \in Names
      BY <2>7, <2>8 DEF Paths
    <3> HIDE DEF y, z
    <3>2. Last(Append(y, z)) = z
      BY <3>1, FrontOfAppend
    <3> QED
      BY <3>2 DEF y, z
  <2> QED
    BY <2>5, <2>6, <2>9
<1> QED
  BY <1>3, <1>4 DEF NoReservedDir, dir

LEMMA PlainlyNext ==
  ASSUME ReservedAreFiles
  PROVE  Frame /\ Plainly /\ [Next]_vars => Plainly'
<1> SUFFICES ASSUME Frame, Plainly, [Next]_vars PROVE Plainly'
  OBVIOUS
<1>1. IsTree(fs) /\ Linked(fs) /\ NoReservedDir(fs) /\ InnerPaths
  BY DEF Frame, Plainly
<1>2. ASSUME NEW c \in Callers, Moves(c), Writing(call'[c]) => Inner(call'[c].path)
      PROVE  InnerPaths'
  BY <1>1, <1>2 DEF Moves, InnerPaths
<1>3. \A k : Rests(k) => ~Writing(k)
  BY DEF Rests, Resting, Writing
<1>4. ASSUME NEW c \in Callers, Reads(c) \/ Begins(c) PROVE Plainly'
  <2>1. Moves(c) /\ UNCHANGED fs /\ (Rests(call'[c]) \/ Begins(c))
    BY <1>4 DEF Reads, Begins
  <2>2. InnerPaths'
    BY <1>1, <1>2, <1>3, <2>1, BeginsInner
  <2> QED
    BY <1>1, <2>1, <2>2 DEF Plainly, NoReservedDir
<1>5. ASSUME NEW c \in Callers, MkdirAll(c) PROVE Plainly'
  <2>1. /\ Writing(call[c]) /\ WriteOK(call[c]) /\ Moves(c)
        /\ \/ /\ CanMake(Front(call[c].path)) /\ fs' = Made(Front(call[c].path))
              /\ call'[c].path = call[c].path
           \/ Rests(call'[c]) /\ UNCHANGED fs
    BY <1>5, MkdirMeans
  <2>2. Inner(call[c].path) /\ call[c].path \in Paths \ {<< >>}
    BY <1>1, <2>1 DEF InnerPaths, WriteOK
  <2>3. InnerPaths'
    BY <1>2, <1>3, <2>1, <2>2
  <2>4. NoReservedDir(fs')
    BY <1>1, <2>1, <2>2, MadeIsFree
  <2> QED
    BY <2>3, <2>4 DEF Plainly
<1>6. ASSUME NEW c \in Callers, NEW text, WriteOK(call[c]), CanWrite(call[c].path)
      PROVE  NoReservedDir(Written(call[c].path, text))
  <2>1. call[c].path \in Paths
    BY <1>6 DEF WriteOK
  <2> DEFINE at == Follow(fs, call[c].path)
             g == Written(call[c].path, text)
  <2>2. /\ DOMAIN g = DOMAIN fs \cup {at} /\ g[at] = File(text)
        /\ \A p \in DOMAIN fs \ {at} : g[p] = fs[p]
    BY <1>1, <1>6, <2>1, WrittenIsTree
  <2>3. File(text).kind = "file"
    BY DEF File
  <2> HIDE DEF at, g
  <2>4. NoReservedDir(g)
    BY <1>1, <2>2, <2>3 DEF NoReservedDir
  <2> QED
    BY <2>4 DEF g
<1>7. ASSUME NEW c \in Callers, WriteFile(c) PROVE Plainly'
  <2>1. /\ WriteOK(call[c]) /\ Moves(c) /\ Rests(call'[c])
        /\ \/ CanWrite(call[c].path) /\ fs' = Written(call[c].path, call[c].text)
           \/ UNCHANGED fs
    BY <1>7, WriteFileMeans
  <2> QED
    BY <1>1, <1>2, <1>3, <1>6, <2>1 DEF Plainly
<1>8. ASSUME NEW c \in Callers, WriteFileFails(c) PROVE Plainly'
  <2>1. /\ WriteOK(call[c]) /\ Moves(c) /\ Rests(call'[c])
        /\ CanWrite(call[c].path) /\ fs' = Written(call[c].path, EmptyText)
    BY <1>8, WriteFailsMeans
  <2> QED
    BY <1>2, <1>3, <1>6, <2>1 DEF Plainly
<1>9. ASSUME NEW edit \in Hands, ByHand(edit) PROVE Plainly'
  <2>1. fs' = Edited(edit) /\ call' = call
    BY <1>9, HandMeans
  <2> DEFINE r == Rest(edit)
  <2>2. \A p \in DOMAIN r : p \in DOMAIN fs /\ r[p] = fs[p]
    BY DEF Rest
  <2> HIDE DEF r
  <2>3. fs' = r \/ ("gone" \notin DOMAIN edit /\ fs' = With(r, edit.path, edit.node))
    BY <2>1 DEF Edited, r
  <2>4. NoReservedDir(fs')
    <3>1. CASE fs' = r
      BY <1>1, <2>2, <3>1 DEF NoReservedDir
    <3>2. CASE "gone" \notin DOMAIN edit /\ fs' = With(r, edit.path, edit.node)
      <4>1. /\ DOMAIN fs' = DOMAIN r \cup {edit.path} /\ fs'[edit.path] = edit.node
            /\ \A p \in DOMAIN r \ {edit.path} : fs'[p] = r[p]
        BY <3>2 DEF With
      <4>2. Last(edit.path) \in Reserved => edit.node.kind # "dir"
        BY <3>2 DEF ReservedAreFiles
      <4> QED
        BY <1>1, <2>2, <4>1, <4>2 DEF NoReservedDir
    <3> QED
      BY <2>3, <3>1, <3>2
  <2> QED
    BY <1>1, <2>1, <2>4 DEF Plainly, InnerPaths
<1>10. CASE UNCHANGED vars
  BY <1>1, <1>10 DEF vars, Plainly, NoReservedDir, InnerPaths
<1> QED
  BY <1>4, <1>5, <1>7, <1>8, <1>9, <1>10, Steps

\* How the references without ".." are spelled, but those of reserved files, which
\* are refused: they end with a name, and one that starts with a slash names a
\* document below the root. The run repository_spellings shows what becomes of
\* the others.
RefsFollowed ==
  \A rel \in { r \in Refs : ".." \notin ToSet(r) } :
    \/ Clean(rel) # << >> /\ Last(Clean(rel)) \in Reserved
    \/ /\ Last(rel) \in Names
       /\ Len(rel) > 1 /\ Head(rel) = "" => Clean(Front(rel)) # << >>

LEMMA CleanSlash ==
  ASSUME NEW s \in Spellings
  PROVE  << "" >> \o s \in Spellings /\ Clean(<< "" >> \o s) = Clean(s)
<1> DEFINE T == { t \in Spellings : Clean(<< "" >> \o t) = Clean(t) }
<1>1. << "" >> \in Seq(Component) /\ Spellings = Seq(Component)
  BY EmptySub DEF Spellings, Component
<1>2. << >> \in T
  <2>1. << "" >> \o << >> = << "" >> /\ << >> \in Spellings
    BY <1>1, ConcatEmptySeq, EmptySeq
  <2> QED
    BY <2>1, EmptySub, CleanNil
<1>3. ASSUME NEW t \in Spellings, NEW c \in Component, t \in T PROVE Append(t, c) \in T
  <2>1. << "" >> \o t \in Spellings /\ << "" >> \o Append(t, c) = Append(<< "" >> \o t, c)
    <3> DEFINE e == << "" >>
    <3>1. e \in Seq(Component) /\ t \in Seq(Component)
      BY <1>1
    <3> HIDE DEF e
    <3>2. e \o t \in Seq(Component) /\ e \o Append(t, c) = Append(e \o t, c)
      BY <3>1, ConcatAppend
    <3> QED
      BY <1>1, <3>2 DEF e
  <2>2. Clean(Append(<< "" >> \o t, c)) = Cleaned(Clean(<< "" >> \o t), c)
    BY <2>1, CleanAppend
  <2>3. Append(t, c) \in Spellings /\ Clean(Append(t, c)) = Cleaned(Clean(t), c)
    BY CleanAppend
  <2> QED
    BY <1>3, <2>1, <2>2, <2>3
<1>4. s \in T
  <2> HIDE DEF T
  <2> QED
    BY <1>1, <1>2, <1>3, AllSequences
<1>5. << "" >> \o s \in Spellings
  BY <1>1, ConcatProperties
<1> QED
  BY <1>4, <1>5

LEMMA CleanOfPath ==
  ASSUME NEW p \in Paths
  PROVE  p \in Spellings /\ Clean(p) = p /\ Descends(p)
<1>1. p \in Seq(Downward) /\ p \in Spellings
  BY SeqMonotonic DEF Paths, Downward, Spellings
<1>2. \A path \in Paths : Clean(path \o p) = path \o Clean(p)
  BY <1>1, CleanDown
<1>3. Clean(p) = p
  BY <1>1, CleanDown
<1> QED
  BY <1>1, <1>2, <1>3 DEF Descends, Join

LEMMA LastOfConcat ==
  ASSUME NEW p \in Paths, NEW q \in Paths, q # << >>
  PROVE  Last(p \o q) = Last(q)
<1>1. Front(q) \in Paths /\ Last(q) \in Names /\ q = Append(Front(q), Last(q))
  BY FrontAndLast DEF Paths
<1>2. p \o Front(q) \in Paths /\ p \o Append(Front(q), Last(q)) = Append(p \o Front(q), Last(q))
  BY <1>1, ConcatAppend DEF Paths
<1> DEFINE x == p \o Front(q)
           c == Last(q)
<1>3. x \in Seq(Names) /\ c \in Names
  BY <1>1, <1>2 DEF Paths
<1> HIDE DEF x, c
<1>4. Last(Append(x, c)) = c
  BY <1>3, FrontOfAppend
<1> QED
  BY <1>1, <1>2, <1>4 DEF x, c

\* What is in a directory without links on the way passes the guard for writing,
\* unless it is a link itself.
LEMMA InDirPasses ==
  ASSUME NEW f, IsTree(f), Linked(f), NEW d \in Paths, Plain(f, d),
         d = << >> \/ IsKind(f, d, "dir"), NEW c \in Names, ~IsKind(f, Append(d, c), "link"),
         NEW canon \in Paths
  PROVE  symGuardNew(f, Append(d, c), canon) /\ Follow(f, Append(d, c)) = Append(d, c)
<1> DEFINE x == Append(d, c)
<1>1. /\ Len(d) \in Nat /\ x \in Paths /\ Len(x) = Len(d) + 1
      /\ SubSeq(d, 1, Len(d)) = d /\ SubSeq(x, 1, Len(d) + 1) = x
      /\ \A i \in 0 .. Len(d) : SubSeq(x, 1, i) = SubSeq(d, 1, i)
  BY FirstNames DEF Paths
<1>2. Follow(f, x) = x
  <2>1. Follow(f, d) = d
    BY PlainLeads
  <2>2. Follow(f, x) = Entered(f, d, c)
    BY <2>1, FollowAppend
  <2> QED
    BY <2>2 DEF Entered
<1>3. ~ThroughFile(f, x)
  <2> SUFFICES ASSUME NEW i \in 1 .. Len(x) - 1 PROVE ~IsFile(f, SubSeq(x, 1, i))
    BY DEF ThroughFile
  <2>1. i \in 0 .. Len(d) /\ i # 0 /\ SubSeq(x, 1, i) = SubSeq(d, 1, i)
    BY <1>1
  <2> DEFINE q == SubSeq(d, 1, i)
  <2>2. q \in Paths /\ Len(q) = i /\ IsPrefix(q, d)
    BY <2>1, FirstNamesArePrefix DEF Paths
  <2> HIDE DEF q, x
  <2>3. Follow(f, q) = q
    BY <2>2, PlainPrefix, PlainLeads
  <2>4. q # << >> /\ d # << >>
    BY <2>1, <2>2, EmptySeq DEF IsPrefix
  <2>5. IsKind(f, d, "dir") /\ d \in DOMAIN f
    BY <2>4 DEF IsKind
  <2>6. IsKind(f, q, "dir")
    BY <2>2, <2>4, <2>5, OnTheWay
  <2>7. ~IsFile(f, q)
    BY <2>3, <2>6 DEF IsFile, IsKind
  <2> QED
    BY <2>1, <2>7 DEF q
<1>4. ASSUME NEW i \in Len(canon) + 1 .. Len(x) PROVE ~IsKind(f, SubSeq(x, 1, i), "link")
  <2>1. Len(canon) \in Nat
    BY LenProperties DEF Paths
  <2>2. i \in 1 .. Len(d) \/ i = Len(d) + 1
    BY <1>1, <2>1
  <2>3. i \in 1 .. Len(d) => i \in 0 .. Len(d)
    OBVIOUS
  <2> HIDE DEF x
  <2>4. CASE i \in 1 .. Len(d)
    BY <1>1, <2>3, <2>4 DEF Plain
  <2>5. CASE i = Len(d) + 1
    BY <1>1, <2>5 DEF x
  <2> QED
    BY <2>2, <2>4, <2>5
<1> QED
  BY <1>2, <1>3, <1>4 DEF symGuardNew

\* Dropping the last element leaves only elements that were there.
LEMMA ToSetOfFront ==
  ASSUME NEW S, NEW q \in Seq(S), q # << >>
  PROVE  ToSet(Front(q)) \subseteq ToSet(q)
<1> DEFINE fr == Front(q)
           n == Len(q)
           m == Len(fr)
<1>1. fr \in Seq(S) /\ n \in Nat \ {0} /\ m = n - 1 /\ \A i \in 1 .. n - 1 : fr[i] = q[i]
  BY FrontAndLast
<1>2. DOMAIN fr = 1 .. m /\ DOMAIN q = 1 .. n
  BY <1>1, LenProperties
<1>3. \A i \in 1 .. m : i \in 1 .. n /\ fr[i] = q[i]
  <2> HIDE DEF fr, n, m
  <2> QED
    BY <1>1
<1> HIDE DEF fr, m, n
<1> QED
  BY <1>2, <1>3 DEF ToSet, fr

\* The directory the use case derives from a reference is the directory of the
\* document.
LEMMA ConceptDirIs ==
  ASSUME NEW canon \in Paths, NEW rel \in Spellings \ {<< >>}, ".." \notin ToSet(rel),
         Last(rel) \in Names,
         Len(rel) > 1 /\ Head(rel) = "" => Clean(Front(rel)) # << >>
  PROVE  LET dir == Clean(Front(rel)) cd == conceptDir(rel) p == Join(canon, rel) IN
         /\ dir \in Paths /\ canon \o dir \in Paths
         /\ p = Append(canon \o dir, Last(rel)) /\ p \in Paths
         /\ cd \in Spellings /\ Join(canon, cd) = canon \o dir
         /\ cd = << "" >> \/ dir # << >>
<1> DEFINE dir == Clean(Front(rel))
           cd == conceptDir(rel)
<1>1. Front(rel) \in Spellings /\ Join(canon, rel) = Append(Join(canon, Front(rel)), Last(rel))
  BY JoinEnds
<1>2. ".." \notin ToSet(Front(rel))
  BY ToSetOfFront DEF Spellings
<1>3. dir \in Paths /\ Join(canon, Front(rel)) = canon \o dir
  BY <1>1, <1>2, CleanIsAPath, DownwardDescends DEF Descends
<1> HIDE DEF dir
<1>4. canon \o dir \in Paths
  BY <1>3, PathsConcat
<1>5. Append(canon \o dir, Last(rel)) \in Paths
  BY <1>4, AppendProperties DEF Paths
<1>6. dir \in Spellings /\ Join(canon, dir) = canon \o dir
  BY <1>3, CleanOfPath DEF Descends
<1>7. << "" >> \o dir \in Spellings /\ Clean(<< "" >> \o dir) = dir /\ Join(canon, << "" >> \o dir) = canon \o dir
  <2>1. << "" >> \o dir \in Spellings /\ Clean(<< "" >> \o dir) = dir
    BY <1>3, <1>6, CleanOfPath, CleanSlash
  <2>2. Descends(<< "" >> \o dir)
    <3>1. << "" >> \in Seq(Downward) /\ dir \in Seq(Downward)
      <4>1. "" \in Downward /\ dir \in Seq(Downward)
        BY <1>3, SeqMonotonic DEF Paths, Downward
      <4> QED
        BY <4>1, OneElement
    <3> DEFINE x == << "" >> \o dir
    <3>2. x \in Seq(Downward)
      BY <3>1, ConcatProperties
    <3> HIDE DEF x
    <3>3. Descends(x)
      BY <3>2, CleanDown DEF Descends, Join
    <3> QED
      BY <3>3 DEF x
  <2> QED
    BY <1>3, <2>1, <2>2 DEF Descends
<1>8. cd \in Spellings /\ Join(canon, cd) = canon \o dir /\ (cd = << "" >> \/ dir # << >>)
  <2>1. cd = IF Len(rel) > 1 /\ Head(rel) = "" THEN << "" >> \o (IF dir = << >> THEN << "" >> ELSE dir)
             ELSE IF dir = << >> THEN << "" >> ELSE dir
    BY DEF conceptDir, dir
  <2>2. CASE Len(rel) > 1 /\ Head(rel) = ""
    <3>1. dir # << >>
      BY <2>2 DEF dir
    <3>2. cd = << "" >> \o dir
      BY <2>1, <2>2, <3>1
    <3> HIDE DEF cd
    <3> QED
      BY <1>7, <3>1, <3>2
  <2>3. CASE ~(Len(rel) > 1 /\ Head(rel) = "") /\ dir = << >>
    <3>1. cd = << "" >>
      BY <2>1, <2>3
    <3>2. Join(canon, << "" >>) = canon \o dir
      BY <2>3, EmptySub DEF Descends
    <3> HIDE DEF cd
    <3> QED
      BY <3>1, <3>2, EmptySub
  <2>4. CASE ~(Len(rel) > 1 /\ Head(rel) = "") /\ dir # << >>
    <3>1. cd = dir
      BY <2>1, <2>4
    <3> HIDE DEF cd
    <3> QED
      BY <1>6, <2>4, <3>1
  <2> QED
    BY <2>2, <2>3, <2>4
<1> QED
  BY <1>1, <1>3, <1>4, <1>5, <1>8 DEF dir

LEMMA IndexFromPlainly ==
  ASSUME ReservedNotLinked, RefsFollowed
  PROVE  Frame /\ Kept /\ Plainly => IndexFollows
<1> SUFFICES ASSUME Frame, Kept, Plainly, NEW alias \in DOMAIN RootOf,
                    NEW rel \in Refs, ".." \notin ToSet(rel),
                    Join(Canon(alias), rel) \in DOMAIN put
             PROVE  /\ MayList(alias, conceptDir(rel))
                    /\ \E path \in ResolveReserved(fs, RootOf[alias], conceptDir(rel) \o << "index.md" >>) :
                         CanWrite(path)
  BY DEF IndexFollows
<1> DEFINE root == RootOf[alias]
           canon == Canon(alias)
           p == Join(canon, rel)
           dir == Clean(Front(rel))
           d == canon \o dir
           cd == conceptDir(rel)
           c == "index.md"
           x == Append(d, c)
<1>1. /\ IsTree(fs) /\ Linked(fs) /\ p \in DOMAIN fs /\ root \in Paths /\ canon \in Paths
      /\ canon = Follow(fs, root) /\ rel \in Spellings \ {<< >>} /\ c \in Names
  BY FollowIsAPath, ConstantsAssumption DEF Frame, Puts, Canon, Reserved
<1>2. Last(p) \notin Reserved
  BY DEF Kept, KeptAt
<1>3. /\ Last(rel) \in Names
      /\ Len(rel) > 1 /\ Head(rel) = "" => Clean(Front(rel)) # << >>
  <2>1. p = canon \o Clean(rel) /\ Clean(rel) \in Paths
    BY <1>1, DownwardDescends, CleanIsAPath DEF Descends
  <2>2. ~(Clean(rel) # << >> /\ Last(Clean(rel)) \in Reserved)
    <3> HIDE DEF p, canon
    <3> QED
      BY <1>1, <1>2, <2>1, LastOfConcat
  <2> QED
    BY <2>2 DEF RefsFollowed
<1>4. /\ dir \in Paths /\ d \in Paths /\ p = Append(d, Last(rel)) /\ p \in Paths
      /\ cd \in Spellings /\ Join(canon, cd) = d /\ (cd = << "" >> \/ dir # << >>)
  <2> HIDE DEF canon
  <2> QED
    BY <1>1, <1>3, ConceptDirIs
<1> HIDE DEF p, canon, dir, cd, root, c
<1>5. IsPrefix(canon, d) /\ (dir # << >> => Below(d, canon))
  BY <1>1, <1>4, PathsConcat
<1>6. IsPrefix(d, p) /\ d # p /\ IsPrefix(canon, p)
  <2> DEFINE n == Last(rel)
  <2>1. n \in Names /\ p = Append(d, n)
    BY <1>3, <1>4
  <2> HIDE DEF n, d
  <2>2. IsPrefix(d, p) /\ Below(p, d)
    BY <1>4, <2>1, NameIsBelow
  <2>3. IsPrefix(canon, p)
    BY <1>1, <1>4, <1>5, <2>2, PrefixOfPrefix DEF Paths
  <2> QED
    BY <2>2, <2>3 DEF Below, IsStrictPrefix
<1> HIDE DEF d
<1>7. /\ Plain(fs, d) /\ (d = << >> \/ IsKind(fs, d, "dir"))
      /\ canon \in DOMAIN fs \cup {<< >>}
  BY <1>1, <1>4, <1>6, OnTheWay
<1>8. canon \in canonicalRoot(fs, root)
  BY <1>1, <1>7 DEF canonicalRoot, Exists
<1>9. MayList(alias, cd)
  <2> SUFFICES ASSUME dir # << >> PROVE ResolveReserved(fs, root, cd) # {}
    BY <1>4 DEF MayList, root
  <2>1. Below(d, canon) /\ d # << >>
    <3>1. Below(d, canon)
      BY <1>5
    <3>2. Len(canon) \in Nat /\ Len(d) \in Nat /\ (d = << >> => Len(d) = 0)
      BY <1>1, <1>4, LenProperties DEF Paths
    <3>3. d = << >> => canon = << >>
      <4>1. d = << >> => Len(canon) = 0
        BY <3>1, <3>2 DEF Below, IsStrictPrefix, IsPrefix
      <4> QED
        BY <1>1, <4>1, EmptySeq DEF Paths
    <3> QED
      BY <3>1, <3>3 DEF Below, IsStrictPrefix
  <2>2. /\ Front(d) \in Paths /\ Last(d) \in Names /\ d = Append(Front(d), Last(d))
        /\ Len(Front(d)) = Len(d) - 1 /\ Len(d) \in Nat \ {0}
    BY <1>4, <2>1, FrontAndLast DEF Paths
  <2> DEFINE e == Front(d)
             n == Last(d)
  <2> HIDE DEF e, n
  <2>3. e \in Paths /\ n \in Names /\ d = Append(e, n) /\ Len(e) = Len(d) - 1
    BY <2>2 DEF e, n
  <2>4. Plain(fs, e) /\ ~IsKind(fs, Append(e, n), "link")
    BY <1>7, <2>3, PlainAppend
  <2>5. e = << >> \/ IsKind(fs, e, "dir")
    <3>1. d \in DOMAIN fs
      BY <1>7, <2>1 DEF IsKind
    <3>2. Len(d) > 1 => IsKind(fs, e, "dir")
      BY <1>1, <3>1 DEF IsTree, e
    <3>3. ~(Len(d) > 1) => e = << >>
      BY <2>2, <2>3, EmptySeq DEF Paths
    <3> QED
      BY <3>2, <3>3
  <2>6. symGuardNew(fs, d, canon)
    BY <1>1, <2>3, <2>4, <2>5, InDirPasses
  <2>7. d \in containedPath(canon, cd)
    BY <1>4, <2>1 DEF containedPath
  <2>8. d \in ResolveReserved(fs, root, cd)
    BY <1>8, <2>6, <2>7 DEF ResolveReserved
  <2> QED
    BY <2>8
<1>10. x \in Paths /\ Last(x) = c /\ Front(x) = d /\ x # << >>
  <2>1. d \in Seq(Names) /\ c \in Names
    BY <1>1, <1>4 DEF Paths
  <2>2. Append(d, c) \in Seq(Names) /\ Append(d, c) # << >>
    BY <2>1, AppendProperties
  <2>3. Front(Append(d, c)) = d /\ Last(Append(d, c)) = c
    BY <2>1, FrontOfAppend
  <2> QED
    BY <2>2, <2>3 DEF Paths
<1>11. ~IsKind(fs, x, "link")
  <2> SUFFICES ASSUME IsKind(fs, x, "link") PROVE FALSE
    OBVIOUS
  <2> DEFINE l == [at |-> x, to |-> fs[x].to]
  <2>1. l \in Links
    BY <1>1 DEF Linked, IsKind
  <2>2. l.at = x
    OBVIOUS
  <2> HIDE DEF l, x
  <2>3. Last(x) \notin Reserved
    BY <2>1, <2>2 DEF ReservedNotLinked
  <2> QED
    BY <1>10, <2>3 DEF Reserved, c
<1>12. symGuardNew(fs, x, canon) /\ Follow(fs, x) = x
  <2>1. /\ IsTree(fs) /\ Linked(fs) /\ d \in Paths /\ c \in Names /\ canon \in Paths
        /\ Plain(fs, d) /\ (d = << >> \/ IsKind(fs, d, "dir"))
        /\ ~IsKind(fs, Append(d, c), "link")
    BY <1>1, <1>4, <1>7, <1>11
  <2> QED
    BY <2>1, InDirPasses
<1>13. Join(canon, cd \o << c >>) = x
  <2>1. cd \in Seq(Component) /\ c \in Component /\ Spellings = Seq(Component)
    BY <1>1, <1>4 DEF Spellings, Component
  <2> DEFINE s == Append(cd, c)
  <2>2. s = cd \o << c >>
    BY <2>1, AppendIsConcat
  <2>3. s \in Spellings /\ s # << >> /\ Last(s) = c /\ Front(s) = cd
    BY <2>1, AppendProperties, FrontOfAppend
  <2> HIDE DEF s
  <2>4. Join(canon, s) = Append(Join(canon, Front(s)), Last(s))
    BY <1>1, <2>3, JoinEnds
  <2> QED
    BY <1>4, <2>2, <2>3, <2>4
<1>14. Below(x, canon)
  <2>2. IsPrefix(d, x) /\ Below(x, d)
    BY <1>1, <1>4, NameIsBelow
  <2> HIDE DEF x
  <2>3. IsPrefix(canon, x) /\ canon # x
    BY <1>1, <1>4, <1>5, <1>10, <2>2, PrefixOfPrefix DEF Paths, Below, IsStrictPrefix
  <2> QED
    BY <2>3 DEF Below, IsStrictPrefix
<1> HIDE DEF x
<1>15. x \in ResolveReserved(fs, root, cd \o << c >>)
  BY <1>8, <1>12, <1>13, <1>14 DEF ResolveReserved, containedPath
<1>16. CanWrite(x)
  <2>1. ~IsKind(fs, x, "dir")
    BY <1>10 DEF Plainly, NoReservedDir, IsKind, Reserved, c
  <2>2. Follow(fs, d) = d
    BY <1>1, <1>4, <1>7, PlainLeads
  <2> QED
    BY <1>7, <1>10, <1>12, <2>1, <2>2 DEF CanWrite, IsDir
<1> QED
  BY <1>9, <1>15, <1>16 DEF cd, c, root

\* After any Put under a reference that is spelled as a path to a document, the
\* write of its index can follow, whatever happened to the files meanwhile.
THEOREM IndexFollowsHolds ==
  ASSUME ReservedNotLinked, ReservedAreFiles, RefsFollowed
  PROVE  Spec => []IndexFollows
BY FrameHolds, KeptInit, KeptNext, PlainlyInit, PlainlyNext, IndexFromPlainly, PTL DEF Spec

=============================================================================
