------------------------- MODULE MCBundleLifecycle -------------------------
EXTENDS BundleLifecycle, TLC
CONSTANTS t1, t2, p1, p2, a1, a2, r1, r2, w1, w2, x, y, v1, v2

Add(a, r) == [kind |-> "add", alias |-> a, root |-> r]
Remove(a) == [kind |-> "remove", alias |-> a]
Reindex(a) == [kind |-> "reindex", alias |-> a]

OneProc == [t \in Threads |-> p1]
TwoProcs == t1 :> p1 @@ t2 :> p2

\* Each alias is added and reindexed by one goroutine.
OneAliasEach == t1 :> {Add(a1, r1), Reindex(a1)} @@ t2 :> {Add(a2, r2), Reindex(a2)}
\* One goroutine adds and removes bundles, both with the same root path or with
\* two spellings of it; another reindexes.
OneAdder ==
  t1 :> {Add(a1, r1), Add(a2, r1), Add(a2, r2), Remove(a1), Reindex(a1)}
    @@ t2 :> {Reindex(a2)}
TwoSpellings == t1 :> {Add(a1, r1), Add(a2, r2)}
\* Two goroutines add the same directory and reindex the same alias.
Races == t1 :> {Add(a1, r1), Reindex(a1)} @@ t2 :> {Add(a2, r1), Reindex(a1)}
OneThread == t1 :> {Add(a1, r1), Reindex(a1)}
SameAlias == t1 :> {Add(a1, r1), Reindex(a1)} @@ t2 :> {Reindex(a1)}
Removals == t1 :> {Add(a1, r1), Reindex(a1), Remove(a1)} @@ t2 :> {Reindex(a1)}

TwoPlaces == r1 :> w1 @@ r2 :> w2
OnePlace == [r \in Roots |-> w1]
=============================================================================
