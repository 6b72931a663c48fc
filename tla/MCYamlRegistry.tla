--------------------------- MODULE MCYamlRegistry ---------------------------
EXTENDS YamlRegistry, TLC
CONSTANTS t1, t2, t3, p1, p2, a1, a2, v1, v2

\* Two goroutines of a daemon and one of a second process.
TwoProcs == t1 :> p1 @@ t2 :> p1 @@ t3 :> p2
OneProc == t1 :> p1 @@ t2 :> p1 @@ t3 :> p1
TwoThreads == t1 :> p1 @@ t2 :> p2

\* Every call by every goroutine, and a division of the calls among three: two
\* that put each alias, delete it and read it while the others write.
AllOps == [t \in Threads |-> Ops]
Op(kind, a) == [kind |-> kind, alias |-> a]
PutOp(a) == [kind |-> "put", alias |-> a, val |-> v1]
SharedOps ==
  t1 :> {PutOp(a1), Op("delete", a2), Op("get", a2), [kind |-> "list"]}
    @@ t2 :> {PutOp(a1), PutOp(a2), Op("delete", a1), [kind |-> "list"]}
    @@ t3 :> {PutOp(a1), PutOp(a2), Op("delete", a1), Op("delete", a2),
              Op("get", a1)}

Values == Permutations({v1, v2})
=============================================================================
