--------------------------- MODULE MCVectorIndex ---------------------------
EXTENDS VectorIndex, TLC
CONSTANTS t1, t2, t3, p1, p2, c1, c2, v1, v2, z, w

OneProc == [t \in Threads |-> p1]
TwoProcs == t1 :> p1 @@ t2 :> p2
=============================================================================
