-------------------------- MODULE MCConceptWrites --------------------------
EXTENDS ConceptWrites, TLC
CONSTANTS t1, t2, t3, p1, p2, a1, a2, ghost, r1, r2, top, sub, pa, pb, pt

\* A bundle with a concept in its root directory and one in a subdirectory.
TreeDir == pa :> top @@ pb :> sub
TreeUnder == top :> {pa, pb} @@ sub :> {pb}

\* A bundle with two concepts in its only directory.
FlatDir == pa :> top @@ pb :> top
FlatUnder == top :> {pa, pb}

\* A single concept.
OneDir == pa :> top
OneUnder == top :> {pa}

\* Writes whose body is just under the limit: all, none.
AllBig == Ids
NoneBig == {}

OneProc == [t \in Threads |-> p1]
TwoProcs == t1 :> p1 @@ t2 :> p2
ServesAll == [p \in Procs |-> Aliases]
OwnRoots == a1 :> r1 @@ a2 :> r2
OwnRoot == a1 :> r1 @@ ghost :> NoRoot
OneRoot == a1 :> r1
=============================================================================
