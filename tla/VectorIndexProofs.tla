-------------------------- MODULE VectorIndexProofs --------------------------
(***************************************************************************)
(* Proofs about VectorIndex: its types, that no zero vector ever gets into *)
(* a graph, and, as long as there is one process and no Persist is cut     *)
(* short, that the graph and the metadata always describe the same chunks, *)
(* in memory and on disk.                                                  *)
(***************************************************************************)
EXTENDS VectorIndex, TLAPS

\* What keeps the two files together: a single process whose Persist is never
\* cut short between its two renames.
OneStore == ~Torn /\ \A p, q \in Procs : p = q

\* A goroutine reads the graph file only if there is one.
LoadsAFile == \A t \in Threads : pc[t] \in {"readgraph", "readmeta"} => graphFile # NoFile

Typed == TypeOK /\ LoadsAFile

NonZero(table) == \A c \in ChunkIds : table[c] \notin ZeroVectors

NonZeroGraphs ==
  /\ \A p \in Procs : NonZero(graph[p])
  /\ graphFile # NoFile => NonZero(graphFile)

\* The mutex of a store: a writer inside is alone.
Excluded ==
  \A t, u \in Threads :
    t # u /\ P(t) = P(u) /\ pc[t] \in WritePcs => pc[u] \notin WritePcs \cup ReadPcs

\* The inductive invariant behind Coherent and FilesAgree: which of the four
\* tables agree at which point of an operation.
InStep ==
  /\ \A p \in Procs : NonZero(chunks[p])
  /\ metaFile # NoFile => NonZero(metaFile)
  /\ \A p \in Procs :
       (\A t \in Threads : P(t) = p => pc[t] \notin {"rebuild", "readmeta"}) =>
         graph[p] = chunks[p]
  /\ \A t \in Threads : pc[t] = "writemeta" => graphFile = graph[P(t)]
  /\ \A t \in Threads : pc[t] = "readmeta" => graphFile = graph[P(t)]
  /\ (\A t \in Threads : pc[t] # "writemeta") => graphFile = metaFile

LEMMA EmptyType == Empty \in Table
  BY DEF Empty, Table

LEMMA TypedInit == ConstantsAssumption /\ Init => Typed
  BY EmptyType DEF ConstantsAssumption, Init, Typed, TypeOK, LoadsAFile

\* Every step keeps the types.
LEMMA TypedNext ==
  ASSUME ConstantsAssumption, Typed, [Next]_vars
  PROVE  Typed'
<1> USE DEF Typed, TypeOK, LoadsAFile, P, Goto, ReadPcs, WritePcs
<1>0. /\ NoFile \notin Table
      /\ Empty \in Table
      /\ ProcOf \in [Threads -> Procs]
      /\ MaxCalls \in Nat /\ MaxKills \in Nat
      /\ \A f \in Table, c \in ChunkIds, v \in Vectors \cup {None} :
           [f EXCEPT ![c] = v] \in Table
  BY EmptyType DEF ConstantsAssumption, Table
<1>1. ASSUME NEW t \in Threads, NEW l \in {"search", "writegraph"}, RLock(t, l)
      PROVE  Typed'
  BY <1>0, <1>1 DEF RLock, Enter, files
<1>2. ASSUME NEW t \in Threads, NEW l \in {"upsert", "prune", "readgraph"},
             NEW table \in Table, Lock(t, l, table),
             l = "readgraph" => graphFile # NoFile
      PROVE  Typed'
  BY <1>0, <1>2 DEF Lock, Enter, files
<1>3. ASSUME NEW t \in Threads, UpsertChunk(t) PROVE Typed'
  <2>1. PICK c \in ChunkIds :
          /\ arg[t][c] \in Vectors
          /\ \/ UNCHANGED << graph, chunks >>
             \/ /\ graph' = [graph EXCEPT ![P(t)][c] = arg[t][c]]
                /\ chunks' = [chunks EXCEPT ![P(t)][c] = arg[t][c]]
          /\ arg' = [arg EXCEPT ![t][c] = None]
    <3>1. arg[t] \in [ChunkIds -> Vectors \cup {None}]
      BY DEF Table
    <3>2. PICK c \in IdsIn(arg[t]) :
            /\ IF arg[t][c] \in ZeroVectors THEN UNCHANGED << graph, chunks >>
               ELSE /\ graph' = [graph EXCEPT ![P(t)][c] = arg[t][c]]
                    /\ chunks' = [chunks EXCEPT ![P(t)][c] = arg[t][c]]
            /\ arg' = [arg EXCEPT ![t][c] = None]
      BY <1>3 DEF UpsertChunk
    <3>3. c \in ChunkIds /\ arg[t][c] \in Vectors
      BY <3>1, <3>2 DEF IdsIn
    <3> QED
      BY <3>2, <3>3
  <2>2. graph' \in [Procs -> Table] /\ chunks' \in [Procs -> Table]
    BY <1>0, <2>1
  <2>3. arg' \in [Threads -> Table]
    BY <1>0, <2>1
  <2> QED
    BY <1>3, <2>2, <2>3 DEF UpsertChunk, files
<1>4. ASSUME NEW t \in Threads,
             UpsertRefused(t) \/ UpsertDone(t) \/ PersistFails(t) \/ SearchDone(t)
      PROVE  Typed'
  BY <1>0, <1>4 DEF UpsertRefused, UpsertDone, PersistFails, SearchDone, Finish, files
<1>5. ASSUME NEW t \in Threads, Prune(t) PROVE Typed'
  <2>1. \A f \in Table, g \in Table :
          [c \in ChunkIds |-> IF c \in IdsIn(g) THEN None ELSE f[c]] \in Table
    BY DEF Table
  <2> QED
    BY <1>0, <1>5, <2>1 DEF Prune, files
<1>6. ASSUME NEW t \in Threads, Rebuild(t) PROVE Typed'
  <2>1. \A f \in Table :
          [c \in ChunkIds |-> IF f[c] \in ZeroVectors THEN None ELSE f[c]] \in Table
    BY DEF Table
  <2> QED
    BY <1>0, <1>6, <2>1 DEF Rebuild, Finish, files
<1>7. ASSUME NEW t \in Threads, WriteGraph(t) PROVE Typed'
  BY <1>0, <1>7 DEF WriteGraph
<1>8. ASSUME NEW t \in Threads, WriteMeta(t) PROVE Typed'
  BY <1>0, <1>8 DEF WriteMeta, Finish
<1>9. ASSUME NEW t \in Threads, ReadGraph(t) PROVE Typed'
  BY <1>0, <1>9 DEF ReadGraph, files
<1>10. ASSUME NEW t \in Threads, ReadMeta(t) PROVE Typed'
  BY <1>0, <1>10 DEF ReadMeta, Finish, files
<1>11. ASSUME NEW p \in Procs, Kill(p) PROVE Typed'
  BY <1>0, <1>11 DEF Kill, files
<1>12. CASE UNCHANGED vars
  BY <1>12 DEF vars, files
<1> QED
  BY <1>0, <1>1, <1>2, <1>3, <1>4, <1>5, <1>6, <1>7, <1>8, <1>9, <1>10, <1>11, <1>12
     DEF Next, Step, BeginSearch, BeginPersist, BeginUpsert, BeginDelete, BeginLoad

\* Type correctness of the vector store.
THEOREM TypeCorrect == Spec => []TypeOK
<1>1. ConstantsAssumption /\ Init => Typed
  BY TypedInit
<1>2. ConstantsAssumption /\ Typed /\ [Next]_vars => Typed'
  BY TypedNext
<1>3. Typed => TypeOK
  BY DEF Typed
<1> QED
  BY <1>1, <1>2, <1>3, ConstantsAssumption, PTL DEF Spec

\* What a step leaves behind of the zero vectors: nothing.
LEMMA NonZeroNext ==
  ASSUME ConstantsAssumption, Typed, NonZeroGraphs, [Next]_vars
  PROVE  NonZeroGraphs'
<1> USE DEF Typed, TypeOK, LoadsAFile, NonZeroGraphs, NonZero, P, Goto
<1>0. /\ None \notin ZeroVectors
      /\ ProcOf \in [Threads -> Procs]
  BY DEF ConstantsAssumption
<1>1. ASSUME NEW t \in Threads, UpsertChunk(t) PROVE NonZeroGraphs'
  <2>1. PICK c \in ChunkIds :
          IF arg[t][c] \in ZeroVectors THEN graph' = graph
          ELSE graph' = [graph EXCEPT ![P(t)][c] = arg[t][c]]
    BY <1>1 DEF UpsertChunk, IdsIn
  <2>2. graphFile' = graphFile
    BY <1>1 DEF UpsertChunk, files
  <2>3. ASSUME NEW p \in Procs, NEW d \in ChunkIds
        PROVE  graph'[p][d] \notin ZeroVectors
    <3>1. graph[p] \in [ChunkIds -> Vectors \cup {None}]
      BY DEF Table
    <3>2. CASE graph' = graph
      BY <3>2
    <3>3. CASE /\ graph' = [graph EXCEPT ![P(t)][c] = arg[t][c]]
               /\ arg[t][c] \notin ZeroVectors
      BY <3>1, <3>3
    <3> QED
      BY <2>1, <3>2, <3>3
  <2> QED
    BY <2>2, <2>3
<1>2. ASSUME NEW t \in Threads, Rebuild(t) PROVE NonZeroGraphs'
  BY <1>0, <1>2 DEF Rebuild, Finish, files
<1>3. ASSUME NEW t \in Threads, WriteGraph(t) PROVE NonZeroGraphs'
  BY <1>0, <1>3 DEF WriteGraph
<1>4. ASSUME NEW t \in Threads, ReadGraph(t) PROVE NonZeroGraphs'
  BY <1>0, <1>4 DEF ReadGraph, files
<1>5. ASSUME NEW p \in Procs, Kill(p) PROVE NonZeroGraphs'
  BY <1>0, <1>5 DEF Kill, files, Empty
<1>6. ASSUME graph' = graph, graphFile' = graphFile PROVE NonZeroGraphs'
  BY <1>6
<1>7. \/ \E t \in Threads : \/ UpsertChunk(t) \/ Rebuild(t) \/ WriteGraph(t)
                              \/ ReadGraph(t)
      \/ \E p \in Procs : Kill(p)
      \/ graph' = graph /\ graphFile' = graphFile
  BY DEF Next, Step, vars, files, BeginSearch, BeginPersist, BeginUpsert, BeginDelete,
         BeginLoad, RLock, Lock, Enter, Finish, UpsertRefused, UpsertDone, Prune,
         WriteMeta, PersistFails, ReadMeta, SearchDone
<1> QED
  BY <1>1, <1>2, <1>3, <1>4, <1>5, <1>6, <1>7

\* No chunk with a zero vector ever gets into the graph of a store, however many
\* processes and goroutines use it and whatever is cut short.
THEOREM NoZeroVectorStored == Spec => []NoZeroNodes
<1>1. ConstantsAssumption /\ Init => Typed /\ NonZeroGraphs
  BY TypedInit DEF ConstantsAssumption, Init, NonZeroGraphs, NonZero, Empty
<1>2. ConstantsAssumption /\ Typed /\ NonZeroGraphs /\ [Next]_vars
        => Typed' /\ NonZeroGraphs'
  BY TypedNext, NonZeroNext
<1>3. NonZeroGraphs => NoZeroNodes
  BY DEF NonZeroGraphs, NonZero, NoZeroNodes
<1> QED
  BY <1>1, <1>2, <1>3, ConstantsAssumption, PTL DEF Spec

\* The RWMutex of each store keeps writers alone.
LEMMA ExcludedNext ==
  ASSUME ConstantsAssumption, Typed, Excluded, [Next]_vars
  PROVE  Excluded'
<1> USE DEF Typed, TypeOK, Excluded, P, Goto, ReadPcs, WritePcs
<1>1. ASSUME NEW t \in Threads, NEW l \in {"search", "writegraph"}, RLock(t, l)
      PROVE  Excluded'
  BY <1>1 DEF RLock, Enter, Inside
<1>2. ASSUME NEW t \in Threads, NEW l \in {"upsert", "prune", "readgraph"},
             NEW table \in Table, Lock(t, l, table)
      PROVE  Excluded'
  BY <1>2 DEF Lock, Enter, Inside
<1>3. ASSUME NEW t \in Threads, pc' = [pc EXCEPT ![t] = "idle"] \/ pc' = pc
      PROVE  Excluded'
  BY <1>3
<1>4. ASSUME NEW t \in Threads, Prune(t) \/ WriteGraph(t) \/ ReadGraph(t)
      PROVE  Excluded'
  BY <1>4 DEF Prune, WriteGraph, ReadGraph
<1>5. ASSUME NEW p \in Procs, Kill(p) PROVE Excluded'
  BY <1>5 DEF Kill
<1>6. CASE UNCHANGED vars
  BY <1>6 DEF vars
<1>7. ASSUME NEW t \in Threads,
             UpsertChunk(t) \/ UpsertRefused(t) \/ UpsertDone(t) \/ Rebuild(t) \/
             WriteMeta(t) \/ PersistFails(t) \/ ReadMeta(t) \/ SearchDone(t)
      PROVE  Excluded'
  BY <1>3, <1>7 DEF UpsertChunk, UpsertRefused, UpsertDone, Rebuild, WriteMeta,
                    PersistFails, ReadMeta, SearchDone, Finish
<1> QED
  BY <1>1, <1>2, <1>4, <1>5, <1>6, <1>7, EmptyType
     DEF Next, Step, BeginSearch, BeginPersist, BeginUpsert, BeginDelete, BeginLoad

\* Each step of an operation leaves the four tables as the next one needs them.
LEMMA InStepNext ==
  ASSUME ConstantsAssumption, OneStore, Typed, Excluded, InStep, [Next]_vars
  PROVE  InStep'
<1> USE DEF Typed, TypeOK, LoadsAFile, InStep, NonZero, P, Goto
<1>0. /\ None \notin ZeroVectors
      /\ ProcOf \in [Threads -> Procs]
      /\ \A p, q \in Procs : p = q
      /\ ~Torn
  BY DEF ConstantsAssumption, OneStore
<1>1. ASSUME NEW t \in Threads, NEW l \in {"search", "writegraph", "upsert", "prune",
                                           "readgraph"},
             NEW table \in Table, pc[t] = "idle", Enter(t, l, table)
      PROVE  InStep'
  BY <1>0, <1>1 DEF Enter, files
<1>2. ASSUME NEW t \in Threads, UpsertChunk(t) PROVE InStep'
  <2>1. PICK c \in ChunkIds :
          \/ UNCHANGED << graph, chunks >>
          \/ /\ graph' = [graph EXCEPT ![P(t)][c] = arg[t][c]]
             /\ chunks' = [chunks EXCEPT ![P(t)][c] = arg[t][c]]
             /\ arg[t][c] \notin ZeroVectors
    BY <1>2 DEF UpsertChunk, IdsIn
  <2>2. pc' = pc /\ graphFile' = graphFile /\ metaFile' = metaFile /\ pc[t] = "upsert"
    BY <1>2 DEF UpsertChunk, files
  <2>3. \A u \in Threads : pc[u] \notin {"writemeta", "readmeta", "rebuild"}
    BY <1>0, <2>2 DEF Excluded, ReadPcs, WritePcs
  <2>4. \A p \in Procs : graph'[p] = chunks'[p]
    BY <1>0, <2>1, <2>3
  <2>5. ASSUME NEW p \in Procs, NEW d \in ChunkIds
        PROVE  chunks'[p][d] \notin ZeroVectors
    <3>1. chunks[p] \in [ChunkIds -> Vectors \cup {None}]
      BY DEF Table
    <3> QED
      BY <2>1, <3>1
  <2> QED
    BY <2>2, <2>3, <2>4, <2>5
<1>3. ASSUME NEW t \in Threads, UpsertRefused(t) \/ UpsertDone(t) \/ SearchDone(t)
      PROVE  InStep'
  BY <1>0, <1>3 DEF UpsertRefused, UpsertDone, SearchDone, Finish, files
<1>4. ASSUME NEW t \in Threads, Prune(t) PROVE InStep'
  <2>1. \A u \in Threads : pc[u] \notin {"writemeta", "readmeta"}
    BY <1>0, <1>4 DEF Prune, Excluded, ReadPcs, WritePcs
  <2>2. \A p \in Procs : P(t) = p
    BY <1>0
  <2>3. \A p \in Procs, c \in ChunkIds : chunks'[p][c] \notin ZeroVectors
    BY <1>0, <1>4 DEF Prune
  <2> QED
    BY <1>4, <2>1, <2>2, <2>3 DEF Prune, files
<1>5. ASSUME NEW t \in Threads, Rebuild(t) PROVE InStep'
  <2>1. \A u \in Threads : u # t => pc[u] \notin {"writemeta", "readmeta", "rebuild"}
    BY <1>0, <1>5 DEF Rebuild, Excluded, ReadPcs, WritePcs
  <2>2. chunks[P(t)] \in [ChunkIds -> Vectors \cup {None}]
    BY <1>0 DEF Table
  <2>3. graph'[P(t)] = chunks[P(t)]
    BY <1>0, <1>5, <2>2 DEF Rebuild
  <2> QED
    BY <1>0, <1>5, <2>1, <2>3 DEF Rebuild, Finish, files
<1>6. ASSUME NEW t \in Threads, WriteGraph(t) PROVE InStep'
  <2>1. \A u \in Threads : pc[u] \notin {"readmeta", "rebuild"}
    BY <1>0, <1>6 DEF WriteGraph, Excluded, ReadPcs, WritePcs
  <2> QED
    BY <1>0, <1>6, <2>1 DEF WriteGraph
<1>7. ASSUME NEW t \in Threads, WriteMeta(t) PROVE InStep'
  <2>1. \A u \in Threads : pc[u] \notin {"readmeta", "rebuild"}
    BY <1>0, <1>7 DEF WriteMeta, Excluded, ReadPcs, WritePcs
  <2>2. graphFile = graph[P(t)] /\ graph[P(t)] = chunks[P(t)]
    BY <1>0, <1>7, <2>1 DEF WriteMeta
  <2> QED
    BY <1>0, <1>7, <2>1, <2>2 DEF WriteMeta, Finish
<1>8. ASSUME NEW t \in Threads, PersistFails(t) PROVE InStep'
  BY <1>0, <1>8 DEF PersistFails, Finish, files
<1>9. ASSUME NEW t \in Threads, ReadGraph(t) PROVE InStep'
  <2>1. \A u \in Threads : pc[u] # "writemeta"
    BY <1>0, <1>9 DEF ReadGraph, Excluded, ReadPcs, WritePcs
  <2> QED
    BY <1>0, <1>9, <2>1 DEF ReadGraph, files, Empty
<1>10. ASSUME NEW t \in Threads, ReadMeta(t) PROVE InStep'
  <2>1. \A u \in Threads : u # t => pc[u] \notin {"writemeta", "readmeta", "rebuild"}
    BY <1>0, <1>10 DEF ReadMeta, Excluded, ReadPcs, WritePcs
  <2>2. graphFile = graph[P(t)] /\ graphFile = metaFile /\ metaFile # NoFile
    BY <1>10, <2>1 DEF ReadMeta
  <2>3. chunks' = [chunks EXCEPT ![P(t)] = metaFile]
    BY <1>10, <2>2 DEF ReadMeta
  <2> QED
    BY <1>0, <1>10, <2>1, <2>2, <2>3 DEF ReadMeta, Finish, files
<1>11. ASSUME NEW p \in Procs, Kill(p) PROVE InStep'
  <2>1. \A t \in Threads : P(t) = p
    BY <1>0
  <2>2. \A t \in Threads : pc[t] # "writemeta" /\ pc'[t] = "idle"
    BY <1>0, <1>11, <2>1 DEF Kill, Inside
  <2> QED
    BY <1>0, <1>11, <2>1, <2>2 DEF Kill, files, Empty
<1>12. CASE UNCHANGED vars
  BY <1>12 DEF vars, files
<1> QED
  BY <1>1, <1>2, <1>3, <1>4, <1>5, <1>6, <1>7, <1>8, <1>9, <1>10, <1>11, <1>12, EmptyType
     DEF Next, Step, BeginSearch, BeginPersist, BeginUpsert, BeginDelete, BeginLoad,
         RLock, Lock, Enter

LEMMA Inductive ==
  ASSUME ConstantsAssumption, OneStore
  PROVE  /\ Init => Typed /\ Excluded /\ InStep
         /\ Typed /\ Excluded /\ InStep /\ [Next]_vars => (Typed /\ Excluded /\ InStep)'
         /\ Typed /\ Excluded /\ InStep => Coherent /\ FilesAgree
<1>1. Init => Typed /\ Excluded /\ InStep
  BY TypedInit DEF ConstantsAssumption, Init, Excluded, InStep, NonZero, Empty, ReadPcs,
                   WritePcs
<1>2. Typed /\ Excluded /\ InStep /\ [Next]_vars => (Typed /\ Excluded /\ InStep)'
  BY TypedNext, ExcludedNext, InStepNext
<1>3. Typed /\ Excluded /\ InStep => Coherent /\ FilesAgree
  BY DEF InStep, Coherent, FilesAgree, Inside, WritePcs
<1> QED
  BY <1>1, <1>2, <1>3

\* With one process and no Persist cut short, a search always finds the graph and
\* the metadata describing the same chunks.
THEOREM StoreCoherent == OneStore => (Spec => []Coherent)
<1> SUFFICES ASSUME OneStore PROVE Spec => []Coherent
  OBVIOUS
<1> DEFINE IInv == Typed /\ Excluded /\ InStep
<1>1. Init => IInv
  BY Inductive, ConstantsAssumption
<1>2. IInv /\ [Next]_vars => IInv'
  BY Inductive, ConstantsAssumption
<1>3. IInv => Coherent
  BY Inductive, ConstantsAssumption
<1> QED
  BY <1>1, <1>2, <1>3, PTL DEF Spec

\* ... and, between Persists, so does whoever loads the two files.
THEOREM FilesOfOneStore == OneStore => (Spec => []FilesAgree)
<1> SUFFICES ASSUME OneStore PROVE Spec => []FilesAgree
  OBVIOUS
<1> DEFINE IInv == Typed /\ Excluded /\ InStep
<1>1. Init => IInv
  BY Inductive, ConstantsAssumption
<1>2. IInv /\ [Next]_vars => IInv'
  BY Inductive, ConstantsAssumption
<1>3. IInv => FilesAgree
  BY Inductive, ConstantsAssumption
<1> QED
  BY <1>1, <1>2, <1>3, PTL DEF Spec
=============================================================================
