----------------------------- MODULE VectorIndex -----------------------------
(***************************************************************************)
(* The vector store, internal/adapter/vectorstore/hnsw.go: an HNSW graph   *)
(* and a map of chunk metadata that must describe the same chunks, behind  *)
(* one RWMutex per process, and the two files Persist writes and Load      *)
(* reads, shared by every process.                                         *)
(*                                                                         *)
(* A chunk is an ID and an embedding; its text belongs to the embedding.   *)
(* The graph gives the embedding of each node, the metadata map the        *)
(* embedding of each chunk.  How the graph finds neighbours is the         *)
(* library's business (module Search).                                     *)
(***************************************************************************)
EXTENDS Naturals, FiniteSets

CONSTANTS
  Threads,      \* goroutines
  Procs,        \* processes
  ProcOf,       \* the process of each goroutine
  ChunkIds,     \* chunk IDs
  Vectors,      \* embeddings
  ZeroVectors,  \* those with norm zero
  WrongSize,    \* those whose length is not the store's dims
  None,         \* no chunk
  NoFile,       \* a file that is not there
  Torn,         \* whether Persist may be cut short between its two renames
  MaxCalls,     \* bound: calls of a goroutine
  MaxKills      \* bound: processes killed

ASSUME ConstantsAssumption ==
  /\ ProcOf \in [Threads -> Procs]
  /\ ZeroVectors \subseteq Vectors /\ WrongSize \subseteq Vectors
  /\ None \notin Vectors
  /\ NoFile \notin [ChunkIds -> Vectors \cup {None}]
  /\ Torn \in BOOLEAN
  /\ MaxCalls \in Nat /\ MaxKills \in Nat

Table == [ChunkIds -> Vectors \cup {None}]
Empty == [c \in ChunkIds |-> None]

VARIABLES
  graph,      \* graph[proc]: the nodes of the HNSW graph
  chunks,     \* chunks[proc]: the metadata map
  graphFile,  \* persistPath
  metaFile,   \* persistPath + ".meta"
  pc,         \* where each goroutine is
  arg,        \* the chunks its Upsert has yet to add, or the IDs to Delete
  calls, kills

files == << graphFile, metaFile >>
vars == << graph, chunks, files, pc, arg, calls, kills >>

P(t) == ProcOf[t]
Goto(t, l) == pc' = [pc EXCEPT ![t] = l]
IdsIn(table) == { c \in ChunkIds : table[c] # None }

\* The two halves of the RWMutex of a process.
ReadPcs == {"search", "writegraph", "writemeta"}
WritePcs == {"upsert", "prune", "rebuild", "readgraph", "readmeta"}
Inside(p, pcs) == { t \in Threads : P(t) = p /\ pc[t] \in pcs }
-----------------------------------------------------------------------------
Init ==
  /\ graph = [p \in Procs |-> Empty]
  /\ chunks = [p \in Procs |-> Empty]
  /\ graphFile = NoFile /\ metaFile = NoFile
  /\ pc = [t \in Threads |-> "idle"]
  /\ arg = [t \in Threads |-> Empty]
  /\ calls = [t \in Threads |-> 0]
  /\ kills = 0

Enter(t, label, table) ==
  /\ pc[t] = "idle" /\ calls[t] < MaxCalls
  /\ calls' = [calls EXCEPT ![t] = @ + 1]
  /\ Goto(t, label)
  /\ arg' = [arg EXCEPT ![t] = table]
  /\ UNCHANGED << graph, chunks, files, kills >>

\* mu.RLock() of Search and Persist, mu.Lock() of Upsert, Delete and Load.
RLock(t, label) ==
  /\ Inside(P(t), WritePcs) = {}
  /\ Enter(t, label, Empty)

\* Mutant: a write only waits for other writes.
LockPastReaders(t, label, table) ==
  /\ Inside(P(t), WritePcs) = {}
  /\ Enter(t, label, table)

Lock(t, label, table) ==
  /\ Inside(P(t), WritePcs \cup ReadPcs) = {}
  /\ Enter(t, label, table)

BeginSearch(t) == RLock(t, "search")
BeginPersist(t) == RLock(t, "writegraph")
BeginUpsert(t) == \E table \in Table \ {Empty} : Lock(t, "upsert", table)
BeginDelete(t) == \E table \in Table \ {Empty} : Lock(t, "prune", table)
\* Mutant: Load does not look whether there is an index file.
BeginLoadBlindly(t) == Lock(t, "readgraph", Empty)

\* Load without an index file is a no-op.
BeginLoad(t) == graphFile # NoFile /\ Lock(t, "readgraph", Empty)

Finish(t) ==
  /\ Goto(t, "idle")
  /\ arg' = [arg EXCEPT ![t] = Empty]
  /\ UNCHANGED << calls, kills >>

\* One round of Upsert's loop; a chunk with a zero vector is skipped.
UpsertChunk(t) ==
  /\ pc[t] = "upsert"
  /\ \E c \in IdsIn(arg[t]) :
       LET v == arg[t][c] IN
       /\ v \notin WrongSize
       /\ IF v \in ZeroVectors THEN UNCHANGED << graph, chunks >>
          ELSE /\ graph' = [graph EXCEPT ![P(t)][c] = v]
               /\ chunks' = [chunks EXCEPT ![P(t)][c] = v]
       /\ arg' = [arg EXCEPT ![t][c] = None]
  /\ UNCHANGED << files, pc, calls, kills >>

\* A chunk of the wrong size ends the loop; those before it stay.
UpsertRefused(t) ==
  /\ pc[t] = "upsert" /\ \E c \in IdsIn(arg[t]) : arg[t][c] \in WrongSize
  /\ Finish(t)
  /\ UNCHANGED << graph, chunks, files >>

UpsertDone(t) ==
  /\ pc[t] = "upsert" /\ arg[t] = Empty
  /\ Finish(t)
  /\ UNCHANGED << graph, chunks, files >>

\* Delete takes the IDs out of the metadata map ...
Prune(t) ==
  /\ pc[t] = "prune"
  /\ chunks' = [chunks EXCEPT ![P(t)] =
       [c \in ChunkIds |-> IF c \in IdsIn(arg[t]) THEN None ELSE @[c]]]
  /\ Goto(t, "rebuild")
  /\ UNCHANGED << graph, files, arg, calls, kills >>

\* Mutant: the graph is not rebuilt.
NoRebuild(t) ==
  /\ pc[t] = "rebuild"
  /\ Finish(t)
  /\ UNCHANGED << graph, chunks, files >>

\* ... and builds a new graph from what is left there.
Rebuild(t) ==
  /\ pc[t] = "rebuild"
  /\ graph' = [graph EXCEPT ![P(t)] =
       [c \in ChunkIds |-> IF chunks[P(t)][c] \in ZeroVectors THEN None
                           ELSE chunks[P(t)][c]]]
  /\ Finish(t)
  /\ UNCHANGED << chunks, files >>

\* Persist: two temp files, two renames.
WriteGraph(t) ==
  /\ pc[t] = "writegraph"
  /\ graphFile' = graph[P(t)]
  /\ Goto(t, "writemeta")
  /\ UNCHANGED << graph, chunks, metaFile, arg, calls, kills >>

WriteMeta(t) ==
  /\ pc[t] = "writemeta"
  /\ metaFile' = chunks[P(t)]
  /\ Finish(t)
  /\ UNCHANGED << graph, chunks, graphFile >>

\* writeGraph fails before its rename, or writeMeta before its own.
PersistFails(t) ==
  /\ pc[t] = "writegraph" \/ (pc[t] = "writemeta" /\ Torn)
  /\ Finish(t)
  /\ UNCHANGED << graph, chunks, files >>

\* Load: reset both halves, then read one file after the other.
ReadGraph(t) ==
  /\ pc[t] = "readgraph"
  /\ graph' = [graph EXCEPT ![P(t)] = graphFile]
  /\ chunks' = [chunks EXCEPT ![P(t)] = Empty]
  /\ Goto(t, "readmeta")
  /\ UNCHANGED << files, arg, calls, kills >>

ReadMeta(t) ==
  /\ pc[t] = "readmeta"
  /\ chunks' = [chunks EXCEPT ![P(t)] = IF metaFile = NoFile THEN Empty ELSE metaFile]
  /\ Finish(t)
  /\ UNCHANGED << graph, files >>

SearchDone(t) ==
  /\ pc[t] = "search"
  /\ Finish(t)
  /\ UNCHANGED << graph, chunks, files >>

\* A process is killed, or exits because Load failed; the one that follows
\* starts with an empty store.
Kill(p) ==
  /\ kills < MaxKills
  /\ Torn \/ Inside(p, {"writemeta"}) = {}
  /\ kills' = kills + 1
  /\ graph' = [graph EXCEPT ![p] = Empty]
  /\ chunks' = [chunks EXCEPT ![p] = Empty]
  /\ pc' = [t \in Threads |-> IF P(t) = p THEN "idle" ELSE pc[t]]
  /\ arg' = [t \in Threads |-> IF P(t) = p THEN Empty ELSE arg[t]]
  /\ UNCHANGED << files, calls >>

Step(t) ==
  \/ UpsertChunk(t) \/ UpsertRefused(t) \/ UpsertDone(t) \/ Prune(t) \/ Rebuild(t)
  \/ WriteGraph(t) \/ WriteMeta(t) \/ PersistFails(t)
  \/ ReadGraph(t) \/ ReadMeta(t) \/ SearchDone(t)

Next ==
  \/ \E t \in Threads :
       \/ BeginSearch(t) \/ BeginPersist(t) \/ BeginUpsert(t) \/ BeginDelete(t)
       \/ BeginLoad(t) \/ Step(t)
  \/ \E p \in Procs : Kill(p)

Spec == Init /\ [][Next]_vars
-----------------------------------------------------------------------------
TypeOK ==
  /\ graph \in [Procs -> Table] /\ chunks \in [Procs -> Table]
  /\ graphFile \in Table \cup {NoFile} /\ metaFile \in Table \cup {NoFile}
  /\ pc \in [Threads -> {"idle"} \cup ReadPcs \cup WritePcs]
  /\ arg \in [Threads -> Table]
  /\ calls \in [Threads -> 0 .. MaxCalls]
  /\ kills \in 0 .. MaxKills

\* While no writer is inside, the graph and the metadata of a store describe the
\* same chunks with the same embeddings: a search neither meets a node it has no
\* text for (hnsw.go:142-145) nor shows the text of another version, whatever
\* Upserts, Deletes, Persists and Loads came before.
Coherent ==
  \A p \in Procs : Inside(p, WritePcs) = {} => graph[p] = chunks[p]

\* No chunk with a zero vector ever gets into the graph, where it would make
\* every comparison with it NaN (hnsw.go:388-390).
NoZeroNodes ==
  \A p \in Procs, c \in ChunkIds : graph[p][c] \notin ZeroVectors

\* "durable storage atomically" (hnsw.go:217-218): whenever no Persist is at
\* work the two files are of one and the same store.
FilesAgree ==
  (\A t \in Threads : pc[t] # "writemeta") => graphFile = metaFile
=============================================================================
