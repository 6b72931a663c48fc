--------------------------- MODULE BundleLifecycle ---------------------------
(***************************************************************************)
(* Registering, reindexing and removing bundles: BundleService             *)
(* (internal/usecase/bundle.go) with the registry, the bundle directories, *)
(* the in-memory vector store of each tahu process and the index file they *)
(* all load at start and write at exit (cmd/tahu/main.go).                 *)
(*                                                                         *)
(* A registry call, an Upsert and a Delete are each one step: YamlRegistry *)
(* shows it for the registry, the store's mutex gives it for the other     *)
(* two.  Everything else of a job is a step of its own, so jobs of several *)
(* goroutines and processes, edits of the bundle by its owner, restarts    *)
(* and kills fall between any two of them.                                 *)
(*                                                                         *)
(* The chunk of a concept is named by its alias and path (one chunk per    *)
(* concept, ID alias:path:0) and holds the body it was made from.          *)
(***************************************************************************)
EXTENDS Naturals, FiniteSets

CONSTANTS
  Threads,      \* goroutines that run jobs
  Procs,        \* tahu processes: daemons and CLI commands
  ProcOf,       \* the process of each goroutine
  JobsOf,       \* the jobs each goroutine may run
  Aliases, 
  Roots,        \* root paths as they are typed
  Places,       \* directories
  PlaceOf,      \* the directory a root path leads to
  Paths,        \* concept paths
  Bodies,       \* concept bodies
  Blind,        \* the bodies the embedder maps to the zero vector
  None,         \* no document, no chunk, no root
  NoEntry,      \* an alias that is not registered
  AtFirst,      \* the body of every document at first
  Drains,       \* whether a stopping process waits for its jobs
  PutFails,     \* whether the registry's Put may fail
  MaxJobs,      \* bound: jobs of a goroutine
  MaxEdits,     \* bound: documents written or deleted
  MaxStops,     \* bound: processes stopped or killed
  MaxKills,     \* bound: processes killed
  MaxFaults     \* bound: failing calls

JobSet == [kind : {"add"}, alias : Aliases, root : Roots]
            \cup [kind : {"remove", "reindex"}, alias : Aliases]

ASSUME ConstantsAssumption ==
  /\ ProcOf \in [Threads -> Procs]
  /\ JobsOf \in [Threads -> SUBSET JobSet]
  /\ PlaceOf \in [Roots -> Places]
  /\ None \notin Roots /\ None \notin Bodies
  /\ NoEntry \notin [root : Roots, ids : SUBSET Paths]
  /\ Blind \subseteq Bodies /\ AtFirst \in Bodies
  /\ Drains \in BOOLEAN /\ PutFails \in BOOLEAN
  /\ MaxJobs \in Nat /\ MaxEdits \in Nat /\ MaxStops \in Nat
  /\ MaxKills \in Nat /\ MaxFaults \in Nat

\* The chunks of a vector store, and the documents of a bundle.
Chunks == [Aliases -> [Paths -> Bodies \cup {None}]]
NoChunks == [a \in Aliases |-> [p \in Paths |-> None]]
NoDocs == [p \in Paths |-> None]
Entries == [root : Roots, ids : SUBSET Paths]
NoJob == [kind |-> "none"]

VARIABLES
  disk,     \* disk[place][path]: the body of each document
  reg,      \* the registry: the entry of each alias
  saved,    \* the index file
  up,       \* whether each process is "down", "booting" or "up"
  roots,    \* the alias -> root map a process read when it started
  store,    \* the vector store of each process
  pc, job,
  entry,    \* the registry entry a reindex started from
  todo,     \* documents List found and Get has yet to read
  batch,    \* documents read: the chunks of this reindex
  res,      \* how the job ended
  before,   \* history: the alias's chunks when the reindex began
  last,     \* history: what the last successful reindex of an alias read
  jobs, edits, stops, kills, faults

shared == << disk, reg, saved >>
procs == << up, roots, store >>
local == << entry, todo, batch >>
history == << before, last >>
bounds == << jobs, edits, stops, kills, faults >>
vars == << shared, procs, pc, job, local, res, history, bounds >>

P(t) == ProcOf[t]
A(t) == job[t].alias
Has(chunks) == { p \in Paths : chunks[p] # None }
Goto(t, l) == pc' = [pc EXCEPT ![t] = l]

\* The job of t ends with the given status.
End(t, status) == Goto(t, "done") /\ res' = [res EXCEPT ![t] = status]

Fault == faults < MaxFaults /\ faults' = faults + 1
-----------------------------------------------------------------------------
Init ==
  /\ disk = [w \in Places |-> [p \in Paths |-> AtFirst]]
  /\ reg = [a \in Aliases |-> NoEntry]
  /\ saved = NoChunks
  /\ up = [p \in Procs |-> "down"]
  /\ roots = [p \in Procs |-> [a \in Aliases |-> None]]
  /\ store = [p \in Procs |-> NoChunks]
  /\ pc = [t \in Threads |-> "idle"]
  /\ job = [t \in Threads |-> NoJob]
  /\ entry = [t \in Threads |-> NoEntry]
  /\ todo = [t \in Threads |-> {}]
  /\ batch = [t \in Threads |-> NoDocs]
  /\ res = [t \in Threads |-> "none"]
  /\ before = [t \in Threads |-> {}]
  /\ last = NoChunks
  /\ jobs = [t \in Threads |-> 0]
  /\ edits = 0 /\ stops = 0 /\ kills = 0 /\ faults = 0

\* The owner of a bundle, or a concept_write, changes or deletes a document.
Edit ==
  /\ edits < MaxEdits
  /\ \E w \in Places, p \in Paths, b \in Bodies \cup {None} :
       /\ disk[w][p] # b
       /\ disk' = [disk EXCEPT ![w][p] = b]
  /\ edits' = edits + 1
  /\ UNCHANGED << reg, saved, procs, pc, job, local, res, history, jobs, stops,
                  kills, faults >>

\* Mutant: the map holds registry entries in place of root paths.
StartWithEntries(p) ==
  /\ up[p] = "down"
  /\ roots' = [roots EXCEPT ![p] = reg]
  /\ up' = [up EXCEPT ![p] = "booting"]
  /\ UNCHANGED << shared, store, pc, job, local, res, history, bounds >>

\* buildServices lists the registry once: the map it makes is never refreshed.
Start(p) ==
  /\ up[p] = "down"
  /\ roots' = [roots EXCEPT ![p] =
       [a \in Aliases |-> IF reg[a] = NoEntry THEN None ELSE reg[a].root]]
  /\ up' = [up EXCEPT ![p] = "booting"]
  /\ UNCHANGED << shared, store, pc, job, local, res, history, bounds >>

\* store.Load; without an index file this starts from an empty store.
LoadIndex(p) ==
  /\ up[p] = "booting"
  /\ store' = [store EXCEPT ![p] = saved]
  /\ up' = [up EXCEPT ![p] = "up"]
  /\ UNCHANGED << shared, roots, pc, job, local, res, history, bounds >>

Gone(p, f, empty) == [t \in Threads |-> IF P(t) = p THEN empty ELSE f[t]]

Exit(p) ==
  /\ stops < MaxStops /\ stops' = stops + 1
  /\ up' = [up EXCEPT ![p] = "down"]
  /\ store' = [store EXCEPT ![p] = NoChunks]
  /\ roots' = [roots EXCEPT ![p] = [a \in Aliases |-> None]]
  /\ pc' = Gone(p, pc, "idle") /\ job' = Gone(p, job, NoJob)
  /\ entry' = Gone(p, entry, NoEntry) /\ todo' = Gone(p, todo, {})
  /\ batch' = Gone(p, batch, NoDocs) /\ res' = Gone(p, res, "none")
  /\ before' = Gone(p, before, {})
  /\ UNCHANGED << disk, reg, last, jobs, edits, faults >>

\* Mutant: a clean exit does not persist.
StopUnsaved(p) ==
  /\ up[p] = "up"
  /\ Drains => \A t \in Threads : P(t) = p => pc[t] = "idle"
  /\ Exit(p)
  /\ UNCHANGED << saved, kills >>

\* A clean exit persists the whole store over whatever the file holds.
Stop(p) ==
  /\ up[p] = "up"
  /\ Drains => \A t \in Threads : P(t) = p => pc[t] = "idle"
  /\ saved' = store[p]
  /\ Exit(p)
  /\ UNCHANGED kills

\* A kill, an exit whose Persist fails, or a CLI reindex that failed: the CLI
\* then returns before it persists.
Kill(p) ==
  /\ up[p] # "down" /\ kills < MaxKills
  /\ kills' = kills + 1
  /\ Exit(p)
  /\ UNCHANGED saved

Begin(t) ==
  /\ up[P(t)] = "up" /\ pc[t] = "idle" /\ jobs[t] < MaxJobs
  /\ \E j \in JobsOf[t] :
       /\ job' = [job EXCEPT ![t] = j]
       /\ Goto(t, j.kind)
       /\ before' = [before EXCEPT ![t] = Has(store[P(t)][j.alias])]
  /\ jobs' = [jobs EXCEPT ![t] = @ + 1]
  /\ UNCHANGED << shared, procs, local, res, last, edits, stops, kills, faults >>

\* AddBundle: the directory holds a markdown file and the alias is not taken,
\* ...  An index.md or log.md counts, so a directory without a document may do.
AddLookup(t) ==
  /\ pc[t] = "add"
  /\ \/ Has(disk[PlaceOf[job[t].root]]) = {} /\ End(t, "nodocs")
     \/ reg[A(t)] # NoEntry /\ End(t, "duplicate")
     \/ reg[A(t)] = NoEntry /\ Goto(t, "addscan") /\ UNCHANGED res
  /\ UNCHANGED << shared, procs, job, local, history, bounds >>

\* Mutant: the root paths are not compared.
AddScanNothing(t) ==
  /\ pc[t] = "addscan"
  /\ Goto(t, "addput")
  /\ UNCHANGED << shared, procs, job, local, res, history, bounds >>

\* ... no entry has the same root path, ...
AddScan(t) ==
  /\ pc[t] = "addscan"
  /\ IF \E a \in Aliases : reg[a] # NoEntry /\ reg[a].root = job[t].root
     THEN End(t, "duplicate")
     ELSE Goto(t, "addput") /\ UNCHANGED res
  /\ UNCHANGED << shared, procs, job, local, history, bounds >>

\* ... and the entry is put, whatever happened since those two looks.
AddPut(t) ==
  /\ pc[t] = "addput"
  /\ reg' = [reg EXCEPT ![A(t)] = [root |-> job[t].root, ids |-> {}]]
  /\ End(t, "ok")
  /\ UNCHANGED << disk, saved, procs, job, local, history, bounds >>

\* RemoveBundle: look, then delete the entry; no vector store is told.
RemoveLookup(t) ==
  /\ pc[t] = "remove"
  /\ IF reg[A(t)] = NoEntry THEN End(t, "notfound")
     ELSE Goto(t, "removedel") /\ UNCHANGED res
  /\ UNCHANGED << shared, procs, job, local, history, bounds >>

RemoveDelete(t) ==
  /\ pc[t] = "removedel"
  /\ reg' = [reg EXCEPT ![A(t)] = NoEntry]
  /\ End(t, "ok")
  /\ UNCHANGED << disk, saved, procs, job, local, history, bounds >>

\* ReindexBundle: the entry, ...
GetEntry(t) ==
  /\ pc[t] = "reindex"
  /\ IF reg[A(t)] = NoEntry THEN End(t, "notfound")
     ELSE Goto(t, "list") /\ UNCHANGED res
  /\ entry' = [entry EXCEPT ![t] = reg[A(t)]]
  /\ UNCHANGED << shared, procs, job, todo, batch, history, bounds >>

\* Mutant: the old chunks go before the new ones are read.
ListDocsClearing(t) ==
  LET root == roots[P(t)][A(t)] IN
  /\ pc[t] = "list" /\ root # None
  /\ todo' = [todo EXCEPT ![t] = Has(disk[PlaceOf[root]])]
  /\ store' = [store EXCEPT ![P(t)][A(t)] = NoDocs]
  /\ Goto(t, "read")
  /\ UNCHANGED << shared, up, roots, job, entry, batch, res, history, bounds >>

\* ... the documents, under the root this process knows for the alias, ...
ListDocs(t) ==
  LET root == roots[P(t)][A(t)] IN
  /\ pc[t] = "list"
  /\ IF root = None
     THEN End(t, "noroot") /\ UNCHANGED todo
     ELSE /\ todo' = [todo EXCEPT ![t] = Has(disk[PlaceOf[root]])]
          /\ Goto(t, "read") /\ UNCHANGED res
  /\ UNCHANGED << shared, procs, job, entry, batch, history, bounds >>

\* ... each of them; one that is gone by now aborts the reindex, ...
ReadDoc(t) ==
  /\ pc[t] = "read"
  /\ \E p \in todo[t] :
       LET b == disk[PlaceOf[roots[P(t)][A(t)]]][p] IN
       IF b = None
       THEN End(t, "error") /\ UNCHANGED << todo, batch >>
       ELSE /\ batch' = [batch EXCEPT ![t][p] = b]
            /\ todo' = [todo EXCEPT ![t] = @ \ {p}]
            /\ UNCHANGED << pc, res >>
  /\ UNCHANGED << shared, procs, job, entry, history, bounds >>

\* Mutant: Upsert leaves a chunk alone that is there.
EmbedInsert(t) ==
  /\ pc[t] = "read" /\ todo[t] = {}
  /\ store' = [store EXCEPT ![P(t)][A(t)] =
       [p \in Paths |-> IF @[p] = None THEN batch[t][p] ELSE @[p]]]
  /\ Goto(t, "delete")
  /\ UNCHANGED << shared, up, roots, job, local, res, history, bounds >>

\* ... the embedding and the Upsert of all of them, which skips zero vectors,
EmbedUpsert(t) ==
  /\ pc[t] = "read" /\ todo[t] = {}
  /\ store' = [store EXCEPT ![P(t)][A(t)] =
       [p \in Paths |-> IF batch[t][p] \in Bodies \ Blind
                        THEN batch[t][p] ELSE @[p]]]
  /\ Goto(t, "delete")
  /\ UNCHANGED << shared, up, roots, job, local, res, history, bounds >>

\* Mutant: stale chunks are not looked for when no document is left.
DeleteStaleUnlessEmpty(t) ==
  LET gone == IF Has(batch[t]) = {} THEN {} ELSE entry[t].ids \ Has(batch[t]) IN
  /\ pc[t] = "delete"
  /\ store' = [store EXCEPT ![P(t)][A(t)] =
       [p \in Paths |-> IF p \in gone THEN None ELSE @[p]]]
  /\ Goto(t, "put")
  /\ UNCHANGED << shared, up, roots, job, local, res, history, bounds >>

\* Mutant: every chunk the entry lists is deleted, after the Upsert.
DeleteAllListed(t) ==
  /\ pc[t] = "delete"
  /\ store' = [store EXCEPT ![P(t)][A(t)] =
       [p \in Paths |-> IF p \in entry[t].ids THEN None ELSE @[p]]]
  /\ Goto(t, "put")
  /\ UNCHANGED << shared, up, roots, job, local, res, history, bounds >>

\* the Delete of the chunks the entry lists and this reindex did not make, ...
DeleteStale(t) ==
  LET gone == entry[t].ids \ Has(batch[t]) IN
  /\ pc[t] = "delete"
  /\ store' = [store EXCEPT ![P(t)][A(t)] =
       [p \in Paths |-> IF p \in gone THEN None ELSE @[p]]]
  /\ Goto(t, "put")
  /\ UNCHANGED << shared, up, roots, job, local, res, history, bounds >>

\* Mutant: the entry keeps the chunk IDs it had.
PutEntryOldIds(t) ==
  /\ pc[t] = "put"
  /\ reg' = [reg EXCEPT ![A(t)] = entry[t]]
  /\ last' = [last EXCEPT ![A(t)] = batch[t]]
  /\ End(t, "ok")
  /\ UNCHANGED << disk, saved, procs, job, local, before, bounds >>

\* ... and the entry again, with the root it had and the new chunk IDs.
PutEntry(t) ==
  /\ pc[t] = "put"
  /\ reg' = [reg EXCEPT ![A(t)] = [root |-> entry[t].root, ids |-> Has(batch[t])]]
  /\ last' = [last EXCEPT ![A(t)] = batch[t]]
  /\ End(t, "ok")
  /\ UNCHANGED << disk, saved, procs, job, local, before, bounds >>

\* A registry read, a List, a Get or the embedder fails.
ReadFails(t) ==
  /\ pc[t] \in {"add", "addscan", "remove", "reindex", "list", "read"}
  /\ Fault /\ End(t, "error")
  /\ UNCHANGED << shared, procs, job, local, history, jobs, edits, stops, kills >>

\* A registry write fails; a reindex has changed the store by then.
WriteFails(t) ==
  /\ pc[t] \in {"addput", "removedel", "put"} /\ PutFails
  /\ Fault /\ End(t, "unsaved")
  /\ UNCHANGED << shared, procs, job, local, history, jobs, edits, stops, kills >>

Return(t) ==
  /\ pc[t] = "done"
  /\ Goto(t, "idle")
  /\ job' = [job EXCEPT ![t] = NoJob]
  /\ entry' = [entry EXCEPT ![t] = NoEntry]
  /\ todo' = [todo EXCEPT ![t] = {}]
  /\ batch' = [batch EXCEPT ![t] = NoDocs]
  /\ res' = [res EXCEPT ![t] = "none"]
  /\ before' = [before EXCEPT ![t] = {}]
  /\ UNCHANGED << shared, procs, last, bounds >>

Step(t) ==
  \/ AddLookup(t) \/ AddScan(t) \/ AddPut(t)
  \/ RemoveLookup(t) \/ RemoveDelete(t)
  \/ GetEntry(t) \/ ListDocs(t) \/ ReadDoc(t) \/ EmbedUpsert(t)
  \/ DeleteStale(t) \/ PutEntry(t)
  \/ ReadFails(t) \/ WriteFails(t) \/ Return(t)

Next ==
  \/ \E t \in Threads : Begin(t) \/ Step(t)
  \/ \E p \in Procs : Start(p) \/ LoadIndex(p) \/ Stop(p) \/ Kill(p)
  \/ Edit

Spec == Init /\ [][Next]_vars
-----------------------------------------------------------------------------
Pcs == {"idle", "add", "addscan", "addput", "remove", "removedel", "reindex",
        "list", "read", "delete", "put", "done"}
Results == {"none", "ok", "nodocs", "duplicate", "notfound", "noroot", "error",
            "unsaved"}

TypeOK ==
  /\ disk \in [Places -> [Paths -> Bodies \cup {None}]]
  /\ reg \in [Aliases -> Entries \cup {NoEntry}]
  /\ saved \in Chunks
  /\ up \in [Procs -> {"down", "booting", "up"}]
  /\ roots \in [Procs -> [Aliases -> Roots \cup {None}]]
  /\ store \in [Procs -> Chunks]
  /\ pc \in [Threads -> Pcs]
  /\ job \in [Threads -> JobSet \cup {NoJob}]
  /\ entry \in [Threads -> Entries \cup {NoEntry}]
  /\ todo \in [Threads -> SUBSET Paths]
  /\ batch \in [Threads -> [Paths -> Bodies \cup {None}]]
  /\ res \in [Threads -> Results]
  /\ before \in [Threads -> SUBSET Paths]
  /\ last \in Chunks
  /\ jobs \in [Threads -> 0 .. MaxJobs]
  /\ edits \in 0 .. MaxEdits /\ stops \in 0 .. MaxStops
  /\ kills \in 0 .. MaxKills /\ faults \in 0 .. MaxFaults

Reindexed(t) == pc[t] = "done" /\ job[t].kind = "reindex" /\ res[t] = "ok"
StoreOf(t) == store[P(t)][A(t)]

\* A successful reindex leaves every document it read in the vector store, in
\* the version it read, unless the embedder sees nothing in it.
ReindexedIsSearchable ==
  \A t \in Threads : Reindexed(t) =>
    \A p \in Has(batch[t]) : batch[t][p] \notin Blind => StoreOf(t)[p] = batch[t][p]

\* "the next reindex can delete stale chunks (concepts that were removed since
\* the last run)" (domain/bundle.go:16-17): a successful reindex leaves no chunk
\* of a document it did not find.
NoGhostChunks ==
  \A t \in Threads : Reindexed(t) => Has(StoreOf(t)) \subseteq Has(batch[t])

\* "forces a full re-embed and reindex" (bundle.go:131): a successful reindex
\* leaves no chunk made from an older body.
NoOldBodies ==
  \A t \in Threads : Reindexed(t) =>
    \A p \in Has(StoreOf(t)) \cap Has(batch[t]) : StoreOf(t)[p] = batch[t][p]

\* "the existing index is preserved if the embedder fails" (bundle.go:174-176),
\* or if a document vanishes, or any other read does.
IndexSurvivesFailure ==
  \A t \in Threads :
    pc[t] = "done" /\ job[t].kind = "reindex" /\ res[t] = "error" =>
      before[t] \subseteq Has(StoreOf(t))

\* Every chunk in a store is one the registry, or the reindex at work on the
\* alias, knows by ID: without it no later reindex would ever delete the chunk
\* (bundle.go:190-204, domain/bundle.go:15-18).
Known(a) ==
  (IF reg[a] = NoEntry THEN {} ELSE reg[a].ids)
    \cup UNION { Has(batch[t]) :
                   t \in { u \in Threads : pc[u] \in {"delete", "put"} /\ A(u) = a } }
RegistryCoversStore ==
  \A a \in Aliases :
    /\ \A p \in Procs : Has(store[p][a]) \subseteq Known(a)
    /\ (\A p \in Procs : up[p] = "down") => Has(saved[a]) \subseteq Known(a)

\* What the last successful reindex of an alias put in the index is in the
\* index file once every process has stopped cleanly: "flushed to disk on clean
\* SIGINT/SIGTERM" (documents/technical-details.md:135).
LatestIndexKept ==
  kills = 0 /\ (\A p \in Procs : up[p] = "down") => saved = last

\* AddBundle compares root paths as they are spelled (bundle.go:78): while one
\* goroutine alone adds bundles, no two aliases have the same root path.
RootPathsDistinct ==
  \A a, b \in Aliases :
    a # b /\ reg[a] # NoEntry /\ reg[b] # NoEntry => reg[a].root # reg[b].root

\* "rootPath must not already be registered under a different alias"
\* (bundle.go:31): no two aliases lead to one directory.
RootsDistinct ==
  \A a, b \in Aliases :
    a # b /\ reg[a] # NoEntry /\ reg[b] # NoEntry =>
      PlaceOf[reg[a].root] # PlaceOf[reg[b].root]

\* "global (default): Search across all registered bundles"
\* (user-docs/mcp-tools.md:442): a running process searches no other.
SearchesRegistered ==
  \A p \in Procs, a \in Aliases : Has(store[p][a]) # {} => reg[a] # NoEntry

\* bundle_reindex has one error, "Alias not found" (user-docs/mcp-tools.md:144):
\* a registered bundle can be reindexed.
RegisteredIsUsable == \A t \in Threads : res[t] # "noroot"

\* "Unregister a bundle by alias" (user-docs/mcp-tools.md:91): only bundle_add
\* brings an alias back.
RemovedStaysRemoved ==
  [][\A a \in Aliases : reg[a] = NoEntry /\ reg'[a] # NoEntry =>
       \E t \in Threads : pc[t] = "addput" /\ A(t) = a]_reg

\* "If the bundle has not been indexed yet, re-index it first. Then search
\* again." (user-docs/getting-started.md:135-141): a reindex makes every
\* document of the bundle searchable.
ReindexMakesSearchable ==
  \A t \in Threads : Reindexed(t) => Has(batch[t]) \subseteq Has(StoreOf(t))
=============================================================================
