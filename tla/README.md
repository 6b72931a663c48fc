# tahu in TLA+

`tahu` is a daemon that keeps OKF knowledge bases (directories of markdown
concepts, called *bundles*) and serves them to agents over MCP, with a CLI over
the same services. This directory models the parts of it whose state is shared
between goroutines, processes and files, model-checks them with TLC on small
instances, and proves the main invariants with TLAPS for every instance.

    tlc -config registry_shared.cfg MCYamlRegistry     # one run
    tlapm YamlRegistryProofs.tla                       # the proofs of one module

Contents: [the system](#1-the-system), [the modules](#2-the-modules-and-the-code),
[the runs](#3-the-runs), [known disagreements](#4-where-the-code-and-its-documents-disagree),
[fairness](#5-fairness), [proofs](#6-what-is-proved),
[limits](#7-what-is-only-model-checked-and-what-is-not-modelled), [plan](#8-plan).

## 1. The system

A tahu process is either a daemon (`tahu serve`, stdio or HTTP/SSE) or one CLI
command. Any number may run at once on one home directory. They share files and
no memory; a daemon handles each MCP request in a goroutine of its own.

| Component | Code | State it keeps | Operations |
|---|---|---|---|
| YAML bundle registry | `internal/infra/registry` | `registry.yaml`, its lock file, an RWMutex per process | Get, List, Put, Delete |
| Concept write path | `internal/usecase/concept.go`, `internal/adapter/okf/repository.go` | documents, `index.md` and `log.md` of each directory; a mutex per bundle alias and one per repository, both per process | WriteConcept (Put, regenerateIndex, appendLog), ReadConcept |
| Bundle lifecycle | `internal/usecase/bundle.go`, `cmd/tahu/main.go` | registry entries with chunk IDs; the alias -> root map read at start; the store of each process; the index file | AddBundle, RemoveBundle, ReindexBundle; start, stop |
| Vector store | `internal/adapter/vectorstore/hnsw.go` | HNSW graph, metadata map, RWMutex; two index files | Search, Upsert, Delete, Persist, Load |
| Search | `internal/usecase/search.go`, `internal/adapter/mcp/handlers.go` | none | search_semantic, search_keyword, search_rag, `tahu search` |
| Concept references | `handlers.go` (parseConceptRef), `internal/domain/chunk.go` | none | parse a scope or reference, match a chunk, name a source |
| MCP handlers and tools | `internal/adapter/mcp` | none | argument defaults, limits, JSON |
| OKF read tools | `concept.go`, `repository.go`, `linker.go` | none | concept_read, bundle_tree, concept_links, index_read, log_read, type_list (Get, List, ReadReserved, ListTypes, ExtractLinks) |
| Path resolver | `internal/adapter/okf/pathresolver.go` | none (looks at the file system) | Resolve, ResolveNew, ResolveReserved |
| OKF parser, serializer, validator | `internal/adapter/okf` | none | parse, serialize, validate a document |
| BM25 embedder | `internal/adapter/embedder/bm25.go` | vocabulary, document frequencies, RWMutex | Index, Embed |
| Chunker | `internal/adapter/embedder/chunker.go` | none | not called by the program |
| Transport | `internal/infra/transport/server.go` | listener, SSE sessions | serve, shut down within 5 s, recover a panic |
| Configuration and CLI | `internal/infra/config`, `cmd/tahu/main.go` | none | default, read, override, validate; serve; print |

### How they interact

A request goes from a handler to a service (`usecase`) to the repositories. The
registry is asked on every bundle call and **once** at start, to build the map
from alias to root that path resolution uses from then on. ReindexBundle reads
all documents through the OKF repository, embeds them, changes the in-memory
store of its own process and only then the registry entry. A process loads the
index files into its store at start and writes the whole store back at a clean
exit; nothing tells another process about either. Concept writes touch the
documents, `index.md` and `log.md`, and never the vector store.

### What is hard about it, and what makes each part correct

- *Registry.* A Put or Delete is load, change, save of the whole file. Two locks
  (advisory between processes, RWMutex within one) must be taken and released on
  every path, a reader takes only the second, a process may die anywhere. Correct
  means: each call takes effect at one instant or not at all, no update is lost,
  aliases stay unique, order is kept, every call returns.
- *Writes.* Three files change one after the other, each by truncate and fill,
  while other goroutines write and read the same directory. Correct means: an
  acknowledged write stays in the log, the log only grows, an index nobody has
  disturbed names exactly the documents there, in their present version, and
  every write is answered.
- *Lifecycle.* Two books are kept on one thing: which chunks the store holds
  (memory, saved at exit) and which chunks the registry says it holds (a file,
  saved at each reindex). Correct means: they agree over any sequence of edits,
  reindexes, failures and restarts, so that no chunk is forgotten and every
  document read is found.
- *Vector store.* Graph and metadata describe the same chunks; Delete, Upsert and
  Load change them one after the other, Persist writes them to two files. Correct
  means: they agree whenever a search may look, and so do the files.
- *Repository.* A path is checked, then a mutex is waited for, then directories
  and the file are made: a hand or another call may be in between. Writes start from
  the real root of a bundle, listings and links from the root as registered. Correct
  means: nothing is written outside the bundle or over a reserved file, what is put is
  read back and listed under every spelling, one bad file costs only itself.
- *Embedder.* Four counters are kept by hand over replaced documents, and Embed
  computes after it has let go of the mutex. Correct means: the counters are those of
  the documents, and a vector is of one corpus.
- *Daemon.* A signal, the end of the input, a failure to listen, a hanging call and a
  panic under a lock meet a deferred Persist. Correct means: it exits when told to,
  what was answered is in the file, a start that fails harms nothing, and the settings
  in force are those that were given.
- *Search.* The graph is asked for more than is wanted, and what it answers is
  filtered, sorted, cut and thresholded. Correct means: only wanted results, in
  order, the nearest ones, as many as there are, and each names a concept that
  `concept_read` finds.

`PROJECT.json` lists these hazards one by one, at the line where each bites.

## 2. The modules and the code

| Module | What it is | Instance for TLC | Proofs |
|---|---|---|---|
| `Registry` | data of the registry and the effect of a call on it | | |
| `BundleMap` | the registry's promise: an atomic map | | |
| `YamlRegistry` | the registry as coded | `MCYamlRegistry` | `YamlRegistryProofs` |
| `Ledger` | the write path's promise: an append-only log | | |
| `ConceptWrites` | the write path as coded | `MCConceptWrites` | `ConceptWritesProofs` |
| `BundleLifecycle` | add, remove, reindex, start and stop | `MCBundleLifecycle` | `BundleLifecycleProofs` |
| `VectorIndex` | the vector store as coded | `MCVectorIndex` | `VectorIndexProofs` |
| `Search` | scopes, references, sources; one search from call to answer | `MCSearch` | `SearchProofs` |
| `PathResolver` | paths, symbolic links, the resolver's checks | | `NodeRepositoryProofs` |
| `Document` | a document as text and as a concept | | `NodeRepositoryProofs` |
| `NodeRepository` | the file-backed repository, its tree edited by hand | `MCNodeRepository` | `NodeRepositoryProofs` |
| `Bm25Corpus` | the embedder's corpus, vocabulary and vectors | `MCBm25Corpus` | `Bm25CorpusProofs` |
| `Config` | the settings of a process | | |
| `Daemon` | the life of `tahu serve` | `MCDaemon` | `DaemonProofs` |

An action stands for what the code does between two points at which another
goroutine, another process or a kill can interfere; `pc` says where a goroutine
is. `PROJECT.json` maps each definition to its lines.

**Registry, BundleMap, YamlRegistry.** An entry is its alias and one value for all
other fields, because a Put replaces them together; the file is the sequence of
its entries. `Upserted` is the replace-or-append loop, `Without` the filter of
Delete. In `YamlRegistry` a Put or Delete is `OpenLock`, `AcquireFlock`,
`Announce`/`EnterWrite` (the two phases of `mu.Lock()`: a waiting writer stops new
readers), `Load`, `Save`, `WUnlock`, `CloseLock`, with `LockFails`, `LoadFails` and
`SaveFails` on the error paths, and the deferred releases in reverse order. Get
and List are `RLock`, `Read`, `RUnlock`. `Save` is one step because a file is
replaced by a rename; the temporary file is seen by nobody. The mutex's state is
not a variable but read off the goroutines' places. `FlockWorks = FALSE` is
`flock_windows.go`. A YAML file that does not parse is a load that fails.
`BundleMap` is the specification the callers rely on: `TakeEffect` does a call at
one instant, `FailCleanly` fails it without a trace, `Vanish` is the death of a
process. The refinement mapping is `reg <- file`, `req <- op`, and `ans` itself: the
instant of a Put or Delete is its rename, that of a Get or List its read.

**Ledger, ConceptWrites.** A document is named by the write that made it, an index
row by the document it was drawn from, a log by its writes in order. `Open` and
`Fill` are the two halves of `os.WriteFile`, between which the file is empty for
every reader; `Fill` over a file that another process filled meanwhile leaves the
tail of the longer one. `ListRefs` is recursive, as `List` is; `GetRef` draws one
row, `GetRefFails` an empty one. `IOFails` is every error that leaves no trace,
`FillFails` a full disk, `LogTooLarge` the size check of `log.md`. `RootOf` lets two
aliases, or two processes, reach one directory. The mapping to `Ledger` sends a
log that is being refilled to what its writer read from it (`WholeLog`).

**BundleLifecycle.** A registry call, an Upsert and a Delete are single steps here:
`YamlRegistry` and `VectorIndex` justify that. Everything between them is open:
`AddLookup`, `AddScan`, `AddPut`; `RemoveLookup`, `RemoveDelete`; `GetEntry`,
`ListDocs`, `ReadDoc` for each document, `EmbedUpsert`, `DeleteStale`, `PutEntry`.
`Start` copies the registry's roots, `LoadIndex` the index file; `Stop` saves the
store; `Kill` is also an exit whose Persist fails and a CLI command that fails
before it persists. There is one chunk for each concept, as in ReindexBundle,
which hands each body to the embedder whole. A root path is what was typed, `PlaceOf` the
directory it leads to: the code compares the former. Any `.md` file lets a directory be
added, so `AddLookup` may find one where no document is. `Blind` is the set of bodies whose
embedding is the zero vector, which `Upsert` skips. `before` and `last` are history
variables for the properties.

**VectorIndex.** `graph` and `chunks` per process, `graphFile` and `metaFile` on disk.
`UpsertChunk` is one round of the loop, `UpsertRefused` the chunk of the wrong size
that ends it, `Prune` and `Rebuild` the two halves of Delete, `WriteGraph` and
`WriteMeta` those of Persist, `ReadGraph` and `ReadMeta` those of Load. Each file is
replaced by a rename, the two one after the other (`Torn` says whether that may be
cut short). `RLock` and `Lock` are one step with the start of the call: waiting
changes nothing, and starvation is not asked about.

**Search.** A string is a sequence of names and separators (`Letters`), cut
where the code cuts it. Similarities are ranks. `Call` parses the scope and applies each
tool's default and clamp, `Embed` may yield the zero vector (`nan`), `Fetch` asks the
graph for `FetchK` nodes, `Rank` filters, sorts and cuts, `Filter` applies
`min_score`: `Enough` is the places of the results that have it. The graph library is external: it answers with *any* nodes, no more
than asked for. Properties that need the nearest ones assume `GraphWasExact`. A
search is one reader of `VectorIndex`, so the content does not change under it.

**PathResolver, Document, NodeRepository.** A spelling is the sequence of what stands
between its slashes, a tree a function from real paths to directories, files and
links; a link carries the real path it leads to, so a chain of links is one link.
`Clean`, `Join` and `Follow` are what `filepath` and `os` do, name by name (`Cleaned`,
`Entered`); `Resolve`,
`ResolveNew` and `ResolveReserved` are the three entrances of the resolver, and
answer with the set of the path or the empty set. A text is the sequence of its lines
and a frontmatter the set of its lines, so that `splitFrontmatter` and the trims at
both ends of a body are what they are in the code; the order of the keys after the
type is left open. Values are written without a tag, so `parseFrontmatter` drops the
lines whose value YAML reads as null (`NullLines`). A delimiter is `---` with any number
of carriage returns (`Delimiters`). In `NodeRepository` a call is two steps or more: `Put` (resolve,
validate, serialize), `MkdirAll` (take the mutex, make the directory), `WriteFile` or
`WriteFileFails`; `Get`, `GetRead`; `List`, `ListWalk`; `ListTypes`, then
`ListTypesNext` for each file; `ReadReserved`, `WriteReserved` likewise. `ByHand`
replaces or removes a part of the tree at any time. `put` remembers what was
acknowledged and not touched by a hand since, `raced` the calls a hand came between.
`ConceptWrites` is about the same code at the other end: what the use case does
around `Put`, with the halves of `os.WriteFile`.

**Bm25Corpus.** A term is a number in alphabetical order, a text the sequence of its
tokens. A Go map is a reference, so `maps` holds every term index ever built and
`vocabIdx` says which is current: `EmbedLocked` copies the reference and the counters
under the mutex, `EmbedText` computes a vector without it. `SortedTerms` is the sort of
`buildVocab`, the rarest first and ties by the alphabet; the order is total, so there is one. A weight is the tuple of
counts it is computed from, compared with the same tuple taken from the definition of
BM25 over the documents (`VectorIn`); rounding is left out.

**Config, Daemon.** A source of settings gives some keys a value; `Served` lays file,
environment and flags over the defaults in the order of the code, `Nearest` says for
one key who should decide it. `Daemon` is `RunE` of serve from `Start` through
`Build`, `ServeStdio`/`ServeHTTP`, `SeeSignal`, `Drained` and the deferred `Persist` to
`Exit`, with the ways each can fail, `ListenerFails` while it serves included, and the handlers
beside it: `Receive`, `Enter` and `Find` (under the mutex of the registry or of a bundle,
`guard`), `Lock` and `Apply` (under the store's), `Answer`, or `Hang`, or `Panic`. A panic
releases what it holds, a hang keeps it: whoever needs the same mutex waits behind it. A request stands for
one change of the store, and the index file for the changes it holds. The time limit
of the drain is that `Drained` may come at any moment. A process is its settings, its
phase and its store; its end (`Gone`) takes its port and its calls with it.

Definitions with the comment "Mutant:" are not part of any specification. Each is
a plausible slip in the code, in the form of the definition next to it; putting it
in that one's place makes the property named in `PROJECT.json` fail, which shows
that the property depends on the code.

## 3. The runs

All bounds are CONSTANTS with the comment "bound:" and are enforced in guards. Where
a cfg turns deadlock checking off it is because all goroutines have used up their
calls: that is the end of a bounded run, not of the program.

| Run | Expected | Properties | Instance |
|---|---|---|---|
| `registry_shared` | pass | TypeOK, NoLostUpdate, AliasesUnique, OrderKept, ImplementsMap, CallsReturn | two goroutines of a daemon that put and delete or read, a second process, two aliases, one call each, one kill, one I/O error, the directory missing at first; under fairness; 146,000 states |
| `writes_shared` | pass | TypeOK, IndexFresh, AckedLogged, ImplementsLedger, WritesReturn | two goroutines, two calls each, one bundle with a subdirectory and an unknown alias, a log that fills up, one kill and one I/O error or full disk, also while a document or an index is filled; under fairness; 494,000 states |
| `lifecycle_one_daemon` | pass | TypeOK, NoGhostChunks, NoOldBodies, RegistryCoversStore, LatestIndexKept | one daemon, two goroutines with an alias each, three jobs each, two edits, two restarts, one failing read; 3.1 million states |
| `lifecycle_failures` | pass | ReindexedIsSearchable, IndexSurvivesFailure, RootPathsDistinct | two processes, one of which adds, removes and reindexes, one directory with two spellings; one edit, two stops, failing reads and registry writes, a kill, stops that do not wait, zero vectors; 4.6 million states |
| `vectors_one_process` | pass | TypeOK, Coherent, FilesAgree | two goroutines, three calls each, two chunks, two proper, one zero and one misshapen vector, one kill; 204,000 states |
| `search` | pass | AnswersAreWanted, NoneNearerLeftOut, FullWhenItFits, SourceLeadsBack | every content of a store of four concepts with three similarities, nine scopes (four malformed), four tools, every answer of the graph; 1.3 million states |
| `repository` | pass | TypeOK, PutIsRead, ListingLeadsBack, TypesAreThoseRead, BrokenIsMissing, IndexFollows, WritesStayInside | two goroutines, three calls, a bundle reached through a link, five spellings, five concepts (one without a type, one with a null value, one over the size limit), one edit by hand out of four, one failure of the disk; 247,000 states |
| `corpus` | pass | CountsMatchCorpus, VectorsOfOneCorpus | two goroutines that embed three times in all, two documents indexed three times with four texts, three terms of which two fit in a vector; 95,000 states |
| `daemon` | pass | ServesAsTold, AnsweredIsKept, IndexNeverShrinks, ExitsWhenTold, RequestsEnd | one daemon started twice with any of thirteen settings, two calls, two faults (hang, panic, failing listener, I/O error), one kill; under fairness; 97,000 states |
| `registry_first_write` | violation | FirstWriteCreatesDirectory | two processes, no fault |
| `lifecycle_added_live` | violation | RegisteredIsUsable | one daemon, no fault |
| `lifecycle_production_embedder` | violation | ReindexMakesSearchable | every body has the zero vector |

What the passing runs show, and why the bounds are enough:

- *Registry.* Two writers in one process and one in another is the least instance
  in which both locks matter at once, and a third thread is what it takes for one
  to read while two contend. Two aliases are needed to tell apart an entry's place
  from its presence; one call each suffices because a goroutine keeps nothing
  between calls. `NoLostUpdate` says the file cannot change between a load and its
  rename; `ImplementsMap` is linearizability, answers included.
- *Writes.* Two goroutines exercise both mutexes against each other; the unknown
  alias, the fault and the kill take every early exit. Two calls each let a log
  grow past `LogCap = 1`. The directory above sees the documents of the one below,
  so two writers meet in one index without sharing a log. `IndexFresh` is the
  property that needs the bundle mutex to be held from the Put to the log.
- *Lifecycle.* Two paths and two bodies let a document appear, vanish and change;
  three jobs let a reindex follow a reindex follow an add, with a restart between
  any two. `RegistryCoversStore` is what makes stale-chunk deletion work at all.
- *Vectors.* Two chunks are needed to tell a partial update from a whole one.
- *Search.* `Oversample = 2` in place of 20 makes the over-fetch bite in a store of
  four. The four concepts are one at `n`, one below it, one whose name only starts
  with `n`, and one in another bundle with a colon in its path.

- *Repository.* A mutex needs two callers, and a put that is overtaken needs a second
  call and an edit between its steps; a third call reads what came of it. The root is
  given through a link because the code resolves it in some places and not in others.
  The spellings hold a doubled slash, a dot, a parent, a trailing slash on a reserved
  name and a way out of the bundle.
- *Corpus.* Three terms and two places are the least in which the cap leaves a term
  out, and three indexings the least in which a document is replaced under another.
- *Daemon.* The thirteen settings take every source of every kind of key, every
  contradiction of two sources and every value the code refuses. A second start is
  what shows a store that was not loaded; two calls what one that hangs or panics does
  to another.

`Search`, `Daemon` and `Bm25Corpus` state a TypeOK as well, for the reader; what it says
of them is a part of their other properties, or of the invariant in `DaemonProofs`.

The conditions under which the passing runs hold (one process for writes and for
the vector store, one goroutine per alias for reindexing, one that adds bundles, no
kill inside `log.md` or between two renames, one daemon at a time) are the project's results as much as the
properties: the configurations of section 4 drop them one at a time.

## 4. Where the code and its documents disagree

Listed runs, each a finding in `PROJECT.json`:

- `registry_first_write`: Put opens `registry.yaml.lock` before `save` makes the
  directory, so the first `bundle add` of a fresh home fails, against "created on
  first write" (`yaml.go:49`).
- `lifecycle_added_live`: the map from alias to root is made at start, so a bundle
  added to a running daemon cannot be reindexed, or written to, until it restarts.
- `lifecycle_production_embedder`: `main.go` never gives the BM25 embedder a corpus.
  Every embedding is then the zero vector, which `Upsert` skips: a reindex succeeds
  and adds nothing to the index, against the getting-started guide.

Further configurations, not among the listed runs. TLC finds each named property
violated (it stops at the first; leave the others out of the cfg, or give TLC
`-continue`, to see them all):

| Configuration | Property | What happens |
|---|---|---|
| `writes_log_full` | PersistedLogged | once `log.md` is over the 1 MB limit of a read, every write of the directory puts its document on disk, fails and is not logged, against "after any write" (`technical-details.md:151`) |
| `writes_killed` | AckedLogged | a kill while `log.md` is refilled loses the entries it held |
| `writes_two_processes` | AckedLogged | two processes append to one `log.md`; one entry is lost |
| `writes_readers` | ReadsAreTyped | `concept_read` during a write returns a concept without a type |
| | IndexOfItsDirectory | `index.md` links documents of subdirectories by base name |
| | AcceptedIsReadable | a body just under 1 MB makes a file no read accepts |
| `lifecycle_two_spellings` | RootsDistinct | `/kb` and `/kb/`, a relative path or a link register one directory twice, even one after the other: `AddBundle` compares strings and the CLI passes what was typed, against "must not already be registered under a different alias" (`bundle.go:31`) |
| `lifecycle_races` | RootPathsDistinct | two `bundle_add` at once register one root path twice |
| | RegistryCoversStore | two reindexes of one alias at once leave a chunk no reindex deletes |
| `lifecycle_removed` | SearchesRegistered | the chunks of a removed bundle are still found |
| | RegistryCoversStore, NoGhostChunks, LatestIndexKept | added again, the bundle starts with an empty list: no reindex deletes the chunks it had |
| | RemovedStaysRemoved | a reindex that overlaps a removal puts the alias back |
| `lifecycle_two_processes` | LatestIndexKept | a daemon overwrites at exit what a CLI reindex saved |
| `lifecycle_killed` | RegistryCoversStore, NoGhostChunks | after a kill the registry no longer knows the chunks of the index file |
| | NoOldBodies, LatestIndexKept | a body that turned into a zero vector keeps its old chunk |
| `vectors_cut_short` | FilesAgree | a kill or full disk between two renames leaves files of different stores |
| `vectors_two_processes` | FilesAgree | two processes that persist at once leave one file each |
| `repository_spellings` | IndexFollows | a document `index.md/b.md` makes a directory of that name, and a reference with a leading or trailing slash is written but its directory cannot be listed: the index never follows |
| `daemon_port_taken` | IndexNeverShrinks | a second daemon that cannot listen persists the copy it loaded over what the first has saved |
| | LoopbackIsServed | `--bind ::1` is refused with a message that recommends it: the address `::1:3000` cannot be split |
| `daemon_bind_flag` | BindIsServed | `--bind 0.0.0.0`, the documented example of an override (`configuration.md:86`, `:146`, `cli-reference.md:51`), is refused at start |
| `repository_null_type` | PutIsTyped | the type `null` or `~` passes validation, is written as a plain scalar and read back as no type, against "required `type`" (`arch-decisions-record.md:42`) |
| `search_colon_alias` | SourceLeadsBack | the CLI accepts a colon in an alias; results of that bundle lead nowhere |

Three properties of the passing runs are worded to leave these out. `RootPathsDistinct` is about
root paths as they are spelled, not about directories. `ServesAsTold` sides with the
code and its comment ("rejected at startup", `server.go:45`): what is served is on a loopback
address, whatever the documents promise of others. `PutIsRead` says that the values YAML reads as
null are lost (titles, resources and tags as well as types), and nothing else.

Smaller disagreements met on the way, which no configuration shows:

- "non-zero values win" (`main.go:87`): `--port 0` wins too, and so does any
  `--transport`, since flags are not validated; `--transport grpc` starts stdio.
- A daemon stopped by a signal over stdio exits with the error of its context.
- A search of an empty store answers `null`, where the tools' documentation has an
  array; `search_rag` clamps a `top_k` that is documented as an error.
- The keys of a frontmatter that the domain does not know are written in any order.
- A document that does not end in `.md` is written, read and logged, and never listed.
- A body loses one leading blank line at each write and read; a link to a heading
  (`#part`, `a.md#part`) is always marked broken.
- `ListTypes` and `ExtractLinks` look at the file system past the resolver.

## 5. Fairness

The runs `registry_shared`, `writes_shared` and `daemon` use it. `YamlRegistry!FairSpec` and
`ConceptWrites!FairSpec` assume weak fairness of each goroutine's steps inside a
call: the Go scheduler runs every runnable goroutine and a mutex or `flock` that is
free is granted in the end. `Daemon!FairSpec` assumes it of the main goroutine (build,
serve, and, once the context is done, leave) and of each handler that neither hangs nor
panics. Over http the serve call then returns whatever its handlers do: it selects on the context
and `Shutdown` has five seconds. Over stdio nothing bounds the time `Listen` takes
(`server.go:39-41`): it is assumed to return only once no call is at work
(`SeeSignalSurely`), so a call that hangs may keep the process for ever, and
`ExitsWhenTold` leaves that case out. That a listener fails is never assumed to happen. Safety properties
of these runs do not depend on it. Nothing is assumed of the environment: no call, kill,
stop, edit or I/O error ever has to happen. Weak fairness would not rule out being
overtaken at a lock for ever by an endless stream of other callers; Go's mutexes
(starvation mode) and the queue of `flock` do, and with a bounded number of calls the
question does not arise. What the runs show is therefore freedom from deadlock and
from a lock that an error path, or a kill, forgets to release.

## 6. What is proved

All of it holds for every number of goroutines, processes, aliases, chunks and
calls; the only assumptions are the named ones of each module (`ConstantsAssumption`,
`NamesAssumption`, `LinesAssumption`) and the hypotheses a theorem states.

### YamlRegistryProofs

| Theorem | Statement |
|---|---|
| `TypeCorrect` | `Spec => []TypeOK` |
| `AliasesStayUnique` | `Spec => []AliasesUnique`, whether or not the advisory lock works |
| `NoUpdateIsLost` | `Spec => []NoLostUpdate`, if the lock works or there is one process |
| `ImplementsBundleMap` | `Spec => ImplementsMap`, under the same condition |
| `OrderIsKept` | `Spec => OrderKept`, under the same condition |

`NoLostUpdate` is not inductive: it says nothing of a goroutine that is about to
load. The strengthening says that (1) goroutines between `AcquireFlock` and
`CloseLock` are in `holders`, and with a working lock `holders` has at most one
member; (2) two announced writers of one process are the same goroutine; (3) hence
at most one goroutine anywhere is between its load and its rename, which is the
only step that changes `file`. Uniqueness needs that `loaded` is unique too, since
`Save` writes what was loaded; the lemmas on `Upserted` and `Without` carry it.
For the refinement each step is shown to map to a step of `BundleMap` or a stutter:
`Save` to `TakeEffect` by `NoLostUpdate`, an error to `FailCleanly`, `Kill` to
`Vanish`; it also needs that a goroutine inside a call has a call, and one without an
answer has not passed its rename. `OrderIsKept` follows from `NoLostUpdate`, which
makes every change of the file the effect of one call on it, and from `EffectOrder`,
which says that such an effect never swaps two entries of a file without duplicates.

### ConceptWritesProofs

| Theorem | Statement |
|---|---|
| `TypeCorrect` | `Spec => []TypeOK` |
| `AckedStayLogged` | `Exclusive /\ LogsWhole => (Spec => []AckedLogged)` |
| `ImplementsTheLedger` | `Exclusive /\ LogsWhole => (Spec => ImplementsLedger)` |
| `IndexStaysFresh` | `Exclusive => (Spec => []IndexFresh)` |

`Exclusive` says that each directory is reached by one process and under one alias,
`LogsWhole` that no log is cut short while it is filled; documents and indexes may be. `AckedLogged` alone is not
inductive: nothing in it stops a goroutine from refilling a log with less than it
held. The invariant `IInv` adds, in this order:

1. `Held`: a goroutine past `LockBundle` holds the mutex of its bundle. With
   `Exclusive` it is then the only one there for its directory (`Alone`). `Held` needs
   no hypothesis; `writes_two_processes` shows what is lost without `Exclusive`.
2. `LogKept`: what a goroutine has read of a log is what the log says until it
   truncates it, and the log stays empty until it fills it. This is where another
   goroutine between the read and the fill would do harm.
3. `Entries`: a log holds only writes that were asked for, none that is still to be
   logged, and every one that is done. Each write has a number of its own, so a
   write is logged at most once.

`WholeStep` is the lemma the rest follows from: `WholeLog` changes only in `FillLog`,
by one entry at the end of one log. `FillLog` maps to `Record` of `Ledger`, `Ack` to
`Confirm`, and every other step, kills and errors included, to a stutter.

`IndexFresh` speaks of a directory nobody has written to since its last acknowledged write.
Its invariant `IndexKept` follows the others too: from `OpenDoc` to the answer the
directory of a write counts as disturbed (`stale`); the rows it has drawn are right and
the ones left to draw are in `refs`; the index it has truncated is empty until it is
filled with all rows, and right from then on. Each step is either `Plain` (it touches no document,
index or row) or one of a writer, which by `Alone` is the only one of its directory
(`ChangeIsLocal`, `ChangeKeepsOwn`). `DocsPast`, that no document is of a write still to come, makes
a new document differ from every row drawn before. `LogsWhole` is not needed: a write that is cut
short is not acknowledged, and its directory stays disturbed.

### VectorIndexProofs

| Theorem | Statement |
|---|---|
| `TypeCorrect` | `Spec => []TypeOK` |
| `NoZeroVectorStored` | `Spec => []NoZeroNodes`, whatever the processes do |
| `StoreCoherent` | `OneStore => (Spec => []Coherent)` |
| `FilesOfOneStore` | `OneStore => (Spec => []FilesAgree)` |

`OneStore` is one process and a Persist that is not cut short between its renames.
The invariant adds to `Coherent` what holds inside each operation: a writer is alone
inside the lock; between `Prune` and `Rebuild` nothing is said of the graph, because
`Rebuild` makes it from the metadata, which holds no zero vector; between `ReadGraph`
and `ReadMeta` the graph is the graph file, which is what the metadata file holds;
between the renames `graphFile` is the metadata about to be written. Coherence and
the agreement of the files need each other: Load puts two files in the store,
Persist puts the store in two files.

### BundleLifecycleProofs

| Theorem | Statement |
|---|---|
| `TypeCorrect` | `Spec => []TypeOK` |
| `ReindexedStaysSearchable` | `OneReindexer => (Spec => []ReindexedIsSearchable)` |
| `FailedReindexKeepsIndex` | `OneReindexer => (Spec => []IndexSurvivesFailure)` |
| `OldBodiesGo` | `OneReindexer /\ Blind = {} => (Spec => []NoOldBodies)` |
| `RemovedAreGone` | `NoRacingRemovals => (Spec => RemovedStaysRemoved)` |
| `RegisteredRootPathsDistinct` | `NoRacingRemovals /\ SingleAdder => (Spec => []RootPathsDistinct)` |
| `RegistryKnowsTheChunks` | `Careful /\ MaxKills = 0 => (Spec => []RegistryCoversStore)` |
| `ReindexLeavesNoGhosts` | `Careful /\ MaxKills = 0 => (Spec => []NoGhostChunks)` |
| `LatestIndexStays` | `Careful /\ Blind = {} => (Spec => []LatestIndexKept)` |

The hypotheses speak of the jobs goroutines are given (`JobsOf`), so each is a way of
using the program. `OneReindexer`: no process reindexes an alias twice at once (two
processes may, and anything may fail or be killed). `NoRacingRemovals`: an alias is
removed and reindexed by one goroutine. `SingleAdder`: one goroutine
adds. `Careful`: one process, one goroutine for each alias,
no removal, jobs that end before the process does, and a registry that can be written.
Most of them are needed: section 4 has a configuration for each that drops it
(`lifecycle_races`, `lifecycle_removed`, `lifecycle_two_processes`, and `lifecycle_killed` for
kills and for `Blind`; `PutFails = TRUE` in `lifecycle_one_daemon` breaks `RegistryCoversStore`).

There are three inductive invariants over `Typed`, which says what a goroutine has in hand
at each place of its code:

1. `Kept`: until a reindex has reached its Upsert the chunks it found at the start are in
   the store; from the Upsert on what it read is, and the Delete takes only what it did
   not read. Steps of other goroutines are at other aliases of the store.
2. `RootsKept`: what an add has seen (no entry of its alias, no entry of its root path) and what
   a reindex has seen (the root of its entry) still holds when it writes the entry.
3. `Covered`, while there has been no kill. `RegistryCoversStore` is not inductive: between
   `DeleteStale` and `PutEntry` the registry is behind the store, so it says of each
   place of the reindex which of entry, batch and store cover which; that the stores of
   processes that are not up are empty; and, when none is up, that the registry covers the
   index file, which is what the next `LoadIndex` makes the store. `Latest` does the same
   for the history variable `last`, from `Covered` and from `Blind = {}`.

### SearchProofs

| Theorem | Statement |
|---|---|
| `StagesAreSound` | `Spec => []Sound` |
| `OnlyTheWantedIsAnswered` | `Spec => []AnswersAreWanted` |
| `NoNearerIsPassedOver` | `Spec => []NoneNearerLeftOut` |
| `NothingIsMissing` | `Spec => []FullWhenItFits` |
| `SourceIsAReference` | `PlainAliases => (Spec => []SourceLeadsBack)` |

For any finite content of the store, any calls and any nodes the graph answers with. `Sound`
is the invariant: after `Rank` the list is the `Best` of the candidates (distinct,
descending, no longer than `topK`, nothing left out for less), and after `Filter` the
best of those with `min_score`. That the cut keeps
the nearest (`RankIsBest`), and that the filter keeps order and number (`FilterIsBest`), are
the lemmas under it. `NothingIsMissing` counts: a graph that answers `FetchK` nodes out of no more
leaves no candidate behind. `PlainAliases` says that no alias is empty or has a colon:
`HandleBundleAdd` refuses a colon, the CLI takes any (`search_colon_alias`), and neither refuses
the empty one, whose Source then reads as a scope without a bundle. Paths may have any
colons: the reference is cut at the first.

### Bm25CorpusProofs

| Theorem | Statement |
|---|---|
| `CountersMatchDocuments` | `Spec => []CountsMatchCorpus` |
| `VectorsAreOfOneCorpus` | `Spec => []VectorsOfOneCorpus` |

For any documents, texts, terms, cap and goroutines. `Whole` says that the counters are those
of `docs`, that the term index in force, unless it is stale, is `VocabIn(docs)`, and that
every Embed at work has a snapshot of one corpus, the one it has seen under the mutex,
and vectors of it for the texts it has done. `CountsFollow` is the step of Index: the old text
is counted out, the new one in, and a term in no document any more disappears. `RankIsPlace`
and `VocabBuilt` show that the sorted, capped listing of the code gives each term the place
that the definition of the properties gives it by counting the terms before it; the sort
exists (`SortExists`) and is unique because ties are broken (`TotalOrder`). An Embed may
share the map it copied with whoever rebuilds, since a rebuild makes a new one.

### DaemonProofs

| Theorem | Statement |
|---|---|
| `AnsweredStaysKept` | `Alone => (Spec => []AnsweredIsKept)` |
| `IndexOnlyGrows` | `Alone => (Spec => IndexNeverShrinks)` |
| `ServedAsTold` | `Spec => []ServesAsTold`, for any processes and settings |

`Alone` is one process at a time; nothing is assumed of settings, signals, faults, hangs
and panics. `AnsweredIsKept` speaks of the file only; the invariant follows a change on
its way there: a call that is done is in the store of its process (`DoneStored`), which
needs that calls in flight are at a process that has loaded and not exited
(`Placed`); what was answered is in the store until the Persist and in the file after it
(`EarlyKept`). `Loaded` says that a store holds all of the file from its Load to its
Persist, which is why a Persist takes nothing away; `daemon_port_taken` shows it
broken by a second process. `MovesKeep`, `HandlerKeeps` and `GoneKeeps` treat the steps of
the main goroutine, of the handlers, and the ends of a process.

`ServedAsTold` needs that laying file, environment and flags over the defaults, key by key and
in the order of the code, gives each key the value of its nearest source, which is a case
analysis over the sources; and that between `Build` and the listener nothing changes them.

### NodeRepositoryProofs

| Theorem | Statement |
|---|---|
| `FrameHolds` | `Spec => []Frame` |
| `TypeCorrect` | `Spec => []TypeOK` |
| `WritesStayInsideHolds` | `Spec => WritesStayInside` |
| `SerializedIsParsed` | every text of `SerializeConcept` parses to the concept it is of, without its null values |
| `PutIsReadHolds` | `ReservedNotLinked => (Spec => []PutIsRead)` |
| `BrokenIsMissingHolds` | `LinksDescend => (Spec => []BrokenIsMissing)` |
| `TypesAreThoseReadHolds` | `Spec => [](PlainRoots => TypesAreThoseRead)` |
| `ListingLeadsBackHolds` | `ReservedNotLinked /\ SubsDescend => (Spec => [](PlainRoots => ListingLeadsBack))` |
| `IndexFollowsHolds` | `ReservedNotLinked /\ ReservedAreFiles /\ RefsFollowed => (Spec => []IndexFollows)` |

For any callers, tree, links, edits by hand, spellings, concepts and faults. `Frame` is under all of
them: the files are a tree with no links but the possible ones, the mutex is held once, and a
write between its steps holds a path that is not reserved (a Put) or is (the others) and a text
its concept may be written as. On it stand three invariants:

- `Inside`, for `WritesStayInside`: the path of a write no hand has come between is below the
  real root, the root is there, and no link is on the way. `symGuardNew` establishes it with
  the check of the path; it survives the directories and files of the *other* writes because they make no links
  (`SafeExtends`). `MkdirAll` then makes what is missing of that path where it says and nowhere
  else, and only below the root since the root is there; `WriteFile` follows no link to somewhere else.
- `Kept`, for `PutIsRead` and `ListingLeadsBack`: what was put is a file, not a reserved one, whose
  text is one of that concept. With `SerializedIsParsed` a Get that resolves to it reads it, but
  for its null values;
  that it does resolve to it, through a root that is given through links, is a lemma on `Follow`.
- `Plainly`, for `IndexFollows`: no directory has the name of a reserved file.

`SerializedIsParsed` needs that no YAML line is a delimiter (so the first line of dashes after
the frontmatter is its end, whatever the body holds), and follows the trims at both ends of a body.

What the hypotheses say, and why each is there:

- `ReservedNotLinked`: no link is called `index.md` or `log.md` or leads to one. The check of a path and
  the write are two steps: a link `index.md` that a hand makes in between sends the
  write of the index to the document it leads to.
- `LinksDescend`, `SubsDescend`: a link that starts with a slash, and the directory of a listing, are
  joined to the root as it was registered, while documents are under the real one. A spelling
  that climbs above the bundle means different places from the two. `DownwardDescends` proves the
  hypothesis of every spelling without `..`. The handlers refuse a directory with one
  (`validation.go:40`); a document may hold any link, and one that climbs is looked up in the wrong place.
- `PlainRoots`, at the moment of the listing: `filepath.WalkDir` does not follow a root that is a
  link itself, and visits a root that is a file. Links further up on the way to the root do no harm.
- `ReservedAreFiles`, `RefsFollowed`: no directory has a reserved name, a reference goes through
  none, ends with a name, and if it starts with a slash goes on to a second one. These exclude what
  `repository_spellings` shows, and `..`, which `IndexFollows` excludes itself.

The constants of the run `repository` satisfy all of them.

## 7. What is only model-checked, and what is not modelled

- Liveness (`CallsReturn`, `WritesReturn`, `ExitsWhenTold`, `RequestsEnd`) and ENABLED
  are outside the prover's reach, so these stay with TLC.
- What `Clean` and `Follow` make of a path is a recursive function of how far they have
  come. The library's induction takes an operator, which the provers cannot fill in; the lemmas of
  `NodeRepositoryProofs` (`UpTo`, `AllSequences`) put a set in its place, of the numbers or the
  sequences for which a fact holds, and stand on its rule of the least element.
- The theorems about a condition (`Exclusive`, `OneStore`, `Careful`, ...) say nothing where
  it does not hold; there, and for each of the violations of section 4, TLC's
  counterexample is the result.
- Idealised: `coder/hnsw` is a set of nodes that answers with any of them; its own
  source is not in the repository, so a remark in `hnsw.go:182` about dangling
  pointers after its Delete, which an Upsert of a known ID also triggers, is listed
  as a hazard and not modelled. Of `mcp-go` and `net/http` only what the calls of the
  program say is assumed: whether they wait for handlers is left open, the liveness of
  the daemon over stdio included (section 5). Renames and
  `flock` are atomic, as POSIX has them.
- Left out on purpose: YAML and markdown as such, timestamps, wording, the JSON of
  answers, tool schemas and the size limits of arguments, the printing of the CLI,
  `/healthz` and log lines, the settings that size the graph or name the registry.
  Overflow of `topK * 20` is not modelled.
- The chunker is not modelled: no part of the program calls `ChunkConcept`, and it is
  a function of one body. Nor are the domain types and the test fakes.

## 8. Plan

Done, in this order: `Registry`, `BundleMap`, `YamlRegistry` and its proofs (every
other component writes through the registry); `Ledger`, `ConceptWrites` and its proofs;
`BundleLifecycle`; `VectorIndex` and its proofs; `Search`; `PathResolver`,
`Document`, `NodeRepository`; `Bm25Corpus`; `Config`, `Daemon` and its proofs.

`BundleLifecycle`, `Search`, `Bm25Corpus` and `NodeRepository` have proofs as well, and so have the freshness
of the index in `ConceptWrites` and the settings in `Daemon`. Every safety property the
passing runs check is stated by a theorem; section 7 lists what is not.
