---------------------------- MODULE ConceptWrites ----------------------------
(***************************************************************************)
(* The concept write path: ConceptService.WriteConcept                     *)
(* (internal/usecase/concept.go) over FileNodeRepository                   *)
(* (internal/adapter/okf/repository.go), with its readers.                 *)
(*                                                                         *)
(* A write persists the document, regenerates index.md of its directory    *)
(* and appends to log.md of its directory, under a mutex that is per       *)
(* bundle alias and per process.  Every file is written by os.WriteFile:   *)
(* it is truncated, then filled, under a mutex that is per process;        *)
(* readers take no lock.  A bundle is a directory on disk (a root), which  *)
(* other processes, or another alias, may also reach.                      *)
(*                                                                         *)
(* A document is named by the write that made it.  Its text, type and      *)
(* title are not modelled: an index row records which document it was      *)
(* drawn from, and a log is the sequence of its writes.                    *)
(***************************************************************************)
EXTENDS Naturals, Sequences, FiniteSets

CONSTANTS
  Threads,      \* goroutines that handle requests
  Procs,        \* tahu processes
  ProcOf,       \* the process of each goroutine
  Aliases,      \* bundle aliases a request may name
  Serves,       \* the aliases the requests to each process name
  Roots,        \* bundle directories on disk
  NoRoot,       \* what an unregistered alias resolves to
  RootOf,       \* the root of each alias, or NoRoot
  Dirs,         \* directories of a bundle
  Paths,        \* concept paths of a bundle
  DirOf,        \* the directory of each path
  Under,        \* the paths below each directory, at any depth
  Listed,       \* the paths that end in ".md": the others are never listed
  Existing,     \* the paths with a document in every bundle at first
  Missing,      \* no document
  Blank,        \* a truncated file; also a document nothing can be read from
  Garbled,      \* two documents mixed by writers of different processes
  Old,          \* a document that was there at first
  MayBeBig,     \* the writes whose body may be just under 1 MB
  LogCap,       \* entries of the largest log.md that fits maxFileBytes
  Tearing,      \* the files a kill or a full disk may hit while they are filled
  MaxCalls,     \* bound: requests of a goroutine
  MaxCrashes,   \* bound: processes killed
  MaxFaults     \* bound: I/O errors

Ids == Threads \X (1 .. MaxCalls)
Docs == Ids \cup {Missing, Blank, Garbled, Old}
Free == "free"      \* a mutex nobody holds

\* Where a goroutine is while it fills a document, an index.md or a log.md.
FillPcs == {"filldoc", "fillindex", "filllog"}

ASSUME ConstantsAssumption ==
  /\ Free \notin Threads
  /\ ProcOf \in [Threads -> Procs]
  /\ Serves \in [Procs -> SUBSET Aliases]
  /\ NoRoot \notin Roots
  /\ RootOf \in [Aliases -> Roots \cup {NoRoot}]
  /\ DirOf \in [Paths -> Dirs]
  /\ Under \in [Dirs -> SUBSET Paths]
  /\ \A p \in Paths : p \in Under[DirOf[p]]
  /\ Listed \subseteq Paths /\ Existing \subseteq Paths
  /\ {Missing, Blank, Garbled, Old} \cap Ids = {}
  /\ LogCap \in Nat /\ MaxCalls \in Nat
  /\ MaxCrashes \in Nat /\ MaxFaults \in Nat

ASSUME FilesAssumption == MayBeBig \subseteq Ids /\ Tearing \subseteq FillPcs

VARIABLES
  doc,          \* doc[root][path]: the document on disk
  index,        \* index[root][dir]: the rows of index.md (none: no file)
  log,          \* log[root][dir]: the writes log.md lists (none: no file)
  big,          \* writes whose document is over 1 MB once serialized
  bundleLock,   \* bundleLock[proc][alias]: who holds ConceptService's mutex
  repoLock,     \* repoLock[proc]: who holds FileNodeRepository's mutex
  pc,           \* where each goroutine is in WriteConcept
  req,          \* the alias, path and write of its request
  refs,         \* paths List found whose row is still to be drawn
  rows,         \* index rows drawn so far
  old,          \* what ReadReserved returned for log.md
  out,          \* outcome of the goroutine's last request
  acked,        \* writes acknowledged: [root, dir, path, id]
  stale,        \* directories [root, dir] written since index.md was right
  calls, crashes, faults

disk == << doc, index, log >>
locks == << bundleLock, repoLock >>
local == << refs, rows, old >>
history == << acked, stale >>
bounds == << calls, crashes, faults >>
vars == << disk, big, locks, pc, req, local, out, history, bounds >>

NoReq == [kind |-> "none"]
Requests == [kind : {"write"}, alias : Aliases, path : Paths, id : Ids]
Row == [path : Paths, seen : Docs]

P(t) == ProcOf[t]
R(t) == RootOf[req[t].alias]
D(t) == DirOf[req[t].path]
Goto(t, l) == pc' = [pc EXCEPT ![t] = l]
Range(s) == { s[i] : i \in DOMAIN s }

\* What Get draws from a document: nothing from a truncated, garbled or
\* oversized one (an empty file parses as a concept with no type and no title).
Seen(d) == IF d \in big \/ d = Garbled THEN Blank ELSE d
-----------------------------------------------------------------------------
Init ==
  /\ doc = [r \in Roots |-> [p \in Paths |-> IF p \in Existing THEN Old ELSE Missing]]
  /\ index = [r \in Roots |-> [d \in Dirs |-> {}]]
  /\ log = [r \in Roots |-> [d \in Dirs |-> << >>]]
  /\ big = {}
  /\ bundleLock = [p \in Procs |-> [a \in Aliases |-> Free]]
  /\ repoLock = [p \in Procs |-> Free]
  /\ pc = [t \in Threads |-> "idle"]
  /\ req = [t \in Threads |-> NoReq]
  /\ refs = [t \in Threads |-> {}]
  /\ rows = [t \in Threads |-> {}]
  /\ old = [t \in Threads |-> << >>]
  /\ out = [t \in Threads |-> "none"]
  /\ acked = {}
  /\ stale = Roots \X Dirs
  /\ calls = [t \in Threads |-> 0]
  /\ crashes = 0
  /\ faults = 0

NewCall(t) ==
  /\ pc[t] = "idle" /\ calls[t] < MaxCalls
  /\ calls' = [calls EXCEPT ![t] = @ + 1]

\* concept_write is called with an acceptable request.
Submit(t) ==
  /\ NewCall(t)
  /\ \E a \in Serves[P(t)], p \in Paths :
       req' = [req EXCEPT ![t] = [kind |-> "write", alias |-> a, path |-> p,
                                  id |-> << t, calls[t] + 1 >>]]
  /\ \/ big' = big
     \/ << t, calls[t] + 1 >> \in MayBeBig /\ big' = big \cup {<< t, calls[t] + 1 >>}
  /\ out' = [out EXCEPT ![t] = "none"]
  /\ Goto(t, "lock")
  /\ UNCHANGED << disk, locks, local, history, crashes, faults >>

\* A blank type, a reserved name, an empty path or a ".." is refused before any
\* lock is taken.
Reject(t) ==
  /\ NewCall(t)
  /\ out' = [out EXCEPT ![t] = "invalid"]
  /\ UNCHANGED << disk, big, locks, pc, req, local, history, crashes, faults >>

\* Mutant: no mutex for each bundle.
LockBundleAlways(t) ==
  /\ pc[t] = "lock"
  /\ bundleLock' = [bundleLock EXCEPT ![P(t)][req[t].alias] = t]
  /\ Goto(t, "put")
  /\ UNCHANGED << disk, big, repoLock, req, local, out, history, bounds >>

LockBundle(t) ==
  /\ pc[t] = "lock"
  /\ bundleLock[P(t)][req[t].alias] = Free
  /\ bundleLock' = [bundleLock EXCEPT ![P(t)][req[t].alias] = t]
  /\ Goto(t, "put")
  /\ UNCHANGED << disk, big, repoLock, req, local, out, history, bounds >>

\* The deferred Unlock and the answer to the caller.
Finish(t, result) ==
  /\ bundleLock' = [bundleLock EXCEPT ![P(t)][req[t].alias] = Free]
  /\ Goto(t, "idle")
  /\ req' = [req EXCEPT ![t] = NoReq]
  /\ refs' = [refs EXCEPT ![t] = {}]
  /\ rows' = [rows EXCEPT ![t] = {}]
  /\ old' = [old EXCEPT ![t] = << >>]
  /\ out' = [out EXCEPT ![t] = result]

\* An unregistered alias, found by ResolveNew in Put.
UnknownAlias(t) ==
  /\ pc[t] = "put" /\ R(t) = NoRoot
  /\ Finish(t, "unknown")
  /\ UNCHANGED << disk, big, repoLock, history, bounds >>

\* An I/O error that leaves no trace: a stat, a mkdir, an open, a walk.
IOFails(t) ==
  /\ pc[t] \in {"put", "list", "index", "readlog", "log"} /\ R(t) # NoRoot
  /\ faults < MaxFaults
  /\ faults' = faults + 1
  /\ Finish(t, "error")
  /\ UNCHANGED << disk, big, repoLock, history, calls, crashes >>

\* The first half of os.WriteFile: the repository's mutex is taken, the file is
\* created or truncated.
Open(t, from, to) ==
  /\ pc[t] = from /\ R(t) # NoRoot
  /\ repoLock[P(t)] = Free
  /\ repoLock' = [repoLock EXCEPT ![P(t)] = t]
  /\ Goto(t, to)
  /\ UNCHANGED << big, bundleLock, req, local, out, acked, bounds >>

\* The second half: the file is filled and the mutex released.
Fill(t, from, to) ==
  /\ pc[t] = from
  /\ repoLock' = [repoLock EXCEPT ![P(t)] = Free]
  /\ Goto(t, to)
  /\ UNCHANGED << big, bundleLock, req, out, history, bounds >>

\* Put.
OpenDoc(t) ==
  /\ Open(t, "put", "filldoc")
  /\ doc' = [doc EXCEPT ![R(t)][req[t].path] = Blank]
  /\ stale' = stale \cup {<< R(t), D(t) >>}
  /\ UNCHANGED << index, log >>

\* A file that another process filled meanwhile is not truncated again: the new
\* bytes go over the start of its text.
FillDoc(t) ==
  /\ Fill(t, "filldoc", "list")
  /\ \E d \in {req[t].id} \cup
              (IF doc[R(t)][req[t].path] = Blank THEN {} ELSE {Garbled}) :
       doc' = [doc EXCEPT ![R(t)][req[t].path] = d]
  /\ UNCHANGED << index, log, local >>

\* regenerateIndex: List walks the directory and everything below it.
ListRefs(t) ==
  /\ pc[t] = "list"
  /\ refs' = [refs EXCEPT ![t] =
       { p \in Listed \cap Under[D(t)] : doc[R(t)][p] # Missing }]
  /\ Goto(t, "index")
  /\ UNCHANGED << disk, big, locks, req, rows, old, out, history, bounds >>

\* One Get per listed path; a Get that fails leaves the cells empty.
DrawRow(t, p, d) ==
  /\ rows' = [rows EXCEPT ![t] = @ \cup { [path |-> p, seen |-> d] }]
  /\ refs' = [refs EXCEPT ![t] = @ \ {p}]
  /\ UNCHANGED << disk, big, locks, pc, req, old, out, history, calls, crashes >>

GetRef(t) ==
  /\ pc[t] = "index"
  /\ \E p \in refs[t] : DrawRow(t, p, Seen(doc[R(t)][p]))
  /\ UNCHANGED faults

GetRefFails(t) ==
  /\ pc[t] = "index" /\ faults < MaxFaults
  /\ \E p \in refs[t] : DrawRow(t, p, Blank)
  /\ faults' = faults + 1

OpenIndex(t) ==
  /\ refs[t] = {}
  /\ Open(t, "index", "fillindex")
  /\ index' = [index EXCEPT ![R(t)][D(t)] = {}]
  /\ UNCHANGED << doc, log, stale >>

FillIndex(t) ==
  /\ Fill(t, "fillindex", "readlog")
  /\ \E tail \in SUBSET index[R(t)][D(t)] :
       index' = [index EXCEPT ![R(t)][D(t)] = rows[t] \cup tail]
  /\ UNCHANGED << doc, log, local >>

\* appendLog: ReadReserved, then WriteReserved of what it read and one entry.
ReadLog(t) ==
  /\ pc[t] = "readlog"
  /\ Len(log[R(t)][D(t)]) <= LogCap
  /\ old' = [old EXCEPT ![t] = log[R(t)][D(t)]]
  /\ Goto(t, "log")
  /\ UNCHANGED << disk, big, locks, req, refs, rows, out, history, bounds >>

\* checkFileSize refuses a log.md over maxFileBytes.
LogTooLarge(t) ==
  /\ pc[t] = "readlog"
  /\ Len(log[R(t)][D(t)]) > LogCap
  /\ Finish(t, "logfull")
  /\ UNCHANGED << disk, big, repoLock, history, bounds >>

OpenLog(t) ==
  /\ Open(t, "log", "filllog")
  /\ log' = [log EXCEPT ![R(t)][D(t)] = << >>]
  /\ UNCHANGED << doc, index, stale >>

\* Mutant: log.md is written with the new entry alone.
FillLogNewOnly(t) ==
  /\ Fill(t, "filllog", "done")
  /\ log' = [log EXCEPT ![R(t)][D(t)] = << req[t].id >>]
  /\ UNCHANGED << doc, index, local >>

\* Mutant: the entry names the concept but not the write.
FillLogPath(t) ==
  /\ Fill(t, "filllog", "done")
  /\ log' = [log EXCEPT ![R(t)][D(t)] = Append(old[t], req[t].path)]
  /\ UNCHANGED << doc, index, local >>

FillLog(t) ==
  LET new == Append(old[t], req[t].id)
      cur == log[R(t)][D(t)]
  IN /\ Fill(t, "filllog", "done")
     /\ log' = [log EXCEPT ![R(t)][D(t)] =
                  new \o SubSeq(cur, Len(new) + 1, Len(cur))]
     /\ UNCHANGED << doc, index, local >>

\* Mutant: the repository's mutex is kept when filling the file fails.
FillFailsLocked(t) ==
  /\ pc[t] \in Tearing /\ faults < MaxFaults
  /\ faults' = faults + 1
  /\ Finish(t, "error")
  /\ UNCHANGED << disk, big, repoLock, history, calls, crashes >>

\* The file is truncated and filling it fails (a full disk).
FillFails(t) ==
  /\ pc[t] \in Tearing /\ faults < MaxFaults
  /\ faults' = faults + 1
  /\ repoLock' = [repoLock EXCEPT ![P(t)] = Free]
  /\ Finish(t, "error")
  /\ UNCHANGED << disk, big, history, calls, crashes >>

Ack(t) ==
  /\ pc[t] = "done"
  /\ acked' = acked \cup { [root |-> R(t), dir |-> D(t), path |-> req[t].path,
                            id |-> req[t].id] }
  /\ stale' = stale \ {<< R(t), D(t) >>}
  /\ Finish(t, "ok")
  /\ UNCHANGED << disk, big, repoLock, bounds >>

\* concept_read: the size check, the read and the parse, with no lock.
ReadConcept(t) ==
  /\ NewCall(t)
  /\ \E a \in Serves[P(t)], p \in Paths :
       LET d == IF RootOf[a] = NoRoot THEN Missing ELSE doc[RootOf[a]][p] IN
       out' = [out EXCEPT ![t] = CASE d = Missing -> "notfound"
                                   [] d \in big -> "toolarge"
                                   [] d = Blank -> "untyped"
                                   [] d = Garbled -> "garbled"
                                   [] OTHER -> "ok"]
  /\ UNCHANGED << disk, big, locks, pc, req, local, history, crashes, faults >>

\* A process is killed and started again.
Kill(p) ==
  LET dead == { t \in Threads : P(t) = p }
      Lost(f, empty) == [t \in Threads |-> IF t \in dead THEN empty ELSE f[t]]
  IN /\ crashes < MaxCrashes
     /\ \A t \in dead : pc[t] \notin FillPcs \ Tearing
     /\ crashes' = crashes + 1
     /\ pc' = Lost(pc, "idle") /\ req' = Lost(req, NoReq) /\ out' = Lost(out, "none")
     /\ refs' = Lost(refs, {}) /\ rows' = Lost(rows, {}) /\ old' = Lost(old, << >>)
     /\ bundleLock' = [bundleLock EXCEPT ![p] = [a \in Aliases |-> Free]]
     /\ repoLock' = [repoLock EXCEPT ![p] = Free]
     /\ UNCHANGED << disk, big, history, calls, faults >>

Write(t) ==
  \/ LockBundle(t) \/ UnknownAlias(t) \/ IOFails(t)
  \/ OpenDoc(t) \/ FillDoc(t)
  \/ ListRefs(t) \/ GetRef(t) \/ GetRefFails(t) \/ OpenIndex(t) \/ FillIndex(t)
  \/ ReadLog(t) \/ LogTooLarge(t) \/ OpenLog(t) \/ FillLog(t) \/ FillFails(t)
  \/ Ack(t)

Next ==
  \/ \E t \in Threads : Submit(t) \/ Reject(t) \/ ReadConcept(t) \/ Write(t)
  \/ \E p \in Procs : Kill(p)

Spec == Init /\ [][Next]_vars

\* Every goroutine that can run is run in the end, and a free mutex is granted.
FairSpec == Spec /\ \A t \in Threads : WF_vars(Write(t))
-----------------------------------------------------------------------------
LockedPcs == FillPcs \cup {"put", "list", "index", "readlog", "log", "done"}
Pcs == LockedPcs \cup {"idle", "lock"}
Outcomes == {"none", "ok", "invalid", "unknown", "error", "logfull", "notfound",
             "toolarge", "untyped", "garbled"}

TypeOK ==
  /\ doc \in [Roots -> [Paths -> Docs]]
  /\ index \in [Roots -> [Dirs -> SUBSET Row]]
  /\ log \in [Roots -> [Dirs -> Seq(Ids)]]
  /\ big \subseteq Ids
  /\ bundleLock \in [Procs -> [Aliases -> Threads \cup {Free}]]
  /\ repoLock \in [Procs -> Threads \cup {Free}]
  /\ pc \in [Threads -> Pcs]
  /\ req \in [Threads -> Requests \cup {NoReq}]
  /\ refs \in [Threads -> SUBSET Paths]
  /\ rows \in [Threads -> SUBSET Row]
  /\ old \in [Threads -> Seq(Ids)]
  /\ out \in [Threads -> Outcomes]
  /\ acked \subseteq [root : Roots, dir : Dirs, path : Paths, id : Ids]
  /\ stale \subseteq Roots \X Dirs
  /\ calls \in [Threads -> 0 .. MaxCalls]
  /\ crashes \in 0 .. MaxCrashes
  /\ faults \in 0 .. MaxFaults

\* One process and one alias for each root that is written to: what the locks
\* of concept.go and repository.go are enough for.
Exclusive ==
  \A p, q \in Procs : \A a \in Serves[p], b \in Serves[q] :
    RootOf[a] = RootOf[b] /\ RootOf[a] # NoRoot => p = q /\ a = b

\* No log.md is lost in the middle of its rewriting.
LogsWhole == "filllog" \notin Tearing

Filling(t, r, d) == pc[t] = "filllog" /\ R(t) = r /\ D(t) = d

\* A log as its next complete state: the file, or, while a goroutine refills
\* it, what that goroutine read from it.
WholeLog(r, d) ==
  IF \E t \in Threads : Filling(t, r, d)
  THEN old[CHOOSE t \in Threads : Filling(t, r, d)]
  ELSE log[r][d]

\* Every acknowledged write is in the log of its directory, and stays there
\* while others rewrite the whole file to append to it (concept.go:201-214,
\* FIX-004 at concept.go:26-28).
AckedLogged ==
  \A w \in acked : w.id \in Range(WholeLog(w.root, w.dir))

\* A directory nobody has written to since its last acknowledged write has an
\* index.md that names exactly its documents, each drawn from the version now
\* on disk (concept.go:174-197): no write of another goroutine is missed or
\* shown half done, however the writes of one bundle interleave.
IndexFresh ==
  \A r \in Roots, d \in Dirs : << r, d >> \notin stale =>
    LET own == { row \in index[r][d] : DirOf[row.path] = d }
        docs == { p \in Listed : DirOf[p] = d /\ doc[r][p] # Missing }
    IN /\ { row.path : row \in own } = docs
       /\ \A row1, row2 \in own : row1.path = row2.path => row1 = row2
       /\ \A row \in own :
            \/ row.seen = Seen(doc[r][row.path])
            \/ faults > 0 /\ row.seen = Blank

\* The log is append-only and a write is acknowledged only once it is logged:
\* the write path implements the abstract ledger.
Acks == { [root |-> w.root, dir |-> w.dir, id |-> w.id] : w \in acked }
TheLedger == INSTANCE Ledger WITH
  ledger <- [r \in Roots |-> [d \in Dirs |-> WholeLog(r, d)]],
  confirmed <- Acks
ImplementsLedger == TheLedger!LedgerSpec

\* Every concept_write gets an answer or its process is killed: the bundle mutex
\* and the repository mutex never deadlock, whichever step fails.
WritesReturn == \A t \in Threads : pc[t] # "idle" ~> pc[t] = "idle"

\* "After any write: a timestamped entry is appended to log.md"
\* (documents/technical-details.md:151): with no I/O error and no kill, a
\* document left on disk by a write is in its directory's log once the
\* goroutine is done with it.
PersistedLogged ==
  faults = 0 /\ crashes = 0 =>
    \A r \in Roots, p \in Paths :
      \/ doc[r][p] \notin Ids
      \/ \E t \in Threads : req[t] # NoReq /\ req[t].id = doc[r][p]
      \/ doc[r][p] \in Range(WholeLog(r, DirOf[p]))

\* "regenerateIndex lists all concepts in ref's directory" (concept.go:170) and
\* each row links to its file by base name, so a row is about a file of that
\* directory.
IndexOfItsDirectory ==
  \A r \in Roots, d \in Dirs : \A row \in index[r][d] : DirOf[row.path] = d

\* "1 MB, matching the MCP write path MaxBodyBytes" (repository.go:18-19): a
\* body that concept_write accepts is not refused by concept_read for its size.
AcceptedIsReadable == \A t \in Threads : out[t] # "toolarge"

\* "The type frontmatter field must be present and non-empty"
\* (documents/technical-details.md:148): no read returns a concept without one.
ReadsAreTyped == \A t \in Threads : out[t] # "untyped"

=============================================================================
