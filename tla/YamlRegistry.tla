---------------------------- MODULE YamlRegistry ----------------------------
(***************************************************************************)
(* The YAML bundle registry, internal/infra/registry/yaml.go and flock.go: *)
(* several tahu processes, each with several goroutines and one            *)
(* YAMLBundleRepository, share registry.yaml and registry.yaml.lock.       *)
(*                                                                         *)
(* Put and Delete open the lock file, take the advisory lock on it, take   *)
(* the write half of the repository's RWMutex, load the file, save it by   *)
(* temp file and rename, and release in the reverse order.  Get and List   *)
(* only take the read half of the RWMutex: against another process they    *)
(* rely on the rename alone.  A process may be killed at any point; the    *)
(* kernel then drops its advisory lock.                                    *)
(***************************************************************************)
EXTENDS Registry

CONSTANTS
  Threads,      \* goroutines
  Procs,        \* tahu processes
  ProcOf,       \* the process of each goroutine
  OpsOf,        \* the calls each goroutine may make
  FlockWorks,   \* TRUE on Unix; FALSE with the no-op lock of flock_windows.go
  DirAtStart,   \* whether the registry's directory exists at first
  MaxCalls,     \* bound: calls a goroutine makes
  MaxCrashes,   \* bound: processes killed
  MaxFaults     \* bound: loads and saves that fail with an I/O error

ASSUME ConstantsAssumption ==
  /\ ProcOf \in [Threads -> Procs]
  /\ OpsOf \in [Threads -> SUBSET Ops]
  /\ FlockWorks \in BOOLEAN
  /\ DirAtStart \in BOOLEAN
  /\ MaxCalls \in Nat /\ MaxCrashes \in Nat /\ MaxFaults \in Nat

VARIABLES
  file,       \* the entries of registry.yaml (none when the file is missing)
  dir,        \* whether the directory of the registry exists
  op,         \* the call each goroutine is in
  pc,         \* where in that call it is
  loaded,     \* what its load() returned
  ans,        \* its answer, from the instant it is settled
  holders,    \* goroutines that hold the advisory lock on the lock file
  calls,      \* calls each goroutine has made
  crashes,    \* processes killed so far
  faults      \* I/O errors so far

vars == << file, dir, op, pc, loaded, ans, holders, calls, crashes, faults >>
-----------------------------------------------------------------------------
\* The state of a repository's RWMutex, read off its goroutines.  Lock() first
\* queues behind other writers ("wlock"), then announces itself, which stops
\* new readers, and waits for the readers inside ("wwait").
ReadersOf(p) == { t \in Threads : ProcOf[t] = p /\ pc[t] \in {"read", "runlock"} }
WriterPcs == {"wwait", "load", "save", "wunlock"}
AnnouncedOf(p) == { t \in Threads : ProcOf[t] = p /\ pc[t] \in WriterPcs }

Mutates(o) == o.kind \in {"put", "delete"}

Goto(t, l) == pc' = [pc EXCEPT ![t] = l]
Settle(t, a) == ans' = [ans EXCEPT ![t] = a]

Init ==
  /\ file = << >>
  /\ dir = DirAtStart
  /\ op = [t \in Threads |-> NoOp]
  /\ pc = [t \in Threads |-> "idle"]
  /\ loaded = [t \in Threads |-> << >>]
  /\ ans = [t \in Threads |-> NoAnswer]
  /\ holders = {}
  /\ calls = [t \in Threads |-> 0]
  /\ crashes = 0
  /\ faults = 0

\* Get, List, Put or Delete is called.
Begin(t) ==
  /\ pc[t] = "idle" /\ calls[t] < MaxCalls
  /\ \E o \in OpsOf[t] :
       /\ op' = [op EXCEPT ![t] = o]
       /\ Goto(t, IF Mutates(o) THEN "open" ELSE "rlock")
  /\ calls' = [calls EXCEPT ![t] = @ + 1]
  /\ UNCHANGED << file, dir, loaded, ans, holders, crashes, faults >>

\* newFileLock creates the lock file, which needs the directory to be there; the
\* one of flock_windows.go does nothing.
OpenLock(t) ==
  /\ pc[t] = "open"
  /\ IF dir \/ ~FlockWorks
     THEN Goto(t, "flock") /\ UNCHANGED ans
     ELSE Goto(t, "return") /\ Settle(t, Failure)
  /\ UNCHANGED << file, dir, op, loaded, holders, calls, crashes, faults >>

\* Mutant: a shared lock.
AcquireFlockShared(t) ==
  /\ pc[t] = "flock"
  /\ holders' = holders \cup {t}
  /\ Goto(t, "wlock")
  /\ UNCHANGED << file, dir, op, loaded, ans, calls, crashes, faults >>

\* flock(LOCK_EX): exclusive between open files, so between goroutines too.
AcquireFlock(t) ==
  /\ pc[t] = "flock"
  /\ FlockWorks => holders = {}
  /\ holders' = holders \cup {t}
  /\ Goto(t, "wlock")
  /\ UNCHANGED << file, dir, op, loaded, ans, calls, crashes, faults >>

\* The flock call fails; closing the lock file then has nothing to release.
LockFails(t) ==
  /\ pc[t] = "flock" /\ FlockWorks /\ faults < MaxFaults
  /\ Settle(t, Failure)
  /\ Goto(t, "return")
  /\ faults' = faults + 1
  /\ UNCHANGED << file, dir, op, loaded, holders, calls, crashes >>

\* Mutant: no mutex among the writers of a process.
AnnounceTogether(t) ==
  /\ pc[t] = "wlock"
  /\ Goto(t, "wwait")
  /\ UNCHANGED << file, dir, op, loaded, ans, holders, calls, crashes, faults >>

\* mu.Lock(): the goroutine is the only announced writer of its repository.
Announce(t) ==
  /\ pc[t] = "wlock"
  /\ AnnouncedOf(ProcOf[t]) = {}
  /\ Goto(t, "wwait")
  /\ UNCHANGED << file, dir, op, loaded, ans, holders, calls, crashes, faults >>

EnterWrite(t) ==
  /\ pc[t] = "wwait"
  /\ ReadersOf(ProcOf[t]) = {}
  /\ Goto(t, "load")
  /\ UNCHANGED << file, dir, op, loaded, ans, holders, calls, crashes, faults >>

\* load() of Put and Delete; os.ReadFile sees one whole file, never a mix,
\* because save() replaces the file by a rename.
Load(t) ==
  /\ pc[t] = "load"
  /\ loaded' = [loaded EXCEPT ![t] = file]
  /\ Goto(t, "save")
  /\ UNCHANGED << file, dir, op, ans, holders, calls, crashes, faults >>

LoadFails(t) ==
  /\ pc[t] = "load" /\ faults < MaxFaults
  /\ Settle(t, Failure)
  /\ Goto(t, "wunlock")
  /\ faults' = faults + 1
  /\ UNCHANGED << file, dir, op, loaded, holders, calls, crashes >>

\* save(): MkdirAll, temp file, rename.  The rename is the whole effect.
Save(t) ==
  /\ pc[t] = "save"
  /\ file' = Effect(loaded[t], op[t])
  /\ dir' = TRUE
  /\ Settle(t, Answer(loaded[t], op[t]))
  /\ Goto(t, "wunlock")
  /\ UNCHANGED << op, loaded, holders, calls, crashes, faults >>

\* save() fails before the rename and removes its temp file.
SaveFails(t) ==
  /\ pc[t] = "save" /\ faults < MaxFaults
  /\ Settle(t, Failure)
  /\ Goto(t, "wunlock")
  /\ faults' = faults + 1
  /\ UNCHANGED << file, dir, op, loaded, holders, calls, crashes >>

\* The deferred mu.Unlock, then the deferred close of the lock file.
WUnlock(t) ==
  /\ pc[t] = "wunlock"
  /\ Goto(t, "funlock")
  /\ UNCHANGED << file, dir, op, loaded, ans, holders, calls, crashes, faults >>

\* Mutant: the lock file is not closed when the call fails.
CloseLockUnlessFailed(t) ==
  /\ pc[t] = "funlock"
  /\ holders' = IF ans[t] = Failure THEN holders ELSE holders \ {t}
  /\ Goto(t, "return")
  /\ UNCHANGED << file, dir, op, loaded, ans, calls, crashes, faults >>

CloseLock(t) ==
  /\ pc[t] = "funlock"
  /\ holders' = holders \ {t}
  /\ Goto(t, "return")
  /\ UNCHANGED << file, dir, op, loaded, ans, calls, crashes, faults >>

\* mu.RLock() of Get and List: refused while a writer is announced.
RLock(t) ==
  /\ pc[t] = "rlock"
  /\ AnnouncedOf(ProcOf[t]) = {}
  /\ Goto(t, "read")
  /\ UNCHANGED << file, dir, op, loaded, ans, holders, calls, crashes, faults >>

Read(t) ==
  /\ pc[t] = "read"
  /\ Settle(t, Answer(file, op[t]))
  /\ Goto(t, "runlock")
  /\ UNCHANGED << file, dir, op, loaded, holders, calls, crashes, faults >>

ReadFails(t) ==
  /\ pc[t] = "read" /\ faults < MaxFaults
  /\ Settle(t, Failure)
  /\ Goto(t, "runlock")
  /\ faults' = faults + 1
  /\ UNCHANGED << file, dir, op, loaded, holders, calls, crashes >>

RUnlock(t) ==
  /\ pc[t] = "runlock"
  /\ Goto(t, "return")
  /\ UNCHANGED << file, dir, op, loaded, ans, holders, calls, crashes, faults >>

\* The caller has its answer; the goroutine's locals are gone.
Return(t) ==
  /\ pc[t] = "return"
  /\ Goto(t, "idle")
  /\ op' = [op EXCEPT ![t] = NoOp]
  /\ Settle(t, NoAnswer)
  /\ loaded' = [loaded EXCEPT ![t] = << >>]
  /\ UNCHANGED << file, dir, holders, calls, crashes, faults >>

\* A process is killed and started again.
Kill(p) ==
  LET dead == { t \in Threads : ProcOf[t] = p } IN
  /\ crashes < MaxCrashes
  /\ op' = [t \in Threads |-> IF t \in dead THEN NoOp ELSE op[t]]
  /\ pc' = [t \in Threads |-> IF t \in dead THEN "idle" ELSE pc[t]]
  /\ loaded' = [t \in Threads |-> IF t \in dead THEN << >> ELSE loaded[t]]
  /\ ans' = [t \in Threads |-> IF t \in dead THEN NoAnswer ELSE ans[t]]
  /\ holders' = holders \ dead
  /\ crashes' = crashes + 1
  /\ UNCHANGED << file, dir, calls, faults >>

\* The user makes ~/.tahu, for instance to write config.yaml.
MakeDir ==
  /\ ~dir
  /\ dir' = TRUE
  /\ UNCHANGED << file, op, pc, loaded, ans, holders, calls, crashes, faults >>

Step(t) ==
  \/ OpenLock(t) \/ LockFails(t) \/ AcquireFlock(t) \/ Announce(t) \/ EnterWrite(t)
  \/ Load(t) \/ LoadFails(t) \/ Save(t) \/ SaveFails(t)
  \/ WUnlock(t) \/ CloseLock(t)
  \/ RLock(t) \/ Read(t) \/ ReadFails(t) \/ RUnlock(t)
  \/ Return(t)

Next ==
  \/ \E t \in Threads : Begin(t) \/ Step(t)
  \/ \E p \in Procs : Kill(p)
  \/ MakeDir

Spec == Init /\ [][Next]_vars

\* The scheduler runs every goroutine that can run and the kernel grants a free
\* lock: weak fairness of each goroutine.  Calls, kills and I/O errors are not
\* owed to anybody.
FairSpec == Spec /\ \A t \in Threads : WF_vars(Step(t))
-----------------------------------------------------------------------------
Pcs == {"idle", "open", "flock", "wlock", "funlock", "rlock", "read", "runlock",
        "return"} \cup WriterPcs

TypeOK ==
  /\ file \in Seq(Entry)
  /\ dir \in BOOLEAN
  /\ op \in [Threads -> Ops \cup {NoOp}]
  /\ pc \in [Threads -> Pcs]
  /\ loaded \in [Threads -> Seq(Entry)]
  /\ ans \in [Threads -> Answers \cup {NoAnswer}]
  /\ holders \subseteq Threads
  /\ calls \in [Threads -> 0 .. MaxCalls]
  /\ crashes \in 0 .. MaxCrashes
  /\ faults \in 0 .. MaxFaults

\* No update is lost: between the load and the rename of a Put or Delete nobody
\* else, in this or another process, changes the file (yaml.go:90-102, ADR-009).
NoLostUpdate == \A t \in Threads : pc[t] = "save" => loaded[t] = file

\* An alias never has two entries in the file, whatever the interleaving of
\* Puts and Deletes (the replace-or-append of yaml.go:95-102).
AliasesUnique == UniqueAliases(file)

\* List promises insertion order (yaml.go:133): a step of the program never
\* swaps two entries that stay in the registry.
OrderKept ==
  [][\A a, b \in AliasesOf(file) \cap AliasesOf(file') :
       At(file, a) < At(file, b) => At(file', a) < At(file', b)]_file

\* Every call returns, or its process is killed: no order of the advisory lock
\* and the RWMutex deadlocks (yaml.go:78-88), also when load or save fails.
CallsReturn == \A t \in Threads : pc[t] # "idle" ~> pc[t] = "idle"

\* The repository is a registry on which every call is atomic (linearizable).
Map == INSTANCE BundleMap WITH reg <- file, req <- op
ImplementsMap == Map!MapSpec

\* "The file and its parent directories are created on first write"
\* (yaml.go:48-49): with no I/O error in sight, no Put is refused because the
\* directory is not there yet.
FirstWriteCreatesDirectory ==
  \A t \in Threads :
    faults = 0 /\ pc[t] = "return" /\ op[t].kind = "put" => ans[t].status = "ok"
=============================================================================
