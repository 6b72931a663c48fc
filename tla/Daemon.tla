------------------------------- MODULE Daemon -------------------------------
(***************************************************************************)
(* The life of "tahu serve" (cmd/tahu/main.go with                         *)
(* internal/infra/transport/server.go): settings, building, listening,     *)
(* tool calls that take locks, hang or panic, signals, the drain, and the  *)
(* Persist that main defers.                                               *)
(*                                                                         *)
(* A tool call is a request that makes one change to the vector store, as  *)
(* a reindex does: the store is the set of the requests it holds the       *)
(* change of, and so is the index file, which Persist replaces whole       *)
(* (VectorIndex models its two renames, BundleLifecycle the reindex).      *)
(*                                                                         *)
(* Of mcp-go and net/http only what the program's calls say is assumed:    *)
(* the serve call may return when its input ends, after its context is     *)
(* cancelled or when it cannot listen.  Whether it waits for handlers is   *)
(* left open: they may run on until the process has exited, and over stdio *)
(* nothing makes the call return while one is at work.                     *)
(***************************************************************************)
EXTENDS Naturals, Config

CONSTANTS
  Procs,        \* places a tahu process can run in, one after the other
  Reqs,         \* tool calls, each made at most once
  Settings,     \* [file, env, flags] that a process may be started with
  Loopback,     \* the hosts that are loopback addresses
  HostOf,       \* the host of each bind address that net.SplitHostPort can
                \* split from its port: an IPv6 address in brackets, not a bare one
  NoProc,       \* nobody
  NoReq,        \* no request holds a mutex
  NoPort,       \* no port
  MaxStarts,    \* bound: processes started
  MaxFaults,    \* bound: calls that fail, and requests that hang or panic
  MaxKills      \* bound: processes killed

ASSUME DaemonAssumption ==
  /\ NoProc \notin Procs /\ NoReq \notin Reqs
  /\ MaxStarts \in Nat /\ MaxFaults \in Nat /\ MaxKills \in Nat

VARIABLES
  saved,    \* the index file: the changes it holds
  phase,    \* where each process is
  told,     \* the settings it was started with
  conf,     \* the configuration it made of them
  port,     \* the port it listens on
  cancelled,\* whether its NotifyContext is done
  why,      \* why it stopped serving: "stopped", "error" or "killed"
  store,    \* its vector store
  guard,    \* the request that holds the registry's mutex, or a bundle's
  lock,     \* the request that holds the store's mutex
  req,      \* the state of each request
  at,       \* the process that received it
  early,    \* history: requests answered while their process was serving and
            \* not lost in a kill or a Persist that failed
  starts, faults, kills

process == << phase, told, conf, port, cancelled, why, store >>
requests == << guard, lock, req, at, early >>
vars == << saved, process, requests, starts, faults, kills >>

Goto(p, l) == phase' = [phase EXCEPT ![p] = l]
Fault == faults < MaxFaults /\ faults' = faults + 1
Live(p) == phase[p] \notin {"off", "exited"}
InFlight(r) == req[r] \in {"running", "inside", "found", "locked", "done"}
Idle(p) == \A r \in Reqs : at[r] = p => ~ InFlight(r) /\ req[r] # "hung"

Init ==
  /\ saved = {}
  /\ phase = [p \in Procs |-> "off"]
  /\ told = [p \in Procs |-> Invalid]
  /\ conf = [p \in Procs |-> Invalid]
  /\ port = [p \in Procs |-> NoPort]
  /\ cancelled = [p \in Procs |-> FALSE]
  /\ why = [p \in Procs |-> "none"]
  /\ store = [p \in Procs |-> {}]
  /\ guard = [p \in Procs |-> NoReq]
  /\ lock = [p \in Procs |-> NoReq]
  /\ req = [r \in Reqs |-> "none"]
  /\ at = [r \in Reqs |-> NoProc]
  /\ early = {}
  /\ starts = 0 /\ faults = 0 /\ kills = 0
-----------------------------------------------------------------------------
\* The end of process p: its memory, its port and its requests go with it.
Gone(p) ==
  /\ Goto(p, "exited")
  /\ told' = [told EXCEPT ![p] = Invalid]
  /\ conf' = [conf EXCEPT ![p] = Invalid]
  /\ port' = [port EXCEPT ![p] = NoPort]
  /\ cancelled' = [cancelled EXCEPT ![p] = FALSE]
  /\ store' = [store EXCEPT ![p] = {}]
  /\ guard' = [guard EXCEPT ![p] = NoReq]
  /\ lock' = [lock EXCEPT ![p] = NoReq]
  /\ req' = [r \in Reqs |->
       IF at[r] = p /\ (InFlight(r) \/ req[r] = "hung") THEN "lost" ELSE req[r]]
  /\ early' = { r \in early : at[r] = p => r \in saved }
  /\ UNCHANGED at

\* serve: a configuration that does not load ends the process.
Start(p) ==
  /\ ~Live(p) /\ starts < MaxStarts
  /\ starts' = starts + 1
  /\ \E s \in Settings :
       IF Served(s) = Invalid
       THEN /\ Goto(p, "exited")
            /\ why' = [why EXCEPT ![p] = "error"]
            /\ UNCHANGED << told, conf >>
       ELSE /\ Goto(p, "building")
            /\ why' = [why EXCEPT ![p] = "none"]
            /\ told' = [told EXCEPT ![p] = s]
            /\ conf' = [conf EXCEPT ![p] = Served(s)]
  /\ UNCHANGED << saved, port, cancelled, store, requests, faults, kills >>

\* buildServices: the store starts from the index file.
Build(p) ==
  /\ phase[p] = "building" /\ conf[p]["model"] = "bm25"
  /\ store' = [store EXCEPT ![p] = saved]
  /\ Goto(p, "starting")
  /\ UNCHANGED << saved, told, conf, port, cancelled, why, requests, starts,
                  faults, kills >>

\* Mutant: Persist is deferred before the error is looked at.
BuildFailsPersisting(p) ==
  /\ phase[p] = "building"
  /\ IF conf[p]["model"] = "bm25" THEN Fault ELSE UNCHANGED faults
  /\ why' = [why EXCEPT ![p] = "error"]
  /\ saved' = store[p]
  /\ Gone(p)
  /\ UNCHANGED << starts, kills >>

\* An embedder there is not, or a registry or an index file that cannot be
\* read: serve returns before it has deferred the Persist.
BuildFails(p) ==
  /\ phase[p] = "building"
  /\ IF conf[p]["model"] = "bm25" THEN Fault ELSE UNCHANGED faults
  /\ why' = [why EXCEPT ![p] = "error"]
  /\ Gone(p)
  /\ UNCHANGED << saved, starts, kills >>

\* Whatever is not "http" is served over stdio.
ServeStdio(p) ==
  /\ phase[p] = "starting" /\ conf[p]["transport"] # "http"
  /\ Goto(p, "serving")
  /\ UNCHANGED << saved, told, conf, port, cancelled, why, store, requests,
                  starts, faults, kills >>

\* The address is the bind address, a colon and the port. What cannot be split
\* is looked at whole, port and all, and is then no loopback address.
validateBindAddr(bind) == bind \in DOMAIN HostOf /\ HostOf[bind] \in Loopback

Taken(p) == \E q \in Procs \ {p} : port[q] = conf[p]["port"] /\ port[q] # "0"

\* Mutant: the bind address is not looked at.
ServeHTTPAnywhere(p) ==
  /\ phase[p] = "starting" /\ conf[p]["transport"] = "http"
  /\ ~Taken(p)
  /\ port' = [port EXCEPT ![p] = conf[p]["port"]]
  /\ Goto(p, "serving")
  /\ UNCHANGED << saved, told, conf, cancelled, why, store, requests, starts,
                  faults, kills >>

ServeHTTP(p) ==
  /\ phase[p] = "starting" /\ conf[p]["transport"] = "http"
  /\ validateBindAddr(conf[p]["bind"]) /\ ~Taken(p)
  /\ port' = [port EXCEPT ![p] = conf[p]["port"]]
  /\ Goto(p, "serving")
  /\ UNCHANGED << saved, told, conf, cancelled, why, store, requests, starts,
                  faults, kills >>

\* The address is refused, or it cannot be listened on; the deferred Persist
\* comes next all the same.
ServeFails(p) ==
  /\ phase[p] = "starting" /\ conf[p]["transport"] = "http"
  /\ IF validateBindAddr(conf[p]["bind"]) /\ ~Taken(p) THEN Fault ELSE UNCHANGED faults
  /\ why' = [why EXCEPT ![p] = "error"]
  /\ Goto(p, "closing")
  /\ UNCHANGED << saved, told, conf, port, cancelled, store, requests, starts,
                  kills >>

\* The listener fails while it serves: the goroutine of ListenAndServe reports
\* that as it does an address it cannot listen on, and ServeHTTP returns at once.
ListenerFails(p) ==
  /\ phase[p] = "serving" /\ conf[p]["transport"] = "http" /\ Fault
  /\ why' = [why EXCEPT ![p] = "error"]
  /\ port' = [port EXCEPT ![p] = NoPort]
  /\ Goto(p, "closing")
  /\ UNCHANGED << saved, told, conf, cancelled, store, requests, starts, kills >>
-----------------------------------------------------------------------------
\* A tool call arrives.
Receive(p, r) ==
  /\ phase[p] = "serving" /\ req[r] = "none"
  /\ req' = [req EXCEPT ![r] = "running"]
  /\ at' = [at EXCEPT ![r] = p]
  /\ UNCHANGED << saved, process, guard, lock, early, starts, faults, kills >>

\* The handler takes the registry's mutex, or a bundle's, and is at its files under
\* it (a reader counts as a writer: it stops writers, and they new readers), ...
Enter(r) ==
  /\ req[r] = "running" /\ guard[at[r]] = NoReq
  /\ guard' = [guard EXCEPT ![at[r]] = r]
  /\ req' = [req EXCEPT ![r] = "inside"]
  /\ UNCHANGED << saved, process, lock, at, early, starts, faults, kills >>

\* ... and lets go of it.
Find(r) ==
  /\ req[r] = "inside"
  /\ guard' = [guard EXCEPT ![at[r]] = NoReq]
  /\ req' = [req EXCEPT ![r] = "found"]
  /\ UNCHANGED << saved, process, lock, at, early, starts, faults, kills >>

\* Upsert or Delete takes the store's mutex, ...
Lock(r) ==
  /\ req[r] = "found" /\ lock[at[r]] = NoReq
  /\ lock' = [lock EXCEPT ![at[r]] = r]
  /\ req' = [req EXCEPT ![r] = "locked"]
  /\ UNCHANGED << saved, process, guard, at, early, starts, faults, kills >>

\* ... changes the store and lets go of it.
Apply(r) ==
  /\ req[r] = "locked"
  /\ store' = [store EXCEPT ![at[r]] = @ \cup {r}]
  /\ lock' = [lock EXCEPT ![at[r]] = NoReq]
  /\ req' = [req EXCEPT ![r] = "done"]
  /\ UNCHANGED << saved, phase, told, conf, port, cancelled, why, guard, at,
                  early, starts, faults, kills >>

\* The handler waits for something that never comes: a file that does not answer,
\* of the registry or of a bundle, which it reads or writes with the mutex held
\* (yaml.go:87, concept.go:145), or the file lock another process keeps.  Upsert
\* and Delete, which hold the store's mutex, wait for nothing.
Hang(r) ==
  /\ req[r] \in {"running", "inside", "found", "done"} /\ Fault
  /\ req' = [req EXCEPT ![r] = "hung"]
  /\ UNCHANGED << saved, process, guard, lock, at, early, starts, kills >>

\* Mutant: the store's mutex is not unlocked by a defer.
PanicLocked(r) ==
  /\ InFlight(r) /\ Fault
  /\ \E part \in SUBSET {r} :
       store' = [store EXCEPT ![at[r]] =
                   IF req[r] = "locked" THEN @ \cup part ELSE @]
  /\ guard' = [guard EXCEPT ![at[r]] = IF @ = r THEN NoReq ELSE @]
  /\ UNCHANGED lock
  /\ req' = [req EXCEPT ![r] = "refused"]
  /\ UNCHANGED << saved, phase, told, conf, port, cancelled, why, at, early,
                  starts, kills >>

\* The handler panics, with a mutex or without: the deferred unlock runs, the
\* middleware recovers, and the answer is an error.  What it was changing may
\* be changed or not.
Panic(r) ==
  /\ InFlight(r) /\ Fault
  /\ \E part \in SUBSET {r} :
       store' = [store EXCEPT ![at[r]] =
                   IF req[r] = "locked" THEN @ \cup part ELSE @]
  /\ guard' = [guard EXCEPT ![at[r]] = IF @ = r THEN NoReq ELSE @]
  /\ lock' = [lock EXCEPT ![at[r]] = IF @ = r THEN NoReq ELSE @]
  /\ req' = [req EXCEPT ![r] = "refused"]
  /\ UNCHANGED << saved, phase, told, conf, port, cancelled, why, at, early,
                  starts, kills >>

\* The tool call is answered.
Answer(r) ==
  /\ req[r] = "done"
  /\ req' = [req EXCEPT ![r] = "answered"]
  /\ early' = IF phase[at[r]] \in {"serving", "draining"} THEN early \cup {r}
              ELSE early
  /\ UNCHANGED << saved, process, guard, lock, at, starts, faults, kills >>
-----------------------------------------------------------------------------
\* SIGINT or SIGTERM.  It ends a process that has not called NotifyContext yet;
\* afterwards it cancels the context, and every further one is swallowed until
\* stop(), which main defers before the Persist and so runs after it.
Signal(p) ==
  \/ /\ phase[p] = "building"
     /\ why' = [why EXCEPT ![p] = "killed"]
     /\ Gone(p)
     /\ UNCHANGED << saved, starts, faults, kills >>
  \/ /\ phase[p] \in {"starting", "serving", "draining", "closing"}
     /\ ~cancelled[p]
     /\ cancelled' = [cancelled EXCEPT ![p] = TRUE]
     /\ UNCHANGED << saved, phase, told, conf, port, why, store, requests,
                     starts, faults, kills >>

\* Mutant: the context is waited for where the server answers: an http server
\* with a call in flight does not look.
SeeSignalWhenIdle(p) ==
  /\ phase[p] = "serving" /\ cancelled[p] /\ Idle(p)
  /\ why' = [why EXCEPT ![p] = "stopped"]
  /\ Goto(p, IF conf[p]["transport"] = "http" THEN "draining" ELSE "closing")
  /\ port' = [port EXCEPT ![p] = NoPort]
  /\ UNCHANGED << saved, told, conf, cancelled, store, requests, starts,
                  faults, kills >>

\* The serve call sees its context done: over stdio it returns, at once or when
\* its handlers have, over http it closes the listener and shuts down.
SeeSignal(p) ==
  /\ phase[p] = "serving" /\ cancelled[p]
  /\ why' = [why EXCEPT ![p] = "stopped"]
  /\ Goto(p, IF conf[p]["transport"] = "http" THEN "draining" ELSE "closing")
  /\ port' = [port EXCEPT ![p] = NoPort]
  /\ UNCHANGED << saved, told, conf, cancelled, store, requests, starts,
                  faults, kills >>

\* Shutdown returns: its connections are idle or its five seconds are over.
Drained(p) ==
  /\ phase[p] = "draining"
  /\ Goto(p, "closing")
  /\ UNCHANGED << saved, told, conf, port, cancelled, why, store, requests,
                  starts, faults, kills >>

\* The client of a stdio server closes its input, and the serve call returns.
InputEnds(p) ==
  /\ phase[p] = "serving" /\ conf[p]["transport"] # "http"
  /\ why' = [why EXCEPT ![p] = "stopped"]
  /\ Goto(p, "closing")
  /\ UNCHANGED << saved, told, conf, port, cancelled, store, requests, starts,
                  faults, kills >>

\* Mutant: Persist is given the context of the serve call.
PersistUnlessCancelled(p) ==
  /\ phase[p] = "closing" /\ lock[p] = NoReq
  /\ saved' = IF cancelled[p] THEN saved ELSE store[p]
  /\ Goto(p, "persisted")
  /\ UNCHANGED << told, conf, port, cancelled, why, store, requests, starts,
                  faults, kills >>

\* The deferred Persist, however the serve call ended: it waits for the mutex
\* and replaces the index file by the store.
Persist(p) ==
  /\ phase[p] = "closing" /\ lock[p] = NoReq
  /\ saved' = store[p]
  /\ Goto(p, "persisted")
  /\ UNCHANGED << told, conf, port, cancelled, why, store, requests, starts,
                  faults, kills >>

\* A Persist that fails is logged and the process exits.
PersistFails(p) ==
  /\ phase[p] = "closing" /\ lock[p] = NoReq /\ Fault
  /\ Goto(p, "unsaved")
  /\ UNCHANGED << saved, told, conf, port, cancelled, why, store, requests,
                  starts, kills >>

\* main returns; handlers still at work end with it.
Exit(p) ==
  /\ phase[p] \in {"persisted", "unsaved"}
  /\ Gone(p)
  /\ UNCHANGED << saved, why, starts, faults, kills >>

Kill(p) ==
  /\ Live(p) /\ kills < MaxKills /\ kills' = kills + 1
  /\ why' = [why EXCEPT ![p] = "killed"]
  /\ Gone(p)
  /\ UNCHANGED << saved, starts, faults >>

Handle(r) == Enter(r) \/ Find(r) \/ Lock(r) \/ Apply(r) \/ Answer(r)
Serve(p) == ServeStdio(p) \/ ServeHTTP(p) \/ ServeFails(p)
Close(p) == Drained(p) \/ Persist(p) \/ PersistFails(p) \/ Exit(p)

Next ==
  \/ \E p \in Procs :
       \/ Start(p) \/ Build(p) \/ BuildFails(p) \/ Serve(p) \/ ListenerFails(p)
       \/ Signal(p) \/ SeeSignal(p) \/ InputEnds(p) \/ Close(p) \/ Kill(p)
       \/ \E r \in Reqs : Receive(p, r)
  \/ \E r \in Reqs : Handle(r) \/ Hang(r) \/ Panic(r)

Spec == Init /\ [][Next]_vars

\* What nothing can keep the main goroutine from: ServeHTTP selects on its context
\* and bounds its shutdown by five seconds, whatever the handlers do; Listen, which
\* serves stdio, need not return before they have.
SeeSignalSurely(p) == SeeSignal(p) /\ (conf[p]["transport"] = "http" \/ Idle(p))

\* A process that is not blocked goes on: its main goroutine, and each handler
\* goroutine.  Nothing makes a client call, a user signal or a call fail.
FairSpec ==
  /\ Spec
  /\ \A p \in Procs : /\ WF_vars(Build(p) \/ BuildFails(p))
                      /\ WF_vars(Serve(p))
                      /\ WF_vars(SeeSignalSurely(p) \/ Close(p))
  /\ \A r \in Reqs : WF_vars(Handle(r))
-----------------------------------------------------------------------------
Phases == {"off", "building", "starting", "serving", "draining", "closing",
           "persisted", "unsaved", "exited"}

TypeOK ==
  /\ saved \subseteq Reqs
  /\ phase \in [Procs -> Phases]
  /\ told \in [Procs -> Settings \cup {Invalid}]
  /\ \A p \in Procs : conf[p] = Invalid \/ \A k \in Keys : conf[p][k] \in STRING
  /\ \A p \in Procs : port[p] = NoPort \/ port[p] = conf[p]["port"]
  /\ cancelled \in [Procs -> BOOLEAN]
  /\ why \in [Procs -> {"none", "stopped", "error", "killed"}]
  /\ store \in [Procs -> SUBSET Reqs]
  /\ guard \in [Procs -> Reqs \cup {NoReq}]
  /\ lock \in [Procs -> Reqs \cup {NoReq}]
  /\ req \in [Reqs -> {"none", "running", "inside", "found", "locked", "done",
                       "hung", "answered", "refused", "lost"}]
  /\ at \in [Reqs -> Procs \cup {NoProc}]
  /\ early \subseteq Reqs
  /\ starts \in 0 .. MaxStarts /\ faults \in 0 .. MaxFaults
  /\ kills \in 0 .. MaxKills

\* The configuration in force is the one the user gave: every key is decided by
\* the nearest source that gives it, and a process that serves http serves it on
\* that port and, whatever address it was given, on a loopback address: "Non-
\* loopback bind addresses are rejected at startup" (server.go:45, with
\* config.go:52-76 and main.go:83-96).
ServesAsTold ==
  \A p \in Procs : phase[p] = "serving" =>
    LET http == Nearest(told[p], "transport") = "http" IN
    /\ \A k \in Keys : conf[p][k] = Nearest(told[p], k)
    /\ port[p] = IF http THEN Nearest(told[p], "port") ELSE NoPort
    /\ http => HostOf[Nearest(told[p], "bind")] \in Loopback

\* A process that nothing fails and whose port is free does not stop with an error
\* for the address it was given: "bin/tahu serve --transport http --port 8080
\* --bind 0.0.0.0" (user-docs/configuration.md:86, and cli-reference.md:51).
BindIsServed ==
  \A p \in Procs :
    phase[p] = "closing" /\ why[p] = "error" => faults > 0 \/ Taken(p)

\* A loopback address is served unless listening fails: "use 127.0.0.1 or ::1"
\* (the message of validateBindAddr, server.go:114).
LoopbackIsServed ==
  \A p \in Procs :
    phase[p] = "closing" /\ why[p] = "error" /\ faults = 0 /\ ~Taken(p) =>
      conf[p]["bind"] \notin Loopback

\* What a tool call was told is done while the server was there to tell it is in
\* the index file when the process has persisted, whichever way it stopped:
\* "Persist the vector index on clean shutdown" (main.go:109).
AnsweredIsKept ==
  \A p \in Procs : phase[p] = "persisted" =>
    { r \in early : at[r] = p } \subseteq saved

\* No process takes out of the index file what an earlier one put there: none
\* persists a store that it has not loaded first.
IndexNeverShrinks == [][saved \subseteq saved']_vars

\* A process that a signal reaches exits, whatever panics or fails on the way:
\* over http with calls that hang (the five seconds of server.go:90), over stdio
\* if none does.
ExitsWhenTold ==
  \A p \in Procs : cancelled[p] ~>
    \/ phase[p] = "exited"
    \/ /\ phase[p] = "serving" /\ conf[p]["transport"] # "http"
       /\ \E r \in Reqs : at[r] = p /\ req[r] = "hung"

\* A call that does not hang is answered, unless its process ends first or a call
\* that hangs keeps the mutex it needs; a call that panics keeps no other from its
\* answer, whatever mutex it holds: "recovers from tool handler panics so the
\* daemon stays alive" (server.go:135-136).
RequestsEnd ==
  \A r \in Reqs : req[r] = "running" ~>
    \/ req[r] \in {"answered", "refused", "hung", "lost"}
    \/ /\ req[r] = "running"
       /\ \E h \in Reqs : req[h] = "hung" /\ at[h] = at[r] /\ guard[at[h]] = h
=============================================================================
