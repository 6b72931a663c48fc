---------------------------- MODULE DaemonProofs ----------------------------
(***************************************************************************)
(* Proofs about Daemon.  Where one process at a time serves the index      *)
(* file, the file never loses a change, and holds what was answered when   *)
(* the process has persisted: the invariant follows a change from the      *)
(* handler that made it, through the store, to the file, and from the file *)
(* into the store of the next process.  And whatever settings a process is *)
(* started with, it serves what the nearest source of each says.           *)
(***************************************************************************)
EXTENDS Daemon, TLAPS

\* At most one process uses the index file.
Alone == \A p, q \in Procs : p = q

\* From the Load to the Persist, and while handlers may run.
Holding == {"starting", "serving", "draining", "closing"}
Serving == {"serving", "draining", "closing", "persisted", "unsaved"}
ReqStates == {"none", "running", "inside", "found", "locked", "done", "hung",
              "answered", "refused", "lost"}

Typed ==
  /\ saved \subseteq Reqs
  /\ phase \in [Procs -> Phases]
  /\ store \in [Procs -> SUBSET Reqs]
  /\ req \in [Reqs -> ReqStates]
  /\ at \in [Reqs -> Procs \cup {NoProc}]
  /\ early \subseteq Reqs

\* A request in flight is at a process that has loaded and not exited.
Placed ==
  \A r \in Reqs : InFlight(r) \/ req[r] = "hung" =>
    at[r] \in Procs /\ phase[at[r]] \in Serving

\* The store holds the index file it was loaded from, ...
Loaded == \A p \in Procs : phase[p] \in Holding => saved \subseteq store[p]

\* ... what its handlers have done, ...
DoneStored == \A r \in Reqs : req[r] = "done" => r \in store[at[r]]

\* ... and what was answered is in the store, or already in the file.
EarlyKept ==
  \A r \in early :
    /\ req[r] = "answered" /\ at[r] \in Procs
    /\ phase[at[r]] \in Holding => r \in store[at[r]]
    /\ phase[at[r]] \notin Holding \cup {"unsaved"} => r \in saved

IInv == Typed /\ Placed /\ Loaded /\ DoneStored /\ EarlyKept

LEMMA InvInit == Init => IInv
  BY DEF Init, IInv, Typed, Placed, Loaded, DoneStored, EarlyKept, InFlight, Phases,
         ReqStates, Holding

\* The end of a process keeps the invariant, if the file is left alone.
LEMMA GoneKeeps ==
  ASSUME IInv, NEW p \in Procs, Gone(p), UNCHANGED saved
  PROVE  IInv'
<1> USE DEF IInv
<1>1. Typed'
  BY DEF Typed, Gone, Goto, Phases, ReqStates, InFlight
<1>2. /\ phase' = [phase EXCEPT ![p] = "exited"] /\ at' = at
      /\ store' = [store EXCEPT ![p] = {}]
      /\ early' = { r \in early : at[r] = p => r \in saved }
      /\ \A r \in Reqs : req'[r] =
           IF at[r] = p /\ (InFlight(r) \/ req[r] = "hung") THEN "lost" ELSE req[r]
  BY DEF Gone, Goto
<1>3. Placed'
  BY <1>2 DEF Placed, InFlight, Typed, Serving
<1>4. Loaded'
  BY <1>2 DEF Loaded, Typed, Holding
<1>5. DoneStored'
  BY <1>2 DEF DoneStored, Placed, InFlight, Typed
<1>6. EarlyKept'
  BY <1>2 DEF EarlyKept, Typed, Holding, InFlight
<1> QED
  BY <1>1, <1>3, <1>4, <1>5, <1>6

\* A step of the main goroutine that leaves the store and the requests alone.
Moves(p, from, to) ==
  /\ phase[p] = from
  /\ phase' = [phase EXCEPT ![p] = to]
  /\ UNCHANGED << saved, store, requests >>

LEMMA MovesKeep ==
  ASSUME IInv, NEW p \in Procs, NEW from \in Phases, NEW to \in Phases, Moves(p, from, to),
         \/ from \in {"off", "exited"} /\ to \in {"building", "exited"}
         \/ from \in Holding /\ to \in Holding /\ (from \in Serving => to \in Serving)
         \/ from = "closing" /\ to = "unsaved"
  PROVE  IInv'
<1> USE DEF IInv, Moves, requests
<1>1. Typed'
  BY DEF Typed
<1>2. Placed'
  BY DEF Placed, Typed, InFlight, Serving, Holding
<1>3. Loaded' /\ DoneStored'
  BY DEF Loaded, DoneStored, Typed, Holding
<1>4. EarlyKept'
  BY DEF EarlyKept, Typed, Holding
<1> QED
  BY <1>1, <1>2, <1>3, <1>4

\* A step of a handler.
Handler(r) ==
  \/ \E p \in Procs : Receive(p, r)
  \/ Handle(r) \/ Hang(r) \/ Panic(r)

LEMMA HandlerKeeps ==
  ASSUME IInv, NEW r \in Reqs, Handler(r)
  PROVE  IInv'
<1> USE DEF IInv, process
<1>1. saved' = saved /\ phase' = phase
  BY DEF Handler, Receive, Handle, Enter, Find, Lock, Apply, Answer, Hang, Panic
<1>2. ASSUME NEW p \in Procs, Receive(p, r) PROVE IInv'
  <2>1. r \notin early /\ phase[p] = "serving"
    BY <1>2 DEF Receive, EarlyKept
  <2> QED
    BY <1>1, <1>2, <2>1 DEF Receive, Typed, Placed, Loaded, DoneStored, EarlyKept,
       InFlight, ReqStates, Serving
<1>3. CASE Enter(r) \/ Find(r) \/ Lock(r) \/ Hang(r)
  <2>1. /\ InFlight(r) /\ UNCHANGED << store, at, early >>
        /\ \E state \in {"inside", "found", "locked", "hung"} :
             req' = [req EXCEPT ![r] = state]
    BY <1>3 DEF Enter, Find, Lock, Hang, InFlight
  <2> QED
    BY <1>1, <2>1 DEF Typed, Placed, Loaded, DoneStored, EarlyKept, InFlight, ReqStates
<1>4. CASE Apply(r)
  <2>1. at[r] \in Procs
    BY <1>4 DEF Apply, Placed, InFlight
  <2>2. /\ req[r] = "locked" /\ req' = [req EXCEPT ![r] = "done"]
        /\ store' = [store EXCEPT ![at[r]] = @ \cup {r}] /\ UNCHANGED << at, early >>
    BY <1>4 DEF Apply
  <2> QED
    BY <1>1, <2>1, <2>2 DEF Typed, Placed, Loaded, DoneStored, EarlyKept, InFlight,
       ReqStates
<1>5. CASE Panic(r)
  <2>1. at[r] \in Procs /\ InFlight(r)
    BY <1>5 DEF Panic, Placed
  <2>2. /\ req' = [req EXCEPT ![r] = "refused"] /\ UNCHANGED << at, early >>
    BY <1>5 DEF Panic
  <2>3. \E part \in SUBSET {r} :
          store' = [store EXCEPT ![at[r]] = IF req[r] = "locked" THEN @ \cup part ELSE @]
    BY <1>5, Zenon DEF Panic
  <2>4. store' \in [Procs -> SUBSET Reqs] /\ \A p \in Procs : store[p] \subseteq store'[p]
    BY <2>1, <2>3 DEF Typed
  <2> QED
    BY <1>1, <2>1, <2>2, <2>4 DEF Typed, Placed, Loaded, DoneStored, EarlyKept, InFlight,
       ReqStates
<1>6. CASE Answer(r)
  <2>1. at[r] \in Procs /\ r \in store[at[r]]
    BY <1>6 DEF Answer, Placed, InFlight, DoneStored
  <2>2. /\ req[r] = "done" /\ req' = [req EXCEPT ![r] = "answered"]
        /\ UNCHANGED << store, at >>
        /\ early' \in {early, early \cup {r}}
        /\ early' # early => phase[at[r]] \in Holding
    BY <1>6 DEF Answer, Holding
  <2> QED
    BY <1>1, <2>1, <2>2 DEF Typed, Placed, Loaded, DoneStored, EarlyKept, InFlight,
       ReqStates
<1> QED
  BY <1>2, <1>3, <1>4, <1>5, <1>6 DEF Handler, Handle

\* The Persist of the only process carries what was answered into the file.
LEMMA PersistKeeps ==
  ASSUME Alone, IInv, NEW p \in Procs, Persist(p)
  PROVE  IInv' /\ saved \subseteq saved'
<1> USE DEF IInv, requests
<1>1. /\ phase[p] = "closing" /\ phase' = [phase EXCEPT ![p] = "persisted"]
      /\ saved' = store[p] /\ UNCHANGED << store, req, at, early >>
  BY DEF Persist, Goto
<1>2. saved \subseteq saved'
  BY <1>1 DEF Loaded, Holding
<1>3. Typed' /\ Placed' /\ DoneStored'
  BY <1>1 DEF Typed, Placed, DoneStored, InFlight, Serving, Phases
<1>4. \A q \in Procs : phase'[q] = "persisted"
  BY <1>1 DEF Alone, Typed
<1>5. Loaded'
  BY <1>4 DEF Loaded, Holding
<1>6. EarlyKept'
  <2> SUFFICES ASSUME NEW r \in early
               PROVE  req[r] = "answered" /\ at[r] \in Procs /\ r \in saved'
    BY <1>1, <1>4 DEF EarlyKept, Holding
  <2>1. at[r] \in Procs /\ req[r] = "answered"
    BY DEF EarlyKept
  <2>2. at[r] = p
    BY <2>1 DEF Alone
  <2> QED
    BY <1>1, <2>1, <2>2 DEF EarlyKept, Holding
<1> QED
  BY <1>2, <1>3, <1>5, <1>6

\* Every step keeps the invariant, and only a Persist writes the index file.
LEMMA InvNext ==
  ASSUME Alone, IInv, [Next]_vars
  PROVE  IInv' /\ saved \subseteq saved'
<1>1. ASSUME NEW p \in Procs, Start(p) PROVE IInv' /\ saved' = saved
  <2>1. phase[p] \in {"off", "exited"}
    BY <1>1 DEF Start, Live
  <2>2. Moves(p, phase[p], "building") \/ Moves(p, phase[p], "exited")
    BY <1>1 DEF Start, Goto, Moves
  <2> QED
    BY <2>1, <2>2, MovesKeep DEF Phases, Moves
<1>2. ASSUME NEW p \in Procs, Build(p) PROVE IInv' /\ saved' = saved
  <2>1. /\ phase[p] = "building" /\ phase' = [phase EXCEPT ![p] = "starting"]
        /\ store' = [store EXCEPT ![p] = saved]
        /\ UNCHANGED << saved, req, at, early >>
    BY <1>2 DEF Build, Goto, requests
  <2>2. \A r \in Reqs : InFlight(r) => at[r] # p
    BY <2>1 DEF IInv, Placed, Serving
  <2> QED
    BY <2>1, <2>2 DEF IInv, Typed, Placed, Loaded, DoneStored, EarlyKept, InFlight,
       Phases, Holding, Serving
<1>3. ASSUME NEW p \in Procs, BuildFails(p) \/ Exit(p) \/ Kill(p)
      PROVE  IInv' /\ saved' = saved
  BY <1>3, GoneKeeps DEF BuildFails, Exit, Kill
<1>4. ASSUME NEW p \in Procs,
             \/ Serve(p) \/ ListenerFails(p) \/ SeeSignal(p) \/ InputEnds(p)
             \/ Drained(p) \/ PersistFails(p)
      PROVE  IInv' /\ saved' = saved
  <2>1. \/ \E to \in {"serving", "closing"} : Moves(p, "starting", to)
        \/ \E to \in {"draining", "closing"} : Moves(p, "serving", to)
        \/ Moves(p, "draining", "closing")
        \/ Moves(p, "closing", "unsaved")
    BY <1>4 DEF Serve, ServeStdio, ServeHTTP, ServeFails, ListenerFails, SeeSignal,
       Drained, InputEnds, PersistFails, Goto, Moves
  <2> QED
    BY <2>1, MovesKeep DEF Phases, Holding, Serving, Moves
<1>5. ASSUME NEW p \in Procs, Signal(p) PROVE IInv' /\ saved' = saved
  <2>1. CASE Gone(p) /\ UNCHANGED saved
    BY <2>1, GoneKeeps
  <2>2. CASE UNCHANGED << saved, phase, store, requests >>
    BY <2>2 DEF requests, IInv, Typed, Placed, Loaded, DoneStored, EarlyKept, InFlight
  <2> QED
    BY <1>5, <2>1, <2>2 DEF Signal
<1>6. ASSUME NEW r \in Reqs, Handler(r) PROVE IInv' /\ saved' = saved
  BY <1>6, HandlerKeeps
     DEF Handler, Receive, Handle, Enter, Find, Lock, Apply, Answer, Hang, Panic
<1>7. CASE UNCHANGED vars
  BY <1>7 DEF vars, process, requests, IInv, Typed, Placed, Loaded, DoneStored, EarlyKept,
     InFlight
<1> QED
  BY <1>1, <1>2, <1>3, <1>4, <1>5, <1>6, <1>7, PersistKeeps DEF Next, Close, Handler
-----------------------------------------------------------------------------
\* What was answered while the server was there is in the index file whenever
\* the only process has persisted (main.go:106-111).
THEOREM AnsweredStaysKept == Alone => (Spec => []AnsweredIsKept)
<1> SUFFICES ASSUME Alone PROVE Spec => []AnsweredIsKept
  OBVIOUS
<1>1. IInv /\ [Next]_vars => IInv'
  BY InvNext
<1>2. IInv => AnsweredIsKept
  BY DEF IInv, EarlyKept, AnsweredIsKept, Holding
<1> QED
  BY InvInit, <1>1, <1>2, PTL DEF Spec

\* The index file loses no change, however processes start, fail, are told to
\* stop or are killed, one after the other.
THEOREM IndexOnlyGrows == Alone => (Spec => IndexNeverShrinks)
<1> SUFFICES ASSUME Alone PROVE Spec => IndexNeverShrinks
  OBVIOUS
<1>1. IInv /\ [Next]_vars => IInv'
  BY InvNext
<1>2. IInv /\ [Next]_vars => [saved \subseteq saved']_vars
  BY InvNext
<1> QED
  BY InvInit, <1>1, <1>2, PTL DEF Spec, IndexNeverShrinks
-----------------------------------------------------------------------------
\* The order of the sources: whatever the file, the environment and the command
\* line give, a configuration that loads has each key from the nearest of them.
LEMMA ServedIsNearest ==
  ASSUME NEW s, Served(s) # Invalid, NEW k \in Keys
  PROVE  Served(s)[k] = Nearest(s, k)
<1> DEFINE file == FromFile(s.file)
           env == EnvKeys \ (IF s.env["port"] \in NotNumbers THEN {"port"} ELSE {})
           cfg == Over(file, s.env, env)
<1>1. Served(s) = Over(cfg, s.flags, FlagKeys)
  BY DEF Served, LoadFromPath, applyEnv
<1>2. file[k] = IF s.file[k] # Unset THEN s.file[k] ELSE Default[k]
  BY DEF FromFile, Over
<1>3. cfg[k] = IF k \in env /\ s.env[k] # Unset THEN s.env[k] ELSE file[k]
  BY DEF Over
<1>4. Served(s)[k] = IF k \in FlagKeys /\ s.flags[k] # Unset THEN s.flags[k] ELSE cfg[k]
  BY <1>1 DEF Over
<1>5. k \in env <=> k \in EnvKeys /\ ~ (k = "port" /\ s.env[k] \in NotNumbers)
  OBVIOUS
<1> HIDE DEF file, env, cfg
<1> QED
  BY <1>2, <1>3, <1>4, <1>5 DEF Nearest

\* A process that has not begun to serve has no port, ...
Portless == {"off", "exited", "building", "starting"}

\* ... from its start it keeps the configuration it made of what it was told, and
\* while it serves it has the port and the address of that configuration.
Told(p) ==
  /\ phase[p] \in Portless => port[p] = NoPort
  /\ Live(p) => /\ conf[p] = Served(told[p])
                /\ Served(told[p]) # Invalid
  /\ phase[p] = "serving" =>
       IF conf[p]["transport"] = "http"
       THEN port[p] = conf[p]["port"] /\ validateBindAddr(conf[p]["bind"])
       ELSE port[p] = NoPort

Framed ==
  /\ phase \in [Procs -> Phases]
  /\ told = [p \in Procs |-> told[p]]
  /\ conf = [p \in Procs |-> conf[p]]
  /\ port = [p \in Procs |-> port[p]]

AllTold == Framed /\ \A p \in Procs : Told(p)

LEMMA AllToldInit == Init => AllTold
  BY DEF Init, AllTold, Framed, Told, Phases, Portless, Live

\* The end of a process leaves nothing of what it was told.
LEMMA GoneForgets ==
  ASSUME AllTold, NEW p \in Procs, Gone(p)
  PROVE  AllTold'
<1>1. /\ phase' = [phase EXCEPT ![p] = "exited"] /\ told' = [told EXCEPT ![p] = Invalid]
      /\ conf' = [conf EXCEPT ![p] = Invalid] /\ port' = [port EXCEPT ![p] = NoPort]
  BY DEF Gone, Goto
<1>2. Framed'
  BY <1>1 DEF AllTold, Framed, Phases
<1>3. ASSUME NEW q \in Procs PROVE Told(q)'
  BY <1>1 DEF AllTold, Framed, Told, Live
<1> QED
  BY <1>2, <1>3 DEF AllTold

LEMMA AllToldNext ==
  ASSUME AllTold, [Next]_vars
  PROVE  AllTold'
<1>1. ASSUME NEW p \in Procs, Start(p) PROVE AllTold'
  <2>1. PICK s \in Settings :
          IF Served(s) = Invalid
          THEN Goto(p, "exited") /\ UNCHANGED << told, conf >>
          ELSE /\ Goto(p, "building")
               /\ told' = [told EXCEPT ![p] = s]
               /\ conf' = [conf EXCEPT ![p] = Served(s)]
    BY <1>1 DEF Start
  <2>2. port' = port /\ phase[p] \in {"off", "exited"}
    BY <1>1 DEF Start, Live
  <2>3. Framed'
    BY <2>1, <2>2 DEF AllTold, Framed, Goto, Phases
  <2>4. ASSUME NEW q \in Procs PROVE Told(q)'
    <3>1. CASE Served(s) = Invalid
      BY <2>1, <2>2, <3>1 DEF AllTold, Framed, Told, Live, Goto, Portless
    <3>2. CASE Served(s) # Invalid /\ q = p
      <4>1. told'[q] = s /\ conf'[q] = Served(s) /\ phase'[q] = "building"
            /\ port'[q] = NoPort
        BY <2>1, <2>2, <3>2 DEF AllTold, Framed, Told, Goto, Portless
      <4> QED
        BY <3>2, <4>1 DEF Told
    <3>3. CASE Served(s) # Invalid /\ q # p
      <4>1. told'[q] = told[q] /\ conf'[q] = conf[q] /\ phase'[q] = phase[q]
            /\ port'[q] = port[q]
        BY <2>1, <2>2, <3>3 DEF AllTold, Framed, Goto
      <4> QED
        BY <4>1 DEF AllTold, Told, Live
    <3> QED
      BY <3>1, <3>2, <3>3
  <2> QED
    BY <2>3, <2>4 DEF AllTold
<1>2. ASSUME NEW p \in Procs, Gone(p) PROVE AllTold'
  BY <1>2, GoneForgets
<1>3. ASSUME NEW p \in Procs, ServeStdio(p) \/ ServeHTTP(p) PROVE AllTold'
  <2>1. /\ phase[p] = "starting" /\ phase' = [phase EXCEPT ![p] = "serving"]
        /\ told' = told /\ conf' = conf
        /\ \/ conf[p]["transport"] # "http" /\ port' = port
           \/ /\ conf[p]["transport"] = "http" /\ validateBindAddr(conf[p]["bind"])
              /\ port' = [port EXCEPT ![p] = conf[p]["port"]]
    BY <1>3 DEF ServeStdio, ServeHTTP, Goto
  <2>2. Framed'
    BY <2>1 DEF AllTold, Framed, Phases
  <2>3. ASSUME NEW q \in Procs PROVE Told(q)'
    BY <2>1 DEF AllTold, Framed, Told, Live, Portless, validateBindAddr
  <2> QED
    BY <2>2, <2>3 DEF AllTold
\* Every other step of a process takes it further from serving, ...
<1>4. ASSUME NEW p \in Procs,
             \/ Build(p) \/ ServeFails(p) \/ ListenerFails(p) \/ SeeSignal(p)
             \/ InputEnds(p) \/ Drained(p) \/ Persist(p) \/ PersistFails(p)
      PROVE  AllTold'
  <2>1. /\ Live(p) /\ told' = told /\ conf' = conf
        /\ \/ phase[p] = "building" /\ phase' = [phase EXCEPT ![p] = "starting"] /\ port' = port
           \/ /\ \E to \in Phases \ (Portless \cup {"serving"}) :
                   phase' = [phase EXCEPT ![p] = to]
              /\ port' = port \/ port' = [port EXCEPT ![p] = NoPort]
    BY <1>4 DEF Build, ServeFails, ListenerFails, SeeSignal, Drained, InputEnds, Persist,
       PersistFails, Goto, Live, Phases, Portless
  <2>2. Framed'
    BY <2>1 DEF AllTold, Framed, Phases
  <2>3. ASSUME NEW q \in Procs PROVE Told(q)'
    BY <2>1 DEF AllTold, Framed, Told, Live, Portless, validateBindAddr
  <2> QED
    BY <2>2, <2>3 DEF AllTold
\* ... and the requests leave it alone.
<1>5. CASE UNCHANGED << phase, told, conf, port >>
  BY <1>5 DEF AllTold, Framed, Told, Live, validateBindAddr
<1>6. \/ \E p \in Procs : Start(p) \/ Gone(p) \/ ServeStdio(p) \/ ServeHTTP(p)
      \/ \E p \in Procs :
           \/ Build(p) \/ ServeFails(p) \/ ListenerFails(p) \/ SeeSignal(p)
           \/ InputEnds(p) \/ Drained(p) \/ Persist(p) \/ PersistFails(p)
      \/ UNCHANGED << phase, told, conf, port >>
  BY DEF Next, BuildFails, Serve, Signal, Close, Exit, Kill, Receive, Handle, Enter, Find,
     Lock, Apply, Answer, Hang, Panic, vars, process
<1> QED
  BY <1>1, <1>2, <1>3, <1>4, <1>5, <1>6

\* Whatever sources it is started with and however it comes to serve, a process
\* serves what they give: each key from the nearest source, over http on that
\* port and on a loopback address only (config.go:52-76, main.go:83-96,
\* server.go:100-115).
THEOREM ServedAsTold == Spec => []ServesAsTold
<1>1. AllTold => ServesAsTold
  <2> SUFFICES ASSUME NEW p \in Procs, Told(p), phase[p] = "serving"
               PROVE  LET http == Nearest(told[p], "transport") = "http" IN
                        /\ \A k \in Keys : conf[p][k] = Nearest(told[p], k)
                        /\ port[p] = IF http THEN Nearest(told[p], "port") ELSE NoPort
                        /\ http => HostOf[Nearest(told[p], "bind")] \in Loopback
    BY DEF AllTold, ServesAsTold
  <2>1. \A k \in Keys : conf[p][k] = Nearest(told[p], k)
    BY ServedIsNearest DEF Told, Live
  <2>2. {"transport", "port", "bind"} \subseteq Keys
    BY DEF Keys
  <2> QED
    BY <2>1, <2>2 DEF Told, validateBindAddr
<1>2. AllTold /\ [Next]_vars => AllTold'
  BY AllToldNext
<1> QED
  BY AllToldInit, <1>1, <1>2, PTL DEF Spec
=============================================================================
