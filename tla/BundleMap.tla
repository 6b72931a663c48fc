----------------------------- MODULE BundleMap -----------------------------
(***************************************************************************)
(* What the bundle repository promises its callers, with no file, no lock  *)
(* and no process in sight: a registry on which every call takes effect at *)
(* one instant between its start and its return, or fails and changes      *)
(* nothing.  YamlRegistry implements it.                                   *)
(***************************************************************************)
EXTENDS Registry

CONSTANT Threads    \* the goroutines that call the repository

VARIABLES reg,      \* the registry
          req,      \* the call each thread has in progress
          ans       \* its answer, once the call has taken effect

mapvars == << reg, req, ans >>

MapInit ==
  /\ reg = << >>
  /\ req = [t \in Threads |-> NoOp]
  /\ ans = [t \in Threads |-> NoAnswer]

Call(t) ==
  /\ req[t] = NoOp
  /\ \E o \in Ops : req' = [req EXCEPT ![t] = o]
  /\ UNCHANGED << reg, ans >>

\* The call takes effect, all of it, and its answer is fixed.
TakeEffect(t) ==
  /\ req[t] # NoOp /\ ans[t] = NoAnswer
  /\ reg' = Effect(reg, req[t])
  /\ ans' = [ans EXCEPT ![t] = Answer(reg, req[t])]
  /\ UNCHANGED req

\* The call fails without a trace.
FailCleanly(t) ==
  /\ req[t] # NoOp /\ ans[t] = NoAnswer
  /\ ans' = [ans EXCEPT ![t] = Failure]
  /\ UNCHANGED << reg, req >>

Return(t) ==
  /\ ans[t] # NoAnswer
  /\ req' = [req EXCEPT ![t] = NoOp]
  /\ ans' = [ans EXCEPT ![t] = NoAnswer]
  /\ UNCHANGED reg

\* The threads of a process that dies never return; what took effect stays.
Vanish(T) ==
  /\ req' = [t \in Threads |-> IF t \in T THEN NoOp ELSE req[t]]
  /\ ans' = [t \in Threads |-> IF t \in T THEN NoAnswer ELSE ans[t]]
  /\ UNCHANGED reg

MapNext ==
  \/ \E t \in Threads : Call(t) \/ TakeEffect(t) \/ FailCleanly(t) \/ Return(t)
  \/ \E T \in SUBSET Threads : Vanish(T)

MapSpec == MapInit /\ [][MapNext]_mapvars
=============================================================================
