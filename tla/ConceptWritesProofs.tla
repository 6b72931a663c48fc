------------------------- MODULE ConceptWritesProofs -------------------------
(***************************************************************************)
(* Proofs about ConceptWrites: its types, that a write past LockBundle     *)
(* holds the mutex of its bundle, and, where one process and one alias     *)
(* lead to each root, that an undisturbed index.md is right, and, if no    *)
(* log is cut short, that an acknowledged write stays in the log and the   *)
(* write path implements the append-only Ledger.                           *)
(***************************************************************************)
EXTENDS ConceptWrites, TLAPS

\* How the request of a goroutine goes with its place in the code.
Resolved == Pcs \ {"idle", "lock", "put"}

CallShape(t) ==
  /\ pc[t] = "idle" <=> req[t] = NoReq
  /\ pc[t] # "idle" => /\ req[t].alias \in Serves[P(t)]
                       /\ req[t].id = << t, calls[t] >>
  /\ pc[t] \in Resolved => R(t) \in Roots

Typed == TypeOK /\ \A t \in Threads : CallShape(t)

\* Which steps change the documents, what is large, what is acknowledged, and the
\* count of faults.
Framed ==
  /\ big' = big \/ \E t \in Threads : Submit(t)
  /\ doc' = doc \/ \E t \in Threads : OpenDoc(t) \/ FillDoc(t)
  /\ acked' = acked \/ \E t \in Threads : Ack(t)
  /\ faults' = faults \/ faults' = faults + 1

LEMMA WhatChanges ==
  ASSUME [Next]_vars
  PROVE  Framed
<1> USE DEF disk, locks, local, history, bounds
<1>1. ASSUME NEW t \in Threads, Submit(t) \/ Reject(t) \/ ReadConcept(t) PROVE Framed
  BY <1>1 DEF Framed, Submit, Reject, ReadConcept, NewCall
<1>2. ASSUME NEW t \in Threads, LockBundle(t) \/ UnknownAlias(t) \/ Ack(t) PROVE Framed
  BY <1>2 DEF Framed, LockBundle, UnknownAlias, Ack
<1>3. ASSUME NEW t \in Threads, IOFails(t) \/ LogTooLarge(t) \/ FillFails(t) PROVE Framed
  BY <1>3 DEF Framed, IOFails, LogTooLarge, FillFails
<1>4. ASSUME NEW t \in Threads, OpenDoc(t) \/ OpenIndex(t) \/ OpenLog(t) PROVE Framed
  BY <1>4 DEF Framed, OpenDoc, OpenIndex, OpenLog, Open
<1>5. ASSUME NEW t \in Threads, FillDoc(t) \/ FillIndex(t) \/ FillLog(t) PROVE Framed
  BY <1>5 DEF Framed, FillDoc, FillIndex, FillLog, Fill
<1>6. ASSUME NEW t \in Threads, ListRefs(t) \/ GetRef(t) \/ GetRefFails(t) \/ ReadLog(t)
      PROVE  Framed
  BY <1>6 DEF Framed, ListRefs, GetRef, GetRefFails, DrawRow, ReadLog
<1>7. ASSUME NEW p \in Procs, Kill(p) PROVE Framed
  BY <1>7 DEF Framed, Kill
<1>8. CASE UNCHANGED vars
  BY <1>8 DEF Framed, vars
<1>9. ASSUME NEW t \in Threads, Write(t) PROVE Framed
  <2>1. CASE LockBundle(t) \/ UnknownAlias(t) \/ Ack(t)
    BY <1>2, <2>1
  <2>2. CASE IOFails(t) \/ LogTooLarge(t) \/ FillFails(t)
    BY <1>3, <2>2
  <2>3. CASE OpenDoc(t) \/ OpenIndex(t) \/ OpenLog(t)
    BY <1>4, <2>3
  <2>4. CASE FillDoc(t) \/ FillIndex(t) \/ FillLog(t)
    BY <1>5, <2>4
  <2>5. CASE ListRefs(t) \/ GetRef(t) \/ GetRefFails(t) \/ ReadLog(t)
    BY <1>6, <2>5
  <2> QED
    BY <1>9, <2>1, <2>2, <2>3, <2>4, <2>5 DEF Write
<1> QED
  BY <1>1, <1>7, <1>8, <1>9 DEF Next

LEMMA TypedInit == ConstantsAssumption /\ Init => Typed
  BY DEF ConstantsAssumption, Init, Typed, TypeOK, CallShape, Docs, Pcs, LockedPcs,
         FillPcs, Outcomes, Resolved

\* What a goroutine in a call has in hand.
LEMMA InCall ==
  ASSUME ConstantsAssumption, Typed, NEW t \in Threads, pc[t] # "idle"
  PROVE  /\ P(t) \in Procs
         /\ req[t] \in Requests
         /\ req[t].alias \in Aliases /\ req[t].path \in Paths /\ req[t].id \in Ids
         /\ D(t) \in Dirs
         /\ R(t) \in Roots \cup {NoRoot}
         /\ req[t] # NoReq
  BY DEF ConstantsAssumption, Typed, TypeOK, CallShape, Requests, P, D, R, NoReq

\* The answer to the caller keeps the types.
LEMMA FinishTyped ==
  ASSUME ConstantsAssumption, Typed, NEW t \in Threads, pc[t] # "idle",
         NEW result \in Outcomes, Finish(t, result), calls' = calls
  PROVE  /\ bundleLock' \in [Procs -> [Aliases -> Threads \cup {Free}]]
         /\ pc' \in [Threads -> Pcs]
         /\ req' \in [Threads -> Requests \cup {NoReq}]
         /\ refs' \in [Threads -> SUBSET Paths]
         /\ rows' \in [Threads -> SUBSET Row]
         /\ old' \in [Threads -> Seq(Ids)]
         /\ out' \in [Threads -> Outcomes]
         /\ \A u \in Threads : CallShape(u)'
<1>1. P(t) \in Procs /\ req[t].alias \in Aliases
  BY InCall
<1>2. pc' \in [Threads -> Pcs] /\ req' \in [Threads -> Requests \cup {NoReq}]
  BY DEF Finish, Goto, Typed, TypeOK, Pcs
<1>3. \A u \in Threads : CallShape(u)'
  BY <1>2 DEF Finish, Goto, Typed, TypeOK, CallShape, Resolved, R, P
<1> QED
  BY <1>1, <1>2, <1>3 DEF Finish, Typed, TypeOK

\* Every step keeps the types.
LEMMA TypedNext ==
  ASSUME ConstantsAssumption, Typed, [Next]_vars
  PROVE  Typed'
<1> USE DEF Typed, TypeOK, disk, locks, local, history, bounds
<1>0. /\ ProcOf \in [Threads -> Procs] /\ DirOf \in [Paths -> Dirs]
      /\ RootOf \in [Aliases -> Roots \cup {NoRoot}]
      /\ \A p \in Procs : Serves[p] \subseteq Aliases
      /\ Listed \subseteq Paths
      /\ MaxCalls \in Nat /\ MaxCrashes \in Nat /\ MaxFaults \in Nat
      /\ {Missing, Blank, Garbled, Old} \cup Ids \subseteq Docs
      /\ NoReq \notin Requests
  BY DEF ConstantsAssumption, Docs, NoReq, Requests
<1>1. ASSUME NEW t \in Threads, Submit(t) PROVE Typed'
  <2>1. PICK a \in Serves[P(t)], p \in Paths :
          req' = [req EXCEPT ![t] = [kind |-> "write", alias |-> a, path |-> p,
                                     id |-> << t, calls[t] + 1 >>]]
    BY <1>1 DEF Submit
  <2>2. P(t) \in Procs /\ << t, calls[t] + 1 >> \in Ids /\ a \in Aliases
    BY <1>0, <1>1 DEF Submit, NewCall, P, Ids
  <2>3. req' \in [Threads -> Requests \cup {NoReq}] /\ req'[t] # NoReq
    BY <2>1, <2>2 DEF Requests, NoReq
  <2>4. big' \subseteq Ids /\ pc' \in [Threads -> Pcs] /\ out' \in [Threads -> Outcomes]
    <3>1. big' = big \/ big' = big \cup {<< t, calls[t] + 1 >>}
      BY <1>1 DEF Submit
    <3>2. big' \subseteq Ids
      BY <2>2, <3>1
    <3>3. pc' \in [Threads -> Pcs]
      BY <1>1 DEF Submit, Goto, Pcs
    <3>4. out' \in [Threads -> Outcomes]
      BY <1>1 DEF Submit, Outcomes
    <3> QED
      BY <3>2, <3>3, <3>4
  <2>5. calls' \in [Threads -> 0 .. MaxCalls]
    BY <1>0, <1>1 DEF Submit, NewCall
  <2>6. \A u \in Threads : CallShape(u)'
    BY <1>1, <2>1, <2>3, <2>5 DEF Submit, NewCall, Goto, CallShape, Resolved, R, P
  <2> QED
    BY <1>1, <2>3, <2>4, <2>5, <2>6 DEF Submit
<1>2. ASSUME NEW t \in Threads, Reject(t) \/ ReadConcept(t) PROVE Typed'
  <2>1. out' \in [Threads -> Outcomes]
    BY <1>2 DEF Reject, ReadConcept, Outcomes
  <2>2. calls' \in [Threads -> 0 .. MaxCalls]
    <3>1. NewCall(t)
      BY <1>2 DEF Reject, ReadConcept
    <3> QED
      BY <1>0, <3>1 DEF NewCall
  <2>3. \A u \in Threads : CallShape(u)'
    BY <1>2, <2>2 DEF Reject, ReadConcept, NewCall, CallShape, R, P
  <2> QED
    BY <1>2, <2>1, <2>2, <2>3 DEF Reject, ReadConcept
<1>3. ASSUME NEW t \in Threads, LockBundle(t) PROVE Typed'
  <2>1. P(t) \in Procs /\ req[t].alias \in Aliases
    BY <1>3, InCall DEF LockBundle
  <2>2. \A u \in Threads : CallShape(u)'
    BY <1>3 DEF LockBundle, Goto, CallShape, Resolved, R, P
  <2> QED
    BY <1>3, <2>1, <2>2 DEF LockBundle, Goto, Pcs, LockedPcs
<1>4. ASSUME NEW t \in Threads, UnknownAlias(t) \/ LogTooLarge(t) PROVE Typed'
  <2>1. pc[t] # "idle" /\ calls' = calls
        /\ (Finish(t, "unknown") \/ Finish(t, "logfull"))
    BY <1>4 DEF UnknownAlias, LogTooLarge
  <2> QED
    BY <1>4, <2>1, FinishTyped DEF UnknownAlias, LogTooLarge, Outcomes
<1>5. ASSUME NEW t \in Threads, IOFails(t) \/ FillFails(t) PROVE Typed'
  <2>1. pc[t] # "idle" /\ calls' = calls /\ Finish(t, "error")
    BY <1>5, FilesAssumption DEF IOFails, FillFails, FillPcs
  <2>2. faults' \in 0 .. MaxFaults
    BY <1>0, <1>5 DEF IOFails, FillFails
  <2>3. repoLock' \in [Procs -> Threads \cup {Free}]
    BY <1>5 DEF IOFails, FillFails
  <2> QED
    BY <1>5, <2>1, <2>2, <2>3, FinishTyped DEF IOFails, FillFails, Outcomes
<1>6. ASSUME NEW t \in Threads, Ack(t) PROVE Typed'
  <2>1. pc[t] = "done" /\ calls' = calls /\ Finish(t, "ok")
    BY <1>6 DEF Ack
  <2>2. R(t) \in Roots
    BY <2>1 DEF CallShape, Resolved, Pcs, LockedPcs
  <2>3. acked' \subseteq [root : Roots, dir : Dirs, path : Paths, id : Ids]
    <3>1. D(t) \in Dirs /\ req[t].path \in Paths /\ req[t].id \in Ids
      BY <2>1, InCall
    <3>2. acked' = acked \cup { [root |-> R(t), dir |-> D(t), path |-> req[t].path,
                                 id |-> req[t].id] }
      BY <1>6 DEF Ack
    <3> QED
      BY <2>2, <3>1, <3>2
  <2>4. stale' \subseteq Roots \X Dirs
    BY <1>6 DEF Ack
  <2> QED
    BY <1>6, <2>1, <2>3, <2>4, FinishTyped DEF Ack, Outcomes
<1>7. ASSUME NEW t \in Threads, OpenDoc(t) \/ OpenIndex(t) \/ OpenLog(t) PROVE Typed'
  <2>1. pc[t] # "idle" /\ R(t) \in Roots
    BY <1>7, InCall DEF OpenDoc, OpenIndex, OpenLog, Open
  <2>2. \A u \in Threads : CallShape(u)'
    <3>1. /\ \E l \in FillPcs : pc' = [pc EXCEPT ![t] = l]
          /\ UNCHANGED << req, calls >>
      BY <1>7 DEF OpenDoc, OpenIndex, OpenLog, Open, Goto, FillPcs
    <3> QED
      BY <2>1, <3>1 DEF CallShape, Resolved, R, P, Pcs, LockedPcs, FillPcs
  <2>3. repoLock' \in [Procs -> Threads \cup {Free}] /\ pc' \in [Threads -> Pcs]
    <3>1. repoLock' = [repoLock EXCEPT ![P(t)] = t]
      BY <1>7 DEF OpenDoc, OpenIndex, OpenLog, Open
    <3>2. \E l \in FillPcs : pc' = [pc EXCEPT ![t] = l]
      BY <1>7 DEF OpenDoc, OpenIndex, OpenLog, Open, Goto, FillPcs
    <3>3. FillPcs \subseteq Pcs
      BY DEF Pcs, LockedPcs
    <3> QED
      BY <3>1, <3>2, <3>3
  <2>4. /\ doc' \in [Roots -> [Paths -> Docs]]
        /\ index' \in [Roots -> [Dirs -> SUBSET Row]]
        /\ log' \in [Roots -> [Dirs -> Seq(Ids)]]
        /\ stale' \subseteq Roots \X Dirs
    <3>1. D(t) \in Dirs /\ req[t].path \in Paths
      BY <2>1, InCall
    <3>2. CASE OpenDoc(t)
      <4>1. Blank \in Docs
        BY DEF Docs
      <4> QED
        BY <2>1, <3>1, <3>2, <4>1 DEF OpenDoc
    <3>3. CASE OpenIndex(t)
      BY <2>1, <3>1, <3>3 DEF OpenIndex
    <3>4. CASE OpenLog(t)
      <4>1. << >> \in Seq(Ids)
        OBVIOUS
      <4> QED
        BY <2>1, <3>1, <3>4, <4>1 DEF OpenLog
    <3> QED
      BY <1>7, <3>2, <3>3, <3>4
  <2> QED
    BY <1>7, <2>2, <2>3, <2>4 DEF OpenDoc, OpenIndex, OpenLog, Open
<1>8. ASSUME NEW t \in Threads, FillDoc(t) \/ FillIndex(t) \/ FillLog(t) PROVE Typed'
  <2>1. pc[t] # "idle" /\ R(t) \in Roots
    BY <1>8 DEF FillDoc, FillIndex, FillLog, Fill, CallShape, Resolved, Pcs, LockedPcs, FillPcs
  <2>2. \A u \in Threads : CallShape(u)'
    <3>1. /\ \E l \in {"list", "readlog", "done"} : pc' = [pc EXCEPT ![t] = l]
          /\ UNCHANGED << req, calls >>
      BY <1>8 DEF FillDoc, FillIndex, FillLog, Fill, Goto
    <3> QED
      BY <2>1, <3>1 DEF CallShape, Resolved, R, P, Pcs, LockedPcs, FillPcs
  <2>3. repoLock' \in [Procs -> Threads \cup {Free}] /\ pc' \in [Threads -> Pcs]
    BY <1>8 DEF FillDoc, FillIndex, FillLog, Fill, Goto, Pcs, LockedPcs, FillPcs
  <2>4. /\ doc' \in [Roots -> [Paths -> Docs]]
        /\ index' \in [Roots -> [Dirs -> SUBSET Row]]
        /\ log' \in [Roots -> [Dirs -> Seq(Ids)]]
    <3>1. CASE FillDoc(t)
      <4>1. req[t].path \in Paths /\ req[t].id \in Ids
        BY <2>1, InCall
      <4>2. PICK d \in Docs : doc' = [doc EXCEPT ![R(t)][req[t].path] = d]
        BY <3>1, <4>1 DEF FillDoc, Docs
      <4> QED
        BY <2>1, <3>1, <4>1, <4>2 DEF FillDoc
    <3>2. CASE FillIndex(t)
      <4>1. \A tail \in SUBSET index[R(t)][D(t)] : rows[t] \cup tail \subseteq Row
        <5>1. D(t) \in Dirs
          BY <2>1, InCall
        <5>2. index[R(t)][D(t)] \subseteq Row
          BY <2>1, <5>1
        <5> QED
          BY <5>2
      <4>2. D(t) \in Dirs
        BY <2>1, InCall
      <4> QED
        BY <2>1, <3>2, <4>1, <4>2 DEF FillIndex
    <3>3. CASE FillLog(t)
      <4> DEFINE new == Append(old[t], req[t].id)
                 cur == log[R(t)][D(t)]
      <4>0. D(t) \in Dirs /\ req[t].id \in Ids
        BY <2>1, InCall
      <4>1. new \in Seq(Ids) /\ cur \in Seq(Ids)
        BY <2>1, <4>0
      <4>2. SubSeq(cur, Len(new) + 1, Len(cur)) \in Seq(Ids)
        BY <4>1
      <4>3. new \o SubSeq(cur, Len(new) + 1, Len(cur)) \in Seq(Ids)
        BY <4>1, <4>2
      <4> QED
        BY <2>1, <3>3, <4>3, InCall DEF FillLog
    <3> QED
      BY <1>8, <3>1, <3>2, <3>3
  <2> QED
    BY <1>8, <2>2, <2>3, <2>4 DEF FillDoc, FillIndex, FillLog, Fill
<1>9. ASSUME NEW t \in Threads, ListRefs(t) PROVE Typed'
  <2>1. \A u \in Threads : CallShape(u)'
    BY <1>9 DEF ListRefs, Goto, CallShape, Resolved, R, P, Pcs, LockedPcs
  <2>2. refs' \in [Threads -> SUBSET Paths] /\ pc' \in [Threads -> Pcs]
    BY <1>0, <1>9 DEF ListRefs, Goto, Pcs, LockedPcs
  <2> QED
    BY <1>9, <2>1, <2>2 DEF ListRefs
<1>10. ASSUME NEW t \in Threads, GetRef(t) \/ GetRefFails(t) PROVE Typed'
  <2>1. R(t) \in Roots
    BY <1>10 DEF GetRef, GetRefFails, CallShape, Resolved, Pcs, LockedPcs
  <2>2. PICK p \in refs[t], d \in Docs : DrawRow(t, p, d)
    <3>1. \A p \in Paths : Seen(doc[R(t)][p]) \in Docs
      BY <1>0, <2>1 DEF Seen
    <3> QED
      BY <1>0, <1>10, <3>1 DEF GetRef, GetRefFails
  <2>3. rows' \in [Threads -> SUBSET Row] /\ refs' \in [Threads -> SUBSET Paths]
    BY <2>2 DEF DrawRow, Row
  <2>4. faults' \in 0 .. MaxFaults
    BY <1>0, <1>10 DEF GetRef, GetRefFails
  <2>5. \A u \in Threads : CallShape(u)'
    BY <2>2 DEF DrawRow, CallShape, R, P
  <2> QED
    BY <2>2, <2>3, <2>4, <2>5 DEF DrawRow
<1>11. ASSUME NEW t \in Threads, ReadLog(t) PROVE Typed'
  <2>1. R(t) \in Roots /\ pc[t] # "idle"
    BY <1>11 DEF ReadLog, CallShape, Resolved, Pcs, LockedPcs
  <2>2. \A u \in Threads : CallShape(u)'
    BY <1>11 DEF ReadLog, Goto, CallShape, Resolved, R, P, Pcs, LockedPcs
  <2>3. pc' \in [Threads -> Pcs]
    BY <1>11 DEF ReadLog, Goto, Pcs, LockedPcs
  <2>4. D(t) \in Dirs
    BY <2>1, InCall
  <2>5. old' \in [Threads -> Seq(Ids)]
    BY <1>11, <2>1, <2>4 DEF ReadLog
  <2> QED
    BY <1>11, <2>2, <2>3, <2>5 DEF ReadLog
<1>12. ASSUME NEW p \in Procs, Kill(p) PROVE Typed'
  <2>1. \A u \in Threads : CallShape(u)'
    BY <1>12 DEF Kill, CallShape, Resolved, R, P
  <2>2. /\ pc' \in [Threads -> Pcs] /\ req' \in [Threads -> Requests \cup {NoReq}]
        /\ out' \in [Threads -> Outcomes] /\ old' \in [Threads -> Seq(Ids)]
        /\ refs' \in [Threads -> SUBSET Paths] /\ rows' \in [Threads -> SUBSET Row]
    BY <1>12 DEF Kill, Pcs, Outcomes
  <2>3. /\ bundleLock' \in [Procs -> [Aliases -> Threads \cup {Free}]]
        /\ repoLock' \in [Procs -> Threads \cup {Free}]
        /\ crashes' \in 0 .. MaxCrashes
    BY <1>0, <1>12 DEF Kill
  <2> QED
    BY <1>12, <2>1, <2>2, <2>3 DEF Kill
<1>13. CASE UNCHANGED vars
  <2>1. \A u \in Threads : CallShape(u)'
    BY <1>13 DEF vars, CallShape, R, P
  <2> QED
    BY <1>13, <2>1 DEF vars
<1> QED
  BY <1>1, <1>2, <1>3, <1>4, <1>5, <1>6, <1>7, <1>8, <1>9, <1>10, <1>11, <1>12, <1>13
     DEF Next, Write

\* Type correctness of the write path.
THEOREM TypeCorrect == Spec => []TypeOK
<1>1. ConstantsAssumption /\ Init => Typed
  BY TypedInit
<1>2. ConstantsAssumption /\ Typed /\ [Next]_vars => Typed'
  BY TypedNext
<1>3. Typed => TypeOK
  BY DEF Typed
<1> QED
  BY <1>1, <1>2, <1>3, ConstantsAssumption, PTL DEF Spec
-----------------------------------------------------------------------------
\* Past LockBundle, a goroutine holds the mutex of its bundle.
Held ==
  \A t \in Threads : pc[t] \in LockedPcs => bundleLock[P(t)][req[t].alias] = t

LEMMA HeldInit == Init => Held
  BY DEF Init, Held, LockedPcs, FillPcs

\* Unlocking ends the call of the goroutine that holds the mutex, and only its.
LEMMA FinishHeld ==
  ASSUME ConstantsAssumption, Typed, Held, NEW t \in Threads, pc[t] \in LockedPcs,
         NEW result, Finish(t, result)
  PROVE  Held'
<1>1. pc[t] # "idle"
  BY DEF LockedPcs, FillPcs
<1>2. P(t) \in Procs /\ req[t].alias \in Aliases
  BY <1>1, InCall
<1>3. SUFFICES ASSUME NEW u \in Threads, pc'[u] \in LockedPcs
               PROVE  bundleLock'[P(u)][req'[u].alias] = u
  BY DEF Held, P
<1>4. u # t /\ pc[u] = pc'[u] /\ req'[u] = req[u]
  BY <1>3 DEF Finish, Goto, Typed, TypeOK, LockedPcs, FillPcs
<1>5. bundleLock[P(u)][req[u].alias] = u /\ bundleLock[P(t)][req[t].alias] = t
  BY <1>3, <1>4 DEF Held
<1>6. pc[u] # "idle"
  BY <1>3, <1>4 DEF LockedPcs, FillPcs
<1>7. P(u) \in Procs /\ req[u].alias \in Aliases
  BY <1>6, InCall
<1> QED
  BY <1>2, <1>4, <1>5, <1>7 DEF Finish, Typed, TypeOK

LEMMA HeldNext ==
  ASSUME ConstantsAssumption, Typed, Held, [Next]_vars
  PROVE  Held'
<1> USE DEF disk, locks, local, history, bounds
<1>1. ASSUME NEW t \in Threads, LockBundle(t) PROVE Held'
  <2>1. pc[t] # "idle"
    BY <1>1 DEF LockBundle
  <2>2. P(t) \in Procs /\ req[t].alias \in Aliases /\ bundleLock[P(t)][req[t].alias] = Free
    BY <1>1, <2>1, InCall DEF LockBundle
  <2>3. ASSUME NEW u \in Threads, u # t, pc'[u] \in LockedPcs
        PROVE  bundleLock'[P(u)][req'[u].alias] = u
    <3>1. pc[u] \in LockedPcs /\ req'[u] = req[u]
      BY <1>1, <2>3 DEF LockBundle, Goto, Typed, TypeOK
    <3>2. bundleLock[P(u)][req[u].alias] = u /\ u # Free
      BY <3>1 DEF Held, ConstantsAssumption
    <3>3. pc[u] # "idle"
      BY <3>1 DEF LockedPcs, FillPcs
    <3>4. P(u) \in Procs /\ req[u].alias \in Aliases
      BY <3>3, InCall
    <3> QED
      BY <1>1, <2>2, <3>1, <3>2, <3>4 DEF LockBundle, Typed, TypeOK
  <2>4. bundleLock'[P(t)][req'[t].alias] = t
    BY <1>1, <2>2 DEF LockBundle, Typed, TypeOK
  <2> QED
    BY <2>3, <2>4 DEF Held, P
<1>2. ASSUME NEW t \in Threads, Submit(t) \/ Reject(t) \/ ReadConcept(t) PROVE Held'
  BY <1>2 DEF Submit, Reject, ReadConcept, NewCall, Goto, Typed, TypeOK, Held, P,
       LockedPcs, FillPcs
<1>3. ASSUME NEW t \in Threads,
             UnknownAlias(t) \/ IOFails(t) \/ LogTooLarge(t) \/ FillFails(t) \/ Ack(t)
      PROVE  Held'
  <2>1. pc[t] \in LockedPcs
    BY <1>3, FilesAssumption DEF UnknownAlias, IOFails, LogTooLarge, FillFails, Ack,
       LockedPcs, FillPcs
  <2>2. \E result \in Outcomes : Finish(t, result)
    BY <1>3 DEF UnknownAlias, IOFails, LogTooLarge, FillFails, Ack, Outcomes
  <2> QED
    BY <2>1, <2>2, FinishHeld
<1>4. ASSUME NEW t \in Threads,
             \/ OpenDoc(t) \/ FillDoc(t) \/ ListRefs(t) \/ OpenIndex(t) \/ FillIndex(t)
             \/ ReadLog(t) \/ OpenLog(t) \/ FillLog(t)
      PROVE  Held'
  <2>1. pc[t] \in LockedPcs
    BY <1>4 DEF OpenDoc, OpenIndex, OpenLog, Open, FillDoc, FillIndex, FillLog, Fill,
         ListRefs, ReadLog, LockedPcs, FillPcs
  <2>2. /\ \A u \in Threads : u # t => pc'[u] = pc[u]
        /\ req' = req /\ bundleLock' = bundleLock
    BY <1>4 DEF OpenDoc, OpenIndex, OpenLog, Open, FillDoc, FillIndex, FillLog, Fill,
         ListRefs, ReadLog, Goto, Typed, TypeOK
  <2> QED
    BY <2>1, <2>2 DEF Held, P
<1>5. ASSUME NEW t \in Threads, GetRef(t) \/ GetRefFails(t) PROVE Held'
  <2>1. pc' = pc /\ req' = req /\ bundleLock' = bundleLock
    BY <1>5 DEF GetRef, GetRefFails, DrawRow
  <2> QED
    BY <2>1 DEF Held, P
<1>6. ASSUME NEW p \in Procs, Kill(p) PROVE Held'
  <2>1. SUFFICES ASSUME NEW u \in Threads, pc'[u] \in LockedPcs
                 PROVE  bundleLock'[P(u)][req'[u].alias] = u
    BY DEF Held, P
  <2>2. P(u) # p /\ pc'[u] = pc[u] /\ req'[u] = req[u]
    BY <1>6, <2>1 DEF Kill, LockedPcs, FillPcs
  <2>3. bundleLock[P(u)][req[u].alias] = u /\ P(u) \in Procs
    BY <2>1, <2>2 DEF Held, P, ConstantsAssumption
  <2> QED
    BY <1>6, <2>2, <2>3 DEF Kill, Typed, TypeOK
<1>7. CASE UNCHANGED vars
  BY <1>7 DEF vars, Held, P
<1> QED
  BY <1>1, <1>2, <1>3, <1>4, <1>5, <1>6, <1>7 DEF Next, Write

\* Where one process and one alias lead to each root, at most one goroutine is
\* past LockBundle of any root.
LEMMA Alone ==
  ASSUME ConstantsAssumption, Exclusive, Typed, Held, NEW t \in Threads, NEW u \in Threads,
         pc[t] \in LockedPcs, pc[u] \in LockedPcs, R(t) = R(u), R(t) \in Roots
  PROVE  t = u
<1>1. pc[t] # "idle" /\ pc[u] # "idle"
  BY DEF LockedPcs, FillPcs
<1>2. /\ P(t) \in Procs /\ req[t].alias \in Serves[P(t)]
      /\ P(u) \in Procs /\ req[u].alias \in Serves[P(u)]
  BY <1>1, InCall DEF Typed, CallShape
<1>3. /\ RootOf[req[t].alias] = RootOf[req[u].alias]
      /\ RootOf[req[t].alias] # NoRoot
  BY DEF R, ConstantsAssumption
<1>4. P(t) = P(u) /\ req[t].alias = req[u].alias
  BY <1>2, <1>3 DEF Exclusive
<1> QED
  BY <1>4 DEF Held
-----------------------------------------------------------------------------
\* Between ReadLog and the end of appendLog, what a goroutine has read is what
\* the log says, or said when the goroutine truncated it.
LogKept ==
  \A t \in Threads :
    /\ pc[t] = "log" => old[t] = log[R(t)][D(t)]
    /\ pc[t] = "filllog" => log[R(t)][D(t)] = << >>

\* The steps that leave the logs, and what was read of them, alone.
Quiet ==
  /\ log' = log
  /\ \A t \in Threads :
       pc'[t] \in {"log", "filllog"} =>
         pc[t] = pc'[t] /\ req'[t] = req[t] /\ old'[t] = old[t]
  /\ \A t \in Threads : pc[t] = "filllog" => pc'[t] = "filllog"

\* A step is quiet, or is one of the three that append to a log.
LEMMA QuietOr ==
  ASSUME ConstantsAssumption, LogsWhole, Typed, [Next]_vars
  PROVE  Quiet \/ \E t \in Threads : ReadLog(t) \/ OpenLog(t) \/ FillLog(t)
<1> USE DEF disk, locks, local, history, bounds
<1>1. ASSUME NEW t \in Threads, Submit(t) \/ Reject(t) \/ ReadConcept(t) \/ LockBundle(t)
      PROVE  Quiet
  BY <1>1 DEF Submit, Reject, ReadConcept, NewCall, LockBundle, Goto, Typed, TypeOK, Quiet
<1>2. ASSUME NEW t \in Threads,
             UnknownAlias(t) \/ IOFails(t) \/ LogTooLarge(t) \/ FillFails(t) \/ Ack(t)
      PROVE  Quiet
  <2>1. log' = log /\ pc[t] # "filllog"
    BY <1>2 DEF UnknownAlias, IOFails, LogTooLarge, FillFails, Ack, LogsWhole
  <2>2. \E result \in Outcomes : Finish(t, result)
    BY <1>2 DEF UnknownAlias, IOFails, LogTooLarge, FillFails, Ack, Outcomes
  <2> QED
    BY <2>1, <2>2 DEF Finish, Goto, Typed, TypeOK, Quiet
<1>3. ASSUME NEW t \in Threads, OpenDoc(t) \/ FillDoc(t) \/ OpenIndex(t) \/ FillIndex(t)
      PROVE  Quiet
  <2>1. /\ log' = log /\ req' = req /\ old' = old
        /\ pc[t] # "filllog" /\ pc'[t] \notin {"log", "filllog"}
        /\ \A u \in Threads : u # t => pc'[u] = pc[u]
    BY <1>3 DEF OpenDoc, OpenIndex, Open, FillDoc, FillIndex, Fill, Goto, Typed, TypeOK
  <2> QED
    BY <2>1 DEF Quiet
<1>4. ASSUME NEW t \in Threads, ListRefs(t) \/ GetRef(t) \/ GetRefFails(t) PROVE Quiet
  BY <1>4 DEF ListRefs, GetRef, GetRefFails, DrawRow, Goto, Typed, TypeOK, Quiet
<1>5. ASSUME NEW p \in Procs, Kill(p) PROVE Quiet
  BY <1>5 DEF Kill, Quiet, Typed, TypeOK, LogsWhole, FillPcs
<1>6. CASE UNCHANGED vars
  BY <1>6 DEF vars, Quiet
<1> QED
  BY <1>1, <1>2, <1>3, <1>4, <1>5, <1>6 DEF Next, Write

LEMMA KeptInit == Init => LogKept
  BY DEF Init, LogKept

LEMMA KeptNext ==
  ASSUME ConstantsAssumption, Exclusive, LogsWhole, Typed, Held, LogKept, [Next]_vars
  PROVE  LogKept'
<1> USE DEF disk, locks, local, history, bounds
<1>1. CASE Quiet
  BY <1>1 DEF Quiet, LogKept, R, D
<1>2. ASSUME NEW t \in Threads, ReadLog(t) PROVE LogKept'
  BY <1>2 DEF ReadLog, Goto, Typed, TypeOK, LogKept, R, D
<1>3. ASSUME NEW t \in Threads, OpenLog(t) \/ FillLog(t),
             NEW u \in Threads, u # t, pc'[u] \in {"log", "filllog"}
      PROVE  /\ pc[u] = pc'[u]
             /\ old'[u] = old[u] /\ R(u)' = R(u) /\ D(u)' = D(u)
             /\ log'[R(u)][D(u)] = log[R(u)][D(u)]
  <2>1. /\ pc[u] = pc'[u] /\ old' = old /\ req' = req
        /\ pc[t] \in LockedPcs \cap Resolved /\ pc[u] \in LockedPcs \cap Resolved
    BY <1>3 DEF OpenLog, FillLog, Open, Fill, Goto, Typed, TypeOK, LockedPcs, FillPcs,
         Resolved, Pcs
  <2>2. R(t) \in Roots /\ R(u) \in Roots
    BY <2>1 DEF Typed, CallShape
  <2>3. R(u) # R(t)
    BY <1>3, <2>1, <2>2, Alone
  <2>4. log'[R(u)] = log[R(u)]
    BY <1>3, <2>2, <2>3 DEF OpenLog, FillLog, Typed, TypeOK
  <2> QED
    BY <2>1, <2>4 DEF R, D
<1>4. ASSUME NEW t \in Threads, OpenLog(t) PROVE LogKept'
  <2>1. pc[t] = "log" /\ pc'[t] = "filllog" /\ req' = req /\ R(t) \in Roots
    BY <1>4 DEF OpenLog, Open, Goto, Typed, TypeOK, CallShape, Resolved, Pcs, LockedPcs
  <2>2. D(t) \in Dirs
    BY <2>1, InCall
  <2>3. log'[R(t)][D(t)] = << >> /\ R(t)' = R(t) /\ D(t)' = D(t)
    BY <1>4, <2>1, <2>2 DEF OpenLog, Typed, TypeOK, R, D
  <2> QED
    BY <1>3, <1>4, <2>1, <2>3 DEF LogKept
<1>5. ASSUME NEW t \in Threads, FillLog(t) PROVE LogKept'
  <2>1. pc'[t] = "done"
    BY <1>5 DEF FillLog, Fill, Goto, Typed, TypeOK
  <2> QED
    BY <1>3, <1>5, <2>1 DEF LogKept
<1> QED
  BY <1>1, <1>2, <1>4, <1>5, QuietOr

\* WholeLog is what the goroutine that refills a log read from it, or the log.
WholeLogs ==
  \A r \in Roots, d \in Dirs :
    /\ \A t \in Threads : Filling(t, r, d) => WholeLog(r, d) = old[t]
    /\ (\A t \in Threads : ~Filling(t, r, d)) => WholeLog(r, d) = log[r][d]

LEMMA WholeLogIs ==
  ConstantsAssumption /\ Exclusive /\ Typed /\ Held => WholeLogs
<1> SUFFICES ASSUME ConstantsAssumption, Exclusive, Typed, Held,
                    NEW r \in Roots, NEW d \in Dirs
             PROVE  /\ \A t \in Threads : Filling(t, r, d) => WholeLog(r, d) = old[t]
                    /\ (\A t \in Threads : ~Filling(t, r, d)) => WholeLog(r, d) = log[r][d]
  BY DEF WholeLogs
<1>1. ASSUME NEW t \in Threads, Filling(t, r, d) PROVE WholeLog(r, d) = old[t]
  <2>1. ASSUME NEW u \in Threads, Filling(u, r, d) PROVE u = t
    BY <1>1, <2>1, Alone DEF Filling, LockedPcs, FillPcs
  <2>2. (CHOOSE u \in Threads : Filling(u, r, d)) = t
    BY <1>1, <2>1
  <2> QED
    BY <1>1, <2>2 DEF WholeLog
<1> QED
  BY <1>1 DEF WholeLog
-----------------------------------------------------------------------------
\* What holds of the locks and the logs in every reachable state.
Sound == ConstantsAssumption /\ Typed /\ Held /\ LogKept

\* The step writes the entry of t at the end of its log, and no other log changes.
Extends(t) ==
  \A r \in Roots, d \in Dirs :
    WholeLog(r, d)' = IF r = R(t) /\ d = D(t)
                      THEN Append(WholeLog(r, d), req[t].id)
                      ELSE WholeLog(r, d)

Same == \A r \in Roots, d \in Dirs : WholeLog(r, d)' = WholeLog(r, d)

LEMMA AppendsOnce ==
  ASSUME NEW s, NEW S, s \in Seq(S), NEW x \in S
  PROVE  Append(s, x) \o SubSeq(<< >>, Len(Append(s, x)) + 1, Len(<< >>)) = Append(s, x)
<1>1. Append(s, x) \in Seq(S) /\ Len(Append(s, x)) \in Nat /\ Len(<< >>) = 0
  OBVIOUS
<1>2. SubSeq(<< >>, Len(Append(s, x)) + 1, 0) = << >>
  BY <1>1
<1>3. \A q \in Seq(S) : q \o << >> = q
  OBVIOUS
<1> QED
  BY <1>1, <1>2, <1>3

\* The whole logs change only when a goroutine appends its entry.
LEMMA WholeStep ==
  ASSUME Exclusive, LogsWhole, Sound, [Next]_vars
  PROVE  \/ Same /\ \A t \in Threads : ~FillLog(t)
         \/ \E t \in Threads : FillLog(t) /\ Extends(t)
<1> USE DEF disk, locks, local, history, bounds
<1>1. WholeLogs
  BY WholeLogIs DEF Sound
<1>2. ConstantsAssumption' /\ Typed' /\ Held'
  BY TypedNext, HeldNext DEF Sound, ConstantsAssumption
<1>3. WholeLogs'
  BY <1>2, WholeLogIs, PTL
<1>4. ASSUME Quiet PROVE Same
  <2> SUFFICES ASSUME NEW r \in Roots, NEW d \in Dirs
               PROVE  WholeLog(r, d)' = WholeLog(r, d)
    BY DEF Same
  <2>1. \A t \in Threads : Filling(t, r, d)' <=> Filling(t, r, d)
    BY <1>4 DEF Quiet, Filling, R, D
  <2>2. \A t \in Threads : Filling(t, r, d) => old'[t] = old[t]
    BY <1>4 DEF Quiet, Filling
  <2> QED
    BY <1>1, <1>3, <1>4, <2>1, <2>2 DEF WholeLogs, Quiet
<1>5. ASSUME NEW t \in Threads, ReadLog(t) PROVE Same
  <2> SUFFICES ASSUME NEW r \in Roots, NEW d \in Dirs
               PROVE  WholeLog(r, d)' = WholeLog(r, d)
    BY DEF Same
  <2>1. \A u \in Threads : Filling(u, r, d)' <=> Filling(u, r, d)
    BY <1>5 DEF ReadLog, Goto, Filling, R, D, Sound, Typed, TypeOK
  <2>2. \A u \in Threads : Filling(u, r, d) => old'[u] = old[u]
    BY <1>5 DEF ReadLog, Filling, Sound, Typed, TypeOK
  <2>3. log' = log
    BY <1>5 DEF ReadLog
  <2> QED
    BY <1>1, <1>3, <2>1, <2>2, <2>3 DEF WholeLogs
<1>6. ASSUME NEW t \in Threads, OpenLog(t) PROVE Same
  <2> SUFFICES ASSUME NEW r \in Roots, NEW d \in Dirs
               PROVE  WholeLog(r, d)' = WholeLog(r, d)
    BY DEF Same
  <2>1. /\ pc[t] = "log" /\ pc'[t] = "filllog" /\ req' = req /\ old' = old
        /\ R(t) \in Roots
        /\ \A u \in Threads : u # t => pc'[u] = pc[u]
    BY <1>6 DEF OpenLog, Open, Goto, Sound, Typed, TypeOK, CallShape, Resolved, Pcs, LockedPcs
  <2>2. D(t) \in Dirs
    BY <2>1, InCall DEF Sound
  <2>3. CASE r = R(t) /\ d = D(t)
    <3>1. ASSUME NEW u \in Threads PROVE ~Filling(u, r, d)
      BY <2>1, <2>3, Alone DEF Filling, Sound, LockedPcs, FillPcs
    <3>2. Filling(t, r, d)'
      BY <2>1, <2>3 DEF Filling, R, D
    <3>3. WholeLog(r, d) = log[r][d] /\ WholeLog(r, d)' = old[t]
      BY <1>1, <1>3, <2>1, <3>1, <3>2 DEF WholeLogs
    <3> QED
      BY <2>1, <2>3, <3>3 DEF Sound, LogKept
  <2>4. CASE ~(r = R(t) /\ d = D(t))
    <3>1. \A u \in Threads : Filling(u, r, d)' <=> Filling(u, r, d)
      BY <2>1, <2>4 DEF Filling, R, D
    <3>2. log'[r][d] = log[r][d]
      BY <1>6, <2>1, <2>2, <2>4 DEF OpenLog, Sound, Typed, TypeOK
    <3> QED
      BY <1>1, <1>3, <2>1, <3>1, <3>2 DEF WholeLogs
  <2> QED
    BY <2>3, <2>4
<1>7. ASSUME NEW t \in Threads, FillLog(t) PROVE Extends(t)
  <2> SUFFICES ASSUME NEW r \in Roots, NEW d \in Dirs
               PROVE  WholeLog(r, d)' = IF r = R(t) /\ d = D(t)
                                        THEN Append(WholeLog(r, d), req[t].id)
                                        ELSE WholeLog(r, d)
    BY DEF Extends
  <2>1. /\ pc[t] = "filllog" /\ pc'[t] = "done" /\ req' = req /\ old' = old
        /\ R(t) \in Roots
        /\ \A u \in Threads : u # t => pc'[u] = pc[u]
    BY <1>7 DEF FillLog, Fill, Goto, Sound, Typed, TypeOK, CallShape, Resolved, Pcs,
         LockedPcs, FillPcs
  <2>2. D(t) \in Dirs /\ req[t].id \in Ids /\ old[t] \in Seq(Ids)
    BY <2>1, InCall DEF Sound, Typed, TypeOK
  <2>3. CASE r = R(t) /\ d = D(t)
    <3>1. ASSUME NEW u \in Threads PROVE ~Filling(u, r, d)'
      <4>1. ASSUME u # t, Filling(u, r, d) PROVE FALSE
        BY <2>1, <2>3, <4>1, Alone DEF Filling, Sound, LockedPcs, FillPcs
      <4> QED
        BY <2>1, <4>1 DEF Filling, R, D
    <3>2. log[r][d] = << >>
      BY <2>1, <2>3 DEF Sound, LogKept
    <3>3. log'[r][d] = Append(old[t], req[t].id)
                         \o SubSeq(<< >>, Len(Append(old[t], req[t].id)) + 1, Len(<< >>))
      BY <1>7, <2>1, <2>2, <2>3, <3>2 DEF FillLog, Sound, Typed, TypeOK
    <3>4. log'[r][d] = Append(old[t], req[t].id)
      BY <2>2, <3>3, AppendsOnce
    <3>5. Filling(t, r, d)
      BY <2>1, <2>3 DEF Filling
    <3>6. WholeLog(r, d) = old[t] /\ WholeLog(r, d)' = log'[r][d]
      BY <1>1, <1>3, <3>1, <3>5 DEF WholeLogs
    <3> QED
      BY <2>3, <3>4, <3>6
  <2>4. CASE ~(r = R(t) /\ d = D(t))
    <3>1. \A u \in Threads : Filling(u, r, d)' <=> Filling(u, r, d)
      BY <2>1, <2>4 DEF Filling, R, D
    <3>2. log'[r][d] = log[r][d]
      BY <1>7, <2>1, <2>2, <2>4 DEF FillLog, Sound, Typed, TypeOK
    <3>3. WholeLog(r, d)' = WholeLog(r, d)
      BY <1>1, <1>3, <2>1, <3>1, <3>2 DEF WholeLogs
    <3> QED
      BY <2>4, <3>3
  <2> QED
    BY <2>3, <2>4
<1>8. Quiet \/ \E t \in Threads : ReadLog(t) \/ OpenLog(t) \/ FillLog(t)
  BY QuietOr DEF Sound
<1> QED
  BY <1>4, <1>5, <1>6, <1>7, <1>8
-----------------------------------------------------------------------------
LEMMA RangeAppend ==
  ASSUME NEW S, NEW s \in Seq(S), NEW x \in S
  PROVE  Range(Append(s, x)) = Range(s) \cup {x}
<1>1. /\ DOMAIN Append(s, x) = 1 .. (Len(s) + 1) /\ DOMAIN s = 1 .. Len(s)
      /\ Append(s, x)[Len(s) + 1] = x
      /\ \A i \in 1 .. Len(s) : Append(s, x)[i] = s[i]
      /\ Len(s) \in Nat
  OBVIOUS
<1>2. Range(Append(s, x)) \subseteq Range(s) \cup {x}
  BY <1>1 DEF Range
<1>3. Range(s) \subseteq Range(Append(s, x)) /\ x \in Range(Append(s, x))
  BY <1>1 DEF Range
<1> QED
  BY <1>2, <1>3

LEMMA WholeLogTyped ==
  ASSUME Exclusive, Sound, NEW r \in Roots, NEW d \in Dirs
  PROVE  WholeLog(r, d) \in Seq(Ids)
<1>1. WholeLogs
  BY WholeLogIs DEF Sound
<1>2. \A t \in Threads : old[t] \in Seq(Ids)
  BY DEF Sound, Typed, TypeOK
<1>3. log[r][d] \in Seq(Ids)
  BY DEF Sound, Typed, TypeOK
<1> QED
  BY <1>1, <1>2, <1>3 DEF WholeLogs

\* A log holds writes that were asked for, of which none is still to be logged;
\* a write that is done is logged.
Entries ==
  /\ \A r \in Roots, d \in Dirs : \A w \in Range(WholeLog(r, d)) : w[2] <= calls[w[1]]
  /\ \A t \in Threads : pc[t] \notin {"idle", "done"} =>
       \A r \in Roots, d \in Dirs : req[t].id \notin Range(WholeLog(r, d))
  /\ \A t \in Threads : pc[t] = "done" => req[t].id \in Range(WholeLog(R(t), D(t)))

\* How a step moves the calls: counters grow, a call keeps its write, a new call
\* takes the next one, and only FillLog makes a write done.
CallsMove ==
  \A t \in Threads :
    /\ calls[t] <= calls'[t]
    /\ pc'[t] \notin {"idle", "done"} =>
         \/ pc[t] \notin {"idle", "done"} /\ req'[t] = req[t]
         \/ req'[t].id = << t, calls[t] + 1 >>
    /\ pc'[t] = "done" => FillLog(t) \/ (pc[t] = "done" /\ req'[t] = req[t])

LEMMA CallsStep ==
  ASSUME ConstantsAssumption, Typed, [Next]_vars
  PROVE  CallsMove
<1> USE DEF disk, locks, local, history, bounds
<1>0. \A t \in Threads : calls[t] \in Nat
  BY DEF Typed, TypeOK, ConstantsAssumption
<1>1. ASSUME NEW t \in Threads, Submit(t) PROVE CallsMove
  BY <1>0, <1>1 DEF Submit, NewCall, Goto, Typed, TypeOK, CallsMove
<1>2. ASSUME NEW t \in Threads, Reject(t) \/ ReadConcept(t) PROVE CallsMove
  <2>1. NewCall(t) /\ pc' = pc /\ req' = req
    BY <1>2 DEF Reject, ReadConcept
  <2> QED
    BY <1>0, <2>1 DEF NewCall, Typed, TypeOK, CallsMove
<1>3. ASSUME NEW t \in Threads,
             UnknownAlias(t) \/ IOFails(t) \/ LogTooLarge(t) \/ FillFails(t) \/ Ack(t)
      PROVE  CallsMove
  <2>1. calls' = calls
    BY <1>3 DEF UnknownAlias, IOFails, LogTooLarge, FillFails, Ack
  <2>2. \E result \in Outcomes : Finish(t, result)
    BY <1>3 DEF UnknownAlias, IOFails, LogTooLarge, FillFails, Ack, Outcomes
  <2> QED
    BY <1>0, <2>1, <2>2 DEF Finish, Goto, Typed, TypeOK, CallsMove
<1>4. ASSUME NEW t \in Threads,
             \/ LockBundle(t) \/ OpenDoc(t) \/ FillDoc(t) \/ ListRefs(t)
             \/ OpenIndex(t) \/ FillIndex(t) \/ ReadLog(t) \/ OpenLog(t)
      PROVE  CallsMove
  <2>1. /\ calls' = calls /\ req' = req
        /\ pc[t] \notin {"idle", "done"} /\ pc'[t] # "done"
        /\ \A u \in Threads : u # t => pc'[u] = pc[u]
    BY <1>4 DEF LockBundle, OpenDoc, OpenIndex, OpenLog, Open, FillDoc, FillIndex, Fill,
         ListRefs, ReadLog, Goto, Typed, TypeOK
  <2> QED
    BY <1>0, <2>1 DEF CallsMove
<1>5. ASSUME NEW t \in Threads, FillLog(t) PROVE CallsMove
  <2>1. calls' = calls /\ req' = req /\ \A u \in Threads : u # t => pc'[u] = pc[u]
    BY <1>5 DEF FillLog, Fill, Goto, Typed, TypeOK
  <2>2. pc'[t] = "done"
    BY <1>5 DEF FillLog, Fill, Goto, Typed, TypeOK
  <2> QED
    BY <1>0, <1>5, <2>1, <2>2 DEF CallsMove
<1>6. ASSUME NEW t \in Threads, GetRef(t) \/ GetRefFails(t) PROVE CallsMove
  <2>1. calls' = calls /\ req' = req /\ pc' = pc
    BY <1>6 DEF GetRef, GetRefFails, DrawRow
  <2> QED
    BY <1>0, <2>1 DEF CallsMove
<1>7. ASSUME NEW p \in Procs, Kill(p) PROVE CallsMove
  BY <1>0, <1>7 DEF Kill, Typed, TypeOK, CallsMove
<1>8. CASE UNCHANGED vars
  BY <1>0, <1>8 DEF vars, CallsMove
<1> QED
  BY <1>1, <1>2, <1>3, <1>4, <1>5, <1>6, <1>7, <1>8 DEF Next, Write

\* No log loses an entry, and none gains one but that of the goroutine that
\* has just filled it.
Grows ==
  \A r \in Roots, d \in Dirs :
    /\ Range(WholeLog(r, d)) \subseteq Range(WholeLog(r, d))'
    /\ \A w \in Range(WholeLog(r, d))' :
         \/ w \in Range(WholeLog(r, d))
         \/ \E t \in Threads : FillLog(t) /\ w = req[t].id

LEMMA LogsGrow ==
  ASSUME Exclusive, LogsWhole, Sound, [Next]_vars
  PROVE  /\ Grows
         /\ \A t \in Threads : FillLog(t) => req[t].id \in Range(WholeLog(R(t), D(t)))'
<1>1. ASSUME NEW t \in Threads, FillLog(t)
      PROVE  /\ pc[t] = "filllog" /\ pc'[t] = "done" /\ req[t].id \in Ids
             /\ R(t) \in Roots /\ D(t) \in Dirs /\ R(t)' = R(t) /\ D(t)' = D(t)
  <2>1. pc[t] = "filllog" /\ pc'[t] = "done" /\ req' = req
    BY <1>1 DEF FillLog, Fill, Goto, Sound, Typed, TypeOK
  <2>2. R(t) \in Roots
    BY <2>1 DEF Sound, Typed, CallShape, Resolved, Pcs, LockedPcs, FillPcs
  <2> QED
    BY <2>1, <2>2, InCall DEF Sound, R, D
<1>2. CASE Same /\ \A t \in Threads : ~FillLog(t)
  BY <1>2 DEF Same, Grows, Range
<1>3. ASSUME NEW t \in Threads, FillLog(t), Extends(t)
      PROVE  /\ Grows
             /\ \A u \in Threads : FillLog(u) => req[u].id \in Range(WholeLog(R(u), D(u)))'
  <2>1. ASSUME NEW r \in Roots, NEW d \in Dirs
        PROVE  Range(WholeLog(r, d))' = IF r = R(t) /\ d = D(t)
                                        THEN Range(WholeLog(r, d)) \cup {req[t].id}
                                        ELSE Range(WholeLog(r, d))
    <3>1. WholeLog(r, d) \in Seq(Ids) /\ req[t].id \in Ids
      BY <1>1, <1>3, WholeLogTyped
    <3>2. Range(Append(WholeLog(r, d), req[t].id)) = Range(WholeLog(r, d)) \cup {req[t].id}
      BY <3>1, RangeAppend
    <3> QED
      BY <1>3, <3>2 DEF Extends, Range
  <2>2. Grows
    BY <1>3, <2>1 DEF Grows
  <2>3. ASSUME NEW u \in Threads, FillLog(u) PROVE u = t
    <3>1. pc'[u] = "done" /\ pc[u] = "filllog" /\ pc' = [pc EXCEPT ![t] = "done"]
      BY <1>1, <1>3, <2>3 DEF FillLog, Fill, Goto
    <3> QED
      BY <3>1 DEF Sound, Typed, TypeOK
  <2>4. req[t].id \in Range(WholeLog(R(t), D(t)))'
    BY <1>1, <1>3, <2>1
  <2> QED
    BY <2>2, <2>3, <2>4
<1> QED
  BY <1>2, <1>3, WholeStep

\* The place of a request that is done is a log of the bundle.
LEMMA DonePlace ==
  ASSUME Sound, NEW t \in Threads, pc[t] = "done"
  PROVE  R(t) \in Roots /\ D(t) \in Dirs
<1>1. R(t) \in Roots
  BY DEF Sound, Typed, CallShape, Resolved, Pcs, LockedPcs
<1> QED
  BY <1>1, InCall DEF Sound

LEMMA EntriesNext ==
  ASSUME Exclusive, LogsWhole, Sound, Entries, [Next]_vars
  PROVE  Entries'
<1>1. Grows /\ \A t \in Threads : FillLog(t) => req[t].id \in Range(WholeLog(R(t), D(t)))'
  BY LogsGrow
<1>2. CallsMove
  BY CallsStep DEF Sound
<1>3. ASSUME NEW t \in Threads, pc[t] # "idle"
      PROVE  req[t].id = << t, calls[t] >>
  BY <1>3 DEF Sound, Typed, CallShape
<1>4. ASSUME NEW t \in Threads, FillLog(t)
      PROVE  /\ pc[t] = "filllog" /\ pc'[t] = "done"
             /\ req[t].id = << t, calls[t] >> /\ req' = req
             /\ R(t)' = R(t) /\ D(t)' = D(t)
  <2>1. pc[t] = "filllog" /\ pc'[t] = "done" /\ req' = req
    BY <1>4 DEF FillLog, Fill, Goto, Sound, Typed, TypeOK
  <2> QED
    BY <1>3, <2>1 DEF R, D
<1>5. \A t \in Threads : calls[t] \in Nat /\ calls'[t] \in Nat
  <2>1. Typed'
    BY TypedNext DEF Sound
  <2> QED
    BY <2>1 DEF Sound, Typed, TypeOK, ConstantsAssumption
<1>6. ASSUME NEW r \in Roots, NEW d \in Dirs, NEW w \in Range(WholeLog(r, d))'
      PROVE  w[2] <= calls'[w[1]]
  <2>1. CASE w \in Range(WholeLog(r, d))
    <3>1. w \in Ids
      BY <2>1, WholeLogTyped DEF Range
    <3>2. w[1] \in Threads /\ w[2] \in Nat /\ w[2] <= calls[w[1]]
      BY <2>1, <3>1 DEF Entries, Ids
    <3>3. calls[w[1]] <= calls'[w[1]]
      BY <1>2, <3>2 DEF CallsMove
    <3> QED
      BY <1>5, <3>2, <3>3
  <2>2. ASSUME NEW t \in Threads, FillLog(t), w = req[t].id
        PROVE  w[2] <= calls'[w[1]]
    BY <1>2, <1>4, <2>2 DEF CallsMove
  <2> QED
    BY <1>1, <2>1, <2>2 DEF Grows
<1>7. ASSUME NEW t \in Threads, pc'[t] \notin {"idle", "done"},
             NEW r \in Roots, NEW d \in Dirs
      PROVE  req'[t].id \notin Range(WholeLog(r, d))'
  <2>1. CASE pc[t] \notin {"idle", "done"} /\ req'[t] = req[t]
    <3>1. req[t].id \notin Range(WholeLog(r, d))
      BY <2>1 DEF Entries
    <3>2. ASSUME NEW u \in Threads, FillLog(u) PROVE req[t].id # req[u].id
      BY <1>3, <1>4, <1>7, <2>1, <3>2
    <3> QED
      BY <1>1, <2>1, <3>1, <3>2 DEF Grows
  <2>2. CASE req'[t].id = << t, calls[t] + 1 >>
    <3>1. req'[t].id \notin Range(WholeLog(r, d))
      BY <1>5, <2>2 DEF Entries
    <3>2. ASSUME NEW u \in Threads, FillLog(u) PROVE req'[t].id # req[u].id
      BY <1>4, <1>5, <2>2, <3>2
    <3> QED
      BY <1>1, <3>1, <3>2 DEF Grows
  <2> QED
    BY <1>2, <1>7, <2>1, <2>2 DEF CallsMove
<1>8. ASSUME NEW t \in Threads, pc'[t] = "done"
      PROVE  req'[t].id \in Range(WholeLog(R(t), D(t)))'
  <2>1. CASE FillLog(t)
    BY <1>1, <1>4, <2>1
  <2>2. CASE pc[t] = "done" /\ req'[t] = req[t]
    <3>1. R(t) \in Roots /\ D(t) \in Dirs /\ R(t)' = R(t) /\ D(t)' = D(t)
      BY <2>2, DonePlace DEF R, D
    <3>2. req[t].id \in Range(WholeLog(R(t), D(t)))
      BY <2>2 DEF Entries
    <3> QED
      BY <1>1, <2>2, <3>1, <3>2 DEF Grows
  <2> QED
    BY <1>2, <1>8, <2>1, <2>2 DEF CallsMove
<1> QED
  BY <1>6, <1>7, <1>8 DEF Entries

\* The inductive invariant.
IInv == Sound /\ Entries /\ AckedLogged

LEMMA IInvInit == ConstantsAssumption /\ Exclusive /\ Init => IInv
<1> SUFFICES ASSUME ConstantsAssumption, Exclusive, Init PROVE IInv
  OBVIOUS
<1>1. Sound
  BY TypedInit, HeldInit, KeptInit DEF Sound
<1>2. \A t \in Threads : pc[t] = "idle"
  BY DEF Init
<1>3. ASSUME NEW r \in Roots, NEW d \in Dirs PROVE Range(WholeLog(r, d)) = {}
  <2>1. WholeLog(r, d) = log[r][d]
    BY <1>1, <1>2, WholeLogIs DEF Sound, WholeLogs, Filling
  <2>2. WholeLog(r, d) = << >>
    BY <2>1 DEF Init
  <2> QED
    BY <2>2 DEF Range
<1>4. acked = {}
  BY DEF Init
<1> QED
  BY <1>1, <1>2, <1>3, <1>4 DEF IInv, Entries, AckedLogged

LEMMA IInvNext ==
  ASSUME Exclusive, LogsWhole, IInv, [Next]_vars
  PROVE  IInv'
<1>1. Sound'
  BY TypedNext, HeldNext, KeptNext DEF IInv, Sound, ConstantsAssumption
<1>2. Entries'
  BY EntriesNext DEF IInv
<1>3. Grows
  BY LogsGrow DEF IInv
<1>4. acked \subseteq [root : Roots, dir : Dirs, path : Paths, id : Ids]
  BY DEF IInv, Sound, Typed, TypeOK
<1>5. ASSUME NEW w \in acked PROVE w.id \in Range(WholeLog(w.root, w.dir))'
  BY <1>3, <1>4, <1>5 DEF IInv, AckedLogged, Grows
<1>6. ASSUME NEW t \in Threads, Ack(t),
             NEW w, w = [root |-> R(t), dir |-> D(t), path |-> req[t].path, id |-> req[t].id]
      PROVE  w.id \in Range(WholeLog(w.root, w.dir))'
  <2>1. pc[t] = "done"
    BY <1>6 DEF Ack
  <2>2. R(t) \in Roots /\ D(t) \in Dirs /\ req[t].id \in Range(WholeLog(R(t), D(t)))
    BY <2>1, DonePlace DEF IInv, Entries
  <2> QED
    BY <1>3, <1>6, <2>2 DEF Grows
<1>7. acked' = acked \/ \E t \in Threads :
        /\ Ack(t)
        /\ acked' = acked \cup { [root |-> R(t), dir |-> D(t), path |-> req[t].path,
                                  id |-> req[t].id] }
  BY WhatChanges DEF Framed, Ack
<1>8. AckedLogged'
  <2> SUFFICES ASSUME NEW w \in acked' PROVE w.id \in Range(WholeLog(w.root, w.dir))'
    BY DEF AckedLogged
  <2> QED
    BY <1>5, <1>6, <1>7
<1> QED
  BY <1>1, <1>2, <1>8 DEF IInv

\* Where one process and one alias lead to each root and no file is cut short,
\* every acknowledged write is in the log of its directory and stays there,
\* whichever goroutines append to that log, fail or are killed.
THEOREM AckedStayLogged == Exclusive /\ LogsWhole => (Spec => []AckedLogged)
<1> SUFFICES ASSUME Exclusive, LogsWhole PROVE Spec => []AckedLogged
  OBVIOUS
<1>1. Init => IInv
  BY IInvInit, ConstantsAssumption
<1>2. IInv /\ [Next]_vars => IInv'
  BY IInvNext
<1>3. IInv => AckedLogged
  BY DEF IInv
<1> QED
  BY <1>1, <1>2, <1>3, PTL DEF Spec
-----------------------------------------------------------------------------
\* The ledger that the logs amount to.
Whole == [r \in Roots |-> [d \in Dirs |-> WholeLog(r, d)]]

LEMMA LedgerStart == ConstantsAssumption /\ Exclusive /\ Init => TheLedger!LedgerInit
<1> SUFFICES ASSUME ConstantsAssumption, Exclusive, Init PROVE TheLedger!LedgerInit
  OBVIOUS
<1>1. WholeLogs
  BY TypedInit, HeldInit, WholeLogIs
<1>2. ASSUME NEW r \in Roots, NEW d \in Dirs PROVE WholeLog(r, d) = << >>
  BY <1>1 DEF WholeLogs, Filling, Init
<1>3. Acks = {}
  BY DEF Acks, Init
<1> QED
  BY <1>2, <1>3 DEF TheLedger!LedgerInit

\* An answer confirms a write that its log holds; no other step confirms any.
LEMMA AcksStep ==
  ASSUME IInv, [Next]_vars
  PROVE  \/ Acks' = Acks
         \/ \E t \in Threads :
              /\ Ack(t) /\ R(t) \in Roots /\ D(t) \in Dirs /\ req[t].id \in Ids
              /\ req[t].id \in Range(WholeLog(R(t), D(t)))
              /\ Acks' = Acks \cup { [root |-> R(t), dir |-> D(t), id |-> req[t].id] }
<1>1. ASSUME NEW t \in Threads, Ack(t)
      PROVE  /\ R(t) \in Roots /\ D(t) \in Dirs /\ req[t].id \in Ids
             /\ req[t].id \in Range(WholeLog(R(t), D(t)))
             /\ Acks' = Acks \cup { [root |-> R(t), dir |-> D(t), id |-> req[t].id] }
  <2>1. pc[t] = "done"
    BY <1>1 DEF Ack
  <2>2. R(t) \in Roots /\ D(t) \in Dirs /\ req[t].id \in Range(WholeLog(R(t), D(t)))
    BY <2>1, DonePlace DEF IInv, Entries
  <2>3. req[t].id \in Ids
    BY <2>1, InCall DEF IInv, Sound
  <2>4. Acks' = Acks \cup { [root |-> R(t), dir |-> D(t), id |-> req[t].id] }
    <3> DEFINE brief(w) == [root |-> w.root, dir |-> w.dir, id |-> w.id]
               new == [root |-> R(t), dir |-> D(t), path |-> req[t].path, id |-> req[t].id]
    <3>1. acked' = acked \cup {new}
      BY <1>1 DEF Ack
    <3>2. brief(new) = [root |-> R(t), dir |-> D(t), id |-> req[t].id]
      OBVIOUS
    <3>3. Acks = { brief(w) : w \in acked } /\ Acks' = { brief(w) : w \in acked' }
      BY DEF Acks
    <3> HIDE DEF brief, new
    <3>4. Acks' = Acks \cup {brief(new)}
      BY <3>1, <3>3
    <3> QED
      BY <3>2, <3>4
  <2> QED
    BY <2>2, <2>3, <2>4
<1>2. acked' = acked \/ \E t \in Threads : Ack(t)
  BY WhatChanges DEF Framed
<1>3. acked' = acked => Acks' = Acks
  BY DEF Acks
<1> QED
  BY <1>1, <1>2, <1>3

LEMMA LedgerStep ==
  ASSUME Exclusive, LogsWhole, IInv, [Next]_vars
  PROVE  [TheLedger!LedgerNext]_(TheLedger!ledgervars)
<1> USE DEF Whole
<1>1. CASE Same /\ \A t \in Threads : ~FillLog(t)
  <2>1. Whole' = Whole
    BY <1>1 DEF Same
  <2>2. CASE Acks' = Acks
    BY <2>1, <2>2 DEF TheLedger!ledgervars
  <2>3. ASSUME NEW t \in Threads, R(t) \in Roots, D(t) \in Dirs, req[t].id \in Ids,
               req[t].id \in Range(WholeLog(R(t), D(t))),
               Acks' = Acks \cup { [root |-> R(t), dir |-> D(t), id |-> req[t].id] }
        PROVE  TheLedger!LedgerNext
    <3>1. req[t].id \in TheLedger!Logged(R(t), D(t))
      BY <2>3 DEF TheLedger!Logged, Range
    <3>2. TheLedger!Confirm(R(t), D(t), req[t].id)
      BY <2>1, <2>3, <3>1 DEF TheLedger!Confirm
    <3> QED
      BY <2>3, <3>2 DEF TheLedger!LedgerNext
  <2> QED
    BY <2>2, <2>3, AcksStep
<1>2. ASSUME NEW t \in Threads, FillLog(t), Extends(t)
      PROVE  TheLedger!LedgerNext
  <2>1. pc[t] = "filllog" /\ pc'[t] = "done" /\ acked' = acked
    BY <1>2 DEF FillLog, Fill, Goto, IInv, Sound, Typed, TypeOK, history
  <2>2. R(t) \in Roots
    BY <2>1 DEF IInv, Sound, Typed, CallShape, Resolved, Pcs, LockedPcs, FillPcs
  <2>3. D(t) \in Dirs /\ req[t].id \in Ids
    BY <2>1, InCall DEF IInv, Sound
  <2>4. req[t].id \notin TheLedger!Logged(R(t), D(t))
    BY <2>1, <2>2, <2>3 DEF IInv, Entries, TheLedger!Logged, Range
  <2>5. Whole' = [Whole EXCEPT ![R(t)][D(t)] = Append(@, req[t].id)]
    BY <1>2, <2>2, <2>3 DEF Extends
  <2>6. Acks' = Acks
    BY <2>1 DEF Acks
  <2>7. TheLedger!Record(R(t), D(t), req[t].id)
    BY <2>4, <2>5, <2>6 DEF TheLedger!Record
  <2> QED
    BY <2>2, <2>3, <2>7 DEF TheLedger!LedgerNext
<1> QED
  BY <1>1, <1>2, WholeStep DEF IInv

\* Under the same conditions the write path implements the ledger: a log only
\* grows at its end, by one entry for each write, and a write is acknowledged
\* only once it is logged.
THEOREM ImplementsTheLedger == Exclusive /\ LogsWhole => (Spec => ImplementsLedger)
<1> SUFFICES ASSUME Exclusive, LogsWhole PROVE Spec => ImplementsLedger
  OBVIOUS
<1>1. Init => IInv /\ TheLedger!LedgerInit
  BY IInvInit, LedgerStart, ConstantsAssumption
<1>2. IInv /\ [Next]_vars => IInv' /\ [TheLedger!LedgerNext]_(TheLedger!ledgervars)
  BY IInvNext, LedgerStep
<1> QED
  BY <1>1, <1>2, PTL DEF Spec, ImplementsLedger, TheLedger!LedgerSpec
-----------------------------------------------------------------------------
\* The rows rs are about the documents of d, the ones left to draw excepted: one
\* for each, drawn from what is on disk.
DocsOf(r, d) == { p \in Listed : DirOf[p] = d /\ doc[r][p] # Missing }
Own(rs, d) == { row \in rs : DirOf[row.path] = d }
Drawn(rs, r, d, left) ==
  /\ \A p \in left : DirOf[p] = d => p \in DocsOf(r, d)
  /\ \A row \in Own(rs, d) :
       /\ row.path \in DocsOf(r, d) \ left
       /\ row.seen = Seen(doc[r][row.path]) \/ (faults > 0 /\ row.seen = Blank)
  /\ \A p \in DocsOf(r, d) \ left : \E row \in Own(rs, d) : row.path = p
  /\ \A row1, row2 \in Own(rs, d) : row1.path = row2.path => row1 = row2

\* From OpenDoc to the answer a write may have the index out of date.
Early == {"idle", "lock", "put"}
Late == {"readlog", "log", "filllog", "done"}

At(t, r, d) == R(t) = r /\ D(t) = d

\* What is on disk and in the hands of the writers.
IndexKept ==
  /\ \A t \in Threads : pc[t] \in Early \cup {"filldoc", "list"} => rows[t] = {}
  /\ \A r \in Roots, d \in Dirs :
       /\ << r, d >> \notin stale => Drawn(index[r][d], r, d, {})
       /\ \A t \in Threads : At(t, r, d) =>
            /\ pc[t] \notin Early => << r, d >> \in stale
            /\ pc[t] \in {"index", "fillindex"} => Drawn(rows[t], r, d, refs[t])
            /\ pc[t] = "fillindex" => refs[t] = {} /\ index[r][d] = {}
            /\ pc[t] \in Late => Drawn(index[r][d], r, d, {})

\* No document on disk is of a write still to come.
DocsPast ==
  \A r \in Roots, p \in Paths :
    doc[r][p] \in Ids => doc[r][p][2] <= calls[doc[r][p][1]]

\* The steps that change no document, no index and no writer's rows.
Plain ==
  /\ doc' = doc /\ index' = index /\ stale' = stale
  /\ faults > 0 => faults' > 0
  /\ \A t \in Threads :
       \/ /\ pc'[t] \in Early
          /\ rows'[t] = {} \/ (pc[t] \in Early /\ rows'[t] = rows[t])
       \/ /\ req'[t] = req[t] /\ rows'[t] = rows[t] /\ refs'[t] = refs[t]
          /\ pc'[t] = pc[t] \/ (pc[t] \in Late /\ pc'[t] \in Late)

\* The steps of t that do.
Changes(t) ==
  \/ OpenDoc(t) \/ FillDoc(t) \/ ListRefs(t) \/ GetRef(t) \/ GetRefFails(t)
  \/ OpenIndex(t) \/ FillIndex(t) \/ Ack(t)

LEMMA PlainOr ==
  ASSUME ConstantsAssumption, Typed, [Next]_vars
  PROVE  Plain \/ \E t \in Threads : Changes(t)
<1> USE DEF disk, locks, local, history, bounds, Typed, TypeOK, Plain, Early, Late
<1>1. ASSUME NEW t \in Threads, Submit(t) PROVE Plain
  BY <1>1 DEF Submit, NewCall, Goto
<1>2. ASSUME NEW t \in Threads, Reject(t) \/ ReadConcept(t) \/ LockBundle(t) PROVE Plain
  BY <1>2 DEF Reject, ReadConcept, NewCall, LockBundle, Goto
<1>3. ASSUME NEW t \in Threads, UnknownAlias(t) \/ IOFails(t) \/ LogTooLarge(t) \/ FillFails(t)
      PROVE  Plain
  <2>1. /\ doc' = doc /\ index' = index /\ stale' = stale
        /\ faults > 0 => faults' > 0
    BY <1>3, ConstantsAssumption DEF UnknownAlias, IOFails, LogTooLarge, FillFails
  <2>2. \E result \in Outcomes : Finish(t, result)
    BY <1>3 DEF UnknownAlias, IOFails, LogTooLarge, FillFails, Outcomes
  <2> QED
    BY <2>1, <2>2 DEF Finish, Goto
<1>4. ASSUME NEW t \in Threads, ReadLog(t) \/ OpenLog(t) \/ FillLog(t) PROVE Plain
  BY <1>4 DEF ReadLog, OpenLog, Open, FillLog, Fill, Goto
<1>5. ASSUME NEW p \in Procs, Kill(p) PROVE Plain
  BY <1>5 DEF Kill
<1>6. CASE UNCHANGED vars
  BY <1>6 DEF vars
<1> QED
  BY <1>1, <1>2, <1>3, <1>4, <1>5, <1>6 DEF Next, Write, Changes

\* A write that grows big is none that is on disk.
LEMMA SeenStays ==
  ASSUME ConstantsAssumption, Typed, DocsPast, [Next]_vars,
         NEW r \in Roots, NEW p \in Paths, doc'[r][p] = doc[r][p]
  PROVE  Seen(doc[r][p])' = Seen(doc[r][p])
<1> USE DEF disk, locks, local, history, bounds
<1>1. \/ big' = big
      \/ \E t \in Threads : calls[t] < MaxCalls /\ big' = big \cup {<< t, calls[t] + 1 >>}
  <2>1. CASE \E t \in Threads : Submit(t)
    BY <2>1 DEF Submit, NewCall
  <2> QED
    BY <2>1, WhatChanges DEF Framed
<1>2. ASSUME NEW t \in Threads, calls[t] < MaxCalls PROVE doc[r][p] # << t, calls[t] + 1 >>
  <2>1. calls[t] \in Nat
    BY DEF Typed, TypeOK, ConstantsAssumption
  <2>2. << t, calls[t] + 1 >> \in Ids
    BY <1>2, <2>1 DEF Ids, ConstantsAssumption
  <2>3. doc[r][p] \in Ids => doc[r][p][2] <= calls[doc[r][p][1]]
    BY DEF DocsPast
  <2> QED
    BY <2>1, <2>2, <2>3
<1> QED
  BY <1>1, <1>2 DEF Seen

\* A step that changes no document of d leaves the rows of d drawn, in the index
\* as in the hands of a writer that goes on drawing from them.
LEMMA RowsStay ==
  ASSUME ConstantsAssumption, Typed, DocsPast, [Next]_vars,
         NEW r \in Roots, NEW d \in Dirs,
         \A p \in Paths : DirOf[p] = d => doc'[r][p] = doc[r][p]
  PROVE  /\ index'[r][d] = index[r][d] /\ Drawn(index[r][d], r, d, {}) =>
              Drawn(index[r][d], r, d, {})'
         /\ \A t \in Threads :
              rows'[t] = rows[t] /\ refs'[t] = refs[t] /\ Drawn(rows[t], r, d, refs[t]) =>
                Drawn(rows[t], r, d, refs[t])'
<1>1. DocsOf(r, d)' = DocsOf(r, d) /\ Listed \subseteq Paths
  BY DEF DocsOf, ConstantsAssumption
<1>2. faults > 0 => faults' > 0
  <2>1. faults' = faults \/ faults' = faults + 1
    BY WhatChanges DEF Framed
  <2> QED
    BY <2>1 DEF Typed, TypeOK
<1>3. \A p \in DocsOf(r, d) : Seen(doc[r][p])' = Seen(doc[r][p])
  BY <1>1, SeenStays DEF DocsOf
<1>4. ASSUME NEW rs, NEW left, Drawn(rs, r, d, left)
      PROVE  /\ \A p \in left : DirOf[p] = d => p \in DocsOf(r, d)'
             /\ \A row \in Own(rs, d) :
                  /\ row.path \in DocsOf(r, d)' \ left
                  /\ row.seen = Seen(doc[r][row.path])' \/ (faults' > 0 /\ row.seen = Blank)
             /\ \A p \in DocsOf(r, d)' \ left : \E row \in Own(rs, d) : row.path = p
             /\ \A row1, row2 \in Own(rs, d) : row1.path = row2.path => row1 = row2
  BY <1>1, <1>2, <1>3, <1>4 DEF Drawn
<1>5. ASSUME index'[r][d] = index[r][d], Drawn(index[r][d], r, d, {})
      PROVE  Drawn(index[r][d], r, d, {})'
  <2>1. Own(index[r][d], d)' = Own(index[r][d], d)
    BY <1>5 DEF Own
  <2>2. /\ \A row \in Own(index[r][d], d) :
             /\ row.path \in DocsOf(r, d)' \ {}
             /\ row.seen = Seen(doc[r][row.path])' \/ (faults' > 0 /\ row.seen = Blank)
        /\ \A p \in DocsOf(r, d)' \ {} : \E row \in Own(index[r][d], d) : row.path = p
        /\ \A row1, row2 \in Own(index[r][d], d) : row1.path = row2.path => row1 = row2
    BY <1>4, <1>5
  <2> QED
    BY <2>1, <2>2 DEF Drawn
<1>6. ASSUME NEW t \in Threads, rows'[t] = rows[t], refs'[t] = refs[t],
             Drawn(rows[t], r, d, refs[t])
      PROVE  Drawn(rows[t], r, d, refs[t])'
  <2>1. Own(rows[t], d)' = Own(rows[t], d)
    BY <1>6 DEF Own
  <2>2. /\ \A p \in refs[t] : DirOf[p] = d => p \in DocsOf(r, d)'
        /\ \A row \in Own(rows[t], d) :
             /\ row.path \in DocsOf(r, d)' \ refs[t]
             /\ row.seen = Seen(doc[r][row.path])' \/ (faults' > 0 /\ row.seen = Blank)
        /\ \A p \in DocsOf(r, d)' \ refs[t] : \E row \in Own(rows[t], d) : row.path = p
        /\ \A row1, row2 \in Own(rows[t], d) : row1.path = row2.path => row1 = row2
    BY <1>4, <1>6
  <2> QED
    BY <1>6, <2>1, <2>2 DEF Drawn
<1> QED
  BY <1>5, <1>6

\* Plain steps keep the index right.
LEMMA PlainKeeps ==
  ASSUME ConstantsAssumption, Typed, DocsPast, IndexKept, [Next]_vars, Plain
  PROVE  IndexKept'
<1>1. \A t \in Threads : pc'[t] \in Early \cup {"filldoc", "list"} => rows'[t] = {}
  BY DEF IndexKept, Plain, Early, Late
<1>2. ASSUME NEW r \in Roots, NEW d \in Dirs, << r, d >> \notin stale'
      PROVE  Drawn(index[r][d], r, d, {})'
  BY <1>2, RowsStay DEF IndexKept, Plain
<1>3. ASSUME NEW r \in Roots, NEW d \in Dirs, NEW t \in Threads, At(t, r, d)'
      PROVE  /\ pc'[t] \notin Early => << r, d >> \in stale'
             /\ pc'[t] \in {"index", "fillindex"} => Drawn(rows[t], r, d, refs[t])'
             /\ pc'[t] = "fillindex" => refs'[t] = {} /\ index'[r][d] = {}
             /\ pc'[t] \in Late => Drawn(index[r][d], r, d, {})'
  <2> SUFFICES ASSUME pc'[t] \notin Early
               PROVE  /\ << r, d >> \in stale'
                      /\ pc'[t] \in {"index", "fillindex"} => Drawn(rows[t], r, d, refs[t])'
                      /\ pc'[t] = "fillindex" => refs'[t] = {} /\ index'[r][d] = {}
                      /\ pc'[t] \in Late => Drawn(index[r][d], r, d, {})'
    BY DEF Early, Late
  <2>1. /\ req'[t] = req[t] /\ rows'[t] = rows[t] /\ refs'[t] = refs[t]
        /\ pc'[t] = pc[t] \/ (pc[t] \in Late /\ pc'[t] \in Late)
        /\ doc' = doc /\ index' = index /\ stale' = stale
    BY DEF Plain
  <2>2. At(t, r, d) /\ pc[t] \notin Early
    BY <1>3, <2>1 DEF At, R, D, Early, Late
  <2> QED
    BY <2>1, <2>2, RowsStay DEF IndexKept, Late
<1> QED
  BY <1>1, <1>2, <1>3 DEF IndexKept

\* Where one process and one alias lead to each root, a writer changes the
\* documents and the index of its own directory, and no other writer is there.
LEMMA ChangeIsLocal ==
  ASSUME ConstantsAssumption, Exclusive, Typed, Held, NEW t \in Threads, Changes(t)
  PROVE  /\ pc[t] \in LockedPcs /\ R(t) \in Roots /\ D(t) \in Dirs
         /\ req[t].path \in Paths /\ DirOf[req[t].path] = D(t)
         /\ \A u \in Threads : u # t =>
              /\ pc'[u] = pc[u] /\ req'[u] = req[u]
              /\ rows'[u] = rows[u] /\ refs'[u] = refs[u]
              /\ pc[u] \in LockedPcs => R(u) # R(t)
         /\ \A r \in Roots, d \in Dirs : ~ At(t, r, d) =>
              /\ \A p \in Paths : DirOf[p] = d => doc'[r][p] = doc[r][p]
              /\ index'[r][d] = index[r][d]
              /\ << r, d >> \in stale' <=> << r, d >> \in stale
<1> USE DEF disk, locks, local, history, bounds
<1>1. pc[t] \in LockedPcs /\ R(t) # NoRoot
  <2>1. CASE OpenDoc(t) \/ OpenIndex(t)
    BY <2>1 DEF OpenDoc, OpenIndex, Open, LockedPcs
  <2>2. CASE FillDoc(t) \/ FillIndex(t) \/ ListRefs(t) \/ GetRef(t) \/ GetRefFails(t) \/ Ack(t)
    <3>1. pc[t] \in LockedPcs \cap Resolved
      BY <2>2 DEF FillDoc, FillIndex, Fill, ListRefs, GetRef, GetRefFails, Ack, LockedPcs,
         FillPcs, Resolved, Pcs
    <3> QED
      BY <3>1, ConstantsAssumption DEF Typed, CallShape
  <2> QED
    BY <2>1, <2>2 DEF Changes
<1>2. pc[t] # "idle"
  BY <1>1 DEF LockedPcs, FillPcs
<1>3. R(t) \in Roots /\ D(t) \in Dirs /\ req[t].path \in Paths /\ DirOf[req[t].path] = D(t)
  BY <1>1, <1>2, InCall DEF D
<1>4. ASSUME NEW u \in Threads, u # t
      PROVE  /\ pc'[u] = pc[u] /\ req'[u] = req[u]
             /\ rows'[u] = rows[u] /\ refs'[u] = refs[u]
             /\ pc[u] \in LockedPcs => R(u) # R(t)
  <2>1. pc[u] \in LockedPcs => R(u) # R(t)
    BY <1>1, <1>3, <1>4, Alone
  <2>2. CASE OpenDoc(t) \/ OpenIndex(t) \/ FillDoc(t) \/ FillIndex(t)
    BY <1>4, <2>1, <2>2 DEF OpenDoc, OpenIndex, Open, FillDoc, FillIndex, Fill, Goto, Typed, TypeOK
  <2>3. CASE ListRefs(t) \/ GetRef(t) \/ GetRefFails(t)
    BY <1>4, <2>1, <2>3 DEF ListRefs, GetRef, GetRefFails, DrawRow, Goto, Typed, TypeOK
  <2>4. CASE Ack(t)
    BY <1>4, <2>1, <2>4 DEF Ack, Finish, Goto, Typed, TypeOK
  <2> QED
    BY <2>2, <2>3, <2>4 DEF Changes
<1>5. ASSUME NEW r \in Roots, NEW d \in Dirs, ~ At(t, r, d)
      PROVE  /\ \A p \in Paths : DirOf[p] = d => doc'[r][p] = doc[r][p]
             /\ index'[r][d] = index[r][d]
             /\ << r, d >> \in stale' <=> << r, d >> \in stale
  <2>1. CASE OpenDoc(t) \/ FillDoc(t)
    <3>1. /\ \E v : doc' = [doc EXCEPT ![R(t)][req[t].path] = v]
          /\ index' = index /\ (stale' = stale \/ stale' = stale \cup {<< R(t), D(t) >>})
      BY <2>1 DEF OpenDoc, FillDoc, Fill
    <3>2. doc \in [Roots -> [Paths -> Docs]]
      BY DEF Typed, TypeOK
    <3>3. \A p \in Paths : DirOf[p] = d => doc'[r][p] = doc[r][p]
      BY <1>3, <1>5, <3>1, <3>2 DEF At
    <3> QED
      BY <1>5, <3>1, <3>3 DEF At
  <2>2. CASE OpenIndex(t) \/ FillIndex(t)
    <3>1. /\ \E v : index' = [index EXCEPT ![R(t)][D(t)] = v]
          /\ doc' = doc /\ stale' = stale
      BY <2>2 DEF OpenIndex, FillIndex, Fill
    <3>2. index \in [Roots -> [Dirs -> SUBSET Row]]
      BY DEF Typed, TypeOK
    <3>3. index'[r][d] = index[r][d]
      BY <1>3, <1>5, <3>1, <3>2 DEF At
    <3> QED
      BY <3>1, <3>3
  <2>3. CASE ListRefs(t) \/ GetRef(t) \/ GetRefFails(t)
    BY <2>3 DEF ListRefs, GetRef, GetRefFails, DrawRow
  <2>4. CASE Ack(t)
    BY <1>5, <2>4 DEF Ack, At
  <2> QED
    BY <2>1, <2>2, <2>3, <2>4 DEF Changes
<1> QED
  BY <1>1, <1>3, <1>4, <1>5

\* What the writer's own step makes of its directory.
OwnKept(t, r, d) ==
  /\ << r, d >> \notin stale => Drawn(index[r][d], r, d, {})
  /\ pc[t] \in Early \cup {"filldoc", "list"} => rows[t] = {}
  /\ pc[t] \notin Early => << r, d >> \in stale
  /\ pc[t] \in {"index", "fillindex"} => Drawn(rows[t], r, d, refs[t])
  /\ pc[t] = "fillindex" => refs[t] = {} /\ index[r][d] = {}
  /\ pc[t] \in Late => Drawn(index[r][d], r, d, {})

\* Each step of the writer keeps its directory right.
LEMMA ChangeKeepsOwn ==
  ASSUME ConstantsAssumption, Exclusive, Typed, Held, DocsPast, IndexKept, [Next]_vars,
         NEW t \in Threads, Changes(t), NEW r \in Roots, NEW d \in Dirs, At(t, r, d)
  PROVE  (OwnKept(t, r, d)' /\ At(t, r, d)') \/ Ack(t)
<1> USE DEF disk, locks, local, history, bounds, Early, Late
<1>0. OwnKept(t, r, d) /\ R(t) \in Roots /\ D(t) \in Dirs /\ req[t].path \in Paths
      /\ DirOf[req[t].path] = D(t)
  BY ChangeIsLocal DEF IndexKept, OwnKept
<1>1. CASE OpenDoc(t)
  <2>1. pc[t] = "put" /\ pc'[t] = "filldoc" /\ req' = req /\ rows' = rows
        /\ << r, d >> \in stale'
    BY <1>1 DEF OpenDoc, Open, Goto, At, Typed, TypeOK
  <2> QED
    BY <1>0, <2>1 DEF OwnKept, At, R, D
<1>2. CASE FillDoc(t)
  <2>1. pc[t] = "filldoc" /\ pc'[t] = "list" /\ req' = req /\ rows' = rows /\ stale' = stale
    BY <1>2 DEF FillDoc, Fill, Goto, Typed, TypeOK
  <2> QED
    BY <1>0, <2>1 DEF OwnKept, At, R, D
<1>3. CASE ListRefs(t)
  <2>1. /\ pc[t] = "list" /\ pc'[t] = "index" /\ req' = req /\ rows' = rows /\ stale' = stale
        /\ doc' = doc /\ refs'[t] = { p \in Listed \cap Under[d] : doc[r][p] # Missing }
    BY <1>3 DEF ListRefs, Goto, At, Typed, TypeOK
  <2>2. /\ rows'[t] = {} /\ DocsOf(r, d)' \subseteq refs'[t]
        /\ \A p \in refs'[t] : DirOf[p] = d => p \in DocsOf(r, d)'
    BY <1>0, <2>1, ConstantsAssumption DEF OwnKept, DocsOf
  <2>3. Drawn(rows[t], r, d, refs[t])'
    BY <2>2 DEF Drawn, Own
  <2> QED
    BY <1>0, <2>1, <2>3 DEF OwnKept, At, R, D
<1>4. CASE GetRef(t) \/ GetRefFails(t)
  <2>1. PICK p \in refs[t] : \E v :
          /\ DrawRow(t, p, v)
          /\ v = Seen(doc[R(t)][p]) \/ (faults' > 0 /\ v = Blank)
    <3>1. CASE GetRef(t)
      BY <3>1 DEF GetRef
    <3>2. CASE GetRefFails(t)
      <4>1. faults' > 0
        BY <3>2 DEF GetRefFails, Typed, TypeOK
      <4> QED
        BY <3>2, <4>1 DEF GetRefFails
    <3> QED
      BY <1>4, <3>1, <3>2
  <2>1a. PICK v : /\ DrawRow(t, p, v)
                  /\ v = Seen(doc[R(t)][p]) \/ (faults' > 0 /\ v = Blank)
    BY <2>1
  <2>2. /\ pc[t] = "index" /\ pc' = pc /\ req' = req /\ stale' = stale
        /\ doc' = doc /\ index' = index /\ big' = big
        /\ rows'[t] = rows[t] \cup {[path |-> p, seen |-> v]} /\ refs'[t] = refs[t] \ {p}
    BY <1>4, <2>1a DEF GetRef, GetRefFails, DrawRow, Typed, TypeOK
  <2>3. Drawn(rows[t], r, d, refs[t])'
    <3> DEFINE new == [path |-> p, seen |-> v]
    <3>1. new.path = p /\ new.seen = v
      OBVIOUS
    <3>2. Drawn(rows[t], r, d, refs[t])
      BY <1>0, <2>2 DEF OwnKept
    <3>3. DocsOf(r, d)' = DocsOf(r, d) /\ (faults > 0 => faults' > 0)
          /\ \A q \in Paths : Seen(doc[r][q])' = Seen(doc[r][q])
      BY <1>4, <2>2 DEF DocsOf, GetRef, GetRefFails, Typed, TypeOK, Seen
    <3>4. Own(rows[t], d)' = IF DirOf[p] = d THEN Own(rows[t], d) \cup {new} ELSE Own(rows[t], d)
      BY <2>2, <3>1 DEF Own
    <3>5. R(t) = r /\ p \in refs[t] /\ refs'[t] = refs[t] \ {p}
      BY <2>2 DEF At
    <3>6. \A row \in Own(rows[t], d) : row.path \in DocsOf(r, d) /\ row.path # p
      BY <3>2, <3>5 DEF Drawn
    <3>7. DocsOf(r, d) \subseteq Paths /\ \A q \in DocsOf(r, d) : DirOf[q] = d
      BY ConstantsAssumption DEF DocsOf
    <3>8. DirOf[p] = d => p \in DocsOf(r, d)
      BY <3>2, <3>5 DEF Drawn
    <3> HIDE DEF new
    <3>9. /\ \A q \in refs'[t] : DirOf[q] = d => q \in DocsOf(r, d)'
          /\ \A q \in DocsOf(r, d)' \ refs'[t] : \E row \in Own(rows[t], d)' : row.path = q
      BY <3>1, <3>2, <3>3, <3>4, <3>5, <3>7, <3>8 DEF Drawn
    <3>10. ASSUME NEW row \in Own(rows[t], d)'
           PROVE  /\ row.path \in DocsOf(r, d)' \ refs'[t]
                  /\ row.seen = Seen(doc[r][row.path])' \/ (faults' > 0 /\ row.seen = Blank)
      <4>1. CASE row \in Own(rows[t], d)
        BY <3>2, <3>3, <3>5, <3>6, <3>7, <4>1 DEF Drawn
      <4>2. CASE DirOf[p] = d /\ row = new
        BY <2>1a, <3>1, <3>3, <3>5, <3>7, <3>8, <4>2
      <4> QED
        BY <3>4, <4>1, <4>2
    <3>11. \A row1, row2 \in Own(rows[t], d)' : row1.path = row2.path => row1 = row2
      BY <3>1, <3>2, <3>4, <3>6 DEF Drawn
    <3> QED
      BY <3>9, <3>10, <3>11 DEF Drawn
  <2>4. << r, d >> \in stale
    BY <1>0, <2>2 DEF OwnKept
  <2> QED
    BY <2>2, <2>3, <2>4 DEF OwnKept, At, R, D
<1>5. CASE OpenIndex(t)
  <2>1. /\ pc[t] = "index" /\ pc'[t] = "fillindex" /\ refs[t] = {} /\ req' = req
        /\ rows' = rows /\ refs' = refs /\ stale' = stale /\ doc' = doc
        /\ index'[r][d] = {}
    BY <1>5 DEF OpenIndex, Open, Goto, At, Typed, TypeOK
  <2>2. Drawn(rows[t], r, d, refs[t])'
    BY <1>0, <2>1, RowsStay DEF OwnKept
  <2> QED
    BY <1>0, <2>1, <2>2 DEF OwnKept, At, R, D
<1>6. CASE FillIndex(t)
  <2>1. /\ pc[t] = "fillindex" /\ pc'[t] = "readlog" /\ req' = req
        /\ rows' = rows /\ refs' = refs /\ stale' = stale /\ doc' = doc
    BY <1>6 DEF FillIndex, Fill, Goto, Typed, TypeOK
  <2>2. index[r][d] = {} /\ refs[t] = {} /\ Drawn(rows[t], r, d, refs[t])
    BY <1>0, <2>1 DEF OwnKept
  <2>3. index'[r][d] = rows[t]
    <3>1. PICK tail \in SUBSET index[R(t)][D(t)] :
            index' = [index EXCEPT ![R(t)][D(t)] = rows[t] \cup tail]
      BY <1>6 DEF FillIndex
    <3>2. tail = {}
      BY <2>2, <3>1 DEF At
    <3> QED
      BY <3>1, <3>2 DEF At, Typed, TypeOK
  <2>4. Drawn(rows[t], r, d, refs[t])'
    BY <2>1, <2>2, RowsStay
  <2>5. Drawn(index[r][d], r, d, {})'
    BY <2>1, <2>2, <2>3, <2>4 DEF Drawn
  <2> QED
    BY <1>0, <2>1, <2>5 DEF OwnKept, At, R, D
<1> QED
  BY <1>1, <1>2, <1>3, <1>4, <1>5, <1>6 DEF Changes

\* What the index invariant says of one writer and its directory.
LEMMA AtKept ==
  ASSUME IndexKept, NEW r \in Roots, NEW d \in Dirs, NEW u \in Threads, At(u, r, d)
  PROVE  OwnKept(u, r, d)
BY DEF IndexKept, OwnKept

LEMMA IndexKeptNext ==
  ASSUME ConstantsAssumption, Exclusive, Typed, Held, DocsPast, IndexKept, [Next]_vars
  PROVE  IndexKept'
<1>1. ASSUME NEW t \in Threads, Changes(t) PROVE IndexKept'
  <2>0. /\ R(t) \in Roots /\ D(t) \in Dirs
        /\ \A u \in Threads : u # t =>
              /\ pc'[u] = pc[u] /\ req'[u] = req[u]
              /\ rows'[u] = rows[u] /\ refs'[u] = refs[u]
              /\ pc[u] \in LockedPcs => R(u) # R(t)
        /\ \A r \in Roots, d \in Dirs : ~ At(t, r, d) =>
              /\ \A p \in Paths : DirOf[p] = d => doc'[r][p] = doc[r][p]
              /\ index'[r][d] = index[r][d]
              /\ << r, d >> \in stale' <=> << r, d >> \in stale
    BY <1>1, ChangeIsLocal
  <2>1. PICK r0 \in Roots, d0 \in Dirs : At(t, r0, d0)
    BY <2>0 DEF At
  <2>2. \/ OwnKept(t, r0, d0)' /\ At(t, r0, d0)'
        \/ /\ pc[t] = "done" /\ pc'[t] = "idle" /\ rows'[t] = {}
           /\ doc' = doc /\ index' = index
    <3>1. CASE Ack(t)
      BY <3>1 DEF Ack, Finish, Goto, disk, Typed, TypeOK
    <3>2. CASE ~ Ack(t)
      BY <1>1, <2>1, <3>2, ChangeKeepsOwn
    <3> QED
      BY <3>1, <3>2
  <2>3. ASSUME NEW r \in Roots, NEW d \in Dirs, << r, d >> \notin stale'
        PROVE  Drawn(index[r][d], r, d, {})'
    <3>1. CASE r = r0 /\ d = d0
      <4>1. CASE OwnKept(t, r0, d0)'
        BY <2>3, <3>1, <4>1 DEF OwnKept
      <4>2. CASE pc[t] = "done" /\ doc' = doc /\ index' = index
        <5>1. Drawn(index[r][d], r, d, {})
          BY <2>1, <3>1, <4>2 DEF IndexKept, Late
        <5> QED
          BY <4>2, <5>1, RowsStay
      <4> QED
        BY <2>2, <4>1, <4>2
    <3>2. CASE ~ At(t, r, d)
      <4>1. Drawn(index[r][d], r, d, {})
        BY <2>0, <2>3, <3>2 DEF IndexKept
      <4> QED
        BY <2>0, <3>2, <4>1, RowsStay
    <3> QED
      BY <2>1, <3>1, <3>2 DEF At
  <2>4. ASSUME NEW u \in Threads, u # t, NEW r \in Roots, NEW d \in Dirs, At(u, r, d)',
               pc'[u] \notin Early
        PROVE  OwnKept(u, r, d)'
    <3>1. /\ At(u, r, d) /\ pc'[u] = pc[u] /\ rows'[u] = rows[u] /\ refs'[u] = refs[u]
          /\ pc[u] \in LockedPcs
      BY <2>0, <2>4 DEF At, R, D, Early, Typed, TypeOK, Pcs
    <3>2. ~ At(t, r, d)
      BY <2>0, <2>4, <3>1 DEF At
    <3>3. << r, d >> \in stale' /\ index'[r][d] = index[r][d]
      BY <2>0, <2>4, <3>1, <3>2 DEF IndexKept
    <3>4. OwnKept(u, r, d)
      <4>1. At(u, r, d)
        BY <3>1
      <4> QED
        BY <4>1, AtKept, Zenon
    <3>5. /\ pc[u] \in {"filldoc", "list"} => rows[u] = {}
          /\ pc[u] \in {"index", "fillindex"} => Drawn(rows[u], r, d, refs[u])
          /\ pc[u] = "fillindex" => refs[u] = {} /\ index[r][d] = {}
          /\ pc[u] \in Late => Drawn(index[r][d], r, d, {})
      BY <3>4 DEF OwnKept
    <3>6. /\ pc[u] \in {"index", "fillindex"} => Drawn(rows[u], r, d, refs[u])'
          /\ pc[u] \in Late => Drawn(index[r][d], r, d, {})'
      BY <2>0, <3>1, <3>2, <3>3, <3>5, RowsStay
    <3> QED
      BY <2>4, <3>1, <3>3, <3>5, <3>6 DEF OwnKept
  <2>5. ASSUME NEW u \in Threads, NEW r \in Roots, NEW d \in Dirs, At(u, r, d)'
        PROVE  /\ pc'[u] \notin Early => << r, d >> \in stale'
               /\ pc'[u] \in {"index", "fillindex"} => Drawn(rows[u], r, d, refs[u])'
               /\ pc'[u] = "fillindex" => refs'[u] = {} /\ index'[r][d] = {}
               /\ pc'[u] \in Late => Drawn(index[r][d], r, d, {})'
    <3> SUFFICES ASSUME pc'[u] \notin Early PROVE OwnKept(u, r, d)'
      BY DEF OwnKept, Early, Late
    <3>1. CASE u = t
      <4>1. OwnKept(t, r0, d0)' /\ At(t, r0, d0)'
        BY <2>2, <3>1 DEF Early
      <4>2. r = r0 /\ d = d0
        BY <2>5, <3>1, <4>1 DEF At
      <4> QED
        BY <3>1, <4>1, <4>2
    <3>2. CASE u # t
      BY <2>4, <2>5, <3>2
    <3> QED
      BY <3>1, <3>2
  <2>6. \A u \in Threads : pc'[u] \in Early \cup {"filldoc", "list"} => rows'[u] = {}
    BY <2>0, <2>2 DEF IndexKept, OwnKept
  <2> QED
    BY <2>3, <2>5, <2>6 DEF IndexKept
<1>2. CASE Plain
  BY <1>2, PlainKeeps
<1> QED
  BY <1>1, <1>2, PlainOr

LEMMA DocsPastNext ==
  ASSUME ConstantsAssumption, Typed, DocsPast, [Next]_vars
  PROVE  DocsPast'
<1>1. \A t \in Threads : calls[t] \in Nat /\ calls'[t] \in Nat /\ calls[t] <= calls'[t]
  <2>1. Typed' /\ CallsMove
    BY TypedNext, CallsStep
  <2> QED
    BY <2>1 DEF CallsMove, Typed, TypeOK, ConstantsAssumption
<1>2. ASSUME NEW r \in Roots, NEW p \in Paths, doc[r][p] \in Ids
      PROVE  doc[r][p][2] <= calls'[doc[r][p][1]]
  <2>1. doc[r][p][1] \in Threads /\ doc[r][p][2] \in Nat
    BY <1>2 DEF Ids
  <2> QED
    BY <1>1, <1>2, <2>1 DEF DocsPast
<1>3. CASE \E t \in Threads : OpenDoc(t) \/ FillDoc(t)
  <2>1. PICK t \in Threads : OpenDoc(t) \/ FillDoc(t)
    BY <1>3
  <2>2. pc[t] # "idle" /\ calls' = calls
    BY <2>1 DEF OpenDoc, Open, FillDoc, Fill, bounds
  <2>3. req[t].id = << t, calls[t] >>
    BY <2>2 DEF Typed, CallShape
  <2>4. PICK v \in {Blank, Garbled, req[t].id} : doc' = [doc EXCEPT ![R(t)][req[t].path] = v]
    BY <2>1 DEF OpenDoc, FillDoc
  <2>5. v \in Ids => v = << t, calls[t] >>
    BY <2>3, <2>4, ConstantsAssumption
  <2>6. ASSUME NEW r \in Roots, NEW p \in Paths PROVE doc'[r][p] = doc[r][p] \/ doc'[r][p] = v
    BY <2>4 DEF Typed, TypeOK
  <2> QED
    BY <1>1, <1>2, <2>2, <2>5, <2>6 DEF DocsPast
<1>4. CASE doc' = doc
  BY <1>2, <1>4 DEF DocsPast
<1>5. doc' = doc \/ \E t \in Threads : OpenDoc(t) \/ FillDoc(t)
  BY WhatChanges DEF Framed
<1> QED
  BY <1>3, <1>4, <1>5

\* Where one process and one alias lead to each root, index.md of a directory is
\* right whenever nobody has written there since its last acknowledged write:
\* one row for each document, drawn from the version on disk, whichever writes of
\* the bundle fail or are killed half-way (concept.go:174-197).
THEOREM IndexStaysFresh == Exclusive => (Spec => []IndexFresh)
<1> SUFFICES ASSUME Exclusive PROVE Spec => []IndexFresh
  OBVIOUS
<1> DEFINE Inv == Typed /\ Held /\ DocsPast /\ IndexKept
<1>1. Init => Inv
  <2> SUFFICES ASSUME Init PROVE DocsPast /\ IndexKept
    BY ConstantsAssumption, TypedInit, HeldInit
  <2>1. DocsPast
    BY ConstantsAssumption DEF Init, DocsPast
  <2>2. IndexKept
    BY DEF Init, IndexKept, Early, Late
  <2> QED
    BY <2>1, <2>2
<1>2. Inv /\ [Next]_vars => Inv'
  BY ConstantsAssumption, TypedNext, HeldNext, DocsPastNext, IndexKeptNext
<1>3. Inv => IndexFresh
  <2> SUFFICES ASSUME Inv, NEW r \in Roots, NEW d \in Dirs, << r, d >> \notin stale
               PROVE  /\ { row.path : row \in Own(index[r][d], d) } = DocsOf(r, d)
                      /\ \A row1, row2 \in Own(index[r][d], d) :
                           row1.path = row2.path => row1 = row2
                      /\ \A row \in Own(index[r][d], d) :
                           \/ row.seen = Seen(doc[r][row.path])
                           \/ faults > 0 /\ row.seen = Blank
    BY DEF IndexFresh, Own, DocsOf
  <2> QED
    BY DEF IndexKept, Drawn
<1> QED
  BY <1>1, <1>2, <1>3, PTL DEF Spec
=============================================================================
