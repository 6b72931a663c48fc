------------------------- MODULE YamlRegistryProofs -------------------------
(***************************************************************************)
(* Proofs about YamlRegistry: its types, that no update is lost, that an   *)
(* alias never has two entries, that the repository is a registry on which *)
(* every call is atomic (BundleMap), and that entries keep their order.    *)
(***************************************************************************)
EXTENDS YamlRegistry, TLAPS

\* What protects the file: the advisory lock, or there being one process.
Protected == FlockWorks \/ \A t, u \in Threads : ProcOf[t] = ProcOf[u]

\* The registry operators keep a registry a registry.
LEMMA EffectType ==
  ASSUME NEW r \in Seq(Entry), NEW o \in Ops
  PROVE  Effect(r, o) \in Seq(Entry)
<1>1. CASE o.kind = "put"
  <2> DEFINE e == [alias |-> o.alias, val |-> o.val]
  <2>1. e \in Entry
    BY <1>1 DEF Ops, Entry
  <2>2. CASE e.alias \in AliasesOf(r)
    <3>1. At(r, e.alias) \in DOMAIN r
      BY <2>2 DEF At, AliasesOf
    <3>2. [r EXCEPT ![At(r, e.alias)] = e] \in Seq(Entry)
      BY <2>1, <3>1
    <3> QED
      BY <1>1, <2>2, <3>2 DEF Effect, Upserted
  <2>3. CASE e.alias \notin AliasesOf(r)
    <3>1. Append(r, e) \in Seq(Entry)
      BY <2>1
    <3> QED
      BY <1>1, <2>3, <3>1 DEF Effect, Upserted
  <2> QED
    BY <2>2, <2>3
<1>2. CASE o.kind = "delete"
  <2>1. CASE o.alias \in AliasesOf(r)
    <3> DEFINE i == At(r, o.alias)
    <3>1. i \in DOMAIN r
      BY <2>1 DEF At, AliasesOf
    <3>2. \A j \in 1 .. Len(r) - 1 : r[IF j < i THEN j ELSE j + 1] \in Entry
      BY <3>1
    <3>3. [j \in 1 .. Len(r) - 1 |-> r[IF j < i THEN j ELSE j + 1]] \in Seq(Entry)
      <4>1. Len(r) - 1 \in Nat
        BY <3>1
      <4> QED
        BY <3>2, <4>1
    <3> QED
      BY <1>2, <2>1, <3>3 DEF Effect, Without
  <2> QED
    BY <1>2, <2>1 DEF Effect, Without
<1>3. CASE o.kind \notin {"put", "delete"}
  BY <1>3 DEF Effect
<1> QED
  BY <1>1, <1>2, <1>3

LEMMA AnswerType ==
  ASSUME NEW r \in Seq(Entry), NEW o \in Ops
  PROVE  Answer(r, o) \in Answers
<1>1. CASE o.kind = "list"
  BY <1>1 DEF Answer, Answers, Statuses
<1>2. CASE o.kind = "get" /\ o.alias \in AliasesOf(r)
  <2>1. At(r, o.alias) \in DOMAIN r
    BY <1>2 DEF At, AliasesOf
  <2>2. r[At(r, o.alias)] \in Entry
    BY <2>1
  <2>3. << r[At(r, o.alias)] >> \in Seq(Entry)
    BY <2>2
  <2> QED
    BY <1>2, <2>3 DEF Answer, Answers, Statuses
<1>3. CASE o.kind = "get" /\ o.alias \notin AliasesOf(r)
  BY <1>3 DEF Answer, Answers, Statuses
<1>4. CASE o.kind \notin {"list", "get"}
  BY <1>4 DEF Answer, Answers, Statuses
<1> QED
  BY <1>1, <1>2, <1>3, <1>4

\* A successful call leaves the aliases unique.
LEMMA EffectUnique ==
  ASSUME NEW r \in Seq(Entry), NEW o \in Ops, UniqueAliases(r)
  PROVE  UniqueAliases(Effect(r, o))
<1>1. CASE o.kind = "put"
  <2> DEFINE e == [alias |-> o.alias, val |-> o.val]
  <2>0. e \in Entry /\ e.alias = o.alias
    BY <1>1 DEF Ops, Entry
  <2>1. CASE e.alias \in AliasesOf(r)
    <3> DEFINE i == At(r, e.alias)
               s == [r EXCEPT ![i] = e]
    <3>1. i \in DOMAIN r /\ r[i].alias = e.alias
      BY <2>1 DEF At, AliasesOf
    <3>2. DOMAIN s = DOMAIN r /\ \A j \in DOMAIN r : s[j].alias = r[j].alias
      BY <3>1
    <3>3. UniqueAliases(s)
      BY <3>2 DEF UniqueAliases
    <3> QED
      BY <1>1, <2>1, <3>3 DEF Effect, Upserted
  <2>2. CASE e.alias \notin AliasesOf(r)
    <3> DEFINE s == Append(r, e)
    <3>1. /\ DOMAIN r = 1 .. Len(r) /\ Len(r) \in Nat
          /\ DOMAIN s = 1 .. Len(r) + 1
          /\ \A j \in 1 .. Len(r) : s[j] = r[j]
          /\ s[Len(r) + 1] = e
      BY <2>0
    <3>2. \A j \in 1 .. Len(r) : r[j].alias # e.alias
      BY <2>2, <3>1 DEF AliasesOf
    <3>3. ASSUME NEW j \in DOMAIN s, NEW k \in DOMAIN s, s[j].alias = s[k].alias
          PROVE  j = k
      <4>1. CASE j \in 1 .. Len(r) /\ k \in 1 .. Len(r)
        BY <3>1, <3>3, <4>1 DEF UniqueAliases
      <4>2. CASE j = Len(r) + 1 /\ k \in 1 .. Len(r)
        BY <3>1, <3>2, <3>3, <4>2
      <4>3. CASE j \in 1 .. Len(r) /\ k = Len(r) + 1
        BY <3>1, <3>2, <3>3, <4>3
      <4>4. CASE j = Len(r) + 1 /\ k = Len(r) + 1
        BY <4>4
      <4> QED
        BY <3>1, <4>1, <4>2, <4>3, <4>4
    <3>4. UniqueAliases(s)
      BY <3>3 DEF UniqueAliases
    <3> QED
      BY <1>1, <2>2, <3>4 DEF Effect, Upserted
  <2> QED
    BY <2>1, <2>2
<1>2. CASE o.kind = "delete" /\ o.alias \in AliasesOf(r)
  <2> DEFINE i == At(r, o.alias)
             n == Len(r)
             src(j) == IF j < i THEN j ELSE j + 1
             s == [j \in 1 .. n - 1 |-> r[src(j)]]
  <2>1. i \in 1 .. n /\ n \in Nat /\ DOMAIN r = 1 .. n
    BY <1>2 DEF At, AliasesOf
  <2>3. DOMAIN s = 1 .. n - 1
    OBVIOUS
  <2>4. \A j \in 1 .. n - 1 : s[j] = r[src(j)] /\ src(j) \in 1 .. n
    BY <2>1
  <2>5. ASSUME NEW j \in DOMAIN s, NEW k \in DOMAIN s, s[j].alias = s[k].alias
        PROVE  j = k
    <3>1. src(j) = src(k)
      BY <2>1, <2>3, <2>4, <2>5 DEF UniqueAliases
    <3> QED
      BY <2>1, <2>3, <3>1
  <2>6. UniqueAliases(s)
    BY <2>5 DEF UniqueAliases
  <2> QED
    BY <1>2, <2>6 DEF Effect, Without
<1>3. CASE o.kind = "delete" /\ o.alias \notin AliasesOf(r)
  BY <1>3 DEF Effect, Without
<1>4. CASE o.kind \notin {"put", "delete"}
  BY <1>4 DEF Effect
<1> QED
  BY <1>1, <1>2, <1>3, <1>4
-----------------------------------------------------------------------------
\* How the call of a goroutine and its answer go with its place in the code.
WritePath == {"open", "flock", "wlock", "funlock"} \cup WriterPcs
ReadPath == {"rlock", "read", "runlock"}
Settled == {"wunlock", "funlock", "runlock", "return"}

CallShape(t) ==
  /\ pc[t] = "idle" <=> op[t] = NoOp
  /\ pc[t] \in WritePath => Mutates(op[t])
  /\ pc[t] \in ReadPath => ~Mutates(op[t])
  /\ pc[t] \in Settled <=> ans[t] # NoAnswer
CallShapes == \A t \in Threads : CallShape(t)

\* Who is inside which lock.
FlockPcs == {"wlock", "funlock"} \cup WriterPcs
LocksHeld ==
  /\ \A t \in Threads : pc[t] \in FlockPcs => t \in holders
  /\ FlockWorks => \A t, u \in holders : t = u
  /\ \A t, u \in Threads :
       pc[t] \in WriterPcs /\ pc[u] \in WriterPcs /\ ProcOf[t] = ProcOf[u] => t = u

UniqueCopies ==
  /\ UniqueAliases(file)
  /\ \A t \in Threads : UniqueAliases(loaded[t])

\* Type correctness.
LEMMA TypeInit == ConstantsAssumption /\ Init => TypeOK
  BY DEF ConstantsAssumption, Init, TypeOK, Pcs, WriterPcs

LEMMA TypeNext ==
  ASSUME ConstantsAssumption, TypeOK, CallShapes, [Next]_vars
  PROVE  TypeOK'
<1> USE DEF ConstantsAssumption, TypeOK, Pcs, WriterPcs, Goto, Settle
<1>0. Failure \in Answers
  BY DEF Failure, Answers, Statuses
<1>1. ASSUME NEW t \in Threads, Begin(t) PROVE TypeOK'
  <2>1. /\ \E o \in OpsOf[t] : op' = [op EXCEPT ![t] = o]
        /\ \E l \in {"open", "rlock"} : pc' = [pc EXCEPT ![t] = l]
        /\ calls[t] < MaxCalls /\ calls' = [calls EXCEPT ![t] = @ + 1]
        /\ UNCHANGED << file, dir, loaded, ans, holders, crashes, faults >>
    BY <1>1 DEF Begin
  <2>2. op' \in [Threads -> Ops \cup {NoOp}] /\ pc' \in [Threads -> Pcs]
    BY <2>1
  <2>3. calls' \in [Threads -> 0 .. MaxCalls]
    BY <2>1
  <2> QED
    BY <2>1, <2>2, <2>3
<1>2. ASSUME NEW t \in Threads, OpenLock(t) PROVE TypeOK'
  BY <1>0, <1>2 DEF OpenLock
<1>2a. ASSUME NEW t \in Threads, LockFails(t) PROVE TypeOK'
  BY <1>0, <1>2a DEF LockFails
<1>3. ASSUME NEW t \in Threads, AcquireFlock(t) PROVE TypeOK'
  BY <1>3 DEF AcquireFlock
<1>4. ASSUME NEW t \in Threads, Announce(t) PROVE TypeOK'
  BY <1>4 DEF Announce
<1>5. ASSUME NEW t \in Threads, EnterWrite(t) PROVE TypeOK'
  BY <1>5 DEF EnterWrite
<1>6. ASSUME NEW t \in Threads, Load(t) PROVE TypeOK'
  BY <1>6 DEF Load
<1>7. ASSUME NEW t \in Threads, LoadFails(t) PROVE TypeOK'
  BY <1>0, <1>7 DEF LoadFails
<1>8. ASSUME NEW t \in Threads, Save(t) PROVE TypeOK'
  <2>0. op[t] \in Ops
    BY <1>8 DEF Save, CallShapes, CallShape
  <2>1. /\ Effect(loaded[t], op[t]) \in Seq(Entry)
        /\ Answer(loaded[t], op[t]) \in Answers
    BY <1>8, <2>0, EffectType, AnswerType
  <2> QED
    BY <1>8, <2>1 DEF Save
<1>9. ASSUME NEW t \in Threads, SaveFails(t) PROVE TypeOK'
  BY <1>0, <1>9 DEF SaveFails
<1>10. ASSUME NEW t \in Threads, WUnlock(t) PROVE TypeOK'
  BY <1>10 DEF WUnlock
<1>11. ASSUME NEW t \in Threads, CloseLock(t) PROVE TypeOK'
  BY <1>11 DEF CloseLock
<1>12. ASSUME NEW t \in Threads, RLock(t) PROVE TypeOK'
  BY <1>12 DEF RLock
<1>13. ASSUME NEW t \in Threads, Read(t) PROVE TypeOK'
  <2>0. op[t] \in Ops
    BY <1>13 DEF Read, CallShapes, CallShape
  <2>1. Answer(file, op[t]) \in Answers
    BY <1>13, <2>0, AnswerType
  <2> QED
    BY <1>13, <2>1 DEF Read
<1>14. ASSUME NEW t \in Threads, ReadFails(t) PROVE TypeOK'
  BY <1>0, <1>14 DEF ReadFails
<1>15. ASSUME NEW t \in Threads, RUnlock(t) PROVE TypeOK'
  BY <1>15 DEF RUnlock
<1>16. ASSUME NEW t \in Threads, Return(t) PROVE TypeOK'
  BY <1>16 DEF Return
<1>17. ASSUME NEW p \in Procs, Kill(p) PROVE TypeOK'
  BY <1>17 DEF Kill
<1>18. CASE MakeDir
  BY <1>18 DEF MakeDir
<1>19. CASE UNCHANGED vars
  BY <1>19 DEF vars
<1> QED
  BY <1>1, <1>2, <1>2a, <1>3, <1>4, <1>5, <1>6, <1>7, <1>8, <1>9, <1>10, <1>11, <1>12,
     <1>13, <1>14, <1>15, <1>16, <1>17, <1>18, <1>19 DEF Next, Step

\* A call in progress, its answer and its place in the code go together.
LEMMA ShapeInit == Init => CallShapes
  BY DEF Init, CallShapes, CallShape, WritePath, ReadPath, WriterPcs, Settled

LEMMA ShapeNext ==
  ASSUME ConstantsAssumption, TypeOK, CallShapes, [Next]_vars
  PROVE  CallShapes'
<1> USE DEF TypeOK, CallShapes, CallShape, WritePath, ReadPath, Settled, Pcs,
            WriterPcs, Goto, Settle, Mutates
<1>0. /\ Failure # NoAnswer /\ NoOp \notin Ops
      /\ \A r, o : Answer(r, o) # NoAnswer
  BY DEF Failure, NoAnswer, NoOp, Ops, Answer
<1>1. ASSUME NEW t \in Threads, Begin(t) PROVE CallShapes'
  <2>1. OpsOf[t] \subseteq Ops
    BY DEF ConstantsAssumption
  <2> QED
    BY <1>0, <1>1, <2>1 DEF Begin
<1>2. ASSUME NEW t \in Threads, OpenLock(t) PROVE CallShapes'
  BY <1>0, <1>2 DEF OpenLock
<1>2a. ASSUME NEW t \in Threads, LockFails(t) PROVE CallShapes'
  BY <1>0, <1>2a DEF LockFails
<1>3. ASSUME NEW t \in Threads, AcquireFlock(t) PROVE CallShapes'
  BY <1>3 DEF AcquireFlock
<1>4. ASSUME NEW t \in Threads, Announce(t) PROVE CallShapes'
  BY <1>4 DEF Announce
<1>5. ASSUME NEW t \in Threads, EnterWrite(t) PROVE CallShapes'
  BY <1>5 DEF EnterWrite
<1>6. ASSUME NEW t \in Threads, Load(t) PROVE CallShapes'
  BY <1>6 DEF Load
<1>7. ASSUME NEW t \in Threads, LoadFails(t) PROVE CallShapes'
  BY <1>0, <1>7 DEF LoadFails
<1>8. ASSUME NEW t \in Threads, Save(t) PROVE CallShapes'
  BY <1>0, <1>8 DEF Save
<1>9. ASSUME NEW t \in Threads, SaveFails(t) PROVE CallShapes'
  BY <1>0, <1>9 DEF SaveFails
<1>10. ASSUME NEW t \in Threads, WUnlock(t) PROVE CallShapes'
  BY <1>10 DEF WUnlock
<1>11. ASSUME NEW t \in Threads, CloseLock(t) PROVE CallShapes'
  BY <1>11 DEF CloseLock
<1>12. ASSUME NEW t \in Threads, RLock(t) PROVE CallShapes'
  BY <1>12 DEF RLock
<1>13. ASSUME NEW t \in Threads, Read(t) PROVE CallShapes'
  BY <1>0, <1>13 DEF Read
<1>14. ASSUME NEW t \in Threads, ReadFails(t) PROVE CallShapes'
  BY <1>0, <1>14 DEF ReadFails
<1>15. ASSUME NEW t \in Threads, RUnlock(t) PROVE CallShapes'
  BY <1>15 DEF RUnlock
<1>16. ASSUME NEW t \in Threads, Return(t) PROVE CallShapes'
  BY <1>16 DEF Return
<1>17. ASSUME NEW p \in Procs, Kill(p) PROVE CallShapes'
  BY <1>17 DEF Kill
<1>18. CASE MakeDir
  BY <1>18 DEF MakeDir
<1>19. CASE UNCHANGED vars
  BY <1>19 DEF vars
<1> QED
  BY <1>1, <1>2, <1>2a, <1>3, <1>4, <1>5, <1>6, <1>7, <1>8, <1>9, <1>10, <1>11, <1>12,
     <1>13, <1>14, <1>15, <1>16, <1>17, <1>18, <1>19 DEF Next, Step

\* The locks exclude: the advisory lock everybody, the RWMutex the writers of
\* one process.
LEMMA LocksInit == Init => LocksHeld
  BY DEF Init, LocksHeld, FlockPcs, WriterPcs

LEMMA LocksNext ==
  ASSUME TypeOK, LocksHeld, [Next]_vars
  PROVE  LocksHeld'
<1> USE DEF TypeOK, LocksHeld, FlockPcs, Pcs, WriterPcs, Goto
<1>1. ASSUME NEW t \in Threads, Begin(t) PROVE LocksHeld'
  BY <1>1 DEF Begin
<1>2. ASSUME NEW t \in Threads, OpenLock(t) PROVE LocksHeld'
  <2>1. holders' = holders /\ \E l \in {"flock", "return"} : pc' = [pc EXCEPT ![t] = l]
    BY <1>2 DEF OpenLock
  <2> QED
    BY <2>1
<1>2a. ASSUME NEW t \in Threads, LockFails(t) PROVE LocksHeld'
  BY <1>2a DEF LockFails
<1>3. ASSUME NEW t \in Threads, AcquireFlock(t) PROVE LocksHeld'
  BY <1>3 DEF AcquireFlock
<1>4. ASSUME NEW t \in Threads, Announce(t) PROVE LocksHeld'
  BY <1>4 DEF Announce, AnnouncedOf
<1>5. ASSUME NEW t \in Threads, EnterWrite(t) PROVE LocksHeld'
  BY <1>5 DEF EnterWrite
<1>6. ASSUME NEW t \in Threads, Load(t) PROVE LocksHeld'
  BY <1>6 DEF Load
<1>7. ASSUME NEW t \in Threads, LoadFails(t) PROVE LocksHeld'
  BY <1>7 DEF LoadFails
<1>8. ASSUME NEW t \in Threads, Save(t) PROVE LocksHeld'
  BY <1>8 DEF Save
<1>9. ASSUME NEW t \in Threads, SaveFails(t) PROVE LocksHeld'
  BY <1>9 DEF SaveFails
<1>10. ASSUME NEW t \in Threads, WUnlock(t) PROVE LocksHeld'
  BY <1>10 DEF WUnlock
<1>11. ASSUME NEW t \in Threads, CloseLock(t) PROVE LocksHeld'
  BY <1>11 DEF CloseLock
<1>12. ASSUME NEW t \in Threads, RLock(t) PROVE LocksHeld'
  BY <1>12 DEF RLock
<1>13. ASSUME NEW t \in Threads, Read(t) PROVE LocksHeld'
  BY <1>13 DEF Read
<1>14. ASSUME NEW t \in Threads, ReadFails(t) PROVE LocksHeld'
  BY <1>14 DEF ReadFails
<1>15. ASSUME NEW t \in Threads, RUnlock(t) PROVE LocksHeld'
  BY <1>15 DEF RUnlock
<1>16. ASSUME NEW t \in Threads, Return(t) PROVE LocksHeld'
  BY <1>16 DEF Return
<1>17. ASSUME NEW p \in Procs, Kill(p) PROVE LocksHeld'
  BY <1>17 DEF Kill
<1>18. CASE MakeDir
  BY <1>18 DEF MakeDir
<1>19. CASE UNCHANGED vars
  BY <1>19 DEF vars
<1> QED
  BY <1>1, <1>2, <1>2a, <1>3, <1>4, <1>5, <1>6, <1>7, <1>8, <1>9, <1>10, <1>11, <1>12,
     <1>13, <1>14, <1>15, <1>16, <1>17, <1>18, <1>19 DEF Next, Step

\* A step other than Load and Save neither moves the file nor brings a
\* goroutine to its save, so only those two and Kill matter below.
LEMMA QuietStep ==
  ASSUME TypeOK, [Next]_vars,
         ~ \E t \in Threads : Load(t) \/ Save(t)
  PROVE  /\ file' = file
         /\ \A t \in Threads : pc'[t] = "save" => pc[t] = "save" /\ loaded'[t] = loaded[t]
         /\ \A t \in Threads : loaded'[t] \in {loaded[t], << >>}
<1> DEFINE Quiet == /\ file' = file
                    /\ \A t \in Threads : pc'[t] = "save" =>
                                           pc[t] = "save" /\ loaded'[t] = loaded[t]
                    /\ \A t \in Threads : loaded'[t] \in {loaded[t], << >>}
<1> USE DEF TypeOK, Goto
<1>1. ASSUME NEW t \in Threads, Begin(t) PROVE Quiet
  BY <1>1 DEF Begin
<1>2. ASSUME NEW t \in Threads, OpenLock(t) PROVE Quiet
  BY <1>2 DEF OpenLock
<1>2a. ASSUME NEW t \in Threads, LockFails(t) PROVE Quiet
  BY <1>2a DEF LockFails
<1>3. ASSUME NEW t \in Threads, AcquireFlock(t) PROVE Quiet
  BY <1>3 DEF AcquireFlock
<1>4. ASSUME NEW t \in Threads, Announce(t) PROVE Quiet
  BY <1>4 DEF Announce
<1>5. ASSUME NEW t \in Threads, EnterWrite(t) PROVE Quiet
  BY <1>5 DEF EnterWrite
<1>6. ASSUME NEW t \in Threads, LoadFails(t) PROVE Quiet
  BY <1>6 DEF LoadFails
<1>7. ASSUME NEW t \in Threads, SaveFails(t) PROVE Quiet
  BY <1>7 DEF SaveFails
<1>8. ASSUME NEW t \in Threads, WUnlock(t) PROVE Quiet
  BY <1>8 DEF WUnlock
<1>9. ASSUME NEW t \in Threads, CloseLock(t) PROVE Quiet
  BY <1>9 DEF CloseLock
<1>10. ASSUME NEW t \in Threads, RLock(t) PROVE Quiet
  BY <1>10 DEF RLock
<1>11. ASSUME NEW t \in Threads, Read(t) PROVE Quiet
  BY <1>11 DEF Read
<1>12. ASSUME NEW t \in Threads, ReadFails(t) PROVE Quiet
  BY <1>12 DEF ReadFails
<1>13. ASSUME NEW t \in Threads, RUnlock(t) PROVE Quiet
  BY <1>13 DEF RUnlock
<1>14. ASSUME NEW t \in Threads, Return(t) PROVE Quiet
  BY <1>14 DEF Return
<1>15. ASSUME NEW p \in Procs, Kill(p) PROVE Quiet
  BY <1>15 DEF Kill
<1>16. CASE MakeDir
  BY <1>16 DEF MakeDir
<1>17. CASE UNCHANGED vars
  BY <1>17 DEF vars
<1> QED
  BY <1>1, <1>2, <1>2a, <1>3, <1>4, <1>5, <1>6, <1>7, <1>8, <1>9, <1>10, <1>11, <1>12,
     <1>13, <1>14, <1>15, <1>16, <1>17 DEF Next, Step

\* Between its load and its rename a goroutine is the only writer.
LEMMA NoLostUpdateNext ==
  ASSUME ConstantsAssumption, Protected, TypeOK, LocksHeld, NoLostUpdate, [Next]_vars
  PROVE  NoLostUpdate'
<1>1. ASSUME NEW t \in Threads, Load(t) PROVE NoLostUpdate'
  BY <1>1 DEF Load, NoLostUpdate, TypeOK, Goto
<1>2. ASSUME NEW t \in Threads, Save(t) PROVE NoLostUpdate'
  <2>1. \A u \in Threads : pc[u] = "save" => u = t
    <3> SUFFICES ASSUME NEW u \in Threads, pc[u] = "save" PROVE u = t
      OBVIOUS
    <3>1. pc[t] = "save"
      BY <1>2 DEF Save
    <3>2. CASE FlockWorks
      BY <3>1, <3>2 DEF LocksHeld, FlockPcs, WriterPcs
    <3>3. CASE ProcOf[t] = ProcOf[u]
      BY <3>1, <3>3 DEF LocksHeld, WriterPcs
    <3> QED
      BY <3>2, <3>3 DEF Protected
  <2>2. \A u \in Threads : pc'[u] # "save"
    BY <1>2, <2>1 DEF Save, Goto, TypeOK
  <2> QED
    BY <2>2 DEF NoLostUpdate
<1>3. CASE ~ \E t \in Threads : Load(t) \/ Save(t)
  BY <1>3, QuietStep DEF NoLostUpdate
<1> QED
  BY <1>1, <1>2, <1>3

LEMMA UniqueNext ==
  ASSUME TypeOK, CallShapes, UniqueCopies, [Next]_vars
  PROVE  UniqueCopies'
<1>1. ASSUME NEW t \in Threads, Load(t) PROVE UniqueCopies'
  BY <1>1 DEF Load, UniqueCopies, TypeOK
<1>2. ASSUME NEW t \in Threads, Save(t) PROVE UniqueCopies'
  <2>1. loaded[t] \in Seq(Entry) /\ op[t] \in Ops
    BY <1>2 DEF Save, TypeOK, CallShapes, CallShape
  <2>2. UniqueAliases(Effect(loaded[t], op[t]))
    BY <2>1, EffectUnique DEF UniqueCopies
  <2> QED
    BY <1>2, <2>2 DEF Save, UniqueCopies
<1>3. CASE ~ \E t \in Threads : Load(t) \/ Save(t)
  <2>1. UniqueAliases(<< >>)
    BY DEF UniqueAliases
  <2>2. /\ file' = file
        /\ \A t \in Threads : loaded'[t] \in {loaded[t], << >>}
    BY <1>3, QuietStep
  <2>3. \A t \in Threads : UniqueAliases(loaded'[t])
    BY <2>1, <2>2 DEF UniqueCopies
  <2> QED
    BY <2>2, <2>3 DEF UniqueCopies
<1> QED
  BY <1>1, <1>2, <1>3
-----------------------------------------------------------------------------
\* Every variable keeps its type (all of yaml.go).
THEOREM TypeCorrect == Spec => []TypeOK
<1>1. Init => TypeOK /\ CallShapes
  BY ConstantsAssumption, TypeInit, ShapeInit
<1>2. TypeOK /\ CallShapes /\ [Next]_vars => (TypeOK /\ CallShapes)'
  BY ConstantsAssumption, TypeNext, ShapeNext
<1> QED
  BY <1>1, <1>2, PTL DEF Spec

\* The inductive invariant behind the theorems below.
IInv == TypeOK /\ CallShapes /\ LocksHeld /\ UniqueCopies

LEMMA Inductive == Spec => []IInv
<1>1. Init => IInv
  BY ConstantsAssumption, TypeInit, ShapeInit, LocksInit
     DEF IInv, UniqueCopies, UniqueAliases, Init
<1>2. IInv /\ [Next]_vars => IInv'
  BY ConstantsAssumption, TypeNext, ShapeNext, LocksNext, UniqueNext DEF IInv
<1> QED
  BY <1>1, <1>2, PTL DEF Spec

\* An alias never has two entries in registry.yaml (yaml.go:94-102, 123-129),
\* whatever the locks do: each file is the effect of one call on a file.
THEOREM AliasesStayUnique == Spec => []AliasesUnique
<1>1. IInv => AliasesUnique
  BY DEF IInv, UniqueCopies, AliasesUnique
<1> QED
  BY <1>1, Inductive, PTL

\* No Put or Delete is lost to another goroutine or process (ADR-009), on Unix
\* for any number of processes, on Windows for one.
THEOREM NoUpdateIsLost == Protected => (Spec => []NoLostUpdate)
<1> SUFFICES ASSUME Protected PROVE Spec => []NoLostUpdate
  OBVIOUS
<1>1. Init => NoLostUpdate
  BY DEF Init, NoLostUpdate
<1>2. IInv /\ NoLostUpdate /\ [Next]_vars => NoLostUpdate'
  BY ConstantsAssumption, NoLostUpdateNext DEF IInv
<1> QED
  BY <1>1, <1>2, Inductive, PTL DEF Spec
-----------------------------------------------------------------------------
\* The abstract registry's operators are the concrete one's.
LEMMA SameOperators ==
  /\ \A r, o : Map!Effect(r, o) = Effect(r, o)
  /\ \A r, o : Map!Answer(r, o) = Answer(r, o)
  /\ Map!NoOp = NoOp /\ Map!NoAnswer = NoAnswer /\ Map!Failure = Failure
  /\ Map!Ops = Ops
  BY DEF Map!Effect, Effect, Map!Upserted, Upserted, Map!Without, Without, Map!At, At,
         Map!AliasesOf, AliasesOf, Map!Answer, Answer, Map!NoOp, NoOp, Map!NoAnswer,
         NoAnswer, Map!Failure, Failure, Map!Ops, Ops

\* Every step is a step of the atomic registry or leaves it alone: a call takes
\* effect at its rename (Put, Delete) or at its read (Get, List).
LEMMA MapStep ==
  ASSUME ConstantsAssumption, TypeOK, CallShapes, NoLostUpdate, [Next]_vars
  PROVE  [Map!MapNext]_(Map!mapvars)
<1> DEFINE Stutter == file' = file /\ op' = op /\ ans' = ans
           Goal == Stutter \/ Map!MapNext
<1> SUFFICES Goal
  BY DEF Map!mapvars
<1> USE DEF TypeOK, Goto, Settle
<1>1. ASSUME NEW t \in Threads, Begin(t) PROVE Goal
  <2>1. OpsOf[t] \subseteq Ops
    BY DEF ConstantsAssumption
  <2>2. Map!Call(t)
    BY <1>1, <2>1, SameOperators DEF Begin, Map!Call, CallShapes, CallShape
  <2> QED
    BY <2>2 DEF Map!MapNext
<1>2. ASSUME NEW t \in Threads, OpenLock(t) \/ LockFails(t) PROVE Goal
  <2>1. op[t] # NoOp /\ ans[t] = NoAnswer
    BY <1>2 DEF OpenLock, LockFails, CallShapes, CallShape, Settled
  <2>2. Stutter \/ Map!FailCleanly(t)
    BY <1>2, <2>1, SameOperators DEF OpenLock, LockFails, Map!FailCleanly
  <2> QED
    BY <2>2 DEF Map!MapNext
<1>3. ASSUME NEW t \in Threads,
             LoadFails(t) \/ SaveFails(t) \/ ReadFails(t)
      PROVE  Goal
  <2>1. op[t] # NoOp /\ ans[t] = NoAnswer
    BY <1>3 DEF LoadFails, SaveFails, ReadFails, CallShapes, CallShape, Settled
  <2>2. Map!FailCleanly(t)
    BY <1>3, <2>1, SameOperators DEF LoadFails, SaveFails, ReadFails, Map!FailCleanly
  <2> QED
    BY <2>2 DEF Map!MapNext
<1>4. ASSUME NEW t \in Threads, Save(t) PROVE Goal
  <2>1. op[t] # NoOp /\ ans[t] = NoAnswer /\ loaded[t] = file
    BY <1>4 DEF Save, CallShapes, CallShape, Settled, NoLostUpdate
  <2>2. Map!TakeEffect(t)
    BY <1>4, <2>1, SameOperators DEF Save, Map!TakeEffect
  <2> QED
    BY <2>2 DEF Map!MapNext
<1>5. ASSUME NEW t \in Threads, Read(t) PROVE Goal
  <2>1. op[t] # NoOp /\ ans[t] = NoAnswer /\ ~Mutates(op[t])
    BY <1>5 DEF Read, CallShapes, CallShape, Settled, ReadPath
  <2>2. Effect(file, op[t]) = file
    BY <2>1 DEF Effect, Mutates
  <2>3. Map!TakeEffect(t)
    BY <1>5, <2>1, <2>2, SameOperators DEF Read, Map!TakeEffect
  <2> QED
    BY <2>3 DEF Map!MapNext
<1>6. ASSUME NEW t \in Threads, Return(t) PROVE Goal
  <2>1. ans[t] # NoAnswer
    BY <1>6 DEF Return, CallShapes, CallShape, Settled
  <2>2. Map!Return(t)
    BY <1>6, <2>1, SameOperators DEF Return, Map!Return
  <2> QED
    BY <2>2 DEF Map!MapNext
<1>7. ASSUME NEW p \in Procs, Kill(p) PROVE Goal
  <2>1. Map!Vanish({ t \in Threads : ProcOf[t] = p })
    BY <1>7, SameOperators DEF Kill, Map!Vanish
  <2> QED
    BY <2>1 DEF Map!MapNext
<1>8. ASSUME NEW t \in Threads,
             \/ AcquireFlock(t) \/ Announce(t) \/ EnterWrite(t) \/ Load(t)
             \/ WUnlock(t) \/ CloseLock(t) \/ RLock(t) \/ RUnlock(t)
      PROVE  Goal
  BY <1>8 DEF AcquireFlock, Announce, EnterWrite, Load, WUnlock, CloseLock, RLock, RUnlock
<1>9. CASE MakeDir \/ UNCHANGED vars
  BY <1>9 DEF MakeDir, vars
<1> QED
  BY <1>1, <1>2, <1>3, <1>4, <1>5, <1>6, <1>7, <1>8, <1>9 DEF Next, Step

\* The YAML repository, with its file, locks, processes and kills, is a registry
\* on which every call takes effect at one instant or not at all.
THEOREM ImplementsBundleMap == Protected => (Spec => ImplementsMap)
<1> SUFFICES ASSUME Protected PROVE Spec => ImplementsMap
  OBVIOUS
<1>1. Init => Map!MapInit
  BY SameOperators DEF Init, Map!MapInit
<1>2. IInv /\ NoLostUpdate /\ [Next]_vars => [Map!MapNext]_(Map!mapvars)
  BY ConstantsAssumption, MapStep DEF IInv
<1>3. Spec => []NoLostUpdate
  BY NoUpdateIsLost
<1> QED
  BY <1>1, <1>2, <1>3, Inductive, PTL DEF Spec, ImplementsMap, Map!MapSpec
-----------------------------------------------------------------------------
\* With unique aliases, At finds the entry of an alias and no other.
LEMMA AtIs ==
  ASSUME NEW r, UniqueAliases(r)
  PROVE  /\ \A i \in DOMAIN r : At(r, r[i].alias) = i
         /\ \A a \in AliasesOf(r) : At(r, a) \in DOMAIN r /\ r[At(r, a)].alias = a
<1>1. ASSUME NEW a \in AliasesOf(r) PROVE At(r, a) \in DOMAIN r /\ r[At(r, a)].alias = a
  BY DEF At, AliasesOf
<1>2. ASSUME NEW i \in DOMAIN r PROVE At(r, r[i].alias) = i
  <2>1. r[i].alias \in AliasesOf(r)
    BY DEF AliasesOf
  <2> QED
    BY <1>1, <2>1 DEF UniqueAliases
<1> QED
  BY <1>1, <1>2

\* A successful call never swaps two entries that stay.
LEMMA EffectOrder ==
  ASSUME NEW r \in Seq(Entry), NEW o \in Ops, UniqueAliases(r),
         NEW a \in AliasesOf(r), a \in AliasesOf(Effect(r, o)),
         NEW b \in AliasesOf(r), b \in AliasesOf(Effect(r, o)),
         At(r, a) < At(r, b)
  PROVE  At(Effect(r, o), a) < At(Effect(r, o), b)
<1>0. UniqueAliases(Effect(r, o)) /\ DOMAIN r = 1 .. Len(r) /\ Len(r) \in Nat
  BY EffectUnique
<1>1. CASE o.kind = "put"
  <2> DEFINE e == [alias |-> o.alias, val |-> o.val]
             s == Upserted(r, e)
  <2>1. e \in Entry /\ e.alias = o.alias /\ Effect(r, o) = s
    BY <1>1 DEF Ops, Entry, Effect
  <2>2. ASSUME NEW i \in DOMAIN r PROVE i \in DOMAIN s /\ s[i].alias = r[i].alias
    <3>1. CASE e.alias \in AliasesOf(r)
      <4>1. At(r, e.alias) \in DOMAIN r /\ r[At(r, e.alias)].alias = e.alias
        BY <3>1, AtIs
      <4> QED
        BY <3>1, <4>1 DEF Upserted
    <3>2. CASE e.alias \notin AliasesOf(r)
      BY <1>0, <2>1, <3>2 DEF Upserted
    <3> QED
      BY <3>1, <3>2
  <2>3. ASSUME NEW c \in AliasesOf(r) PROVE At(s, c) = At(r, c)
    <3>1. At(r, c) \in DOMAIN r /\ r[At(r, c)].alias = c
      BY AtIs
    <3>2. At(r, c) \in DOMAIN s /\ s[At(r, c)].alias = c
      BY <2>2, <3>1
    <3>3. UniqueAliases(s)
      BY <1>0, <2>1
    <3> HIDE DEF s
    <3> QED
      BY <3>2, <3>3, AtIs
  <2> QED
    BY <2>1, <2>3
<1>2. CASE o.kind = "delete" /\ o.alias \in AliasesOf(r)
  <2> DEFINE k == At(r, o.alias)
             s == Without(r, o.alias)
  <2>1. /\ k \in DOMAIN r /\ Effect(r, o) = s
        /\ DOMAIN s = 1 .. Len(r) - 1
        /\ \A j \in DOMAIN s : s[j] = r[IF j < k THEN j ELSE j + 1]
    BY <1>0, <1>2, AtIs DEF Effect, Without
  <2>2. ASSUME NEW c \in AliasesOf(r), c \in AliasesOf(s)
        PROVE  /\ At(s, c) = IF At(r, c) < k THEN At(r, c) ELSE At(r, c) - 1
               /\ At(r, c) # k /\ At(r, c) \in Nat
    <3>1. UniqueAliases(s)
      BY <1>0, <2>1
    <3>2. At(s, c) \in DOMAIN s /\ s[At(s, c)].alias = c
      <4> HIDE DEF s
      <4> QED
        BY <2>2, <3>1, AtIs
    <3>3. PICK i \in DOMAIN r : i = (IF At(s, c) < k THEN At(s, c) ELSE At(s, c) + 1)
                                /\ r[i].alias = c
      BY <1>0, <2>1, <3>2
    <3>4. At(r, c) = i
      BY <3>3, AtIs
    <3> HIDE DEF s
    <3> QED
      BY <1>0, <2>1, <3>2, <3>3, <3>4
  <2>3. k \in Nat
    BY <1>0, <2>1
  <2> HIDE DEF k, s
  <2> QED
    BY <2>1, <2>2, <2>3
<1>3. CASE o.kind \notin {"put", "delete"} \/ (o.kind = "delete" /\ o.alias \notin AliasesOf(r))
  BY <1>3 DEF Effect, Without
<1> QED
  BY <1>1, <1>2, <1>3

\* The entries of registry.yaml keep their insertion order, whatever the
\* processes, goroutines, failures and kills (List, yaml.go:133).
THEOREM OrderIsKept == Protected => (Spec => OrderKept)
<1> DEFINE Kept == \A a, b \in AliasesOf(file) \cap AliasesOf(file') :
                     At(file, a) < At(file, b) => At(file', a) < At(file', b)
<1> SUFFICES ASSUME Protected PROVE Spec => OrderKept
  OBVIOUS
<1>1. ASSUME IInv, NoLostUpdate, [Next]_vars PROVE [Kept]_file
  <2>1. ASSUME NEW t \in Threads, Save(t) PROVE Kept
    <3>1. file' = Effect(file, op[t])
      BY <1>1, <2>1 DEF Save, NoLostUpdate
    <3>2. op[t] \in Ops
      BY <1>1, <2>1 DEF Save, IInv, TypeOK, CallShapes, CallShape
    <3>3. file \in Seq(Entry) /\ UniqueAliases(file)
      BY <1>1 DEF IInv, TypeOK, UniqueCopies
    <3> QED
      BY <3>1, <3>2, <3>3, EffectOrder
  <2>2. ASSUME NEW t \in Threads, Load(t) PROVE file' = file
    BY <2>2 DEF Load
  <2> QED
    BY <1>1, <2>1, <2>2, QuietStep DEF IInv
<1>2. Spec => []NoLostUpdate
  BY NoUpdateIsLost
<1> QED
  BY <1>1, <1>2, Inductive, PTL DEF Spec, OrderKept
=============================================================================
