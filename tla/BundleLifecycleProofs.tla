------------------------ MODULE BundleLifecycleProofs ------------------------
(***************************************************************************)
(* Proofs about BundleLifecycle: its types; what a reindex leaves in the   *)
(* store of its process, and what a failed one does not take away; that    *)
(* registered root paths are distinct; and, where one daemon runs one     *)
(* job at a time for each alias and stops cleanly, that registry, store    *)
(* and index file agree about which chunks there are.                      *)
(***************************************************************************)
EXTENDS BundleLifecycle, TLAPS

\* How the job, the entry and the process of a goroutine go with its place.
Adding == {"add", "addscan", "addput"}
Removing == {"remove", "removedel"}
WithEntry == {"list", "read", "delete", "put"}
Reindexing == WithEntry \cup {"reindex"}

Shape(t) ==
  /\ pc[t] # "idle" => up[P(t)] = "up" /\ job[t] \in JobsOf[t]
  /\ pc[t] \in Adding => job[t].kind = "add"
  /\ pc[t] \in Removing => job[t].kind = "remove"
  /\ pc[t] \in Reindexing => job[t].kind = "reindex"
  /\ pc[t] \in WithEntry => entry[t] \in Entries
  /\ pc[t] = "read" => roots[P(t)][A(t)] # None

Typed == TypeOK /\ \A t \in Threads : Shape(t)

\* What a goroutine at work has in hand.
LEMMA AtWork ==
  ASSUME ConstantsAssumption, Typed, NEW t \in Threads, pc[t] # "idle"
  PROVE  /\ P(t) \in Procs /\ up[P(t)] = "up"
         /\ job[t] \in JobsOf[t] /\ job[t] \in JobSet
         /\ A(t) \in Aliases
         /\ pc[t] \in Adding => job[t].root \in Roots
<1>1. P(t) \in Procs /\ up[P(t)] = "up" /\ job[t] \in JobsOf[t] /\ job[t] \in JobSet
  BY DEF ConstantsAssumption, Typed, Shape, P
<1>2. A(t) \in Aliases /\ (job[t].kind = "add" => job[t].root \in Roots)
  BY <1>1 DEF JobSet, A
<1> QED
  BY <1>1, <1>2 DEF Typed, Shape

LEMMA TypedInit == ConstantsAssumption /\ Init => Typed
<1> SUFFICES ASSUME ConstantsAssumption, Init PROVE Typed
  OBVIOUS
<1>1. TypeOK
  BY DEF ConstantsAssumption, Init, TypeOK, Chunks, NoChunks, NoDocs, Pcs, Results,
         NoJob, JobSet
<1>2. \A t \in Threads : Shape(t)
  BY DEF Init, Shape, Adding, Removing, WithEntry, Reindexing
<1> QED
  BY <1>1, <1>2 DEF Typed

\* Every step keeps the types.
LEMMA TypedNext ==
  ASSUME ConstantsAssumption, Typed, [Next]_vars
  PROVE  Typed'
<1> USE DEF shared, procs, local, history, bounds
<1>0. /\ ProcOf \in [Threads -> Procs] /\ PlaceOf \in [Roots -> Places]
      /\ None \notin Roots /\ NoEntry \notin Entries
      /\ MaxJobs \in Nat /\ MaxEdits \in Nat /\ MaxStops \in Nat
      /\ MaxKills \in Nat /\ MaxFaults \in Nat
  BY DEF ConstantsAssumption, Entries
<1>1. ASSUME NEW t \in Threads, Begin(t) PROVE Typed'
  <2>1. PICK j \in JobsOf[t] :
          /\ job' = [job EXCEPT ![t] = j]
          /\ pc' = [pc EXCEPT ![t] = j.kind]
          /\ before' = [before EXCEPT ![t] = Has(store[P(t)][j.alias])]
    BY <1>1 DEF Begin, Goto
  <2>2. j \in JobSet /\ j.kind \in {"add", "remove", "reindex"}
    BY DEF ConstantsAssumption, JobSet
  <2>3. TypeOK'
    BY <1>0, <1>1, <2>1, <2>2 DEF Begin, Typed, TypeOK, Pcs, Has
  <2>4. \A u \in Threads : Shape(u)'
    BY <1>1, <2>1, <2>2
       DEF Begin, Typed, TypeOK, Shape, Adding, Removing, WithEntry, Reindexing, A, P
  <2> QED
    BY <2>3, <2>4 DEF Typed
<1>2. ASSUME NEW t \in Threads,
             AddLookup(t) \/ AddScan(t) \/ RemoveLookup(t)
      PROVE  Typed'
  <2>0. UNCHANGED << shared, procs, job, local, history, bounds >>
    BY <1>2 DEF AddLookup, AddScan, RemoveLookup
  <2>1. TypeOK'
    <3>1. PICK l \in Pcs : pc' = [pc EXCEPT ![t] = l]
      BY <1>2 DEF AddLookup, AddScan, RemoveLookup, End, Goto, Pcs
    <3>2. PICK status \in Results : res' = res \/ res' = [res EXCEPT ![t] = status]
      BY <1>2 DEF AddLookup, AddScan, RemoveLookup, End, Results
    <3>3. pc' \in [Threads -> Pcs]
      BY <3>1 DEF Typed, TypeOK
    <3>4. res' \in [Threads -> Results]
      BY <3>2 DEF Typed, TypeOK
    <3> QED
      BY <2>0, <3>3, <3>4 DEF Typed, TypeOK
  <2>2. \A u \in Threads : Shape(u)'
    <3>1. pc[t] \in Adding \cup Removing
      BY <1>2 DEF AddLookup, AddScan, RemoveLookup, Adding, Removing
    <3>2. \E l \in {"done"} \cup IF pc[t] \in Adding THEN Adding ELSE Removing :
            pc' = [pc EXCEPT ![t] = l]
      BY <1>2 DEF AddLookup, AddScan, RemoveLookup, End, Goto, Adding, Removing
    <3> QED
      BY <2>0, <3>1, <3>2
         DEF Typed, TypeOK, Shape, Adding, Removing, WithEntry, Reindexing, A, P
  <2> QED
    BY <2>1, <2>2 DEF Typed
<1>3. ASSUME NEW t \in Threads, AddPut(t) \/ RemoveDelete(t) \/ PutEntry(t)
      PROVE  Typed'
  <2>1. pc[t] \in {"addput", "removedel", "put"}
    BY <1>3 DEF AddPut, RemoveDelete, PutEntry
  <2>2. A(t) \in Aliases /\ (pc[t] = "addput" => job[t].root \in Roots)
    BY <2>1, AtWork DEF Adding
  <2>3. pc[t] = "put" => entry[t].root \in Roots /\ Has(batch[t]) \subseteq Paths
    BY <1>0, <2>1 DEF Typed, Shape, WithEntry, Entries, Has
  <2>4. /\ \E e \in Entries \cup {NoEntry} : reg' = [reg EXCEPT ![A(t)] = e]
        /\ last' \in {last, [last EXCEPT ![A(t)] = batch[t]]}
        /\ pc' = [pc EXCEPT ![t] = "done"] /\ res' = [res EXCEPT ![t] = "ok"]
        /\ UNCHANGED << disk, saved, procs, job, local, before, bounds >>
    BY <1>3, <2>2, <2>3 DEF AddPut, RemoveDelete, PutEntry, End, Goto, Entries
  <2>5. TypeOK'
    <3>1. reg' \in [Aliases -> Entries \cup {NoEntry}]
      BY <2>4 DEF Typed, TypeOK
    <3>2. last' \in Chunks
      <4>1. batch[t] \in [Paths -> Bodies \cup {None}] /\ last \in Chunks
        BY DEF Typed, TypeOK
      <4> QED
        BY <2>2, <2>4, <4>1 DEF Chunks
    <3> QED
      BY <2>4, <3>1, <3>2 DEF Typed, TypeOK, Pcs, Results
  <2>6. \A u \in Threads : Shape(u)'
    BY <2>1, <2>4 DEF Typed, TypeOK, Shape, Adding, Removing, WithEntry, Reindexing, A, P
  <2> QED
    BY <2>5, <2>6 DEF Typed
<1>4. ASSUME NEW t \in Threads, GetEntry(t) PROVE Typed'
  <2>1. A(t) \in Aliases
    BY <1>4, AtWork DEF GetEntry
  <2>2. TypeOK'
    BY <1>4, <2>1 DEF GetEntry, End, Goto, Typed, TypeOK, Pcs, Results
  <2>3. \A u \in Threads : Shape(u)'
    BY <1>0, <1>4, <2>1 DEF GetEntry, End, Goto, Typed, TypeOK, Shape,
       Adding, Removing, WithEntry, Reindexing, A, P
  <2> QED
    BY <2>2, <2>3 DEF Typed
<1>5. ASSUME NEW t \in Threads, ListDocs(t) PROVE Typed'
  <2>0. /\ pc[t] = "list"
        /\ UNCHANGED << shared, procs, job, entry, batch, history, bounds >>
    BY <1>5 DEF ListDocs
  <2>1. \/ pc' = [pc EXCEPT ![t] = "done"]
        \/ roots[P(t)][A(t)] # None /\ pc' = [pc EXCEPT ![t] = "read"]
    BY <1>5 DEF ListDocs, End, Goto
  <2>2. \E S \in SUBSET Paths : todo' \in {todo, [todo EXCEPT ![t] = S]}
    BY <1>5 DEF ListDocs, Has
  <2>3. res' \in {res, [res EXCEPT ![t] = "noroot"]}
    BY <1>5 DEF ListDocs, End
  <2>4. pc' \in [Threads -> Pcs]
    BY <2>1 DEF Typed, TypeOK, Pcs
  <2>5. TypeOK'
    <3>1. todo' \in [Threads -> SUBSET Paths]
      BY <2>2 DEF Typed, TypeOK
    <3>2. res' \in [Threads -> Results]
      BY <2>3 DEF Typed, TypeOK, Results
    <3> QED
      BY <2>0, <2>4, <3>1, <3>2 DEF Typed, TypeOK
  <2>6. \A u \in Threads : Shape(u)'
    BY <2>0, <2>1, <2>4 DEF Typed, TypeOK, Shape, Adding, Removing, WithEntry, Reindexing, A, P
  <2> QED
    BY <2>5, <2>6 DEF Typed
<1>6. ASSUME NEW t \in Threads, ReadDoc(t) PROVE Typed'
  <2>1. P(t) \in Procs /\ A(t) \in Aliases /\ pc[t] = "read"
    BY <1>6, AtWork DEF ReadDoc
  <2>2. roots[P(t)][A(t)] \in Roots
    BY <2>1 DEF Typed, TypeOK, Shape
  <2>3. PICK p \in todo[t] :
          LET b == disk[PlaceOf[roots[P(t)][A(t)]]][p] IN
          IF b = None
          THEN End(t, "error") /\ UNCHANGED << todo, batch >>
          ELSE /\ batch' = [batch EXCEPT ![t][p] = b]
               /\ todo' = [todo EXCEPT ![t] = @ \ {p}]
               /\ UNCHANGED << pc, res >>
    BY <1>6 DEF ReadDoc
  <2>4. p \in Paths /\ disk[PlaceOf[roots[P(t)][A(t)]]][p] \in Bodies \cup {None}
    BY <1>0, <2>2 DEF Typed, TypeOK
  <2>5. /\ pc' \in {pc, [pc EXCEPT ![t] = "done"]}
        /\ res' \in {res, [res EXCEPT ![t] = "error"]}
        /\ todo' \in [Threads -> SUBSET Paths]
        /\ batch' \in [Threads -> [Paths -> Bodies \cup {None}]]
    <3> DEFINE b == disk[PlaceOf[roots[P(t)][A(t)]]][p]
    <3>1. CASE b = None
      BY <2>3, <3>1 DEF End, Goto, Typed, TypeOK
    <3>2. CASE b # None
      <4>1. /\ batch' = [batch EXCEPT ![t][p] = b]
            /\ todo' = [todo EXCEPT ![t] = @ \ {p}]
            /\ UNCHANGED << pc, res >>
        BY <2>3, <3>2
      <4> HIDE DEF b
      <4>2. batch' \in [Threads -> [Paths -> Bodies \cup {None}]]
        BY <2>4, <4>1 DEF Typed, TypeOK, b
      <4> QED
        BY <4>1, <4>2 DEF Typed, TypeOK
    <3> QED
      BY <3>1, <3>2
  <2>6. TypeOK'
    BY <1>6, <2>5 DEF ReadDoc, Typed, TypeOK, Pcs, Results
  <2>7. \A u \in Threads : Shape(u)'
    <3>1. UNCHANGED << procs, job, entry >>
      BY <1>6 DEF ReadDoc
    <3>2. CASE pc' = pc
      BY <3>1, <3>2 DEF Typed, Shape, A, P
    <3>3. CASE pc' = [pc EXCEPT ![t] = "done"]
      BY <2>1, <3>1, <3>3
         DEF Typed, TypeOK, Shape, Adding, Removing, WithEntry, Reindexing, A, P
    <3> QED
      BY <2>5, <3>2, <3>3
  <2> QED
    BY <2>6, <2>7 DEF Typed
<1>7. ASSUME NEW t \in Threads, EmbedUpsert(t) \/ DeleteStale(t) PROVE Typed'
  <2>1. P(t) \in Procs /\ A(t) \in Aliases /\ pc[t] \in {"read", "delete"}
    BY <1>7, AtWork DEF EmbedUpsert, DeleteStale
  <2>2. \E c \in [Paths -> Bodies \cup {None}] : store' = [store EXCEPT ![P(t)][A(t)] = c]
    <3>1. CASE EmbedUpsert(t)
      <4> DEFINE c == [p \in Paths |-> IF batch[t][p] \in Bodies \ Blind
                                       THEN batch[t][p] ELSE store[P(t)][A(t)][p]]
      <4>1. store' = [store EXCEPT ![P(t)][A(t)] = c]
        BY <3>1 DEF EmbedUpsert
      <4>2. c \in [Paths -> Bodies \cup {None}]
        BY <2>1 DEF Typed, TypeOK, Chunks
      <4> QED
        BY <4>1, <4>2
    <3>2. CASE DeleteStale(t)
      <4> DEFINE gone == entry[t].ids \ Has(batch[t])
                 c == [p \in Paths |-> IF p \in gone THEN None ELSE store[P(t)][A(t)][p]]
      <4>1. store' = [store EXCEPT ![P(t)][A(t)] = c]
        BY <3>2 DEF DeleteStale
      <4>2. c \in [Paths -> Bodies \cup {None}]
        BY <2>1 DEF Typed, TypeOK, Chunks
      <4> QED
        BY <4>1, <4>2
    <3> QED
      BY <1>7, <3>1, <3>2
  <2>3. store' \in [Procs -> Chunks]
    BY <2>1, <2>2 DEF Typed, TypeOK, Chunks
  <2>4. /\ pc' = [pc EXCEPT ![t] = IF pc[t] = "read" THEN "delete" ELSE "put"]
        /\ UNCHANGED << shared, up, roots, job, local, res, history, bounds >>
    BY <1>7 DEF EmbedUpsert, DeleteStale, Goto
  <2>5. TypeOK'
    BY <2>3, <2>4 DEF Typed, TypeOK, Pcs
  <2>6. \A u \in Threads : Shape(u)'
    BY <2>1, <2>4 DEF Typed, TypeOK, Shape, Adding, Removing, WithEntry, Reindexing, A, P
  <2> QED
    BY <2>5, <2>6 DEF Typed
<1>8. ASSUME NEW t \in Threads, ReadFails(t) \/ WriteFails(t) PROVE Typed'
  <2>1. faults' \in 0 .. MaxFaults
    BY <1>0, <1>8 DEF ReadFails, WriteFails, Fault, Typed, TypeOK
  <2>2. /\ pc[t] # "idle" /\ pc' = [pc EXCEPT ![t] = "done"]
        /\ \E status \in Results : res' = [res EXCEPT ![t] = status]
        /\ UNCHANGED << shared, procs, job, local, history, jobs, edits, stops, kills >>
    BY <1>8 DEF ReadFails, WriteFails, End, Goto, Results
  <2>3. TypeOK'
    BY <2>1, <2>2 DEF Typed, TypeOK, Pcs
  <2>4. \A u \in Threads : Shape(u)'
    BY <2>2 DEF Typed, TypeOK, Shape, Adding, Removing, WithEntry, Reindexing, A, P
  <2> QED
    BY <2>3, <2>4 DEF Typed
<1>9. ASSUME NEW t \in Threads, Return(t) PROVE Typed'
  <2>1. TypeOK'
    BY <1>9 DEF Return, Goto, Typed, TypeOK, Pcs, Results, NoDocs
  <2>2. \A u \in Threads : Shape(u)'
    BY <1>9 DEF Return, Goto, Typed, TypeOK, Shape, Adding, Removing, WithEntry,
       Reindexing, A, P
  <2> QED
    BY <2>1, <2>2 DEF Typed
<1>10. ASSUME NEW p \in Procs, Start(p) \/ LoadIndex(p) PROVE Typed'
  <2>0. /\ up[p] # "up" /\ \E l \in {"booting", "up"} : up' = [up EXCEPT ![p] = l]
        /\ \E m \in [Aliases -> Roots \cup {None}] : roots' = [roots EXCEPT ![p] = m]
        /\ store' \in [Procs -> Chunks]
        /\ UNCHANGED << shared, pc, job, local, res, history, bounds >>
    <3>1. CASE Start(p)
      <4> DEFINE m == [a \in Aliases |-> IF reg[a] = NoEntry THEN None ELSE reg[a].root]
      <4>1. m \in [Aliases -> Roots \cup {None}]
        BY DEF Typed, TypeOK, Entries
      <4>2. roots' = [roots EXCEPT ![p] = m]
        BY <3>1 DEF Start
      <4> HIDE DEF m
      <4> QED
        BY <3>1, <4>1, <4>2 DEF Start, Typed, TypeOK
    <3>2. CASE LoadIndex(p)
      <4>1. roots' = [roots EXCEPT ![p] = roots[p]] /\ roots[p] \in [Aliases -> Roots \cup {None}]
        BY <3>2 DEF LoadIndex, Typed, TypeOK
      <4>2. store' \in [Procs -> Chunks]
        BY <3>2 DEF LoadIndex, Typed, TypeOK
      <4> QED
        BY <3>2, <4>1, <4>2 DEF LoadIndex
    <3> QED
      BY <1>10, <3>1, <3>2
  <2>1. TypeOK'
    <3>1. up' \in [Procs -> {"down", "booting", "up"}]
      BY <2>0 DEF Typed, TypeOK
    <3>2. roots' \in [Procs -> [Aliases -> Roots \cup {None}]]
      BY <2>0 DEF Typed, TypeOK
    <3> QED
      BY <2>0, <3>1, <3>2 DEF Typed, TypeOK
  <2>2. \A u \in Threads : Shape(u)'
    BY <2>0 DEF Typed, TypeOK, Shape, Adding, Removing, WithEntry, Reindexing, A, P
  <2> QED
    BY <2>1, <2>2 DEF Typed
<1>11. ASSUME NEW p \in Procs, Stop(p) \/ Kill(p) PROVE Typed'
  <2>1. Exit(p) /\ saved' \in Chunks /\ kills' \in 0 .. MaxKills
    BY <1>0, <1>11 DEF Stop, Kill, Typed, TypeOK
  <2>2. TypeOK'
    BY <1>0, <2>1 DEF Exit, Gone, Typed, TypeOK, Chunks, NoChunks, NoDocs, Pcs, Results
  <2>3. \A u \in Threads : Shape(u)'
    BY <1>0, <2>1 DEF Exit, Gone, Typed, TypeOK, Shape, Adding, Removing, WithEntry,
       Reindexing, A, P
  <2> QED
    BY <2>2, <2>3 DEF Typed
<1>12. ASSUME Edit PROVE Typed'
  <2>1. TypeOK'
    BY <1>0, <1>12 DEF Edit, Typed, TypeOK
  <2>2. \A u \in Threads : Shape(u)'
    BY <1>12 DEF Edit, Typed, Shape, A, P
  <2> QED
    BY <2>1, <2>2 DEF Typed
<1>13. CASE UNCHANGED vars
  BY <1>13 DEF vars, Typed, TypeOK, Shape, A, P
<1> QED
  BY <1>1, <1>2, <1>3, <1>4, <1>5, <1>6, <1>7, <1>8, <1>9, <1>10, <1>11, <1>12, <1>13
     DEF Next, Step

\* Every variable keeps its type (bundle.go, main.go), kills, failing calls and
\* edits at any moment included.
THEOREM TypeCorrect == Spec => []TypeOK
<1>1. Spec => []Typed
  BY ConstantsAssumption, TypedInit, TypedNext, PTL DEF Spec
<1>2. Typed => TypeOK
  BY DEF Typed
<1> QED
  BY <1>1, <1>2, PTL
-----------------------------------------------------------------------------
\* A goroutine's step leaves the others where they are, and every process up.
Still(u) ==
  /\ pc'[u] = pc[u] /\ job'[u] = job[u] /\ entry'[u] = entry[u]
  /\ batch'[u] = batch[u] /\ res'[u] = res[u] /\ before'[u] = before[u]

LEMMA OthersStill ==
  ASSUME Typed, NEW t \in Threads, Begin(t) \/ Step(t)
  PROVE  /\ \A u \in Threads \ {t} : Still(u)
         /\ up' = up /\ roots' = roots /\ saved' = saved /\ kills' = kills
<1> USE DEF shared, procs, local, history, bounds, Still, Typed, TypeOK
<1>1. CASE Begin(t)
  BY <1>1 DEF Begin, Goto
<1>2. CASE AddLookup(t) \/ AddScan(t) \/ AddPut(t) \/ RemoveLookup(t) \/ RemoveDelete(t)
  BY <1>2 DEF AddLookup, AddScan, AddPut, RemoveLookup, RemoveDelete, End, Goto
<1>3. CASE GetEntry(t) \/ ListDocs(t)
  BY <1>3 DEF GetEntry, ListDocs, End, Goto
<1>4. CASE ReadDoc(t)
  BY <1>4 DEF ReadDoc, End, Goto
<1>5. CASE EmbedUpsert(t) \/ DeleteStale(t) \/ PutEntry(t)
  BY <1>5 DEF EmbedUpsert, DeleteStale, PutEntry, End, Goto
<1>6. CASE ReadFails(t) \/ WriteFails(t) \/ Return(t)
  BY <1>6 DEF ReadFails, WriteFails, Return, End, Goto
<1> QED
  BY <1>1, <1>2, <1>3, <1>4, <1>5, <1>6 DEF Step

\* Goroutines work in a process that is up.
LEMMA InService ==
  ASSUME ConstantsAssumption, Typed, NEW t \in Threads, Begin(t) \/ Step(t)
  PROVE  P(t) \in Procs /\ up[P(t)] = "up" /\ (Step(t) => pc[t] # "idle")
<1>1. Begin(t) => P(t) \in Procs /\ up[P(t)] = "up"
  BY DEF Begin, P, ConstantsAssumption
<1>2. Step(t) => pc[t] # "idle"
  BY DEF Step, AddLookup, AddScan, AddPut, RemoveLookup, RemoveDelete, GetEntry, ListDocs,
     ReadDoc, EmbedUpsert, DeleteStale, PutEntry, ReadFails, WriteFails, Return
<1> QED
  BY <1>1, <1>2, AtWork

\* Only the Upsert and the Delete of a reindex change a store in use, that of
\* their process, and in it their alias.
LEMMA StoreSteps ==
  ASSUME ConstantsAssumption, Typed, NEW t \in Threads, Begin(t) \/ Step(t)
  PROVE  \/ store' = store
         \/ /\ EmbedUpsert(t) \/ DeleteStale(t)
            /\ \A p \in Procs, a \in Aliases :
                 p # P(t) \/ a # A(t) => store'[p][a] = store[p][a]
<1> USE DEF shared, procs, local, history, bounds
<1>1. CASE EmbedUpsert(t) \/ DeleteStale(t)
  BY <1>1 DEF EmbedUpsert, DeleteStale, Typed, TypeOK, Chunks
<1>2. CASE Begin(t) \/ AddLookup(t) \/ AddScan(t) \/ AddPut(t) \/ RemoveLookup(t)
  BY <1>2 DEF Begin, AddLookup, AddScan, AddPut, RemoveLookup
<1>3. CASE RemoveDelete(t) \/ GetEntry(t) \/ ListDocs(t) \/ ReadDoc(t) \/ PutEntry(t)
  BY <1>3 DEF RemoveDelete, GetEntry, ListDocs, ReadDoc, PutEntry
<1>4. CASE ReadFails(t) \/ WriteFails(t) \/ Return(t)
  BY <1>4 DEF ReadFails, WriteFails, Return
<1> QED
  BY <1>1, <1>2, <1>3, <1>4 DEF Step

\* The other steps: a process starts or ends with its goroutines idle, or a
\* document changes.
LEMMA ProcessSteps ==
  ASSUME ConstantsAssumption, Typed, NEW p \in Procs,
         Start(p) \/ LoadIndex(p) \/ Stop(p) \/ Kill(p)
  PROVE  /\ \A t \in Threads : \/ P(t) = p /\ pc'[t] = "idle"
                               \/ P(t) # p /\ Still(t)
         /\ reg' = reg /\ last' = last
         /\ \A q \in Procs \ {p} : store'[q] = store[q] /\ up'[q] = up[q]
<1> USE DEF shared, procs, local, history, bounds, Typed, TypeOK, Still
<1>1. CASE Start(p) \/ LoadIndex(p)
  <2>1. /\ up[p] # "up" /\ UNCHANGED << pc, job, entry, batch, res, before, reg, last >>
        /\ \A q \in Procs \ {p} : store'[q] = store[q] /\ up'[q] = up[q]
    BY <1>1 DEF Start, LoadIndex
  <2>2. \A t \in Threads : P(t) = p => pc[t] = "idle"
    BY <2>1 DEF Shape
  <2> QED
    BY <2>1, <2>2
<1>2. CASE Stop(p) \/ Kill(p)
  <2>1. Exit(p) /\ reg' = reg /\ last' = last
    BY <1>2 DEF Stop, Kill, Exit
  <2> QED
    BY <2>1 DEF Exit, Gone
<1> QED
  BY <1>1, <1>2
-----------------------------------------------------------------------------
\* The jobs of a process never reindex one alias at once.
OneReindexer ==
  \A t, u \in Threads : \A j \in JobsOf[t], k \in JobsOf[u] :
    P(t) = P(u) /\ j.kind = "reindex" /\ k.kind = "reindex" /\ j.alias = k.alias =>
      t = u

\* Until a reindex reaches the Upsert the chunks it found are there; ...
OldKept(t) ==
  pc[t] \in {"reindex", "list", "read"} \/ (pc[t] = "done" /\ res[t] = "error") =>
    before[t] \subseteq Has(StoreOf(t))

\* ... from the Upsert on, what it read is.
NewStored(t) ==
  pc[t] \in {"delete", "put"} \/ (pc[t] = "done" /\ res[t] = "ok") =>
    \A p \in Has(batch[t]) : batch[t][p] \notin Blind => StoreOf(t)[p] = batch[t][p]

Kept ==
  \A t \in Threads : pc[t] # "idle" /\ job[t].kind = "reindex" => OldKept(t) /\ NewStored(t)

LEMMA KeptNext ==
  ASSUME ConstantsAssumption, OneReindexer, Typed, Kept, [Next]_vars
  PROVE  Kept'
<1> USE DEF shared, procs, local, history, bounds
<1>1. ASSUME NEW t \in Threads, Begin(t) \/ Step(t) PROVE Kept'
  <2>1. ASSUME NEW u \in Threads, u # t, pc'[u] # "idle", job'[u].kind = "reindex"
        PROVE  OldKept(u)' /\ NewStored(u)'
    <3>1. Still(u)
      BY <1>1, <2>1, OthersStill
    <3>2. OldKept(u) /\ NewStored(u) /\ P(u) \in Procs /\ A(u) \in Aliases
      BY <2>1, <3>1, AtWork DEF Kept, Still
    <3>3. StoreOf(u)' = StoreOf(u)
      <4>1. CASE store' = store
        BY <3>1, <4>1 DEF StoreOf, Still, A, P
      <4>2. CASE EmbedUpsert(t) \/ DeleteStale(t)
        <5>1. pc[t] \in {"read", "delete"}
          BY <4>2 DEF EmbedUpsert, DeleteStale
        <5>2. job[t] \in JobsOf[t] /\ job[t].kind = "reindex"
          BY <5>1 DEF Typed, Shape, Reindexing, WithEntry
        <5>3. job[u] \in JobsOf[u] /\ job[u].kind = "reindex"
          BY <2>1, <3>1, AtWork DEF Still
        <5>4. P(u) # P(t) \/ A(u) # A(t)
          BY <2>1, <5>2, <5>3 DEF OneReindexer, A
        <5>5. store'[P(u)][A(u)] = store[P(u)][A(u)]
          BY <1>1, <3>2, <4>2, <5>4, StoreSteps
        <5> QED
          BY <3>1, <5>5 DEF StoreOf, Still, A, P
      <4> QED
        BY <1>1, <4>1, <4>2, StoreSteps
    <3> QED
      BY <3>1, <3>2, <3>3 DEF OldKept, NewStored, Still
  <2>2. ASSUME pc'[t] # "idle", job'[t].kind = "reindex"
        PROVE  OldKept(t)' /\ NewStored(t)'
    <3>1. CASE Begin(t)
      BY <1>1, <2>2, <3>1 DEF Begin, Goto, Typed, TypeOK, OldKept, NewStored, StoreOf, A, P
    <3>2. CASE AddLookup(t) \/ AddScan(t) \/ AddPut(t) \/ RemoveLookup(t) \/ RemoveDelete(t)
      <4>1. pc[t] \in Adding \cup Removing /\ job' = job
        BY <3>2 DEF AddLookup, AddScan, AddPut, RemoveLookup, RemoveDelete, Adding, Removing
      <4> QED
        BY <2>2, <4>1 DEF Typed, Shape
    <3>3. CASE \/ GetEntry(t) \/ ListDocs(t) \/ ReadDoc(t) \/ PutEntry(t)
               \/ ReadFails(t) \/ WriteFails(t)
      <4>1. /\ job' = job /\ before' = before /\ store' = store
            /\ pc[t] \notin {"idle", "done"}
            /\ \/ pc[t] = "read" /\ pc'[t] = "read"
               \/ pc[t] \in {"put"} /\ pc'[t] = "done" /\ res'[t] = "ok" /\ batch' = batch
               \/ pc[t] \notin {"delete", "put"} /\ pc'[t] = "done" /\ res'[t] = "error"
               \/ pc'[t] = "done" /\ res'[t] \in {"notfound", "noroot", "unsaved"}
               \/ pc[t] = "reindex" /\ pc'[t] = "list"
               \/ pc[t] = "list" /\ pc'[t] = "read"
        BY <3>3 DEF GetEntry, ListDocs, ReadDoc, PutEntry, ReadFails, WriteFails, End, Goto,
           Typed, TypeOK
      <4>2. OldKept(t) /\ NewStored(t)
        BY <2>2, <4>1 DEF Kept
      <4>3. StoreOf(t)' = StoreOf(t)
        BY <4>1 DEF StoreOf, A, P
      <4>4. pc[t] \in Reindexing \/ pc[t] \in Adding \cup Removing
        BY <4>1 DEF Typed, TypeOK, Pcs, Reindexing, WithEntry, Adding, Removing
      <4>5. pc[t] \in Reindexing
        BY <2>2, <4>1, <4>4 DEF Typed, Shape
      <4> QED
        BY <4>1, <4>2, <4>3, <4>5 DEF OldKept, NewStored, Reindexing, WithEntry
    <3>4. CASE EmbedUpsert(t)
      <4>1. P(t) \in Procs /\ A(t) \in Aliases
        BY <3>4, AtWork DEF EmbedUpsert
      <4>2. /\ pc'[t] = "delete" /\ job' = job /\ batch' = batch
            /\ store'[P(t)][A(t)] = [p \in Paths |-> IF batch[t][p] \in Bodies \ Blind
                                                     THEN batch[t][p] ELSE StoreOf(t)[p]]
        BY <3>4, <4>1 DEF EmbedUpsert, Goto, Typed, TypeOK, Chunks, StoreOf
      <4>3. batch[t] \in [Paths -> Bodies \cup {None}]
        BY DEF Typed, TypeOK
      <4> QED
        BY <4>2, <4>3 DEF OldKept, NewStored, StoreOf, Has, A, P
    <3>5. CASE DeleteStale(t)
      <4>1. P(t) \in Procs /\ A(t) \in Aliases
        BY <3>5, AtWork DEF DeleteStale
      <4>2. /\ pc[t] = "delete" /\ pc'[t] = "put" /\ job' = job /\ batch' = batch
            /\ store'[P(t)][A(t)] =
                 [p \in Paths |-> IF p \in entry[t].ids \ Has(batch[t])
                                  THEN None ELSE StoreOf(t)[p]]
        BY <3>5, <4>1 DEF DeleteStale, Goto, Typed, TypeOK, Chunks, StoreOf
      <4>3. NewStored(t)
        BY <2>2, <4>2 DEF Kept
      <4> QED
        BY <4>2, <4>3 DEF OldKept, NewStored, StoreOf, Has, A, P
    <3>6. CASE Return(t)
      BY <2>2, <3>6 DEF Return, Goto, Typed, TypeOK
    <3> QED
      BY <1>1, <3>1, <3>2, <3>3, <3>4, <3>5, <3>6 DEF Step
  <2> QED
    BY <2>1, <2>2 DEF Kept
<1>2. ASSUME NEW p \in Procs, Start(p) \/ LoadIndex(p) \/ Stop(p) \/ Kill(p) PROVE Kept'
  <2> SUFFICES ASSUME NEW t \in Threads, pc'[t] # "idle", job'[t].kind = "reindex"
               PROVE  OldKept(t)' /\ NewStored(t)'
    BY DEF Kept
  <2>1. P(t) # p /\ Still(t)
    BY <1>2, ProcessSteps
  <2>2. P(t) \in Procs /\ OldKept(t) /\ NewStored(t)
    BY <2>1, AtWork DEF Kept, Still
  <2>3. StoreOf(t)' = StoreOf(t)
    BY <1>2, <2>1, <2>2, ProcessSteps DEF StoreOf, Still, A, P
  <2> QED
    BY <2>1, <2>2, <2>3 DEF OldKept, NewStored, Still
<1>3. CASE Edit \/ UNCHANGED vars
  BY <1>3 DEF Edit, vars, Kept, OldKept, NewStored, StoreOf, A, P
<1> QED
  BY <1>1, <1>2, <1>3 DEF Next

LEMMA KeptAlways == OneReindexer => (Spec => [](Typed /\ Kept))
<1> SUFFICES ASSUME OneReindexer PROVE Spec => [](Typed /\ Kept)
  OBVIOUS
<1>1. Init => Typed /\ Kept
  BY ConstantsAssumption, TypedInit DEF Init, Kept
<1>2. Typed /\ Kept /\ [Next]_vars => (Typed /\ Kept)'
  BY ConstantsAssumption, TypedNext, KeptNext
<1> QED
  BY <1>1, <1>2, PTL DEF Spec

\* Where no process reindexes an alias twice at once, a successful reindex
\* leaves what it read in the store, whatever is removed, fails or is killed.
THEOREM ReindexedStaysSearchable == OneReindexer => (Spec => []ReindexedIsSearchable)
<1>1. Typed /\ Kept => ReindexedIsSearchable
  BY DEF Kept, NewStored, Reindexed, ReindexedIsSearchable
<1> QED
  BY <1>1, KeptAlways, PTL

\* Under the same condition a reindex that fails before its Upsert has taken
\* nothing out of the store (bundle.go:174-176).
THEOREM FailedReindexKeepsIndex == OneReindexer => (Spec => []IndexSurvivesFailure)
<1>1. Typed /\ Kept => IndexSurvivesFailure
  BY DEF Kept, OldKept, IndexSurvivesFailure
<1> QED
  BY <1>1, KeptAlways, PTL

\* If no body embeds to the zero vector either, no chunk of an older body is
\* left of a document that was read.
THEOREM OldBodiesGo == OneReindexer /\ Blind = {} => (Spec => []NoOldBodies)
<1> SUFFICES ASSUME OneReindexer, Blind = {} PROVE Spec => []NoOldBodies
  OBVIOUS
<1>1. Typed /\ Kept => NoOldBodies
  BY DEF Kept, NewStored, Reindexed, NoOldBodies
<1>2. Spec => [](Typed /\ Kept)
  BY KeptAlways
<1> QED
  BY <1>1, <1>2, PTL
-----------------------------------------------------------------------------
\* The registry changes at one alias, by a put or a delete of its entry.
LEMMA RegSteps ==
  ASSUME Typed, NEW t \in Threads, Begin(t) \/ Step(t)
  PROVE  reg' = reg \/ AddPut(t) \/ RemoveDelete(t) \/ PutEntry(t)
<1> USE DEF shared, procs, local, history, bounds
<1>1. CASE Begin(t) \/ AddLookup(t) \/ AddScan(t) \/ RemoveLookup(t)
  BY <1>1 DEF Begin, AddLookup, AddScan, RemoveLookup
<1>2. CASE GetEntry(t) \/ ListDocs(t) \/ ReadDoc(t) \/ EmbedUpsert(t) \/ DeleteStale(t)
  BY <1>2 DEF GetEntry, ListDocs, ReadDoc, EmbedUpsert, DeleteStale
<1>3. CASE ReadFails(t) \/ WriteFails(t) \/ Return(t)
  BY <1>3 DEF ReadFails, WriteFails, Return
<1> QED
  BY <1>1, <1>2, <1>3 DEF Step

\* A bundle is removed and reindexed by one goroutine.
NoRacingRemovals ==
  \A t, u \in Threads : \A j \in JobsOf[t], k \in JobsOf[u] :
    j.kind = "remove" /\ k.kind = "reindex" /\ j.alias = k.alias => t = u

\* Bundles are added by one goroutine.
SingleAdder ==
  \A t, u \in Threads : \A j \in JobsOf[t], k \in JobsOf[u] :
    j.kind = "add" /\ k.kind = "add" => t = u

\* What a reindex has looked up is still registered.
Registered == \A t \in Threads : pc[t] \in WithEntry => reg[A(t)] # NoEntry

Ids(a) == IF reg[a] = NoEntry THEN {} ELSE reg[a].ids
Unregistered == \A t \in Threads : pc[t] \in {"addscan", "addput"} => reg[A(t)] = NoEntry

\* What an add and a reindex found in the registry still holds, ...
RootsKept ==
  /\ Unregistered
  /\ \A t \in Threads : pc[t] = "addput" =>
       \A a \in Aliases : reg[a] # NoEntry => reg[a].root # job[t].root
  /\ \A t \in Threads : pc[t] \in WithEntry => reg[A(t)].root = entry[t].root
  \* ... and no two aliases have one root path.
  /\ \A a, b \in Aliases :
       a # b /\ reg[a] # NoEntry /\ reg[b] # NoEntry => reg[a].root # reg[b].root

\* The steps of a goroutine that lead on to an add or a reindex.
LEMMA JobMoves ==
  ASSUME ConstantsAssumption, Typed, NEW t \in Threads, Begin(t) \/ Step(t)
  PROVE  /\ pc'[t] \in {"addscan", "addput"} =>
              /\ job' = job /\ reg' = reg
              /\ pc'[t] = "addscan" => pc[t] = "add" /\ reg[A(t)] = NoEntry
              /\ pc'[t] = "addput" =>
                   /\ pc[t] = "addscan"
                   /\ \A a \in Aliases : reg[a] # NoEntry => reg[a].root # job[t].root
         /\ pc'[t] \in WithEntry =>
              /\ job' = job /\ reg' = reg
              /\ \/ pc[t] = "reindex" /\ reg[A(t)] # NoEntry /\ entry'[t] = reg[A(t)]
                 \/ pc[t] \in WithEntry /\ entry'[t] = entry[t]
<1> USE DEF shared, procs, local, history, bounds, Typed, TypeOK, WithEntry
<1>1. CASE Begin(t)
  <2>1. pc'[t] \in {"add", "remove", "reindex"}
    BY <1>1 DEF Begin, Goto, ConstantsAssumption, JobSet
  <2> QED
    BY <2>1
<1>2. CASE AddLookup(t) \/ AddScan(t) \/ AddPut(t) \/ RemoveLookup(t) \/ RemoveDelete(t)
  BY <1>2 DEF AddLookup, AddScan, AddPut, RemoveLookup, RemoveDelete, End, Goto
<1>3. CASE GetEntry(t) \/ ListDocs(t)
  BY <1>3 DEF GetEntry, ListDocs, End, Goto
<1>4. CASE ReadDoc(t)
  BY <1>4 DEF ReadDoc, End, Goto
<1>5. CASE EmbedUpsert(t) \/ DeleteStale(t) \/ PutEntry(t)
  BY <1>5 DEF EmbedUpsert, DeleteStale, PutEntry, End, Goto
<1>6. CASE ReadFails(t) \/ WriteFails(t) \/ Return(t)
  BY <1>6 DEF ReadFails, WriteFails, Return, End, Goto
<1> QED
  BY <1>1, <1>2, <1>3, <1>4, <1>5, <1>6 DEF Step

\* A put or a delete gives the alias of its job an entry, or takes it away.
LEMMA RegChange ==
  ASSUME ConstantsAssumption, Typed, NEW t \in Threads,
         AddPut(t) \/ RemoveDelete(t) \/ PutEntry(t)
  PROVE  /\ A(t) \in Aliases /\ job[t] \in JobsOf[t] /\ pc'[t] = "done" /\ job' = job
         /\ \A a \in Aliases : a # A(t) => reg'[a] = reg[a]
         /\ AddPut(t) => /\ job[t].kind = "add" /\ pc[t] = "addput"
                         /\ reg'[A(t)] # NoEntry
                         /\ reg'[A(t)].root = job[t].root /\ reg'[A(t)].ids = {}
         /\ RemoveDelete(t) => job[t].kind = "remove" /\ reg'[A(t)] = NoEntry
         /\ PutEntry(t) => /\ job[t].kind = "reindex" /\ pc[t] = "put"
                           /\ reg'[A(t)] # NoEntry
                           /\ reg'[A(t)].root = entry[t].root
                           /\ reg'[A(t)].ids = Has(batch[t])
<1>1. pc[t] \in {"addput", "removedel", "put"}
  BY DEF AddPut, RemoveDelete, PutEntry
<1>2. /\ A(t) \in Aliases /\ job[t] \in JobsOf[t]
      /\ pc[t] = "addput" => job[t].kind = "add" /\ job[t].root \in Roots
      /\ pc[t] = "removedel" => job[t].kind = "remove"
      /\ pc[t] = "put" => job[t].kind = "reindex" /\ entry[t].root \in Roots
  BY <1>1, AtWork DEF Typed, Shape, Adding, Removing, Reindexing, WithEntry, Entries
<1>3. NoEntry \notin Entries /\ Has(batch[t]) \subseteq Paths
  BY DEF ConstantsAssumption, Entries, Has
<1>4. CASE AddPut(t)
  <2> DEFINE e == [root |-> job[t].root, ids |-> {}]
  <2>1. e \in Entries /\ e.root = job[t].root /\ e.ids = {}
    BY <1>2, <1>4 DEF AddPut, Entries
  <2>2. reg' = [reg EXCEPT ![A(t)] = e]
    BY <1>4 DEF AddPut
  <2> HIDE DEF e
  <2> QED
    BY <1>2, <1>3, <1>4, <2>1, <2>2 DEF AddPut, RemoveDelete, PutEntry, End, Goto, Typed, TypeOK
<1>5. CASE RemoveDelete(t)
  BY <1>2, <1>5 DEF AddPut, RemoveDelete, PutEntry, End, Goto, Typed, TypeOK
<1>6. CASE PutEntry(t)
  <2> DEFINE e == [root |-> entry[t].root, ids |-> Has(batch[t])]
  <2>1. e \in Entries /\ e.root = entry[t].root /\ e.ids = Has(batch[t])
    BY <1>2, <1>3, <1>6 DEF PutEntry, Entries
  <2>2. reg' = [reg EXCEPT ![A(t)] = e]
    BY <1>6 DEF PutEntry
  <2> HIDE DEF e
  <2> QED
    BY <1>2, <1>3, <1>6, <2>1, <2>2 DEF AddPut, RemoveDelete, PutEntry, End, Goto, Typed, TypeOK
<1> QED
  BY <1>4, <1>5, <1>6

\* No step of a process or of a bundle's owner touches the registry or moves a
\* goroutine on.
LEMMA QuietSteps ==
  ASSUME ConstantsAssumption, Typed, [Next]_vars,
         ~ \E t \in Threads : Begin(t) \/ Step(t)
  PROVE  reg' = reg /\ \A t \in Threads : pc'[t] = "idle" \/ Still(t)
<1>1. CASE \E p \in Procs : Start(p) \/ LoadIndex(p) \/ Stop(p) \/ Kill(p)
  BY <1>1, ProcessSteps
<1>2. CASE Edit \/ UNCHANGED vars
  BY <1>2 DEF Edit, vars, shared, procs, local, history, Still
<1> QED
  BY <1>1, <1>2 DEF Next

LEMMA RegisteredNext ==
  ASSUME ConstantsAssumption, NoRacingRemovals, Typed, Registered, [Next]_vars
  PROVE  Registered'
<1>1. ASSUME NEW t \in Threads, Begin(t) \/ Step(t) PROVE Registered'
  <2> SUFFICES ASSUME NEW u \in Threads, pc'[u] \in WithEntry PROVE reg'[A(u)'] # NoEntry
    BY DEF Registered
  <2>1. CASE u = t
    BY <1>1, <2>1, JobMoves DEF Registered, A
  <2>2. CASE u # t
    <3>1. Still(u) /\ pc[u] \in WithEntry /\ A(u)' = A(u)
      BY <1>1, <2>2, OthersStill DEF Still, A
    <3>2. /\ reg[A(u)] # NoEntry /\ A(u) \in Aliases
          /\ job[u] \in JobsOf[u] /\ job[u].kind = "reindex"
      BY <3>1, AtWork DEF Registered, Typed, Shape, Reindexing, WithEntry
    <3>3. CASE reg' = reg
      BY <3>1, <3>2, <3>3
    <3>4. CASE AddPut(t) \/ PutEntry(t)
      BY <3>1, <3>2, <3>4, RegChange
    <3>5. CASE RemoveDelete(t)
      <4>1. A(u) # A(t)
        BY <2>2, <3>2, <3>5, RegChange DEF NoRacingRemovals, A
      <4> QED
        BY <3>1, <3>2, <3>5, <4>1, RegChange
    <3> QED
      BY <1>1, <3>3, <3>4, <3>5, RegSteps
  <2> QED
    BY <2>1, <2>2
<1>2. CASE ~ \E t \in Threads : Begin(t) \/ Step(t)
  BY <1>2, QuietSteps DEF Registered, Still, A, WithEntry
<1> QED
  BY <1>1, <1>2

LEMMA RootsKeptNext ==
  ASSUME ConstantsAssumption, NoRacingRemovals, SingleAdder,
         Typed, Registered, RootsKept, [Next]_vars
  PROVE  RootsKept'
<1>1. ASSUME NEW t \in Threads, Begin(t) \/ Step(t) PROVE RootsKept'
  <2>1. ASSUME NEW u \in Threads, u # t
        PROVE  /\ pc'[u] = pc[u] /\ job'[u] = job[u] /\ entry'[u] = entry[u] /\ A(u)' = A(u)
               /\ pc[u] # "idle" => A(u) \in Aliases /\ job[u] \in JobsOf[u]
    BY <1>1, <2>1, OthersStill, AtWork DEF Still, A
  <2>2. CASE reg' = reg
    <3>1. ASSUME NEW u \in Threads, pc'[u] \in {"addscan", "addput"}
          PROVE  reg'[A(u)'] = NoEntry
      BY <1>1, <2>1, <2>2, <3>1, JobMoves DEF RootsKept, Unregistered, A
    <3>2. ASSUME NEW u \in Threads, pc'[u] = "addput", NEW a \in Aliases, reg'[a] # NoEntry
          PROVE  reg'[a].root # job'[u].root
      BY <1>1, <2>1, <2>2, <3>2, JobMoves DEF RootsKept
    <3>3. ASSUME NEW u \in Threads, pc'[u] \in WithEntry
          PROVE  reg'[A(u)'].root = entry'[u].root
      BY <1>1, <2>1, <2>2, <3>3, JobMoves DEF RootsKept, A
    <3> QED
      BY <2>2, <3>1, <3>2, <3>3 DEF RootsKept, Unregistered
  <2>3. CASE AddPut(t) \/ RemoveDelete(t) \/ PutEntry(t)
    <3>0. /\ A(t) \in Aliases /\ pc'[t] = "done" /\ job' = job /\ job[t] \in JobsOf[t]
          /\ \A a \in Aliases : a # A(t) => reg'[a] = reg[a]
      BY <2>3, RegChange
    <3>1. ASSUME NEW u \in Threads, pc'[u] \in {"addscan", "addput"}
          PROVE  /\ reg'[A(u)'] = NoEntry
                 /\ pc'[u] = "addput" =>
                      \A a \in Aliases : reg'[a] # NoEntry => reg'[a].root # job'[u].root
      <4>1. /\ u # t /\ pc[u] \in {"addscan", "addput"} /\ reg[A(u)] = NoEntry
            /\ job[u] \in JobsOf[u] /\ job[u].kind = "add" /\ A(u) \in Aliases
        BY <2>1, <3>0, <3>1 DEF RootsKept, Unregistered, Typed, Shape, Adding
      <4>2. ~ AddPut(t)
        BY <3>0, <4>1, RegChange DEF SingleAdder
      <4>3. CASE PutEntry(t)
        <5>1. pc[t] = "put" /\ reg[A(t)] # NoEntry /\ reg'[A(t)].root = reg[A(t)].root
          BY <4>3, RegChange DEF Registered, RootsKept, WithEntry
        <5> QED
          BY <2>1, <3>0, <3>1, <4>1, <5>1 DEF RootsKept
      <4>4. CASE RemoveDelete(t)
        BY <2>1, <3>0, <3>1, <4>1, <4>4, RegChange DEF RootsKept
      <4> QED
        BY <2>3, <4>2, <4>3, <4>4
    <3>2. ASSUME NEW u \in Threads, pc'[u] \in WithEntry
          PROVE  reg'[A(u)'].root = entry'[u].root
      <4>1. /\ u # t /\ pc[u] \in WithEntry /\ reg[A(u)] # NoEntry
            /\ job[u] \in JobsOf[u] /\ job[u].kind = "reindex" /\ A(u) \in Aliases
            /\ reg[A(u)].root = entry[u].root
        BY <2>1, <3>0, <3>2 DEF Registered, RootsKept, Typed, Shape, Reindexing, WithEntry
      <4>2. CASE A(u) # A(t)
        BY <2>1, <3>0, <4>1, <4>2
      <4>3. CASE A(u) = A(t)
        <5>1. ~ AddPut(t)
          BY <4>1, <4>3, RegChange DEF RootsKept, Unregistered
        <5>2. ~ RemoveDelete(t)
          BY <3>0, <4>1, <4>3, RegChange DEF NoRacingRemovals, A
        <5> QED
          BY <2>1, <2>3, <3>0, <4>1, <4>3, <5>1, <5>2, RegChange
             DEF RootsKept, WithEntry
      <4> QED
        BY <4>2, <4>3
    <3>3. ASSUME NEW a \in Aliases, NEW b \in Aliases, a # b,
                 reg'[a] # NoEntry, reg'[b] # NoEntry
          PROVE  reg'[a].root # reg'[b].root
      <4>1. CASE AddPut(t)
        <5>1. reg'[A(t)].root = job[t].root /\ pc[t] = "addput"
          BY <4>1, RegChange
        <5> QED
          BY <3>0, <3>3, <5>1 DEF RootsKept
      <4>2. CASE RemoveDelete(t)
        BY <3>0, <3>3, <4>2, RegChange DEF RootsKept
      <4>3. CASE PutEntry(t)
        <5>1. reg[A(t)] # NoEntry /\ reg'[A(t)].root = reg[A(t)].root
          BY <4>3, RegChange DEF Registered, RootsKept, WithEntry
        <5> QED
          BY <3>0, <3>3, <5>1 DEF RootsKept
      <4> QED
        BY <2>3, <4>1, <4>2, <4>3
    <3> QED
      BY <3>1, <3>2, <3>3 DEF RootsKept, Unregistered
  <2> QED
    BY <1>1, <2>2, <2>3, RegSteps
<1>2. CASE ~ \E t \in Threads : Begin(t) \/ Step(t)
  BY <1>2, QuietSteps DEF RootsKept, Unregistered, Still, A, WithEntry
<1> QED
  BY <1>1, <1>2

\* Where no other goroutine removes a bundle that is being reindexed, only an
\* add registers a removed alias: no reindex brings it back.
THEOREM RemovedAreGone == NoRacingRemovals => (Spec => RemovedStaysRemoved)
<1> SUFFICES ASSUME NoRacingRemovals PROVE Spec => RemovedStaysRemoved
  OBVIOUS
<1>1. Init => Typed /\ Registered
  BY ConstantsAssumption, TypedInit DEF Init, Registered, WithEntry
<1>2. Typed /\ Registered /\ [Next]_vars => (Typed /\ Registered)'
  BY ConstantsAssumption, TypedNext, RegisteredNext
<1>3. ASSUME Typed, Registered, [Next]_vars
      PROVE  [\A a \in Aliases : reg[a] = NoEntry /\ reg'[a] # NoEntry =>
                \E t \in Threads : pc[t] = "addput" /\ A(t) = a]_reg
  <2> SUFFICES ASSUME NEW a \in Aliases, reg[a] = NoEntry, reg'[a] # NoEntry
               PROVE  \E t \in Threads : pc[t] = "addput" /\ A(t) = a
    OBVIOUS
  <2>1. PICK t \in Threads : Begin(t) \/ Step(t)
    BY <1>3, ConstantsAssumption, QuietSteps
  <2>2. AddPut(t) \/ RemoveDelete(t) \/ PutEntry(t)
    BY <1>3, <2>1, RegSteps
  <2>3. a = A(t) /\ ~ RemoveDelete(t)
    BY <1>3, <2>2, ConstantsAssumption, RegChange
  <2>4. ~ PutEntry(t)
    BY <1>3, <2>3, ConstantsAssumption, RegChange DEF Registered, WithEntry
  <2> QED
    BY <1>3, <2>2, <2>3, <2>4, ConstantsAssumption, RegChange
<1> QED
  BY <1>1, <1>2, <1>3, PTL DEF Spec, RemovedStaysRemoved

\* If besides one goroutine does all adding, no two aliases ever have the same
\* root path (bundle.go:78), crashes, failing writes and reindexes of other
\* processes included.
THEOREM RegisteredRootPathsDistinct ==
  NoRacingRemovals /\ SingleAdder => (Spec => []RootPathsDistinct)
<1> SUFFICES ASSUME NoRacingRemovals, SingleAdder
             PROVE  Spec => []RootPathsDistinct
  OBVIOUS
<1>1. Init => Typed /\ Registered /\ RootsKept
  BY ConstantsAssumption, TypedInit DEF Init, Registered, RootsKept, Unregistered, WithEntry
<1>2. Typed /\ Registered /\ RootsKept /\ [Next]_vars => (Typed /\ Registered /\ RootsKept)'
  BY ConstantsAssumption, TypedNext, RegisteredNext, RootsKeptNext
<1>3. RootsKept => RootPathsDistinct
  BY DEF RootsKept, RootPathsDistinct
<1> QED
  BY <1>1, <1>2, <1>3, PTL DEF Spec
-----------------------------------------------------------------------------
OneProcess == \A p, q \in Procs : p = q
OneThreadPerAlias ==
  \A t, u \in Threads : \A j \in JobsOf[t], k \in JobsOf[u] : j.alias = k.alias => t = u
NoRemovals == \A t \in Threads : \A j \in JobsOf[t] : j.kind # "remove"

\* One daemon, one job at a time for an alias, no removal, a registry that can
\* be written, and jobs that end before the process does.
Careful == OneProcess /\ OneThreadPerAlias /\ NoRemovals /\ Drains /\ ~PutFails

NoneUp == \A p \in Procs : up[p] # "up"
Changing(t) == pc[t] \in {"delete", "put"}
Settled(a) == \A t \in Threads : Changing(t) => A(t) # a

\* While no process has been killed, the registry knows the chunks of the store
\* in use, and of the index file when none is.
Covered ==
  /\ \A t \in Threads : pc[t] \in WithEntry => reg[A(t)] = entry[t]
  /\ \A p \in Procs : up[p] # "up" => \A a \in Aliases : Has(store[p][a]) = {}
  /\ NoneUp => \A a \in Aliases : Has(saved[a]) \subseteq Ids(a)
  /\ \A p \in Procs, a \in Aliases : Settled(a) => Has(store[p][a]) \subseteq Ids(a)
  /\ \A t \in Threads : pc[t] = "delete" => Has(StoreOf(t)) \subseteq Ids(A(t)) \cup Has(batch[t])
  /\ \A t \in Threads : pc[t] = "put" \/ Reindexed(t) => Has(StoreOf(t)) \subseteq Has(batch[t])

\* If nothing embeds to the zero vector the store, or the file, is what the
\* last successful reindexes read.
Latest ==
  /\ NoneUp => saved = last
  /\ \A p \in Procs, a \in Aliases : up[p] = "up" /\ Settled(a) => store[p][a] = last[a]

LEMMA SameAliasSameThread ==
  ASSUME ConstantsAssumption, Careful, Typed, NEW t \in Threads, NEW u \in Threads,
         pc[t] # "idle", pc[u] # "idle", A(t) = A(u)
  PROVE  t = u
BY AtWork DEF Careful, OneThreadPerAlias, A

\* A step changes nothing of the aliases it does not work on, ...
LEMMA OtherAliases ==
  ASSUME ConstantsAssumption, Careful, Typed, NEW t \in Threads, Begin(t) \/ Step(t),
         NEW a \in Aliases, pc[t] = "idle" \/ a # A(t)
  PROVE  /\ reg'[a] = reg[a] /\ Ids(a)' = Ids(a) /\ last'[a] = last[a]
         /\ \A p \in Procs : store'[p][a] = store[p][a]
         /\ Settled(a)' => Settled(a)
<1>1. pc[t] = "idle" => ~ (EmbedUpsert(t) \/ DeleteStale(t) \/ AddPut(t)
                            \/ RemoveDelete(t) \/ PutEntry(t))
  BY DEF EmbedUpsert, DeleteStale, AddPut, RemoveDelete, PutEntry
<1>2. reg'[a] = reg[a]
  BY <1>1, RegSteps, RegChange
<1>3. last'[a] = last[a]
  <2>1. CASE PutEntry(t)
    BY <1>1, <2>1 DEF PutEntry, Typed, TypeOK, Chunks
  <2>2. CASE ~ PutEntry(t)
    <3> USE DEF history, vars
    <3>1. CASE Begin(t) \/ AddLookup(t) \/ AddScan(t) \/ AddPut(t) \/ RemoveLookup(t)
      BY <3>1 DEF Begin, AddLookup, AddScan, AddPut, RemoveLookup
    <3>2. CASE RemoveDelete(t) \/ GetEntry(t) \/ ListDocs(t) \/ ReadDoc(t)
      BY <3>2 DEF RemoveDelete, GetEntry, ListDocs, ReadDoc
    <3>3. CASE EmbedUpsert(t) \/ DeleteStale(t) \/ ReadFails(t) \/ WriteFails(t) \/ Return(t)
      BY <3>3 DEF EmbedUpsert, DeleteStale, ReadFails, WriteFails, Return
    <3> QED
      BY <2>2, <3>1, <3>2, <3>3 DEF Step
  <2> QED
    BY <2>1, <2>2
<1>4. \A p \in Procs : store'[p][a] = store[p][a]
  BY <1>1, StoreSteps
<1>5. Settled(a)' => Settled(a)
  <2> SUFFICES ASSUME Settled(a)', NEW u \in Threads, Changing(u) PROVE A(u) # a
    BY DEF Settled
  <2>1. CASE u = t
    BY <2>1 DEF Changing
  <2>2. CASE u # t
    BY <2>2, OthersStill DEF Still, Settled, Changing, A
  <2> QED
    BY <2>1, <2>2
<1> QED
  BY <1>2, <1>3, <1>4, <1>5 DEF Ids

\* ... and if no goroutine is between the Upsert and the last registry write of
\* its alias afterwards, that write is the step, or none was before.
LEMMA Settles ==
  ASSUME ConstantsAssumption, Careful, Typed, NEW t \in Threads, Step(t),
         NEW a \in Aliases, a = A(t), Settled(a)'
  PROVE  /\ store' = store
         /\ PutEntry(t) \/ (Settled(a) /\ last' = last /\ (reg' = reg \/ AddPut(t)))
<1> USE DEF shared, procs, local, history, bounds
<1>0. pc[t] # "idle"
  BY InService
<1>1. ~ EmbedUpsert(t) /\ ~ DeleteStale(t)
  BY DEF EmbedUpsert, DeleteStale, Goto, Settled, Changing, A, Typed, TypeOK
<1>2. store' = store
  BY <1>1, StoreSteps
<1>3. ~ RemoveDelete(t)
  BY RegChange DEF Careful, NoRemovals
<1>4. ~ WriteFails(t)
  BY DEF WriteFails, Careful
<1>5. ASSUME ~ PutEntry(t) PROVE ~ Changing(t) /\ last' = last
  <2>1. CASE AddLookup(t) \/ AddScan(t) \/ AddPut(t) \/ RemoveLookup(t)
    BY <2>1 DEF AddLookup, AddScan, AddPut, RemoveLookup, Changing
  <2>2. CASE GetEntry(t) \/ ListDocs(t) \/ ReadDoc(t)
    BY <2>2 DEF GetEntry, ListDocs, ReadDoc, Changing
  <2>3. CASE ReadFails(t) \/ Return(t)
    BY <2>3 DEF ReadFails, Return, Changing
  <2> QED
    BY <1>1, <1>3, <1>4, <1>5, <2>1, <2>2, <2>3 DEF Step
<1>6. ASSUME ~ Changing(t) PROVE Settled(a)
  BY <1>0, <1>6, SameAliasSameThread DEF Settled, Changing
<1> QED
  BY <1>2, <1>3, <1>5, <1>6, RegSteps

\* What the Upsert and the Delete of a reindex make of the chunks there were.
LEMMA ReindexStores ==
  ASSUME ConstantsAssumption, Typed, NEW t \in Threads
  PROVE  /\ EmbedUpsert(t) =>
              /\ pc[t] = "read" /\ job' = job /\ batch' = batch /\ reg' = reg
              /\ Has(StoreOf(t))' \subseteq Has(StoreOf(t)) \cup Has(batch[t])
         /\ DeleteStale(t) =>
              /\ pc[t] = "delete" /\ job' = job /\ batch' = batch /\ reg' = reg
              /\ Has(StoreOf(t))' \subseteq
                   Has(StoreOf(t)) \ (entry[t].ids \ Has(batch[t]))
<1> USE DEF shared, local
<1>1. ASSUME EmbedUpsert(t)
      PROVE  Has(StoreOf(t))' \subseteq Has(StoreOf(t)) \cup Has(batch[t])
  <2>1. P(t) \in Procs /\ A(t) \in Aliases /\ job' = job
    BY <1>1, AtWork DEF EmbedUpsert
  <2>2. StoreOf(t)' = [p \in Paths |-> IF batch[t][p] \in Bodies \ Blind
                                       THEN batch[t][p] ELSE StoreOf(t)[p]]
    BY <1>1, <2>1 DEF EmbedUpsert, StoreOf, A, P, Typed, TypeOK, Chunks
  <2> QED
    BY <2>2 DEF Has, ConstantsAssumption
<1>2. ASSUME DeleteStale(t)
      PROVE  Has(StoreOf(t))' \subseteq Has(StoreOf(t)) \ (entry[t].ids \ Has(batch[t]))
  <2>1. P(t) \in Procs /\ A(t) \in Aliases /\ job' = job
    BY <1>2, AtWork DEF DeleteStale
  <2>2. StoreOf(t)' = [p \in Paths |-> IF p \in entry[t].ids \ Has(batch[t])
                                       THEN None ELSE StoreOf(t)[p]]
    BY <1>2, <2>1 DEF DeleteStale, StoreOf, A, P, Typed, TypeOK, Chunks
  <2> QED
    BY <2>2 DEF Has
<1> QED
  BY <1>1, <1>2 DEF EmbedUpsert, DeleteStale

\* How a goroutine comes to the last steps of a reindex.
LEMMA LastSteps ==
  ASSUME ConstantsAssumption, Typed, NEW t \in Threads, Begin(t) \/ Step(t)
  PROVE  /\ pc'[t] = "delete" => EmbedUpsert(t)
         /\ pc'[t] = "put" => DeleteStale(t)
         /\ Reindexed(t)' => PutEntry(t) /\ store' = store /\ batch' = batch /\ job' = job
<1> USE DEF shared, procs, local, history, bounds, Typed, TypeOK, Reindexed
<1>1. CASE Begin(t)
  <2>1. pc'[t] \in {"add", "remove", "reindex"}
    BY <1>1 DEF Begin, Goto, ConstantsAssumption, JobSet
  <2> QED
    BY <2>1
<1>2. CASE AddLookup(t) \/ AddScan(t) \/ RemoveLookup(t)
  BY <1>2 DEF AddLookup, AddScan, RemoveLookup, End, Goto, Shape, Adding, Removing
<1>3. CASE AddPut(t) \/ RemoveDelete(t)
  BY <1>3, RegChange DEF AddPut, RemoveDelete, Shape, Adding, Removing
<1>4. CASE GetEntry(t) \/ ListDocs(t)
  BY <1>4 DEF GetEntry, ListDocs, End, Goto
<1>5. CASE ReadDoc(t)
  BY <1>5 DEF ReadDoc, End, Goto
<1>6. CASE EmbedUpsert(t) \/ DeleteStale(t) \/ PutEntry(t)
  BY <1>6 DEF EmbedUpsert, DeleteStale, PutEntry, End, Goto
<1>7. CASE ReadFails(t) \/ WriteFails(t) \/ Return(t)
  BY <1>7 DEF ReadFails, WriteFails, Return, End, Goto
<1> QED
  BY <1>1, <1>2, <1>3, <1>4, <1>5, <1>6, <1>7 DEF Step

LEMMA CoveredNext ==
  ASSUME ConstantsAssumption, Careful, Typed, Unregistered, Covered, [Next]_vars, kills' = 0
  PROVE  Unregistered' /\ Covered'
<1>1. ASSUME NEW t \in Threads, Begin(t) \/ Step(t) PROVE Unregistered' /\ Covered'
  <2>0. /\ up' = up /\ P(t) \in Procs /\ up[P(t)] = "up"
        /\ pc[t] # "idle" => A(t) \in Aliases
    BY <1>1, InService, AtWork, OthersStill
  <2>1. ASSUME NEW u \in Threads, u # t, pc'[u] # "idle"
        PROVE  /\ Still(u) /\ A(u)' = A(u) /\ A(u) \in Aliases /\ pc[u] # "idle"
               /\ reg'[A(u)] = reg[A(u)] /\ StoreOf(u)' = StoreOf(u)
               /\ Ids(A(u))' = Ids(A(u)) /\ (Reindexed(u)' => Reindexed(u))
    <3>1. Still(u) /\ A(u)' = A(u) /\ pc[u] # "idle"
      BY <1>1, <2>1, OthersStill DEF Still, A
    <3>2. P(u) \in Procs /\ A(u) \in Aliases
      BY <3>1, AtWork
    <3>3. pc[t] = "idle" \/ A(u) # A(t)
      BY <2>1, <3>1, SameAliasSameThread
    <3>4. reg'[A(u)] = reg[A(u)] /\ store'[P(u)][A(u)] = store[P(u)][A(u)]
      BY <1>1, <3>2, <3>3, OtherAliases
    <3> QED
      BY <3>1, <3>2, <3>4 DEF StoreOf, Ids, P, A, Reindexed, Still
  <2>2. Unregistered'
    <3> SUFFICES ASSUME NEW u \in Threads, pc'[u] \in {"addscan", "addput"}
                 PROVE  reg'[A(u)'] = NoEntry
      BY DEF Unregistered
    <3>1. CASE u = t
      BY <1>1, <3>1, JobMoves DEF Unregistered, A
    <3>2. CASE u # t
      BY <2>1, <3>2 DEF Unregistered, Still
    <3> QED
      BY <3>1, <3>2
  <2>3. ASSUME NEW u \in Threads, pc'[u] \in WithEntry PROVE reg'[A(u)'] = entry'[u]
    <3>1. CASE u = t
      BY <1>1, <2>3, <3>1, JobMoves DEF Covered, A
    <3>2. CASE u # t
      BY <2>1, <2>3, <3>2 DEF Covered, Still, WithEntry
    <3> QED
      BY <3>1, <3>2
  <2>4. ASSUME NEW p \in Procs, up'[p] # "up", NEW a \in Aliases PROVE Has(store'[p][a]) = {}
    BY <2>0, <2>4 DEF Careful, OneProcess
  <2>5. ~ NoneUp'
    BY <2>0 DEF NoneUp
  <2>6. ASSUME NEW p \in Procs, NEW a \in Aliases, Settled(a)'
        PROVE  Has(store'[p][a]) \subseteq Ids(a)'
    <3>1. CASE pc[t] = "idle" \/ a # A(t)
      BY <1>1, <2>6, <3>1, OtherAliases DEF Covered
    <3>2. CASE pc[t] # "idle" /\ a = A(t)
      <4>1. Step(t) /\ p = P(t)
        BY <1>1, <2>0, <3>2 DEF Begin, Careful, OneProcess
      <4>2. /\ store' = store
            /\ PutEntry(t) \/ (Settled(a) /\ (reg' = reg \/ AddPut(t)))
        BY <2>6, <3>2, <4>1, Settles
      <4>3. CASE PutEntry(t)
        <5>1. pc[t] = "put" /\ reg'[a] # NoEntry /\ reg'[a].ids = Has(batch[t])
          BY <3>2, <4>3, RegChange
        <5>2. Has(store[p][a]) \subseteq Has(batch[t])
          BY <3>2, <4>1, <5>1 DEF Covered, StoreOf
        <5> QED
          BY <4>2, <5>1, <5>2 DEF Ids
      <4>4. CASE Settled(a) /\ reg' = reg
        BY <4>2, <4>4 DEF Covered, Ids
      <4>5. CASE Settled(a) /\ AddPut(t)
        <5>1. reg[a] = NoEntry
          BY <3>2, <4>5, RegChange DEF Unregistered
        <5>2. Has(store[p][a]) = {}
          BY <4>5, <5>1 DEF Covered, Ids
        <5> QED
          BY <4>2, <5>2
      <4> QED
        BY <4>2, <4>3, <4>4, <4>5
    <3> QED
      BY <3>1, <3>2
  <2>7. ASSUME NEW u \in Threads, pc'[u] = "delete"
        PROVE  Has(StoreOf(u))' \subseteq (Ids(A(u)) \cup Has(batch[u]))'
    <3>1. CASE u # t
      BY <2>1, <2>7, <3>1 DEF Covered, Still, Has
    <3>2. CASE u = t
      <4>1. EmbedUpsert(t)
        BY <1>1, <2>7, <3>2, LastSteps
      <4>2. /\ pc[t] = "read" /\ job' = job /\ batch' = batch /\ reg' = reg
            /\ Has(StoreOf(t))' \subseteq Has(StoreOf(t)) \cup Has(batch[t])
        BY <4>1, ReindexStores
      <4>3. A(t) \in Aliases /\ Settled(A(t))
        <5> SUFFICES ASSUME NEW v \in Threads, Changing(v), A(v) = A(t) PROVE FALSE
          BY <2>0, <4>2 DEF Settled
        <5> QED
          BY <4>2, SameAliasSameThread DEF Changing
      <4>4. Has(StoreOf(t)) \subseteq Ids(A(t))
        BY <2>0, <4>3 DEF Covered, StoreOf
      <4>5. Ids(A(t))' = Ids(A(t)) /\ Has(batch[t])' = Has(batch[t])
        BY <4>2 DEF Ids, A, Has
      <4> QED
        BY <3>2, <4>2, <4>4, <4>5
    <3> QED
      BY <3>1, <3>2
  <2>8. ASSUME NEW u \in Threads, pc'[u] = "put" \/ Reindexed(u)'
        PROVE  Has(StoreOf(u))' \subseteq Has(batch[u])'
    <3>1. CASE u # t
      BY <2>1, <2>8, <3>1 DEF Covered, Still, Has, Reindexed
    <3>2. CASE u = t /\ pc'[t] = "put"
      <4>1. DeleteStale(t)
        BY <1>1, <3>2, LastSteps
      <4>2. /\ pc[t] = "delete" /\ job' = job /\ batch' = batch /\ reg' = reg
            /\ Has(StoreOf(t))' \subseteq Has(StoreOf(t)) \ (entry[t].ids \ Has(batch[t]))
        BY <4>1, ReindexStores
      <4>3. reg[A(t)] = entry[t] /\ entry[t] # NoEntry
        BY <4>2 DEF Covered, WithEntry, Typed, Shape, ConstantsAssumption, Entries
      <4>4. Has(StoreOf(t)) \subseteq entry[t].ids \cup Has(batch[t])
        BY <4>2, <4>3 DEF Covered, Ids
      <4>5. Has(batch[t])' = Has(batch[t])
        BY <4>2 DEF Has
      <4> QED
        BY <3>2, <4>2, <4>4, <4>5
    <3>3. CASE u = t /\ Reindexed(t)'
      <4>1. PutEntry(t) /\ store' = store /\ batch' = batch /\ job' = job
        BY <1>1, <3>3, LastSteps
      <4>2. StoreOf(t)' = StoreOf(t) /\ pc[t] = "put"
        BY <4>1 DEF StoreOf, A, P, PutEntry
      <4>3. Has(StoreOf(t)) \subseteq Has(batch[t])
        BY <4>2 DEF Covered
      <4> QED
        BY <3>3, <4>1, <4>2, <4>3 DEF Has
    <3> QED
      BY <2>8, <3>1, <3>2, <3>3
  <2> QED
    BY <2>2, <2>3, <2>4, <2>5, <2>6, <2>7, <2>8 DEF Covered, Has
<1>2. ASSUME NEW p \in Procs, Start(p) \/ LoadIndex(p) \/ Stop(p) \/ Kill(p)
      PROVE  Unregistered' /\ Covered'
  <2>1. ~ Kill(p)
    BY DEF Kill, Typed, TypeOK, ConstantsAssumption
  <2>2. reg' = reg /\ \A t \in Threads : pc'[t] = "idle"
    BY <1>2, ProcessSteps DEF Careful, OneProcess, ConstantsAssumption, P
  <2>3. \A a \in Aliases : Ids(a)' = Ids(a)
    BY <2>2 DEF Ids
  <2>4. CASE Start(p)
    <3>1. store' = store /\ saved' = saved /\ up[p] = "down" /\ up'[p] = "booting"
      BY <2>4 DEF Start, shared, Typed, TypeOK
    <3>2. NoneUp /\ \A q \in Procs : q = p
      BY <3>1 DEF NoneUp, Careful, OneProcess
    <3> QED
      BY <2>2, <2>3, <3>1, <3>2 DEF Unregistered, Covered, NoneUp, WithEntry, Reindexed, Has
  <2>5. CASE LoadIndex(p)
    <3>1. up[p] = "booting" /\ up'[p] = "up" /\ saved' = saved /\ store'[p] = saved
      BY <2>5 DEF LoadIndex, shared, Typed, TypeOK
    <3>2. NoneUp /\ ~ NoneUp' /\ \A q \in Procs : q = p
      BY <3>1 DEF NoneUp, Careful, OneProcess
    <3> QED
      BY <2>2, <2>3, <3>1, <3>2 DEF Unregistered, Covered, WithEntry, Reindexed, Has
  <2>6. CASE Stop(p)
    <3>1. /\ up[p] = "up" /\ up'[p] = "down" /\ saved' = store[p] /\ store'[p] = NoChunks
          /\ \A t \in Threads : pc[t] = "idle"
      BY <2>6 DEF Stop, Exit, Typed, TypeOK, Careful, OneProcess, ConstantsAssumption, P
    <3>2. \A q \in Procs : q = p
      BY DEF Careful, OneProcess
    <3>3. \A a \in Aliases : Has(saved'[a]) \subseteq Ids(a) /\ Has(store'[p][a]) = {}
      BY <3>1 DEF Covered, Settled, Changing, NoChunks, Has
    <3> QED
      BY <2>2, <2>3, <3>1, <3>2, <3>3 DEF Unregistered, Covered, WithEntry, Reindexed, Has
  <2> QED
    BY <1>2, <2>1, <2>4, <2>5, <2>6
<1>3. CASE Edit \/ UNCHANGED vars
  <2>1. UNCHANGED << reg, saved, procs, pc, job, local, res >>
    BY <1>3 DEF Edit, vars, shared
  <2>2. /\ \A a \in Aliases : Ids(a)' = Ids(a) /\ Settled(a)' = Settled(a)
        /\ \A t \in Threads : A(t)' = A(t) /\ StoreOf(t)' = StoreOf(t)
                              /\ Reindexed(t)' = Reindexed(t)
    BY <2>1 DEF procs, Ids, Settled, Changing, A, P, StoreOf, Reindexed
  <2>3. Unregistered'
    BY <2>1, <2>2 DEF Unregistered
  <2>4. NoneUp' = NoneUp
    BY <2>1 DEF procs, NoneUp
  <2>5. UNCHANGED << reg, saved, up, store, pc, entry, batch >>
    BY <2>1 DEF procs, local
  <2>6. \A t \in Threads : Ids(A(t))' = Ids(A(t)) /\ Has(StoreOf(t))' = Has(StoreOf(t))
                           /\ Has(batch[t])' = Has(batch[t])
    BY <2>2, <2>5 DEF Ids, Has
  <2>7. Covered'
    BY <2>2, <2>4, <2>5, <2>6 DEF Covered, Has
  <2> QED
    BY <2>3, <2>7
<1> QED
  BY <1>1, <1>2, <1>3 DEF Next

\* Before the last write the store holds what was read and nothing else.
LEMMA StoredAtPut ==
  ASSUME ConstantsAssumption, Blind = {}, Typed, Kept, Covered,
         NEW t \in Threads, pc[t] = "put"
  PROVE  StoreOf(t) = batch[t]
<1>1. P(t) \in Procs /\ A(t) \in Aliases /\ job[t].kind = "reindex"
  BY AtWork DEF Typed, Shape, Reindexing, WithEntry
<1>2. /\ StoreOf(t) \in [Paths -> Bodies \cup {None}]
      /\ batch[t] \in [Paths -> Bodies \cup {None}]
  BY <1>1 DEF StoreOf, Typed, TypeOK, Chunks
<1>3. \A p \in Has(batch[t]) : StoreOf(t)[p] = batch[t][p]
  BY <1>1 DEF Kept, NewStored
<1>4. Has(StoreOf(t)) \subseteq Has(batch[t])
  BY DEF Covered
<1>5. \A p \in Paths : StoreOf(t)[p] = batch[t][p]
  BY <1>3, <1>4 DEF Has
<1> QED
  BY <1>2, <1>5

LEMMA LatestNext ==
  ASSUME ConstantsAssumption, Careful, Blind = {}, Typed, Kept, Covered, Latest,
         [Next]_vars, kills' = 0
  PROVE  Latest'
<1>1. ASSUME NEW t \in Threads, Begin(t) \/ Step(t) PROVE Latest'
  <2>1. up' = up
    BY <1>1, OthersStill
  <2>2. ~ NoneUp'
    BY <1>1, <2>1, InService DEF NoneUp
  <2>3. ASSUME NEW p \in Procs, NEW a \in Aliases, up'[p] = "up", Settled(a)'
        PROVE  store'[p][a] = last'[a]
    <3>1. CASE pc[t] = "idle" \/ a # A(t)
      BY <1>1, <2>1, <2>3, <3>1, OtherAliases DEF Latest
    <3>2. CASE pc[t] # "idle" /\ a = A(t)
      <4>1. Step(t) /\ p = P(t)
        BY <1>1, <3>2, AtWork DEF Begin, Careful, OneProcess
      <4>2. store' = store /\ (PutEntry(t) \/ (Settled(a) /\ last' = last))
        BY <2>3, <3>2, <4>1, Settles
      <4>3. CASE PutEntry(t)
        <5>1. pc[t] = "put" /\ last'[a] = batch[t]
          BY <3>2, <4>3 DEF PutEntry, Typed, TypeOK, Chunks
        <5> QED
          BY <3>2, <4>1, <4>2, <5>1, StoredAtPut DEF StoreOf
      <4>4. CASE Settled(a) /\ last' = last
        BY <2>1, <2>3, <4>2, <4>4 DEF Latest
      <4> QED
        BY <4>2, <4>3, <4>4
    <3> QED
      BY <3>1, <3>2
  <2> QED
    BY <2>2, <2>3 DEF Latest
<1>2. ASSUME NEW p \in Procs, Start(p) \/ LoadIndex(p) \/ Stop(p) \/ Kill(p)
      PROVE  Latest'
  <2>1. ~ Kill(p)
    BY DEF Kill, Typed, TypeOK, ConstantsAssumption
  <2>2. last' = last /\ \A q \in Procs : q = p
    BY <1>2, ProcessSteps DEF Careful, OneProcess
  <2>3. CASE Start(p)
    BY <2>2, <2>3 DEF Start, shared, Typed, TypeOK, NoneUp, Latest
  <2>4. CASE LoadIndex(p)
    BY <2>2, <2>4 DEF LoadIndex, shared, Typed, TypeOK, NoneUp, Latest
  <2>5. CASE Stop(p)
    <3>1. /\ up[p] = "up" /\ up'[p] = "down" /\ saved' = store[p]
          /\ \A t \in Threads : pc[t] = "idle"
      BY <2>5 DEF Stop, Exit, Typed, TypeOK, Careful, OneProcess, ConstantsAssumption, P
    <3>2. \A a \in Aliases : store[p][a] = last[a]
      BY <3>1 DEF Latest, Settled, Changing
    <3>3. store[p] = last
      BY <3>2 DEF Typed, TypeOK, Chunks
    <3> QED
      BY <2>2, <3>1, <3>3 DEF Latest
  <2> QED
    BY <1>2, <2>1, <2>3, <2>4, <2>5
<1>3. CASE Edit \/ UNCHANGED vars
  <2>1. UNCHANGED << saved, up, store, last, pc, job >>
    BY <1>3 DEF Edit, vars, shared, procs, history
  <2>2. NoneUp' = NoneUp /\ \A a \in Aliases : Settled(a)' = Settled(a)
    BY <2>1 DEF NoneUp, Settled, Changing, A
  <2> QED
    BY <2>1, <2>2 DEF Latest
<1> QED
  BY <1>1, <1>2, <1>3 DEF Next

\* The kills of the past; after one the index file may be older than the
\* registry, and nothing is claimed.
Unkilled == kills = 0 => Unregistered /\ Covered

LEMMA UnkilledInit == ConstantsAssumption /\ Init => Typed /\ Unkilled
<1> SUFFICES ASSUME ConstantsAssumption, Init PROVE Unregistered /\ Covered
  BY TypedInit DEF Unkilled
<1> QED
  BY DEF Init, Unregistered, Covered, WithEntry, Reindexed, NoChunks, Has

LEMMA KillsGrow ==
  ASSUME ConstantsAssumption, Typed, [Next]_vars, kills' = 0
  PROVE  kills = 0
<1>1. CASE \E t \in Threads : Begin(t) \/ Step(t)
  BY <1>1, OthersStill
<1>2. CASE \E p \in Procs : Start(p) \/ LoadIndex(p) \/ Stop(p) \/ Kill(p)
  BY <1>2 DEF Start, LoadIndex, Stop, Kill, bounds, Typed, TypeOK, ConstantsAssumption
<1>3. CASE Edit \/ UNCHANGED vars
  BY <1>3 DEF Edit, vars, bounds
<1> QED
  BY <1>1, <1>2, <1>3 DEF Next

LEMMA UnkilledAlways == Careful => (Spec => [](Typed /\ Unkilled))
<1> SUFFICES ASSUME Careful PROVE Spec => [](Typed /\ Unkilled)
  OBVIOUS
<1>1. Typed /\ Unkilled /\ [Next]_vars => (Typed /\ Unkilled)'
  BY ConstantsAssumption, TypedNext, KillsGrow, CoveredNext DEF Unkilled
<1> QED
  BY ConstantsAssumption, UnkilledInit, <1>1, PTL DEF Spec

\* One careful daemon that is never killed: every chunk in its store is one the
\* registry, or the reindex at work on the alias, lists; and so is every chunk
\* in the index file when no process runs (bundle.go:190-204).
THEOREM RegistryKnowsTheChunks ==
  Careful /\ MaxKills = 0 => (Spec => []RegistryCoversStore)
<1> SUFFICES ASSUME Careful, MaxKills = 0 PROVE Spec => []RegistryCoversStore
  OBVIOUS
<1>1. Spec => [](Typed /\ Unkilled)
  BY UnkilledAlways
<1>2. ASSUME Typed, Unkilled PROVE RegistryCoversStore
  <2>1. Covered
    BY <1>2 DEF Unkilled, Typed, TypeOK
  <2>2. ASSUME NEW p \in Procs, NEW a \in Aliases PROVE Has(store[p][a]) \subseteq Known(a)
    <3>1. CASE Settled(a)
      BY <2>1, <3>1 DEF Covered, Known, Ids
    <3>2. CASE ~ Settled(a)
      <4>1. PICK t \in Threads : Changing(t) /\ A(t) = a
        BY <3>2 DEF Settled
      <4>2. P(t) = p
        BY <4>1, ConstantsAssumption DEF Careful, OneProcess, P
      <4>3. Has(store[p][a]) \subseteq Ids(a) \cup Has(batch[t])
        BY <2>1, <4>1, <4>2 DEF Covered, Changing, StoreOf
      <4> QED
        BY <4>1, <4>3 DEF Known, Ids, Changing
    <3> QED
      BY <3>1, <3>2
  <2>3. (\A p \in Procs : up[p] = "down") => \A a \in Aliases : Has(saved[a]) \subseteq Known(a)
    BY <2>1 DEF Covered, NoneUp, Known, Ids
  <2> QED
    BY <2>2, <2>3 DEF RegistryCoversStore
<1> QED
  BY <1>1, <1>2, PTL

\* Under the same conditions a successful reindex leaves no chunk of a document
\* it did not find (domain/bundle.go:15-18), even if some embed to nothing.
THEOREM ReindexLeavesNoGhosts ==
  Careful /\ MaxKills = 0 => (Spec => []NoGhostChunks)
<1> SUFFICES ASSUME Careful, MaxKills = 0 PROVE Spec => []NoGhostChunks
  OBVIOUS
<1>1. Spec => [](Typed /\ Unkilled)
  BY UnkilledAlways
<1>2. Typed /\ Unkilled => NoGhostChunks
  BY DEF Unkilled, Typed, TypeOK, Covered, NoGhostChunks
<1> QED
  BY <1>1, <1>2, PTL

\* Unless it was killed, what a careful daemon's last successful reindexes read
\* is the index file when it is down (documents/technical-details.md:135), if
\* nothing embeds to the zero vector.
THEOREM LatestIndexStays ==
  Careful /\ Blind = {} => (Spec => []LatestIndexKept)
<1> SUFFICES ASSUME Careful, Blind = {} PROVE Spec => []LatestIndexKept
  OBVIOUS
<1> DEFINE Inv == Typed /\ Kept /\ Unkilled /\ (kills = 0 => Latest)
<1>1. OneReindexer
  BY DEF Careful, OneThreadPerAlias, OneReindexer
<1>2. Init => Inv
  BY ConstantsAssumption, UnkilledInit DEF Init, Kept, Latest, NoneUp
<1>3. Inv /\ [Next]_vars => Inv'
  <2> SUFFICES ASSUME Inv, [Next]_vars PROVE Inv'
    OBVIOUS
  <2>1. Typed' /\ Kept'
    BY <1>1, ConstantsAssumption, TypedNext, KeptNext
  <2>2. ASSUME kills' = 0 PROVE Unregistered' /\ Covered' /\ Latest'
    BY <2>2, ConstantsAssumption, KillsGrow, CoveredNext, LatestNext DEF Unkilled
  <2> QED
    BY <2>1, <2>2 DEF Unkilled
<1>4. Inv => LatestIndexKept
  BY DEF LatestIndexKept, Latest, NoneUp
<1> QED
  BY <1>2, <1>3, <1>4, PTL DEF Spec
=============================================================================
