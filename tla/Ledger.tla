------------------------------- MODULE Ledger -------------------------------
(***************************************************************************)
(* What concept_write promises about log.md, "append-only change log":     *)
(* each directory of each bundle has a log to which writes are only ever   *)
(* appended, each at most once, and a write is acknowledged only when its  *)
(* directory's log holds it.  ConceptWrites implements it.                 *)
(***************************************************************************)
EXTENDS Naturals, Sequences

CONSTANTS Roots, Dirs, Ids

VARIABLES ledger,   \* the log of each directory
          confirmed \* acknowledged writes: [root, dir, id]

ledgervars == << ledger, confirmed >>

Logged(r, d) == { ledger[r][d][i] : i \in DOMAIN ledger[r][d] }

LedgerInit ==
  /\ ledger = [r \in Roots |-> [d \in Dirs |-> << >>]]
  /\ confirmed = {}

Record(r, d, id) ==
  /\ id \notin Logged(r, d)
  /\ ledger' = [ledger EXCEPT ![r][d] = Append(@, id)]
  /\ UNCHANGED confirmed

Confirm(r, d, id) ==
  /\ id \in Logged(r, d)
  /\ confirmed' = confirmed \cup { [root |-> r, dir |-> d, id |-> id] }
  /\ UNCHANGED ledger

LedgerNext ==
  \E r \in Roots, d \in Dirs, id \in Ids : Record(r, d, id) \/ Confirm(r, d, id)

LedgerSpec == LedgerInit /\ [][LedgerNext]_ledgervars
=============================================================================
