------------------------------ MODULE Registry ------------------------------
(***************************************************************************)
(* The data of the bundle registry and the effect of one repository call   *)
(* on it (domain.BundleRepository, implemented by                          *)
(* internal/infra/registry/yaml.go).  The registry is the list of entries  *)
(* of registry.yaml in file order.  An entry keeps its alias and one       *)
(* value, which stands for every other field (root path, description,      *)
(* tags, timestamps, chunk IDs): a Put replaces them all together.         *)
(***************************************************************************)
EXTENDS Naturals, Sequences

CONSTANTS Aliases,  \* the bundle aliases
          Vals      \* the values of an entry: all its fields but the alias

Entry == [alias : Aliases, val : Vals]

Ops == [kind : {"put"}, alias : Aliases, val : Vals]
         \cup [kind : {"delete", "get"}, alias : Aliases]
         \cup [kind : {"list"}]
NoOp == [kind |-> "none"]

Statuses == {"ok", "notfound", "error"}
Answers == [status : Statuses, rows : Seq(Entry)]
NoAnswer == [status |-> "none", rows |-> << >>]
Failure == [status |-> "error", rows |-> << >>]

AliasesOf(reg) == { reg[i].alias : i \in DOMAIN reg }

\* The entry the loops of Get and Put stop at (the only one with the alias, by
\* UniqueAliases below).
At(reg, a) == CHOOSE i \in DOMAIN reg : reg[i].alias = a

\* Delete filters the alias out: again at most one entry.
Without(reg, a) ==
  IF a \in AliasesOf(reg)
  THEN [j \in 1 .. Len(reg) - 1 |-> reg[IF j < At(reg, a) THEN j ELSE j + 1]]
  ELSE reg

\* Mutant: Put never looks for an entry to replace.
AlwaysAppended(reg, e) == Append(reg, e)

\* Mutant: Put moves the entry it replaces to the end.
MovedToEnd(reg, e) == Append(Without(reg, e.alias), e)

\* Put replaces the entry in place, or appends a new one.
Upserted(reg, e) ==
  IF e.alias \in AliasesOf(reg)
  THEN [reg EXCEPT ![At(reg, e.alias)] = e]
  ELSE Append(reg, e)

\* Mutant: Put stores the call and not the entry.
EffectRaw(reg, o) ==
  CASE o.kind = "put" -> Upserted(reg, o)
    [] o.kind = "delete" -> Without(reg, o.alias)
    [] OTHER -> reg

\* The registry a successful call leaves behind.
Effect(reg, o) ==
  CASE o.kind = "put" -> Upserted(reg, [alias |-> o.alias, val |-> o.val])
    [] o.kind = "delete" -> Without(reg, o.alias)
    [] OTHER -> reg

\* What a successful call answers.
Answer(reg, o) ==
  CASE o.kind = "list" -> [status |-> "ok", rows |-> reg]
    [] o.kind = "get" /\ o.alias \in AliasesOf(reg) ->
         [status |-> "ok", rows |-> << reg[At(reg, o.alias)] >>]
    [] o.kind = "get" /\ o.alias \notin AliasesOf(reg) ->
         [status |-> "notfound", rows |-> << >>]
    [] OTHER -> [status |-> "ok", rows |-> << >>]

UniqueAliases(reg) ==
  \A i, j \in DOMAIN reg : reg[i].alias = reg[j].alias => i = j
=============================================================================
