-------------------------- MODULE MCNodeRepository --------------------------
EXTENDS NodeRepository
CONSTANTS c1, c2, kb

D == "d"  \* the directory that holds the bundle; the root is given through a link

SomeNames == {D, "kb", "x", "s", "ln", "a.md", "b.md", "o.md", "index.md", "log.md"}

\* A bundle with a document that was written elsewhere, next to other files.
SmallTree ==
  << D >> :> Dir @@ << D, "kb" >> :> Dir @@ << D, "x" >> :> Dir
  @@ << D, "x", "o.md" >> :> File(<< "text" >>)
  @@ << D, "kb", "a.md" >> :> File(<< "---\r\r", "type: b", "---\r", "text", "" >>)
  @@ << "ln" >> :> [kind |-> "link", to |-> << D >>]
Alike == Permutations({c1, c2})
Roots == kb :> << "ln", "kb" >>

SomeHands ==
  { [path |-> << D, "kb", "s" >>, node |-> [kind |-> "link", to |-> << D, "x" >>]],
    [path |-> << D, "kb", "b.md" >>, node |-> [kind |-> "link", to |-> << D, "x", "o.md" >>]],
    [path |-> << D, "kb", "a.md" >>, node |-> File(<< "---", "text", "---", "" >>)],
    [path |-> << D, "kb", "s" >>, gone |-> TRUE] }

SomeRefs ==
  { << "b.md" >>, << "s", "", ".", "b.md" >>, << "s", "..", "b.md", "" >>,
    << "..", "x", "o.md" >>, << "index.md", "" >> }
OddRefs == { << "index.md", "b.md" >>, << "", "b.md" >>, << "b.md", "" >> }
SomeSubs == { << "" >>, << "s" >>, << ".", "s", "" >> }
SomeLogs == { << "s", "index.md" >> }

SomeLinks ==
  "[](/a.md)" :> [abs |-> TRUE, to |-> << "", "a.md" >>]
  @@ "[](../a.md)" :> [abs |-> FALSE, to |-> << "..", "a.md" >>]

NullType == { [fm |-> {"type: null", "k1: v"}, body |-> << "text", "" >>] }
Dashes == {"---", "---\r", "---\r\r"}

\* The last has a type that is read as none.
SomeConcepts ==
  { [fm |-> {"type: a", "k1: v", "k2: v"}, body |-> << "", "---", "text" >>],
    [fm |-> {"type: a", "title: ~"}, body |-> << "[](/a.md)", "[](../a.md)", "" >>],
    [fm |-> {"type: a", "k1: v"}, body |-> << "text", "text", "text", "text", "text", "" >>],
    [fm |-> {"k1: v"}, body |-> << "" >>] } \cup NullType
=============================================================================
