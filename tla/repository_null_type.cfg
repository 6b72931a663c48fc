SPECIFICATION Spec
CONSTANTS
  c1 = c1
  c2 = c2
  kb = kb
  Delimiters <- Dashes
  TypeLines = {"type: a", "type: b", "type: null"}
  ExtraLines = {"k1: v", "k2: v", "title: ~"}
  NullLines = {"type: null", "title: ~"}
  Callers = {c1, c2}
  RootOf <- Roots
  Names <- SomeNames
  Tree <- SmallTree
  Hands <- SomeHands
  Refs <- SomeRefs
  Subs <- SomeSubs
  Logs <- SomeLogs
  Concepts <- NullType
  LinkOf <- SomeLinks
  Md = {"a.md", "b.md", "o.md", "index.md"}
  MaxLines = 9
  MaxCalls = 2
  MaxHands = 0
  MaxFaults = 0
INVARIANTS
  PutIsTyped
CHECK_DEADLOCK FALSE
