\* Two lists and four nodes: a list can be empty, have one node, a head and a
\* tail, or two nodes in between.
CONSTANTS
  Node = {n1, n2, n3, n4}
  Mgr = {tm_main, tm_minor}
  NULL = NULL
SPECIFICATION Spec
INVARIANTS ListShape NothingDangles
PROPERTY ImplementsQueue
