------------------------------ MODULE TimerList ------------------------------
(***************************************************************************)
(* The two timer lists of httpd_mock (src/httpd_mock/http_handlers.c,      *)
(* lines 62-193) as they are in memory: the head, tail and count of each   *)
(* timer_mgr and the prev, next and owner of each timer_node.              *)
(***************************************************************************)
EXTENDS Naturals, Sequences

CONSTANTS Node, Mgr, NULL

ASSUME PointersAssumption == NULL \notin Node /\ NULL \notin Mgr

VARIABLES
  alloc,              \* the nodes that are allocated
  head, tail, count,  \* timer_mgr
  prev, next, owner   \* timer_node

vars == <<alloc, head, tail, count, prev, next, owner>>

Init ==
  /\ alloc = {}
  /\ head = [m \in Mgr |-> NULL] /\ tail = [m \in Mgr |-> NULL]
  /\ count = [m \in Mgr |-> 0]
  /\ prev = [n \in Node |-> NULL] /\ next = [n \in Node |-> NULL]
  /\ owner = [n \in Node |-> NULL]

\* The client keeps the node it has, so a new one is made only when there is
\* none; memset clears all its pointers.
timer_node_create(n) ==
  /\ n \notin alloc
  /\ alloc' = alloc \cup {n}
  /\ prev' = [prev EXCEPT ![n] = NULL]
  /\ next' = [next EXCEPT ![n] = NULL]
  /\ owner' = [owner EXCEPT ![n] = NULL]
  /\ UNCHANGED <<head, tail, count>>

\* Mutant: a node is put before the first one.
timer_node_push_front(m, n) ==
  /\ n \in alloc
  /\ owner[n] = NULL
  /\ IF head[m] = NULL
     THEN tail' = [tail EXCEPT ![m] = n] /\ UNCHANGED <<prev, next>>
     ELSE /\ next' = [next EXCEPT ![n] = head[m]]
          /\ prev' = [prev EXCEPT ![head[m]] = n]
          /\ UNCHANGED tail
  /\ head' = [head EXCEPT ![m] = n]
  /\ owner' = [owner EXCEPT ![n] = m]
  /\ count' = [count EXCEPT ![m] = @ + 1]
  /\ UNCHANGED alloc

timer_node_push(m, n) ==
  /\ n \in alloc
  /\ owner[n] = NULL
  /\ IF head[m] = tail[m] /\ head[m] = NULL
     THEN head' = [head EXCEPT ![m] = n] /\ UNCHANGED <<prev, next>>
     ELSE /\ prev' = [prev EXCEPT ![n] = tail[m]]
          /\ next' = [next EXCEPT ![tail[m]] = n]
          /\ UNCHANGED head
  /\ tail' = [tail EXCEPT ![m] = n]
  /\ owner' = [owner EXCEPT ![n] = m]
  /\ count' = [count EXCEPT ![m] = @ + 1]
  /\ UNCHANGED alloc

\* A node that has an owner is left alone.
timer_node_push_listed(n) == n \in alloc /\ owner[n] # NULL /\ UNCHANGED vars

\* Mutant: the links of the popped node are not cleared.
timer_node_pop_linked(m) ==
  /\ head[m] # NULL
  /\ LET n == head[m]
         h == next[n]
     IN /\ head' = [head EXCEPT ![m] = h]
        /\ tail' = IF h = NULL THEN [tail EXCEPT ![m] = NULL] ELSE tail
        /\ prev' = IF h = NULL THEN prev ELSE [prev EXCEPT ![h] = NULL]
        /\ owner' = [owner EXCEPT ![n] = NULL]
  /\ count' = [count EXCEPT ![m] = @ - 1]
  /\ UNCHANGED <<alloc, next>>

timer_node_pop(m) ==
  /\ head[m] # NULL
  /\ LET n == head[m]
         h == next[n]
     IN /\ head' = [head EXCEPT ![m] = h]
        /\ tail' = IF h = NULL THEN [tail EXCEPT ![m] = NULL] ELSE tail
        /\ prev' = IF h = NULL THEN [prev EXCEPT ![n] = NULL]
                               ELSE [prev EXCEPT ![h] = NULL, ![n] = NULL]
        /\ next' = [next EXCEPT ![n] = NULL]
        /\ owner' = [owner EXCEPT ![n] = NULL]
  /\ count' = [count EXCEPT ![m] = @ - 1]
  /\ UNCHANGED alloc

(***************************************************************************)
(* timer_node_delete: which of the three branches runs is read off the     *)
(* node's own links.  Unlink is the part that is skipped when the node has *)
(* no owner.  The last node of a list takes the "head" branch, which       *)
(* leaves tail to the count.                                               *)
(***************************************************************************)
UnlinkHead(m, n) ==
  /\ prev[n] = NULL
  /\ head' = [head EXCEPT ![m] = IF count[m] = 1 THEN NULL ELSE next[n]]
  /\ tail' = [tail EXCEPT ![m] = IF count[m] = 1 THEN NULL ELSE @]
  /\ prev' = IF next[n] = NULL THEN prev ELSE [prev EXCEPT ![next[n]] = NULL]
  /\ UNCHANGED next

UnlinkTail(m, n) ==
  /\ prev[n] # NULL /\ next[n] = NULL
  /\ head' = [head EXCEPT ![m] = IF count[m] = 1 THEN NULL ELSE @]
  /\ tail' = [tail EXCEPT ![m] = IF count[m] = 1 THEN NULL ELSE prev[n]]
  /\ next' = [next EXCEPT ![prev[n]] = NULL]
  /\ UNCHANGED prev

UnlinkMiddle(m, n) ==
  /\ prev[n] # NULL /\ next[n] # NULL
  /\ head' = [head EXCEPT ![m] = IF count[m] = 1 THEN NULL ELSE @]
  /\ tail' = [tail EXCEPT ![m] = IF count[m] = 1 THEN NULL ELSE @]
  /\ next' = [next EXCEPT ![prev[n]] = next[n]]
  /\ prev' = [prev EXCEPT ![next[n]] = prev[n]]

\* Mutant: the first node of a list is taken for its last.
Unlink_tailfirst(m, n) ==
  /\ \/ next[n] # NULL /\ (UnlinkHead(m, n) \/ UnlinkMiddle(m, n))
     \/ /\ next[n] = NULL
        /\ tail' = [tail EXCEPT ![m] = prev[n]]
        /\ next' = IF prev[n] = NULL THEN next ELSE [next EXCEPT ![prev[n]] = NULL]
        /\ UNCHANGED <<head, prev>>
  /\ owner' = [owner EXCEPT ![n] = NULL]
  /\ count' = [count EXCEPT ![m] = @ - 1]

Unlink(m, n) ==
  /\ UnlinkHead(m, n) \/ UnlinkTail(m, n) \/ UnlinkMiddle(m, n)
  /\ owner' = [owner EXCEPT ![n] = NULL]
  /\ count' = [count EXCEPT ![m] = @ - 1]

\* Its callers name the list the node is on (HttpServer: DeleteFromOwner).
timer_node_delete(m, n) ==
  /\ n \in alloc
  /\ \/ owner[n] = NULL /\ UNCHANGED <<head, tail, count, prev, next, owner>>
     \/ owner[n] = m /\ Unlink(m, n)
  /\ alloc' = alloc \ {n}

Next ==
  \/ \E n \in Node : timer_node_create(n)
  \/ \E m \in Mgr : timer_node_pop(m)
  \/ \E n \in Node : timer_node_push_listed(n)
  \/ \E m \in Mgr, n \in Node : timer_node_push(m, n) \/ timer_node_delete(m, n)

Spec == Init /\ [][Next]_vars
-----------------------------------------------------------------------------
(***************************************************************************)
(* Properties.                                                             *)
(***************************************************************************)

\* Every pointer is null or names a node or a list, counts are not negative.
TypeOK ==
  /\ alloc \subseteq Node
  /\ head \in [Mgr -> Node \cup {NULL}] /\ tail \in [Mgr -> Node \cup {NULL}]
  /\ count \in [Mgr -> Nat]
  /\ prev \in [Node -> Node \cup {NULL}] /\ next \in [Node -> Node \cup {NULL}]
  /\ owner \in [Node -> Mgr \cup {NULL}]

\* The pointers of list m link exactly the nodes of s, in that order.
Represents(m, s) ==
  /\ head[m] = IF count[m] = 0 THEN NULL ELSE s[1]
  /\ tail[m] = IF count[m] = 0 THEN NULL ELSE s[count[m]]
  /\ \A i \in 1..count[m] :
       /\ owner[s[i]] = m
       /\ prev[s[i]] = IF i = 1 THEN NULL ELSE s[i - 1]
       /\ next[s[i]] = IF i = count[m] THEN NULL ELSE s[i + 1]
       /\ \A j \in 1..count[m] : s[i] = s[j] => i = j
  /\ \A n \in Node : owner[n] = m => \E i \in 1..count[m] : s[i] = n

\* Whatever is pushed, popped and deleted, each list is a chain of count
\* different nodes that the next pointers traverse from head to tail and the
\* prev pointers back, and they are all the nodes that it owns.
ListShape ==
  \A m \in Mgr : \E s \in [1..count[m] -> Node] : Represents(m, s)

\* No pointer that the code may follow leads to a freed node, and a node
\* that is on no list has no links left over.
NothingDangles ==
  /\ \A m \in Mgr : {head[m], tail[m]} \subseteq alloc \cup {NULL}
  /\ \A n \in alloc : {prev[n], next[n]} \subseteq alloc \cup {NULL}
  /\ \A n \in Node : owner[n] # NULL => n \in alloc
  /\ \A n \in alloc : owner[n] = NULL => prev[n] = NULL /\ next[n] = NULL

\* The sequence of nodes of a list.
Nodes(m) == CHOOSE s \in [1..count[m] -> Node] : Represents(m, s)

Queue == INSTANCE TimerQueue WITH queue <- [m \in Mgr |-> Nodes(m)]

\* The linked lists implement first-in first-out queues with removal.
ImplementsQueue == Queue!Spec
=============================================================================
