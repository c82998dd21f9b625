----------------------------- MODULE TimerQueue -----------------------------
(***************************************************************************)
(* What the timer lists of httpd_mock promise their callers: each is a     *)
(* first-in first-out queue of nodes, a node waits in at most one of them, *)
(* and one that waits can be taken out wherever it is.  TimerList shows    *)
(* that the linked lists of http_handlers.c do this, HttpServer that the   *)
(* callbacks ask for nothing else.                                         *)
(***************************************************************************)
EXTENDS Sequences, Naturals

CONSTANTS Node, Mgr

VARIABLE queue

Waits(n, m) == \E i \in 1..Len(queue[m]) : queue[m][i] = n

Init == queue = [m \in Mgr |-> <<>>]

Push(m, n) ==
  /\ \A k \in Mgr : ~Waits(n, k)
  /\ queue' = [queue EXCEPT ![m] = Append(@, n)]

Pop(m) ==
  /\ queue[m] # <<>>
  /\ queue' = [queue EXCEPT ![m] = Tail(@)]

\* Every other node keeps its place in the order.
Delete(m, n) ==
  \E i \in 1..Len(queue[m]) :
    /\ queue[m][i] = n
    /\ queue' = [queue EXCEPT ![m] = SubSeq(@, 1, i - 1) \o SubSeq(@, i + 1, Len(@))]

Next ==
  \E m \in Mgr :
    \/ Pop(m)
    \/ \E n \in Node : Push(m, n) \/ Delete(m, n)

Spec == Init /\ [][Next]_queue
=============================================================================
