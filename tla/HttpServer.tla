----------------------------- MODULE HttpServer -----------------------------
(***************************************************************************)
(* One worker process of httpd_mock (src/httpd_mock/http_handlers.c): the  *)
(* clients of its client_mgr, their timer nodes on the two timer lists,    *)
(* and the callbacks that the event loop runs one after the other.         *)
(*                                                                         *)
(* A client is named by its descriptor.  What the request bytes are is     *)
(* left to RequestScanner: here http_read starts where the scan has found  *)
(* one request.  How the timer lists are linked is left to TimerList: here *)
(* a list is the sequence of its nodes, a node being named by its client.  *)
(***************************************************************************)
EXTENDS Integers, FiniteSets, SequencesExt

CONSTANTS
  Fd,                       \* the descriptors accept() may hand out
  max_queue_len,            \* service_arg_t, as left by checkServiceArgs
  response_type, chunk_ratio,
  min_latency, max_latency,
  min_response_size, max_response_size,
  min_chunk_latency, max_chunk_latency,
  min_chunk_response_size, max_chunk_response_size,
  chunk_blocks,
  timeout,
  MaxAge,                   \* bound: ages above it are not told apart
  MaxRequests,              \* bound: requests read on one connection
  NULL                      \* the null pointer

ASSUME FdAssumption == Fd \subseteq Nat /\ IsFiniteSet(Fd) /\ NULL \notin Fd

\* What checkServiceArgs lets through.  The timeout is not checked.
ASSUME ArgsAssumption ==
  /\ max_queue_len \in Int
  /\ response_type \in {"CONTENT", "CHUNKED", "MIX"}
  /\ chunk_ratio \in Int /\ (response_type = "MIX" => chunk_ratio \in 0..100)
  /\ min_latency \in Nat /\ max_latency \in Nat /\ min_latency <= max_latency
  /\ min_response_size \in Nat /\ max_response_size \in Nat
  /\ min_response_size <= max_response_size
  /\ min_chunk_latency \in Nat /\ max_chunk_latency \in Nat
  /\ min_chunk_latency <= max_chunk_latency
  /\ min_chunk_response_size \in Nat /\ max_chunk_response_size \in Nat
  /\ min_chunk_response_size <= max_chunk_response_size
  /\ chunk_blocks \in Nat \ {0}
  /\ timeout \in Int

\* No comparison of the code tells two ages of at least MaxAge apart.
ASSUME BoundAssumption ==
  /\ MaxAge \in Nat /\ MaxRequests \in Nat
  /\ MaxAge >= timeout
  /\ MaxAge >= max_latency
  /\ MaxAge >= max_chunk_latency

Mgr == {"tm_main", "tm_minor"}

ASSUME NullAssumption == NULL \notin Mgr

VARIABLES
  live,          \* the descriptors of the allocated clients
  cli,           \* the client structure, with its timer node, of each
  list,          \* the nodes of each timer_mgr, head first
  current,       \* client_mgr.current
  backup,        \* client_mgr.backup
  current_conn,  \* client_mgr.current_conn
  pc,            \* "poll", or where http_on_timer is in its loop
  node,          \* http_on_timer's local: the node it has popped
  peer,          \* history: what the peer has decoded of its response
  due            \* history: the latency drawn for the last request

vars == <<live, cli, list, current, backup, current_conn, pc, node, peer, due>>

(***************************************************************************)
(* The client structure.  age stands for now - last_active, timeout and    *)
(* owner are the fields of its timer node, tnidx says whether it has one.  *)
(***************************************************************************)
Client ==
  [request_complete : Nat, response_complete : Nat, age : 0..MaxAge,
   tnidx : BOOLEAN, timeout : Int, owner : Mgr \cup {NULL},
   ischunked : BOOLEAN, chunk_block_num : Nat, chunk_size : Nat,
   last_data_size : Nat]

create_client ==
  [request_complete |-> 0, response_complete |-> 0, age |-> 0,
   tnidx |-> FALSE, timeout |-> 0, owner |-> NULL,
   ischunked |-> FALSE, chunk_block_num |-> 0, chunk_size |-> 0,
   last_data_size |-> 0]

Outstanding(c) == c.response_complete < c.request_complete

(***************************************************************************)
(* The peer at the other end, an HTTP/1.1 client: it waits for the head of *)
(* the response to its request, then for its body.  A zero-sized chunk is  *)
(* the end of a chunked body, so a data chunk has to carry something.      *)
(***************************************************************************)
Peer == [phase : {"idle", "head", "body", "done", "bad"}, got : Nat, want : Nat]

IdlePeer == [phase |-> "idle", got |-> 0, want |-> 0]

Bad(p) == [p EXCEPT !.phase = "bad"]

RecvContent(p, body, announced) ==
  IF p.phase = "head" THEN [phase |-> "done", got |-> body, want |-> announced]
                      ELSE Bad(p)

RecvHead(p) == IF p.phase = "head" THEN [p EXCEPT !.phase = "body"] ELSE Bad(p)

RecvChunk(p, n) ==
  IF p.phase = "body" /\ n > 0 THEN [p EXCEPT !.got = @ + n] ELSE Bad(p)

RecvEnd(p) == IF p.phase = "body" THEN [p EXCEPT !.phase = "done"] ELSE Bad(p)
-----------------------------------------------------------------------------
(***************************************************************************)
(* Random draws: the set of the values a call may return.                  *)
(***************************************************************************)
gen_number_in_range(min, max) == min .. max

get_ischunked ==
  CASE response_type = "CONTENT" -> {FALSE}
    [] response_type = "CHUNKED" -> {TRUE}
    [] OTHER -> IF chunk_ratio = 0 THEN {FALSE}
                ELSE IF chunk_ratio = 100 THEN {TRUE} ELSE BOOLEAN

(***************************************************************************)
(* Responses: the new client and what its peer makes of the bytes written. *)
(***************************************************************************)
CRLF_SIZE == 2

\* The body buffer holds size bytes and a CRLF; the format adds a CRLF.
send_http_response(c, p, size) ==
  [cli  |-> [c EXCEPT !.response_complete = @ + 1],
   peer |-> RecvContent(p, (size + CRLF_SIZE) + 2, size + CRLF_SIZE + 2)]

\* Mutant: the chunk size is not raised to one when it rounds to zero.
set_chunked_status_unfixed(c, size) ==
  [c EXCEPT !.last_data_size = size, !.chunk_size = size \div chunk_blocks]

\* Mutant: the chunk size is the size of the whole response.
set_chunked_status_undivided(c, size) ==
  [c EXCEPT !.last_data_size = size, !.chunk_size = size]

set_chunked_status(c, size) ==
  LET quotient == size \div chunk_blocks
  IN [c EXCEPT !.last_data_size = size,
               !.chunk_size = IF size # 0 /\ quotient = 0 THEN 1 ELSE quotient]

\* The size of the next data chunk.
datasize(c) ==
  IF c.chunk_size < c.last_data_size THEN c.chunk_size ELSE c.last_data_size

\* Mutant: the last chunk is not cut to the data that is left.
send_http_chunked_response_uncut(c, p) ==
  LET p0 == IF c.chunk_block_num = 0 THEN RecvHead(p) ELSE p
  IN IF c.last_data_size = 0
     THEN [cli  |-> [c EXCEPT !.response_complete = @ + 1, !.chunk_block_num = 0],
           peer |-> RecvEnd(p0)]
     ELSE [cli  |-> [c EXCEPT !.last_data_size = @ - c.chunk_size,
                              !.chunk_block_num = @ + 1],
           peer |-> RecvChunk(p0, c.chunk_size)]

send_http_chunked_response(c, p) ==
  LET p0 == IF c.chunk_block_num = 0 THEN RecvHead(p) ELSE p
  IN IF c.last_data_size = 0
     THEN [cli  |-> [c EXCEPT !.response_complete = @ + 1, !.chunk_block_num = 0],
           peer |-> RecvEnd(p0)]
     ELSE [cli  |-> [c EXCEPT !.last_data_size = @ - datasize(c),
                              !.chunk_block_num = @ + 1],
           peer |-> RecvChunk(p0, datasize(c))]

\* How many bytes the next chunk of a response stores in response_buf: the
\* head goes with the first one, create_chunk_response ends with a NUL.
FHTTP_REPONSE_HEADER_SIZE == 201
FHTTP_CHUNK_RESPONSE_HEADER_SIZE == 198
FHTTP_CHUNK_END_SIZE == 5

buffsize == FHTTP_REPONSE_HEADER_SIZE + max_response_size + CRLF_SIZE + 1

\* One digit, and another for each power of 16 that an int may reach.
PowersOf16 == {16, 256, 4096, 65536, 1048576, 16777216, 268435456}

HexDigits(n) == 1 + Cardinality({power \in PowersOf16 : n >= power})

create_chunk_response(n) == HexDigits(n) + CRLF_SIZE + n + CRLF_SIZE + 1

StoredBytes(c) ==
  (IF c.chunk_block_num = 0 THEN FHTTP_CHUNK_RESPONSE_HEADER_SIZE ELSE 0)
  + IF c.last_data_size = 0 THEN FHTTP_CHUNK_END_SIZE
                            ELSE create_chunk_response(datasize(c))

\* What a write may do; for a content response the size is drawn here.
Writes(c, p) ==
  IF c.ischunked
  THEN {send_http_chunked_response(c, p)}
  ELSE {send_http_response(c, p, size) :
          size \in gen_number_in_range(min_response_size, max_response_size)}

(***************************************************************************)
(* Timer nodes and lists.                                                  *)
(***************************************************************************)
\* Mutant: a node that exists keeps the interval of an earlier request.
timer_node_create_stale(c, interval) ==
  IF c.tnidx THEN c ELSE [c EXCEPT !.tnidx = TRUE, !.timeout = interval]

\* Mutant: every node waits for the server timeout.
timer_node_create_server(c, interval) ==
  [c EXCEPT !.tnidx = TRUE, !.timeout = timeout]

timer_node_create(c, interval) == [c EXCEPT !.tnidx = TRUE, !.timeout = interval]

\* The list without the node; TimerList shows the pointers do this.
timer_node_delete(l, n) ==
  IF Contains(l, n) THEN RemoveAt(l, CHOOSE i \in 1..Len(l) : l[i] = n) ELSE l

\* Mutant: a node goes before those that wait.
timer_node_push_front(mgr, fd, c) ==
  IF c.owner # NULL
  THEN /\ cli' = [cli EXCEPT ![fd] = c]
       /\ UNCHANGED list
  ELSE /\ cli' = [cli EXCEPT ![fd] = [c EXCEPT !.owner = mgr]]
       /\ list' = [list EXCEPT ![mgr] = <<fd>> \o @]

\* A node that is on a list already stays where it is.
timer_node_push(mgr, fd, c) ==
  IF c.owner # NULL
  THEN /\ cli' = [cli EXCEPT ![fd] = c]
       /\ UNCHANGED list
  ELSE /\ cli' = [cli EXCEPT ![fd] = [c EXCEPT !.owner = mgr]]
       /\ list' = [list EXCEPT ![mgr] = Append(@, fd)]

\* Mutant: the client is freed and its node stays on the list.
destroy_client_dangling(fd) ==
  /\ current_conn' = current_conn - 1
  /\ live' = live \ {fd}
  /\ cli' = [cli EXCEPT ![fd] = create_client]
  /\ peer' = [peer EXCEPT ![fd] = IdlePeer]
  /\ due' = [due EXCEPT ![fd] = 0]
  /\ UNCHANGED list

\* The node is deleted from the current list, whichever list it is on.
destroy_client(fd) ==
  /\ list' = [list EXCEPT ![current] =
                IF cli[fd].owner = NULL THEN @ ELSE timer_node_delete(@, fd)]
  /\ current_conn' = current_conn - 1
  /\ live' = live \ {fd}
  /\ cli' = [cli EXCEPT ![fd] = create_client]
  /\ peer' = [peer EXCEPT ![fd] = IdlePeer]
  /\ due' = [due EXCEPT ![fd] = 0]
-----------------------------------------------------------------------------
Init ==
  /\ live = {}
  /\ cli = [f \in Fd |-> create_client]
  /\ list = [m \in Mgr |-> <<>>]
  /\ current = "tm_main" /\ backup = "tm_minor"
  /\ current_conn = 0
  /\ pc = "poll" /\ node = NULL
  /\ peer = [f \in Fd |-> IdlePeer]
  /\ due = [f \in Fd |-> 0]

\* Mutant: the connection is not counted.
http_accept_uncounted(fd) ==
  /\ pc = "poll"
  /\ fd \notin live /\ fd < max_queue_len
  /\ live' = live \cup {fd}
  /\ cli' = [cli EXCEPT ![fd] = create_client]
  /\ UNCHANGED <<list, current, backup, current_conn, pc, node, peer, due>>

\* A connection is refused when its descriptor is too large, or when
\* fevbuff_new fails: its descriptor is closed and nothing else refers to it
\* (in the second case the structure of create_client is never freed).
http_accept(fd) ==
  /\ pc = "poll"
  /\ fd \notin live
  /\ \/ /\ fd < max_queue_len
        /\ live' = live \cup {fd}
        /\ cli' = [cli EXCEPT ![fd] = create_client]
        /\ current_conn' = current_conn + 1
        /\ UNCHANGED <<list, current, backup, pc, node, peer, due>>
     \/ UNCHANGED vars

\* fevbuff_write reports a failure after it has run http_error, so the
\* client is gone when it returns.
http_error(fd) ==
  /\ pc = "poll"
  /\ fd \in live
  /\ destroy_client(fd)
  /\ UNCHANGED <<current, backup, pc, node>>

\* The tail of http_read: put the client's timer node on the current list.
Arm(fd, c, interval) ==
  timer_node_push(current, fd, timer_node_create(c, interval))

LatencyOf(ischunked) ==
  IF ischunked THEN gen_number_in_range(min_chunk_latency, max_chunk_latency)
               ELSE gen_number_in_range(min_latency, max_latency)

\* The client once its request is accepted, and what its peer waits for.
Accepted(c, ischunked, size) ==
  LET c1 == [c EXCEPT !.age = 0, !.ischunked = ischunked]
  IN IF ischunked THEN set_chunked_status(c1, size) ELSE c1

Awaiting(ischunked, size) ==
  [phase |-> "head", got |-> 0, want |-> IF ischunked THEN size ELSE 0]

SizeOf(ischunked) ==
  IF ischunked
  THEN gen_number_in_range(min_chunk_response_size, max_chunk_response_size)
  ELSE {0}

\* http_read, from where the scan has found a request.
http_read(fd) ==
  /\ pc = "poll"
  /\ fd \in live
  /\ cli[fd].request_complete < MaxRequests
  /\ UNCHANGED <<current, backup, pc, node>>
  /\ LET c == [cli[fd] EXCEPT !.request_complete = @ + 1]
     IN \/ /\ c.request_complete - 1 # c.response_complete
           /\ destroy_client(fd)
        \/ /\ c.request_complete - 1 = c.response_complete
           /\ \E ischunked \in get_ischunked :
              \E size \in SizeOf(ischunked), latency \in LatencyOf(ischunked) :
                LET c1 == Accepted(c, ischunked, size)
                    p1 == Awaiting(ischunked, size)
                IN \/ /\ latency # 0
                      /\ Arm(fd, c1, latency)
                      /\ peer' = [peer EXCEPT ![fd] = p1]
                      /\ due' = [due EXCEPT ![fd] = latency]
                      /\ UNCHANGED <<live, current_conn>>
                   \/ /\ latency = 0
                      /\ \/ \E w \in Writes(c1, p1) :
                              /\ Arm(fd, w.cli, timeout)
                              /\ peer' = [peer EXCEPT ![fd] = w.peer]
                              /\ due' = [due EXCEPT ![fd] = 0]
                              /\ UNCHANGED <<live, current_conn>>
                         \/ destroy_client(fd)

(***************************************************************************)
(* http_on_timer: pop the nodes of the current list one by one, put back   *)
(* those that stay on the backup list, then swap the lists.  Nothing else  *)
(* runs in between.  With an empty current list it returns at once.        *)
(***************************************************************************)
timer_node_pop ==
  /\ pc \in {"poll", "pop"}
  /\ list[current] # <<>>
  /\ node' = Head(list[current])
  /\ list' = [list EXCEPT ![current] = Tail(@)]
  /\ cli' = [cli EXCEPT ![Head(list[current])].owner = NULL]
  /\ pc' = "node"
  /\ UNCHANGED <<live, current, backup, current_conn, peer, due>>

\* Mutant: a node whose interval has elapsed is not put back.
KeepNode_oneshot(fd, c, p) ==
  /\ IF c.age >= c.timeout
     THEN cli' = [cli EXCEPT ![fd] = c] /\ UNCHANGED list
     ELSE timer_node_push(backup, fd, c)
  /\ peer' = [peer EXCEPT ![fd] = p]
  /\ UNCHANGED <<live, current_conn, due>>

KeepNode(fd, c, p) ==
  /\ timer_node_push(backup, fd, c)
  /\ peer' = [peer EXCEPT ![fd] = p]
  /\ UNCHANGED <<live, current_conn, due>>

http_on_timer_node ==
  /\ pc = "node"
  /\ pc' = "pop" /\ node' = NULL
  /\ UNCHANGED <<current, backup>>
  /\ LET c == cli[node]
         elapsed == c.age >= c.timeout
     IN \/ /\ elapsed /\ Outstanding(c)
           /\ \/ \E w \in Writes(c, peer[node]) : KeepNode(node, w.cli, w.peer)
              \/ destroy_client(node)
        \/ /\ elapsed /\ ~Outstanding(c) /\ c.age >= timeout
           /\ destroy_client(node)
        \/ /\ ~elapsed \/ (~Outstanding(c) /\ c.age < timeout)
           /\ KeepNode(node, c, peer[node])

\* Mutant: the two lists are not swapped.
http_on_timer_swap_forgotten ==
  /\ pc = "pop"
  /\ list[current] = <<>>
  /\ pc' = "poll"
  /\ UNCHANGED <<live, cli, list, current, backup, current_conn, node, peer, due>>

http_on_timer_swap ==
  /\ pc = "pop"
  /\ list[current] = <<>>
  /\ current' = backup /\ backup' = current
  /\ pc' = "poll"
  /\ UNCHANGED <<live, cli, list, current_conn, node, peer, due>>

\* Time passes between callbacks; http_on_timer reads the clock once.
Tick ==
  /\ pc = "poll"
  /\ cli' = [f \in Fd |->
               IF f \in live /\ cli[f].age < MaxAge
               THEN [cli[f] EXCEPT !.age = @ + 1] ELSE cli[f]]
  /\ UNCHANGED <<live, list, current, backup, current_conn, pc, node, peer, due>>

Next ==
  \/ \E fd \in Fd : http_accept(fd) \/ http_read(fd) \/ http_error(fd)
  \/ timer_node_pop \/ http_on_timer_node \/ http_on_timer_swap
  \/ Tick

Spec == Init /\ [][Next]_vars

(***************************************************************************)
(* The 50 ms timer keeps firing and http_on_timer runs to its end; time    *)
(* goes by whatever the process does.  Peers owe nothing.                  *)
(***************************************************************************)
Fairness ==
  /\ WF_vars(timer_node_pop)
  /\ WF_vars(http_on_timer_node)
  /\ WF_vars(http_on_timer_swap)
  /\ SF_vars(Tick)

FairSpec == Spec /\ Fairness
-----------------------------------------------------------------------------
(***************************************************************************)
(* Properties.                                                             *)
(***************************************************************************)

\* Every variable keeps its type; in particular the counters of a client
\* and of the manager never go below zero.
TypeOK ==
  /\ live \subseteq Fd
  /\ cli \in [Fd -> Client]
  /\ list \in [Mgr -> Seq(Fd)]
  /\ current \in Mgr /\ backup \in Mgr
  /\ current_conn \in Nat
  /\ pc \in {"poll", "pop", "node"}
  /\ node \in Fd \cup {NULL}
  /\ peer \in [Fd -> Peer]
  /\ due \in [Fd -> Nat]

\* The timer lists hold exactly the nodes that say so in their owner field,
\* each once and each of a client that is still allocated: destroy_client
\* leaves no list pointing to a freed node.
NodesOnLists ==
  \A m \in Mgr :
    /\ \A i \in 1..Len(list[m]) :
         /\ list[m][i] \in live
         /\ cli[list[m][i]].tnidx /\ cli[list[m][i]].owner = m
         /\ \A j \in 1..Len(list[m]) : list[m][i] = list[m][j] => i = j
    /\ \A f \in Fd : cli[f].owner = m => \E i \in 1..Len(list[m]) : list[m][i] = f

\* destroy_client deletes from the current list (the commented-out assertion
\* of timer_node_delete): whenever a callback may destroy a client, its node
\* is on that list or on none, because the backup list is empty between
\* callbacks.
DeleteFromOwner ==
  /\ current # backup
  /\ pc = "poll" => \A f \in live : cli[f].owner \in {NULL, current}
  /\ pc = "node" => node \in live /\ cli[node].owner = NULL

Queue == INSTANCE TimerQueue WITH Node <- Fd, queue <- list

\* The callbacks use the timer lists as first-in first-out queues: no node is
\* pushed while it waits on either list, and one that is deleted is there.
ListsAreQueues == Queue!Spec

\* A client that is owed a response has its node on a timer list, or in the
\* hands of http_on_timer: no response is forgotten.
PendingHasTimer ==
  \A f \in live :
    Outstanding(cli[f]) => \/ cli[f].owner # NULL
                           \/ pc = "node" /\ node = f

\* The peer decodes each response as HTTP prescribes: one head, then chunks
\* none of which is empty, then the end, or as many body bytes as announced;
\* a response counts as complete exactly when all of it has been decoded,
\* and at most one request is ahead of its response.
PeerSeesWholeResponses ==
  \A f \in live :
    /\ cli[f].request_complete - cli[f].response_complete \in {0, 1}
    /\ peer[f].phase # "bad"
    /\ Outstanding(cli[f]) <=> peer[f].phase \in {"head", "body"}
    /\ peer[f].phase = "done" => peer[f].got = peer[f].want

\* The number of connections that http_on_show_status logs is the number of
\* clients there are.
ConnCount == current_conn = Cardinality(live)

\* However its size divides, a chunked response takes fewer than twice
\* chunk_blocks data chunks (more than chunk_blocks when the quotient is
\* rounded).  And although create_client_mgr sizes response_buf by
\* max_response_size alone, when it holds the head and one chunk of the largest
\* chunked response it holds every chunk of every response, the rounded ones
\* and the last included.
LargestChunk ==
  LET quotient == max_chunk_response_size \div chunk_blocks
  IN IF quotient = 0 THEN 1 ELSE quotient

ChunksFewAndFitting ==
  \A f \in live :
    /\ cli[f].chunk_block_num <= 2 * chunk_blocks - 1
    /\ FHTTP_CHUNK_RESPONSE_HEADER_SIZE + create_chunk_response(LargestChunk) <= buffsize
       => (cli[f].ischunked /\ Outstanding(cli[f]) => StoredBytes(cli[f]) <= buffsize)

\* http_on_timer writes nothing to a client before the latency drawn for its
\* last request has gone by, although the node is reused between requests.
NotBeforeLatency ==
  [][\A f \in live \cap live' :
       pc = "node" /\ peer'[f] # peer[f] => cli[f].age >= due[f]]_vars

\* Once the latency drawn for its request has gone by, a client that is owed a
\* response gets a part of it each time http_on_timer looks at it, or is
\* closed.  It does not hold of a request that drew no latency: http_read then
\* arms the node with the server timeout, and the chunks after the first wait
\* for that.
DueResponsesAreSent ==
  [][(/\ pc = "node"
      /\ Outstanding(cli[node])
      /\ due[node] # 0 /\ cli[node].age >= due[node])
     => node \notin live' \/ peer'[node] # peer[node]]_vars

\* Every request is answered in full or its connection is closed.
RequestsGetAnswered ==
  \A f \in Fd : (f \in live /\ Outstanding(cli[f]))
                  ~> (f \notin live \/ ~Outstanding(cli[f]))

\* A connection that has been served, and sends no further request, is closed.
\* One that never completes a request has no timer node and stays open.
ServedConnectionsExpire ==
  \A f \in Fd : \A k \in 1..MaxRequests :
    []<>~(/\ f \in live
          /\ cli[f].request_complete = k /\ cli[f].response_complete = k)
=============================================================================
