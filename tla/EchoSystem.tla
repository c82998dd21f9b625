----------------------------- MODULE EchoSystem -----------------------------
(***************************************************************************)
(* echo_client and echo_server over one connection: the client's main      *)
(* thread sends numbered words, its second thread counts the words that    *)
(* come back, the server's event loop writes back what it reads.           *)
(*                                                                         *)
(* The bytes on the connection are numbered in the order in which they are *)
(* sent.  fev_buff and the socket calls are libraries of their own, known  *)
(* by how they are used: fevbuff_read takes from the socket no more than   *)
(* what is missing to the amount asked for and leaves it in the buffer,    *)
(* fevbuff_pop drops it, fevbuff_write keeps what the socket does not take *)
(* and, when the connection is broken, runs the error callback.            *)
(***************************************************************************)
EXTENDS Integers, Sequences

CONSTANTS
  Words,      \* how many words the client sends, 100000 in the code
  WordSize,   \* bytes of a word, 4
  ReadMax,    \* bytes that eg_read asks for, 100
  WireCap     \* bound: bytes that fit in the sockets of one direction

ASSUME EchoAssumption ==
  Words \in Nat /\ {WordSize, ReadMax, WireCap} \subseteq Nat \ {0}

VARIABLES
  net,        \* the connection: "up" or "broken"
  main,       \* the client's main thread: "send", "join" or "done"
  i,          \* its loop counter
  part,       \* how many bytes of word i net_send_safe has sent
  recv,       \* the client's second thread: "start", "poll" or "ended"
  cbuf,       \* its fev_buff
  recv_num,   \* the words it has counted
  words,      \* history: these words
  srv,        \* the server: "listen", "buff", "leaked" or "closed"
  sout,       \* what its fev_buff still has to write
  up, down    \* the bytes on their way to the server and back

client == <<main, i, part, recv, cbuf, recv_num, words>>
server == <<srv, sout>>
vars == <<net, client, server, up, down>>

Init ==
  /\ net = "up"
  /\ main = "send" /\ i = 0 /\ part = 0
  /\ recv = "start" /\ cbuf = <<>> /\ recv_num = 0 /\ words = <<>>
  /\ srv = "listen" /\ sout = <<>>
  /\ up = <<>> /\ down = <<>>

Drop(s, k) == SubSeq(s, k + 1, Len(s))

(***************************************************************************)
(* The server.                                                             *)
(***************************************************************************)
\* When fevbuff_new fails, the descriptor stays open and nobody reads it.
eg_accept ==
  /\ srv = "listen"
  /\ srv' \in {"buff", "leaked"}
  /\ UNCHANGED <<net, client, sout, up, down>>

\* Mutant: only a full buffer is written back.
eg_read_full(k) ==
  /\ srv = "buff" /\ net = "up"
  /\ k = ReadMax /\ k <= Len(up)
  /\ up' = Drop(up, k)
  /\ sout' = sout \o SubSeq(up, 1, k)
  /\ UNCHANGED <<net, client, srv, down>>

\* Mutant: one byte too few is popped, and is written back once more.
eg_read_unpopped(k) ==
  /\ srv = "buff" /\ net = "up"
  /\ k <= Len(up) /\ Len(sout) <= WireCap
  /\ up' = Drop(up, k - 1)
  /\ sout' = sout \o SubSeq(up, 1, k)
  /\ UNCHANGED <<net, client, srv, down>>

\* The k bytes that are there are written back and popped.  When the write
\* finds the connection broken, eg_error has destroyed the fev_buff.
eg_read(k) ==
  /\ srv = "buff"
  /\ k <= Len(up)
  /\ up' = Drop(up, k)
  /\ \/ /\ net = "up"
        /\ sout' = sout \o SubSeq(up, 1, k)
        /\ UNCHANGED srv
     \/ net = "broken" /\ srv' = "closed" /\ sout' = <<>>
  /\ UNCHANGED <<net, client, down>>

eg_error ==
  /\ srv = "buff" /\ net = "broken"
  /\ srv' = "closed" /\ sout' = <<>>
  /\ UNCHANGED <<net, client, up, down>>

\* fev_buff writes on when the socket has room.
fevbuff_flush ==
  /\ srv = "buff" /\ net = "up" /\ sout # <<>> /\ Len(down) < WireCap
  /\ down' = Append(down, Head(sout)) /\ sout' = Tail(sout)
  /\ UNCHANGED <<net, client, srv, up>>

(***************************************************************************)
(* The client's main thread.                                               *)
(***************************************************************************)
\* net_send_safe sends a word byte by byte, waiting for room; it gives up
\* when the connection is broken, or closed by client_error.
net_send_safe ==
  /\ main = "send" /\ i < Words
  /\ \/ /\ net = "up" /\ Len(up) < WireCap
        /\ up' = Append(up, i * WordSize + part + 1)
        /\ part' = (part + 1) % WordSize
        /\ i' = IF part + 1 = WordSize THEN i + 1 ELSE i
     \/ /\ net = "broken"
        /\ i' = i + 1 /\ part' = 0
        /\ UNCHANGED up
  /\ UNCHANGED <<net, main, recv, cbuf, recv_num, words, server, down>>

send_complete ==
  /\ main = "send" /\ i = Words /\ main' = "join"
  /\ UNCHANGED <<net, i, part, recv, cbuf, recv_num, words, server, up, down>>

pthread_join ==
  /\ main = "join" /\ recv = "ended" /\ main' = "done"
  /\ UNCHANGED <<net, i, part, recv, cbuf, recv_num, words, server, up, down>>

(***************************************************************************)
(* The client's second thread.                                             *)
(***************************************************************************)
\* When fevbuff_new fails, the client exits.
client_recv ==
  /\ recv = "start"
  /\ \/ recv' = "poll" /\ UNCHANGED <<net, main>>
     \/ recv' = "ended" /\ main' = "done" /\ net' = "broken"
  /\ UNCHANGED <<i, part, cbuf, recv_num, words, server, up, down>>

\* A word is counted and popped when all of it is there.
client_read(k) ==
  /\ recv = "poll"
  /\ k <= Len(down) /\ Len(cbuf) + k <= WordSize
  /\ down' = Drop(down, k)
  /\ LET b == cbuf \o SubSeq(down, 1, k)
     IN IF Len(b) = WordSize
        THEN recv_num' = recv_num + 1 /\ words' = Append(words, b) /\ cbuf' = <<>>
        ELSE cbuf' = b /\ UNCHANGED <<recv_num, words>>
  /\ UNCHANGED <<net, main, i, part, recv, server, up>>

\* Mutant: stop is not set, the thread polls a fev_state without descriptors.
client_error_deaf ==
  /\ recv = "poll" /\ net = "broken"
  /\ recv' = "deaf" /\ cbuf' = <<>>
  /\ UNCHANGED <<net, main, i, part, recv_num, words, server, up, down>>

\* The descriptor is closed and stop ends the loop of the thread.
client_error ==
  /\ recv = "poll" /\ net = "broken"
  /\ recv' = "ended" /\ cbuf' = <<>>
  /\ UNCHANGED <<net, main, i, part, recv_num, words, server, up, down>>

\* The network fails, or the server is ended.
net_break ==
  /\ net = "up" /\ net' = "broken"
  /\ UNCHANGED <<client, server, up, down>>

Next ==
  \/ eg_accept \/ eg_error \/ fevbuff_flush
  \/ \E k \in 1..ReadMax : eg_read(k)
  \/ net_send_safe \/ send_complete \/ pthread_join
  \/ client_recv \/ client_error
  \/ \E k \in 1..WordSize : client_read(k)
  \/ net_break

(***************************************************************************)
(* The event loops keep polling and the threads are scheduled.             *)
(***************************************************************************)
Fairness ==
  /\ WF_vars(eg_accept) /\ WF_vars(eg_error) /\ WF_vars(fevbuff_flush)
  /\ WF_vars(\E k \in 1..ReadMax : eg_read(k))
  /\ WF_vars(net_send_safe) /\ WF_vars(send_complete) /\ WF_vars(pthread_join)
  /\ WF_vars(client_recv) /\ WF_vars(client_error)
  /\ WF_vars(\E k \in 1..WordSize : client_read(k))

Spec == Init /\ [][Next]_vars /\ Fairness
-----------------------------------------------------------------------------
(***************************************************************************)
(* Properties.                                                             *)
(***************************************************************************)

\* The n bytes that follow the first `from' ones of all that are sent.
Bytes(from, n) == [k \in 1..n |-> from + k]

Counted == recv_num * WordSize
Sent == i * WordSize + part

\* The client counts whole words, the ones it sent and in the order in which
\* it sent them, also when the connection breaks halfway through one.  While
\* it holds, every byte sent is in exactly one place between the two ends, and
\* in its order: no read, short write or pop loses, repeats or reorders any.
WordsComeBackWhole ==
  /\ recv_num = Len(words)
  /\ \A k \in 1..recv_num : words[k] = Bytes((k - 1) * WordSize, WordSize)
  /\ net = "up" => /\ Counted <= Sent
                   /\ cbuf \o down \o sout \o up = Bytes(Counted, Sent - Counted)

\* All words come back to a client that the server has a fev_buff for, unless
\* the connection breaks: neither side waits for the other for ever, however
\* little the sockets hold.
AllEchoed ==
  (srv = "buff") ~> (recv_num = Words \/ net = "broken")

\* The client ends when its connection breaks, wherever its threads are.  (It
\* does so only then: pthread_join waits for client_error.)
ClientEnds == (net = "broken") ~> (main = "done")
=============================================================================
