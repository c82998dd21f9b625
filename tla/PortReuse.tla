----------------------------- MODULE PortReuse ------------------------------
(***************************************************************************)
(* The program of src/kernel/setsockopt/ioctl.c on the device of           *)
(* src/kernel/setsockopt/chardev.c: main opens the device, and two threads *)
(* that share its descriptor force the kernel to let both of them listen   *)
(* on one port, where they answer connections.  The program has no end but *)
(* a signal.  The other drivers of CharDevice are used by plain processes. *)
(*                                                                         *)
(* bind, listen, accept, read and send are the kernel's: a port that a     *)
(* socket is bound to is refused to any other unless that one has          *)
(* SK_FORCE_REUSE, and a new connection goes to one of the listeners.      *)
(***************************************************************************)
EXTENDS CharDevice

CONSTANTS
  Client,     \* the process that runs the program
  Worker,     \* its threads
  Conn,       \* the connections that peers open
  NoConn

ASSUME ClientAssumption == Client \in Proc /\ NoConn \notin Conn

VARIABLES
  wpc,        \* where each thread is in worker, "none" when there is no thread
  sk,         \* the socket of its listen_fd
  backlog,    \* the connections that wait to be accepted on it
  newfd,      \* worker's local: the connection it serves, NoConn for -1
  conn,       \* the connections
  denied      \* history: the threads that the port was refused to

svars == <<wpc, sk, backlog, newfd, conn, denied>>
allvars == <<vars, svars>>

NoSocket == [fd |-> FALSE, sk_reuse |-> FALSE, bound |-> FALSE, listening |-> FALSE]

NewConn == [state |-> "new", peer |-> "silent", answered |-> FALSE]

\* A connection that no thread has closed and that is no more: what became of it
\* before no longer matters.
Ended(how) == [NewConn EXCEPT !.state = how]

PInit ==
  /\ Init
  /\ wpc = [w \in Worker |-> "none"]
  /\ sk = [w \in Worker |-> NoSocket]
  /\ backlog = [w \in Worker |-> <<>>]
  /\ newfd = [w \in Worker |-> NoConn]
  /\ conn = [c \in Conn |-> NewConn]
  /\ denied = {}

At(w, here, there) == wpc[w] = here /\ wpc' = [wpc EXCEPT ![w] = there]

(***************************************************************************)
(* The device, as plain processes and as main use it.  main makes none of  *)
(* the calls that use the message.                                         *)
(***************************************************************************)
setsockopt_fops(p) ==
  /\ driver = "setsockopt"
  /\ \/ p # Client /\ message_fops(p)
     \/ /\ p = Client
        /\ \/ device_open(p) \/ device_open_load(p) \/ device_open_store(p)
           \/ device_open_ptr(p) \/ device_open_get(p)
           \/ device_release_store(p) \/ device_release_put(p)

Device ==
  /\ \/ init_module \/ cleanup_module
     \/ \E p \in Proc : \/ hello_fops(p)
                        \/ driver = "ioctl" /\ message_fops(p)
                        \/ setsockopt_fops(p)
  /\ UNCHANGED svars

(***************************************************************************)
(* main, once it has the device, and create_listen.                        *)
(***************************************************************************)
test_setportreuse(w) ==
  /\ driver = "setsockopt" /\ pc[Client] = "open"
  /\ At(w, "none", "socket")
  /\ UNCHANGED <<vars, sk, backlog, newfd, conn, denied>>

\* No descriptor: create_listen returns -1.
create_listen_socket(w) ==
  \/ /\ At(w, "socket", "force")
     /\ sk' = [sk EXCEPT ![w].fd = TRUE]
     /\ UNCHANGED <<vars, backlog, newfd, conn, denied>>
  \/ /\ At(w, "socket", "accept")
     /\ UNCHANGED <<vars, sk, backlog, newfd, conn, denied>>

\* Mutant: the socket is looked up and left as it is.
setsock_forceuse_unset(w) == UNCHANGED sk

\* The lookup finds the socket: its one caller passes a descriptor that it has
\* just got.  (A lookup that fails would go on to sockfd_put(NULL).)
setsock_forceuse(w) == sk[w].fd /\ sk' = [sk EXCEPT ![w].sk_reuse = TRUE]

device_ioctl_forceuse(w) ==
  /\ At(w, "force", "bind")
  /\ setsock_forceuse(w)
  /\ UNCHANGED <<vars, backlog, newfd, conn, denied>>

\* The kernel's rule for a port.
Conflict(w) == ~sk[w].sk_reuse /\ \E v \in Worker \ {w} : sk[v].bound

\* bind and listen: the socket is closed and create_listen returns -1 when the
\* port is refused, or when the kernel has no memory for it.
create_listen_bind(w) ==
  \/ /\ ~Conflict(w)
     /\ At(w, "bind", "listen")
     /\ sk' = [sk EXCEPT ![w].bound = TRUE]
     /\ UNCHANGED <<vars, backlog, newfd, conn, denied>>
  \/ /\ At(w, "bind", "accept")
     /\ sk' = [sk EXCEPT ![w] = NoSocket]
     /\ denied' = IF Conflict(w) THEN denied \cup {w} ELSE denied
     /\ UNCHANGED <<vars, backlog, newfd, conn>>

create_listen_listen(w) ==
  \/ /\ ~Conflict(w)
     /\ At(w, "listen", "accept")
     /\ sk' = [sk EXCEPT ![w].listening = TRUE]
     /\ UNCHANGED <<vars, backlog, newfd, conn, denied>>
  \/ /\ At(w, "listen", "accept")
     /\ sk' = [sk EXCEPT ![w] = NoSocket]
     /\ denied' = IF Conflict(w) THEN denied \cup {w} ELSE denied
     /\ UNCHANGED <<vars, backlog, newfd, conn>>

(***************************************************************************)
(* The loop of worker.                                                     *)
(***************************************************************************)
worker_accept(w) ==
  /\ backlog[w] # <<>>
  /\ At(w, "accept", "read")
  /\ newfd' = [newfd EXCEPT ![w] = Head(backlog[w])]
  /\ backlog' = [backlog EXCEPT ![w] = Tail(@)]
  /\ conn' = [conn EXCEPT ![Head(backlog[w])].state = "open"]
  /\ UNCHANGED <<vars, sk, denied>>

\* accept returns -1: there is no socket, no descriptor or no memory for a
\* connection, or len, which nothing has set, happens to be negative, and then the
\* kernel has taken a connection and drops it.
worker_accept_fails(w) ==
  /\ At(w, "accept", "read")
  /\ \/ UNCHANGED <<backlog, conn>>
     \/ /\ backlog[w] # <<>>
        /\ backlog' = [backlog EXCEPT ![w] = Tail(@)]
        /\ conn' = [conn EXCEPT ![Head(backlog[w])] = Ended("dropped")]
  /\ UNCHANGED <<vars, sk, newfd, denied>>

\* read returns when the peer has sent something or has left, and at once of -1.
worker_read(w) ==
  /\ At(w, "read", "send")
  /\ newfd[w] # NoConn => conn[newfd[w]].peer # "silent"
  /\ UNCHANGED <<vars, sk, backlog, newfd, conn, denied>>

\* MSG_NOSIGNAL: a peer that has left is no end of the program.
worker_send(w) ==
  /\ At(w, "send", "close")
  /\ conn' = [c \in Conn |->
                IF c = newfd[w] THEN [conn[c] EXCEPT !.answered = conn[c].peer # "left"]
                ELSE conn[c]]
  /\ UNCHANGED <<vars, sk, backlog, newfd, denied>>

\* Mutant: the thread goes back to accept without closing.
worker_close_leak(w) ==
  /\ At(w, "close", "accept")
  /\ newfd' = [newfd EXCEPT ![w] = NoConn]
  /\ UNCHANGED <<vars, sk, backlog, conn, denied>>

\* Mutant: the thread ends after its first connection.
worker_close_once(w) ==
  /\ At(w, "close", "none")
  /\ conn' = [c \in Conn |-> IF c = newfd[w] THEN [conn[c] EXCEPT !.state = "closed"]
                             ELSE conn[c]]
  /\ newfd' = [newfd EXCEPT ![w] = NoConn]
  /\ UNCHANGED <<vars, sk, backlog, denied>>

worker_close(w) ==
  /\ At(w, "close", "accept")
  /\ conn' = [c \in Conn |-> IF c = newfd[w] THEN [conn[c] EXCEPT !.state = "closed"]
                             ELSE conn[c]]
  /\ newfd' = [newfd EXCEPT ![w] = NoConn]
  /\ UNCHANGED <<vars, sk, backlog, denied>>

(***************************************************************************)
(* A signal ends the program: its sockets are closed, then the device.     *)
(***************************************************************************)
interrupt ==
  /\ driver = "setsockopt"
  /\ device_release(Client)
  /\ wpc' = [w \in Worker |-> "none"]
  /\ sk' = [w \in Worker |-> NoSocket]
  /\ backlog' = [w \in Worker |-> <<>>]
  /\ newfd' = [w \in Worker |-> NoConn]
  /\ conn' = [c \in Conn |-> IF conn[c].state \in {"new", "closed", "dropped"} THEN conn[c]
                             ELSE Ended("reset")]
  /\ UNCHANGED denied

(***************************************************************************)
(* The peers.                                                              *)
(***************************************************************************)
connect(c, w) ==
  /\ conn[c].state = "new" /\ sk[w].listening
  /\ conn' = [conn EXCEPT ![c].state = "queued"]
  /\ backlog' = [backlog EXCEPT ![w] = Append(@, c)]
  /\ UNCHANGED <<vars, wpc, sk, newfd, denied>>

peer_acts(c) ==
  /\ conn[c].state \in {"queued", "open"}
  /\ \E what \in {"spoke", "left"} :
       /\ conn[c].peer # "left" /\ conn[c].peer # what
       /\ conn' = [conn EXCEPT ![c].peer = what]
  /\ UNCHANGED <<vars, wpc, sk, backlog, newfd, denied>>

create_listen(w) ==
  \/ create_listen_socket(w) \/ device_ioctl_forceuse(w)
  \/ create_listen_bind(w) \/ create_listen_listen(w)

worker(w) ==
  \/ create_listen(w)
  \/ worker_accept(w) \/ worker_read(w) \/ worker_send(w) \/ worker_close(w)

PNext ==
  \/ Device
  \/ \E w \in Worker : test_setportreuse(w) \/ worker(w) \/ worker_accept_fails(w)
  \/ interrupt
  \/ \E c \in Conn : peer_acts(c) \/ \E w \in Worker : connect(c, w)

\* Threads are scheduled; signals, peers and other processes owe nothing, and
\* accept is not obliged to fail.
PSpec == PInit /\ [][PNext]_allvars /\ \A w \in Worker : WF_allvars(worker(w))
-----------------------------------------------------------------------------
(***************************************************************************)
(* Properties.                                                             *)
(***************************************************************************)

\* Neither thread is refused the port because the other one has it, in
\* whatever order their calls come: the ioctl takes effect before bind.
PortShared == denied = {}

\* The open connections are the ones that the threads are serving, one each,
\* and no thread serves without the device being open: the loop of worker
\* loses no descriptor and confuses none with the -1 of a failed accept, and a
\* signal closes all.  A connection that a thread closes has its answer unless
\* its peer left first.
NoDescriptorLost ==
  /\ {c \in Conn : conn[c].state = "open"} = {newfd[w] : w \in Worker} \ {NoConn}
  /\ \A v, w \in Worker : newfd[v] = newfd[w] /\ newfd[v] # NoConn => v = w
  /\ \A w \in Worker : wpc[w] # "none" => pc[Client] = "open" /\ loaded
  /\ \A c \in Conn : conn[c].state = "closed" => conn[c].answered \/ conn[c].peer = "left"

Silent(c) == conn[c].state = "open" /\ conn[c].peer = "silent"

\* accept has just returned -1 although w has a socket that listens.
Refused(w) == sk[w].listening /\ wpc[w] = "read" /\ newfd[w] = NoConn

\* When no peer keeps a thread waiting for ever, and accept does not go on
\* failing for ever, every connection that the kernel has taken in is served and
\* closed, or dropped by an accept that failed, or the program is ended: a failing
\* accept stops nobody but its own connection.
ConnectionsServed ==
  ((\A d \in Conn : []<>~Silent(d)) /\ (\A w \in Worker : <>[]~Refused(w)))
    => \A c \in Conn : (conn[c].state = "queued")
                         ~> (conn[c].state \in {"closed", "reset", "dropped"})
=============================================================================
