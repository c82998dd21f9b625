# A TLA+ model of final_test

`final_test` is a collection of small C programs. The largest of them with a
state of its own is `httpd_mock`, an HTTP server that answers every request with
a random body after a random latency. Around it are a log benchmark, kernel
modules, an echo server and some scripts. This directory holds TLA+ modules of
the parts that keep state, the TLC configurations that check them, and TLAPS
proofs of all their safety properties.

## Inventory

| Part | Source | State | Operations | What is hard | What makes it correct |
|---|---|---|---|---|---|
| connections of a worker | `src/httpd_mock/http_handlers.c` | client structures by descriptor, their timer nodes, two timer lists and which is current, number of connections | `http_accept`, `http_read`, `http_error`, `http_on_timer`, called back by the event loop | a client may be destroyed inside a callback that still holds it (a failing write runs `http_error`); nodes are reused between requests; two lists are swapped under a running loop | no freed node is reachable, no response is forgotten or mixed with another, latencies are kept, connections end |
| timer lists | `http_handlers.c:62-193` | head, tail, count; prev, next, owner | create, push, pop, delete | which node is first, last or only; links left over | a list is a FIFO queue from which one can remove |
| request scanner | `http_handlers.c:439-533` | buffer and offset of a client | the loop of `http_read` | the stream is cut anywhere | the same requests are found however it is cut |
| start-up | `src/httpd_mock/main.c`, `http_handlers.c:601-690` | `service_arg_t`, main's `i` in each process | options, file, checks, `fork`, `init_service` | order of options and lines; what a fork copies | workers get sane arguments and their own core |
| character devices | `src/kernel/ioctl`, `chardev`, `setsockopt` | `Device_Open`, `Message`, `Message_Ptr`, use count, number of greetings | load, open, release, read, write, ioctl, unload | nothing is locked; two counters must agree; a text may fill the buffer | loaded as long as it is used, free for the next caller when left, the right message |
| port sharing | `src/kernel/setsockopt/ioctl.c` | sockets and connections of two threads | force the option, bind, listen, accept, read, send, close | two threads set up one port in any order; a peer may be silent; accept may fail | both get the port, every connection is served, no descriptor is lost |
| work queue module | `src/kernel/sched` | `die`, `TimerIntrpt`, the delayed work | the self-requeueing task, cleanup, /proc read | cleanup against a task that queues itself | the task stops before its memory goes |
| log benchmark | `src/log/main.c` | overflow counter and its lock; per thread its step and position | tests, writing threads, overflow callback | threads share the counter | every overflow counts, all tests end |
| /proc buffer | `src/kernel/proc/procfs2.c` | a buffer and its size | load, read, write, unload | the size is set, cut and used in separate steps that nothing locks | a size that fits, and reads that return what was written |
| echo | `src/echo_server`, `src/echo_client` | the client's counters and buffer, the server's buffers | accept, read, write back, error; send, join | the stream is cut by both ends; both may wait for room; the connection breaks | every word comes back once and in order; nobody waits for ever |
| hit counter | `src/docker_mon/app.py` | the number in redis, retries left | a visit, `incr`, retry | a lost answer looks like a lost request | distinct and growing numbers, visits that end |
| not modelled | `cpu_affinity`, `jmp`, `todo`, `dns`, `dns1`, `pto_stat`, `stap`, `shell`, `k8s`, `user`, `kernel/hello`, `kernel/proc/procfs.c`, `kernel/ioctl/ioctl.c` | see *What is not modelled* | | | |
| `flibs` | (git submodule, not in the tree) | event loop, buffers, log | | | external: modelled from its use |

How the parts of `httpd_mock` meet: `main` reads the arguments, opens the
listening socket and forks; every process then calls `init_service` and
`start_service` and shares nothing more with the others than that socket. Within a
process one event loop calls the handlers one after the other. So there is no
preemption; what interleaves are callbacks, and `http_error`, which a failing write
runs in the middle of another callback.

## Modules

| Module | Models | Uses |
|---|---|---|
| `HttpServer` | one worker: clients, responses, the timer loop, a decoding peer | `TimerQueue` (abstract specification) |
| `TimerQueue` | what the timer lists promise | |
| `TimerList` | the pointers of the timer lists | `TimerQueue` (abstract specification) |
| `RequestScanner` | how requests are found in a byte stream | |
| `ServiceStart` | from the command line to the event loops | |
| `CharDevice` | the character devices of `kernel/chardev`, `kernel/ioctl` and `kernel/setsockopt` | |
| `PortReuse` | the setsockopt device with the program that shares a port through it | `CharDevice` (composed) |
| `Procfs` | the /proc buffer | |
| `EchoSystem` | echo client, echo server and their connection | |
| `HitCounter` | the visit counter of `docker_mon` and redis | |
| `SchedModule` | the work queue module | |
| `LogBench` | the log benchmark | |
| `MC...` | instances of these for TLC | |
| `HttpServerProofs`, `TimerListProofs` | theorems about these two | `TLAPS` and library theorems |
| `HttpdMockProofs` | theorems about `ServiceStart` and `RequestScanner` | the same |
| `PortReuseProofs` | theorems about `CharDevice` and `PortReuse` | the same |
| `KernelProofs` | theorems about `Procfs` and `SchedModule` | the same |
| `EchoSystemProofs`, `HitCounterProofs`, `LogBenchProofs` | theorems about these three | the same |

`TimerQueue` is where the two halves of the timers meet: `TimerList` implements it
with pointers, and `HttpServer`, whose lists are sequences, makes only steps that it
allows. `ServiceStart` checks that what a worker starts with is what `HttpServer`
assumes of its constants (`WorkersHaveSaneArgs` against `ArgsAssumption`).

Actions carry the names of the C functions they model. Where one module of proofs
extends two models, the names that both would have carry a prefix in one of them:
`ScanInit`, `ScanNext`, `ScanSpec` in `RequestScanner`, `SchedInit`, `sched_init_module`,
`sched_procfile_read` and the like in `SchedModule`. The definitions marked
*Mutant* are faulty variants of the definition below them: each property is
violated when one of them takes its place, so each says something about the code.
`PROJECT.json` maps every definition to its source lines.

### HttpServer

`cli[fd]` is the client structure of descriptor `fd` together with its timer node.
Instead of the absolute `last_active` it holds `age`, the time since then, capped at
`MaxAge`: no comparison of the code tells larger ages apart. Random draws
(`gen_number_in_range`, `get_ischunked`) are choices out of the set of possible
values. `http_on_timer` is cut at the turns of its loop into `timer_node_pop`,
`http_on_timer_node` and `http_on_timer_swap`; since no other callback runs during
it, the others require `pc = "poll"`. A write succeeds, or fails and has destroyed
the client by the time it returns, which is how `fevbuff_write` calls `http_error`.
`http_error` also comes on its own, when the peer closes.

`peer[fd]` is not in the code. It is an HTTP client that decodes what is written: a
head, then chunks, then the end, or a body of the announced length. It makes
"the response is well formed" a property that several steps must add up to.
`due[fd]` remembers the latency drawn for the last request.

The bytes that a chunk takes in `response_buf` are counted (`StoredBytes`), with
the code's own header sizes, the hexadecimal length and the final NUL. The digits of
the length are counted by the powers of 16 that it reaches.

### TimerList

One variable per field of `timer_mgr` and `timer_node`. The three branches of
`timer_node_delete` are three operators, with the code's own tests on `prev`, `next`
and `count`. `Nodes(m)` reads the sequence off the pointers and is the refinement
mapping to `TimerQueue`. `http_read` pushes the node of its client whether it is on a
list or not; a listed one has an owner and is left alone (`timer_node_push_listed`). A
delete that names another list than the node's is not called by the program:
`DeleteFromOwner` of `HttpServer` says so.

### RequestScanner

Bytes are line feeds, carriage returns and others. `http_read(seg)` appends a segment
of any content and length to the buffer, up to the `ReadMax` bytes that are asked
for (1024 in the code), runs the loop from the stored offset and pops what it pops.
A request that is found may also close the connection (keep-alive rules, a failed
write), which `HttpServer` models in detail.

### ServiceStart

Process `Parent` runs `main`; process `k` is the child forked in turn `k` of the loop.
Options and configuration lines come in any order. Forks and `init_listen` may fail,
as in the code without consequence for the parent, and so may `getrlimit`, which ends
the program. `Settled` lets the finished
system stutter. A value that `atoi` reads is any integer; `MaxWorkers` bounds the
processes, so no line asks for more workers (`LineAssumption`). `max_open_files` may
be negative, as the cast of an unlimited `rlim_t` is (`HostAssumption`).

### CharDevice and PortReuse

`driver` is the module that is loaded; what the three have in common is `fops`.
`Device_Open++` and `--` are a load and a store; `refs` is the use count that
`try_module_get` and `module_put` change and that keeps `cleanup_module` from
running. The steps of open, release, load and unload interleave in every way. A process
that is in `device_open` when the module is unloaded, because it has not taken the use
count yet, goes on in code that is gone; the model ends it.

`raced` remembers that a process has found `Device_Open` zero while another was between
that test and the end of its increment. `chardev_race` shows what happens then;
`ReadyForNextCaller` and `GreetingsCount` say that nothing else does any harm: a release
that is cut in two, an open that is refused in the middle of it, a reload. What they say
of the use count does not depend on `raced`.

Texts have any length. One of `BUF_LEN` characters or more leaves no NUL in the buffer,
and `device_read`, which counts up to a NUL, goes on behind it: `CharAt` gives `?` there,
and a NUL may be found anywhere (`Counts`). `MaxBeyond` bounds how far reads get;
`GetLen` stands for the 99 characters that GET_MSG asks for. `got`, `said` and `told`
record what users have read, set and been greeted with. Calls on the message are one
step and are taken while one process is inside, so that the message properties are about
the message and not about the broken exclusion. How `%d` writes the number of greetings is
the constant `Decimal`: the properties need only that it is text without a NUL
(`GreetingAssumption`).

`PortReuse` extends `CharDevice`: process `Client` runs `main` of
`kernel/setsockopt/ioctl.c`. Once it has opened the device its two threads run
`create_listen` and the loop of `worker`, one system call per step; a signal ends all of
it at any point and closes what is open. The kernel's part (`Conflict`, `connect`) is
external: a bound port is refused unless the socket has the option that `setsock_forceuse`
sets. `accept` may fail at any time (`worker_accept_fails`), without a socket, for want of
descriptors or because `len` is never set; the code does not look at its result and reads
from, sends to and closes -1. The kernel drops the connection that such an `accept` had
taken, if it had one.

### Procfs

A write stores the size, tests it, cuts it and copies, a read copies and then loads the
size again for its result: these are the steps, and three processes interleave them.
Both copies go by the size that is stored when they run, as in the code. One that is
larger than the buffer takes a read behind it (`?`) and a write over what lies there,
which may be the size itself (`Overrun`: it becomes one of `Garbage`, and `smashed`
remembers it until a write stores a size again). What else lies behind the buffer is not
modelled. A `copy_from_user` that fails has filled part of the buffer. `quiet` remembers
that no other write overlapped a call and `stored` what the last write left, if that is
known. The properties are about such calls and about what the others leave behind.

### EchoSystem

Bytes are numbered as they are sent, so that order and loss are visible. Both
directions of the connection are bounded (`WireCap`), and the server keeps in its
`fev_buff` what the socket does not take. `net_send_safe` sends byte by byte; the server
reads any number of bytes up to `ReadMax`, the client whole words only. `net_break`
may come at any time; `client_error` then closes the descriptor while `main` may still
be sending.

### HitCounter

`cache.incr` is split into sending the request, redis applying it and the answer. The
connection may fail at each point, and a request that was given up may still reach
redis (`redis_incr_late`), so one visit may be counted several times.

### SchedModule

The worker thread runs `intrpt_routine` in three steps (count, test `die`, requeue).
`cleanup_module` is a sequence of calls. The kernel's `cancel_delayed_work` stops a
running delay; whether it takes back work that is queued already differs between
kernels, so both are allowed. `flush_workqueue` waits for work that is queued or
running, not for a delay.

### LogBench

Mode and thread count choose a series of tests; `write_log` is cut at its messages,
its pauses and at the steps of the overflow callback `get_log_event`, which takes a
lock around a load and a store. `burst` counts the messages since the thread has started
or really paused, over the ends of groups. A thread whose step is a whole group, as at
the start, does not pause at all, so `BurstsBounded` speaks of the part of a group that
lies beyond the step.

## Runs

| Run | Properties | Shows |
|---|---|---|
| `http` | `TypeOK` `NodesOnLists` `DeleteFromOwner` `PendingHasTimer` `PeerSeesWholeResponses` `ConnCount` `ChunksFewAndFitting` `NotBeforeLatency` `DueResponsesAreSent` `ListsAreQueues` `RequestsGetAnswered` `ServedConnectionsExpire` | lists, counters, buffer and responses stay right in every order of callbacks; every request is answered or its connection closed; served connections expire |
| `timer_list` | `ListShape` `NothingDangles` `ImplementsQueue` | the pointers are FIFO queues |
| `scanner` | `NothingSkipped` `SegmentationIndependent` | segmentation does not matter |
| `start` | `WorkersHaveSaneArgs` `WorkersSpread` | workers start with sane arguments on their own cores |
| `device` | `ReadyForNextCaller` `GreetingsCount` `ReadsFollowMessage` `TextIsMessage` `PortShared` `NoDescriptorLost` `ConnectionsServed` | however opens and releases interleave, the drivers stay loaded for their users; unless two opens race, they are free for the next one and the greetings count; the message is the one set; both threads get the port, lose no descriptor and serve all connections, although `accept` may fail |
| `procfs` | `SizeFitsUndisturbed` `QuietReadsAreExact` | overlapping writes leave a size that fits, and only they copy past the buffer; a quiet read is exact |
| `echo` | `WordsComeBackWhole` `AllEchoed` `ClientEnds` | all words come back once, whole and in order; the client ends when the connection breaks |
| `hits` | `CountsDistinctAndGrow` `VisitsEnd` | numbers shown are distinct and grow, visits end |
| `sched` | `AtMostOneLateRun` `KeepsTicking` `CleanupFinishes` | the task ticks, and cleanup ends |
| `log` | `BurstsBounded` `MissesCounted` `Terminates` | overflows are counted, a thread beyond its step keeps to it, the benchmark ends |
| `chardev_race` (violation) | `OneUser` | two opens that overlap both succeed |
| `sched_freed` (violation) | `NothingRefersToFreedTask` | the task may be requeued after it was cancelled |

Bounds, and why they are enough:

- `http`: two connections, so that one is destroyed while the other waits on a list
  (positions within longer lists are the subject of `timer_list`, and the theorems hold
  for any number); two requests per connection, for nodes that are reused and
  requests that overlap; latencies 0 to 2 and a timeout of 2, so that a response is
  sent at once or later, a node is reused with a longer interval, and a connection
  times out; chunked sizes 0 to 5 with two
  blocks: an empty body, one smaller than the blocks, divisible and not. Response
  bodies of 2 bytes make a buffer that the head and the largest chunk fill exactly.
  Descriptors are compared with `max_queue_len`, so they are numbers and not
  symmetric. 518 622 states.
- `timer_list`: four nodes and two lists: a list of three nodes has a middle.
- `scanner`: 9 bytes, a buffer of 6: two requests, cut anywhere, and a full buffer.
- `start`: three lines, four workers on two cores. The lines include values out of
  range in both directions, an unknown key and one with another name than its
  setting.
- `device`: two processes, so that open, release and unload of each meet those of the
  other at every step; a buffer of 3 and texts of 0 to 4 characters: shorter after longer
  ones, one that leaves no room for its NUL, one that is cut; a GET_MSG of more than the
  buffer, and reads that get one character beyond it (`MaxBeyond`); `hello` is opened three
  times (`MaxOpens`, tested again in `device_open_msg` for opens that have raced). On
  `setsockopt` one of the processes runs the program with both threads, while the other
  opens, reads and releases the device; two connections go to one thread or one to each,
  and `accept` may fail any number of times. Only `ioctl` has texts, because the message
  calls of `setsockopt` are the same code. 621 207 states.
- `chardev_race`: two processes and no texts.
- `procfs`: three processes, a buffer of 2 and texts of 1 to 3 characters, so that a
  write can overlap a read and another write, and a size can exceed the buffer; an overrun
  leaves a size that is too large (`Garbage`), the only kind that matters to what is
  claimed. The processes are alike (`SYMMETRY`; there is no liveness in this run).
- `echo`: four words of two bytes, reads of up to three and sockets of three bytes: words
  are cut, and both directions fill up. `CHECK_DEADLOCK FALSE`: both programs may end.
- `hits`: three visits with one retry each; the visits end (`CHECK_DEADLOCK FALSE`).
- `sched`: the counter stops at 6, but `ticked` goes on flipping, so `KeepsTicking`
  does not depend on the bound. `CHECK_DEADLOCK FALSE`: an unloaded module stops.
- `log`: groups of 3 for 5000, six groups of a single thread with a rest and three of
  each of two without, three overflows per test.

Fairness:

- `HttpServer`: weak fairness of the steps of `http_on_timer`: the event loop has a 50
  ms timer that fires for ever, and the loop in it is bounded by the list. Strong
  fairness of `Tick`, because time passes however often callbacks run. None for
  peers: they need not send, read or close.
- `SchedModule`: kernel timers expire, the worker thread runs, and `cleanup_module`,
  once called, goes on. Nobody has to unload the module.
- `PortReuse`: the threads are scheduled (weak fairness of each). Peers, signals and
  other processes owe nothing, and `accept` is not obliged to fail. That no peer stays
  silent for ever and that the `accept` of a listening socket does not fail for ever are
  premises of `ConnectionsServed`, not assumptions of the model, because `read` has no
  timeout and nothing counts the failures.
- `EchoSystem`: both event loops keep polling and both threads of the client are
  scheduled. Nothing makes the connection break or hold.
- `HitCounter`: a visit that has begun goes on, since a call returns or times out.
  Nobody has to visit, and a late request need never arrive.
- `LogBench`: the scheduler runs every thread that can run. Weak fairness is enough for
  the lock because overflows are bounded, so no thread can be overtaken for ever.

## Findings

Runs that TLC refutes; `PROJECT.json` quotes the lines the code disagrees with.

1. `chardev_race`: test and update of `Device_Open` are not atomic
   (`kernel/ioctl/chardev.c:37`), so two processes may have the device.
2. `sched_freed`: the task may test `die` before it is set and requeue itself after
   `cancel_delayed_work`; its delay is then still running when the module goes
   (`sched.c:133`).

Observations without a run:

- After two opens have raced, their increments, or an increment and a decrement, may
  overwrite each other: `Device_Open` is not zero when both have left, and the device
  refuses everybody (`kernel/ioctl/chardev.c:39`, 54). A trace of `chardev_race` that goes
  on may end so, which is why `ReadyForNextCaller` stops at `raced`.
- A text of `BUF_LEN` characters or more leaves no zero in the buffer
  (`kernel/ioctl/chardev.c:114`), and the loop of `device_read` (line 83) goes on behind it.
- Between the cut of a size and the copy another write may store its own
  (`procfs2.c:58-63`), and the copy goes past the buffer.
- `procfile_read` loads the size twice (`procfs2.c:43-44`), and returns another than it has
  copied when a write comes in between.
- `offset + 2` bytes are popped (`http_handlers.c:529`) where the request has
  `offset + 3`; the comment above says "pop last consumed data". The last newline stays
  in front of the next request. `SegmentationIndependent` counts it there.
- `read_config` resets the arguments (`main.c:79`), the port of an earlier `-p` included.
- `kernel/chardev/chardev.c:2-3` says that the device tells "how many times you've read
  from the dev file"; it counts opens (line 84), which is what `GreetingsCount` states.
- An unload may come while a process is in `device_open` and not counted yet
  (`chardev.c:37-44`), which the kernel prevents by the owner of the file operations;
  the drivers set none (`chardev.c:195-202`).
- `accept` is given a `len` that nothing has set, and its result is not looked at
  (`setsockopt/ioctl.c:119-121`): a connection may be dropped unanswered.
- A writing thread of the log benchmark starts with a step of a whole group and does not
  pause in a group unless it has met an overflow before (`log/main.c:41`, 58).
- A write to the /proc buffer that fails has replaced the size and part of the contents
  (`procfs2.c:58-65`).
- `eg_accept` keeps a descriptor open that it could make no buffer for
  (`echo_server/main.c:55`), and `eg_read` calls `fevbuff_pop` after a write that may have
  run `eg_error` (line 42).
- The echo client ends only when the connection does: `pthread_join` waits for
  `client_error` (`echo_client/main.c:110`).

Properties whose statement is limited by what the code does:

- `ServedConnectionsExpire` speaks of connections that have completed a request: the
  timer node is created then (`http_handlers.c:524`), so a connection that sends
  nothing is never timed out.
- `DueResponsesAreSent` speaks of requests that drew a latency: after a response that
  starts at once the node's interval is the server timeout (`:513`), and the next chunk
  waits for it.
- `ChunksFewAndFitting` allows `2 * chunk_blocks - 1` data chunks, because the size is
  divided rounding down (`:339`); and it presumes that the buffer, which is sized by
  `max_response_size`, holds one chunk of the largest response, which nothing checks.
- `TextIsMessage` leaves out the empty text, which `IOCTL_SET_MSG` does not store
  (`chardev.c:159`), and of a text that is longer than the buffer holds only its beginning.
- `ReadyForNextCaller`, of `Device_Open`, and `GreetingsCount` end where two opens have
  raced (`chardev_race`). `ReadsFollowMessage` ends where the buffer does, and says that
  reads pass it only when it has no NUL.
- `QuietReadsAreExact` says nothing of calls that a write overlaps, `SizeFitsUndisturbed`
  nothing of a size that a copy has run over, nor of copies of writes that overlap.
- `ConnectionsServed` counts a connection as done that a failing `accept` has dropped.
- `BurstsBounded` bounds nothing in the first stretch of a group, up to its step: a thread
  may come there from groups without a pause.
- `CountsDistinctAndGrow` lets a visit count once per attempt: the number shown may
  exceed the number of visits.

## Proofs

`tlapm` checks all of them; no step is left out.

**Worker** (`HttpServerProofs`). Assumptions: descriptors are any finite set of naturals
(`FdAssumption`); the settings are as `checkServiceArgs` leaves them (`ArgsAssumption`:
ranges are ordered and not negative, `chunk_blocks` is positive, the timeout is any
integer since it is not checked); `MaxAge` is above all intervals (`BoundAssumption`);
the null pointer is no descriptor and no list (`FdAssumption`, `NullAssumption`).
Theorems:

- `TypeCorrect`, `ListsHoldLiveNodes`, `DeletesFromOwner`, `NoResponseForgotten`,
  `ConnectionsCounted`, `WholeResponses`: `Spec => []P` for `TypeOK`, `NodesOnLists`,
  `DeleteFromOwner`, `PendingHasTimer`, `ConnCount`, `PeerSeesWholeResponses`;
- `ChunksStayFew`: `Spec => []ChunksFewAndFitting`;
- `LatencyRespected`: `Spec => NotBeforeLatency`, and `DueIsSent`: `Spec =>
  DueResponsesAreSent`, action properties;
- `ListsImplementQueues`: `Spec => ListsAreQueues`, the step to `TimerQueue`.

None of these is inductive on its own. `destroy_client` deletes from the *current* list,
so that the lists hold only live nodes (`NodesOnLists`) needs that the backup list is
empty between callbacks (`DeleteFromOwner`), and that in turn needs that the lists hold
all nodes that say so. That responses are whole needs `Framed`: what the peer has got
plus what is left is what was drawn, a non-empty rest has a positive chunk size, and
`chunk_block_num = 0` exactly before the head of a chunked response is sent. That no
latency is cut short needs `Timed`: the interval in the node is the latency drawn,
although the node may have been made for an earlier request. `DueIsSent` needs the same,
and that every write of a response that is not complete moves its peer on, which follows
from `Framed` (`WritesFacts`). `ChunksFewAndFitting` needs `Divided`: what is left to
send is at most `2 * chunk_blocks - 1` minus the chunks sent, times the chunk size. It
holds when a size is drawn, because a division that rounds down loses less than one byte
per block, and each chunk sent uses up one of those left. That a chunk fits in the
buffer is that the number of hexadecimal digits does not fall when the size grows.
`IInv` conjoins the others. `NextInv` proves it preserved, with a lemma per action;
destroying a client and putting a node back are lemmas shared by the actions
(`DestroyInv`, `KeepInv`). `Listed` treats one list at a time: appending, removing and a
frame lemma for the list that is not touched.

**Timer lists** (`TimerListProofs`). Assumption: null is no node and no list
(`PointersAssumption`). Any set of nodes and lists. Theorems `ListsKeepShape`,
`NeverDangling`, `TypeCorrect`, and `ImplementsQueues`: `Spec => ImplementsQueue`.
`ListShape` needs beside the types that a node on no list has no links (`Clean`), or
else a push would splice leftovers in. Each action is proved by naming the chain after
the step: the old one with one more node (`PushInv`), or with one removed (`Remove`, for
all positions, used by pop and delete); `Frame` keeps the other lists. For the
refinement `ChainUnique` shows that the pointers of a list determine its chain: of two
chains that differ take the least place where they do; the node before it is the same in
both, and so is its `next`. Thus `Nodes(m)`, which chooses a chain, is the one that the
lemmas have named, and each step of the pointers is a push, a pop or a delete of
`TimerQueue`, or leaves all lists as they are.

**Start-up and request scanner** (`HttpdMockProofs`). Assumptions: `LineAssumption`,
`HostAssumption`, `BoundsAssumption`. Theorems `ArgsAreSane`, `WorkersAreSpread`,
`SearchSkipsNothing`, `PiecesDoNotMatter`.

- *Start-up*: no child exists before the arguments are checked, and whoever runs later
  runs with sane ones (`Checked`); a child keeps the turn of the loop it was forked in,
  and the parent, which is a worker too, leaves the loop with the last turn (`Counted`).
  So no two workers have the same number. From there `WorkersAreSpread` is counting: the
  workers on one core map, shifted by the distance of the cores, one to one to workers
  on the other.
- *Scanner*: the offset is at 0 or at least two bytes before the end (`Behind`), and
  nothing before it ends a request (`NothingSkipped`). For `SegmentationIndependent`:
  the buffer is what is left of the stream (`Suffix`), and what has been popped is what
  `CutAfter` makes of the whole stream and the number of requests found. `CutAfter` is a
  recursive function; that the function exists is proved with the least number at which
  a counterexample could stand (`LeastOf`, `AllNaturals`), since the library's induction
  needs an operator as parameter. More bytes at the end of a stream do not change the
  cuts before them.

**Devices and port sharing** (`PortReuseProofs`). Assumptions: `TextAssumption`,
`GreetingAssumption`, `ClientAssumption`; any set of processes, threads and connections.
`ProgramUsesDevice` (`PSpec => Spec`): with the client in it, the device takes only
steps that `CharDevice` allows. `ReadyAgain`, `GreetingsInOrder`, `ReadsInOrder` and
`SetTextIsMessage` hold for every interleaving of opens and releases and texts of any
length; `PortIsShared` and `NoConnectionLost` for every interleaving of the threads,
failing `accept` included.

- *Device* (`DInv`): the use count is the number of processes that have taken it and not
  given it back, and a module that is not loaded has none in a call (`RefCount`); where no
  opens have raced at most one process is between the test of `Device_Open` and its
  decrement, and where it stands determines `Device_Open` and what a processor has loaded
  of it (`OneInside`): who then tests it finds it zero only when nobody is inside, except
  in an increment, which is what `raced` says. The greeting in the buffer carries the
  number of opens (`Greeted`); the text last set is in the buffer as far as it reaches,
  with its NUL if there is room (`Holds`); `ReadsFollowMessage` is preserved with these.
- *Program* (`PInv`): the option was forced on a socket before it is bound, so no bind
  was refused (`Forced`); a connection is in the queue of one listening socket or held
  by one thread (`Queues`, `Served`), and closed once answered (`Answered`); while
  threads run the device is open (`Attached`). A failing `accept` takes a connection from
  the queue without giving it to the thread.

**Kernel modules** (`KernelProofs`). Assumptions: `DataAssumption`, `TicksAssumption`.

- `SizeFits` and `QuietReads` for any number of processes, any bound of the buffer and any
  texts: a size above the bound belongs to a write that has yet to cut it, or was left
  there by a copy past the buffer (`SomebodyCuts`); a call that no write overlaps finds
  its own size (`Alone`, `OwnSize`); a finished write that was not disturbed is in the
  buffer (`BufferHolds`), and so in what quiet reads copy (`CopiesHold`), whose length is
  the size they return (`CopiesFit`).
- `OneLateRun`: after the cancel the task has run once more, or will, not both, because
  what passes the test of `die` has passed it before the cancel (`SchedInv`).

**Log benchmark** (`LogBenchProofs`). Assumption: `ArgsAssumption`, the arguments that
`main` lets through. `NoMissLost` for any number of threads: the overflows are those in
the counter and those of threads that have yet to tell of theirs, and the value that the
holder of the lock has loaded is the present one (`Counting`). `BurstsAreBounded`: the
step counter is that of the group's messages until the first pause in it, and after a
pause it is ahead of the burst (`Bursting`); so once it differs from the former, the burst
is within the step.

**Echo** (`EchoSystemProofs`). Assumption: `EchoAssumption`. `EchoesWhole` for any word
size, any reads and any room in the sockets: what the client has in its buffer and can
still read continues what it has counted (`InOrderBack`), even when the connection has
broken; while it holds, what the server has yet to write and to read continues that, up
to the last byte sent (`InOrderForth`); and the client takes out whole words only
(`WordsWhole`).

**Hit counter** (`HitCounterProofs`). Assumption: `RetriesAssumption`.
`CountsAreDistinct` for any set of visits, finite or not: a visit is given a number
above the one redis had when it began and not above the one it has now, and no two are
given the same (`Numbered`); a visit counts at most once per attempt (`Budget`). The
largest number shown exists because it is bounded (`LargestOf`).

**Only model-checked**: liveness (`RequestsGetAnswered`, `ServedConnectionsExpire`,
`ConnectionsServed`, `AllEchoed`, `ClientEnds`, `VisitsEnd`, `KeepsTicking`,
`CleanupFinishes`, `Terminates`), which holds under fairness and needs ENABLED, out of
the prover's reach; and the properties that TLC refutes, for whose counterexamples a run
is the right means.

## What is not modelled

Of the modelled programs:

- the contents of responses, printing and logging, and `http_on_show_status`, which only
  logs;
- allocation failures of single structures, which end the process or a connection;
- overlapping reads and writes of the device message, after opens that have raced: the
  exclusion that should prevent them is the subject of `chardev_race`;
- what lies behind the device's and the /proc module's buffers, except that it is not
  theirs, and in the latter may be the size;
- `IOCTL_GET_NTH_BYTE`, which changes nothing, `critical_test` of the log benchmark and
  the message functions of the setsockopt client, which are never called.

Programs left out:

- `cpu_affinity`: its threads only read an array that was filled before they started, and
  are started and joined in a straight line. What it measures is hardware.
- `jmp`: two functions that jump into each other's frames; once a frame is left this is
  undefined in C.
- `todo`: one pass over the lines of a file, printed. `dns`, `dns1`: one library call,
  printed.
- `pto_stat`: generated protobuf code and timing loops around encoders.
- `kernel/hello`, `kernel/proc/procfs.c`: print or return a fixed text.
  `kernel/ioctl/ioctl.c`: three calls in a row, which `CharDevice` allows in any order.
- `stap`, `shell`, `k8s`, `user`: probes, scripts, deployment files and programs of a few
  lines without state.
- `flibs`: a submodule outside the tree. Event loop, buffers and log are external and
  modelled from how they are used.

## Plan

Done: all programs with a state that several steps or actors change are modelled, in the
order `HttpServer`, `TimerList` with `TimerQueue`, their proofs, `RequestScanner`,
`ServiceStart`, `SchedModule`, `LogBench`, `CharDevice`, `PortReuse`, `Procfs`,
`EchoSystem`, `HitCounter`.

Proved: every safety invariant and action property that a run checks, and both
refinements. For liveness the runs stand alone. A program that is added to the
repository would get a module, a run and theorems in that order.
