----------------------------- MODULE CharDevice -----------------------------
(***************************************************************************)
(* The character devices of src/kernel: the one of chardev/chardev.c, here *)
(* "hello", which greets whoever opens it, and the ones that keep a        *)
(* message, ioctl/chardev.c and its copy with one more ioctl in            *)
(* setsockopt/chardev.c.  They share the way they are loaded, opened for   *)
(* one process at a time, read, released and unloaded.                     *)
(*                                                                         *)
(* Open and release are cut into the memory accesses that two processors   *)
(* can interleave, since nothing locks Device_Open, and run in every       *)
(* order.  A call that uses the message is one step, and is taken while no *)
(* other process uses the device or is on its way to it.                   *)
(***************************************************************************)
EXTENDS Integers, Sequences, FiniteSets

CONSTANTS
  Proc,
  Drivers,      \* which of the modules "hello", "ioctl", "setsockopt" to look at
  BUF_LEN,
  Text,         \* what users of a driver write, of any length
  ReadLen,      \* the lengths that reads ask for
  GetLen,       \* the length that GET_MSG asks for, 99 in the code
  MaxBeyond,    \* bound: how far reads go past the end of the buffer
  MaxOpens,     \* bound: how often "hello" is opened after it was loaded
  Decimal(_)    \* what the "%d" of a greeting makes of a number

NUL == "NUL"

ASSUME TextAssumption ==
  /\ BUF_LEN \in Nat \ {0}
  /\ Drivers \subseteq {"hello", "ioctl", "setsockopt"}
  /\ \A t \in UNION {Text[d] : d \in Drivers} :
       t \in Seq(STRING) /\ \A k \in 1..Len(t) : t[k] # NUL
  /\ MaxOpens \in Nat /\ MaxBeyond \in Nat
  /\ ReadLen \subseteq Nat /\ GetLen \in Nat

\* The buffer, of 80 characters in the code, holds a greeting.
ASSUME GreetingAssumption ==
  /\ "hello" \in Drivers => BUF_LEN > 2
  /\ \A n \in 0..MaxOpens : Decimal(n) \in STRING /\ Decimal(n) # NUL

VARIABLES
  driver,  \* the module
  loaded,  \* it has been loaded
  refs,    \* its use count, which keeps it from being unloaded
  Device_Open, Message, Message_Ptr,
  counter, \* device_open's static local in "hello"
  pc,      \* where each process is in open or release
  reg,     \* the value of Device_Open that its processor has loaded and works
           \* with, or else 0
  got,     \* history: what was read since Message_Ptr was last reset
  said,    \* history: the text that SET_MSG was last given, if it still holds
  told,    \* history: the greetings that "hello" had for its users, in order
  raced    \* history: since the module was loaded, a process has found Device_Open
           \* zero while another was between its test and the end of its increment

history == <<got, said, told, raced>>
vars == <<driver, loaded, refs, Device_Open, Message, Message_Ptr, counter, pc, reg,
          history>>

NONE == <<"none">>

NoMessage == [k \in 0 .. BUF_LEN - 1 |-> NUL]

Init ==
  /\ driver \in Drivers
  /\ loaded = FALSE /\ refs = 0
  /\ Device_Open = 0 /\ Message = NoMessage /\ Message_Ptr = 0 /\ counter = 0
  /\ pc = [p \in Proc |-> "closed"]
  /\ reg = [p \in Proc |-> 0]
  /\ got = <<>> /\ said = NONE /\ told = <<>> /\ raced = FALSE

Users == {p \in Proc : pc[p] = "open"}

InCall == {p \in Proc : pc[p] \notin {"closed", "open"}}

\* Those that have passed the test of Device_Open and not yet taken their
\* increment back.
Inside == {p \in Proc : pc[p] \notin {"closed", "release_put"}}

Incrementing == {p \in Proc : pc[p] \in {"open_load", "open_store"}}

\* The text of a buffer: the characters in front of the first NUL, or all when
\* it has none.
Held(m) ==
  LET end == CHOOSE e \in 0..BUF_LEN :
               /\ e = BUF_LEN \/ m[e] = NUL
               /\ \A j \in 0 .. e - 1 : m[j] # NUL
  IN [j \in 1..end |-> m[j - 1]]

(***************************************************************************)
(* Loading and unloading.                                                  *)
(***************************************************************************)
\* The static variables are set when the module is loaded.  When
\* register_chrdev fails, it is not.
init_module ==
  /\ ~loaded
  /\ \/ /\ loaded' = TRUE
        /\ Device_Open' = 0 /\ Message' = NoMessage /\ Message_Ptr' = 0 /\ counter' = 0
        /\ got' = <<>> /\ said' = NONE /\ told' = <<>> /\ raced' = FALSE
        /\ UNCHANGED <<driver, refs, pc, reg>>
     \/ UNCHANGED vars

\* rmmod refuses while the use count is not zero.  A process in device_open is
\* not counted yet: it goes on in code that is gone, and the fault ends it.
cleanup_module ==
  /\ loaded /\ refs = 0
  /\ loaded' = FALSE
  /\ pc' = [p \in Proc |-> "closed"]
  /\ reg' = [p \in Proc |-> 0]
  /\ UNCHANGED <<driver, refs, Device_Open, Message, Message_Ptr, counter, history>>

(***************************************************************************)
(* open.                                                                   *)
(***************************************************************************)
\* Mutant: a caller that is turned away is counted too.
device_open_miscounted(p) ==
  /\ pc[p] = "closed" /\ loaded
  /\ counter < MaxOpens
  /\ \/ /\ Device_Open # 0
        /\ counter' = counter + 1
        /\ UNCHANGED <<pc, raced>>
     \/ /\ Device_Open = 0
        /\ pc' = [pc EXCEPT ![p] = "open_load"]
        /\ raced' = (raced \/ Incrementing # {})
        /\ UNCHANGED counter
  /\ UNCHANGED <<driver, loaded, refs, Device_Open, Message, Message_Ptr, reg, got, said, told>>

\* Device_Open is not zero: EBUSY, and nothing has changed.
device_open(p) ==
  /\ pc[p] = "closed" /\ loaded
  /\ counter < MaxOpens
  /\ \/ /\ Device_Open # 0
        /\ UNCHANGED <<pc, raced>>
     \/ /\ Device_Open = 0
        /\ pc' = [pc EXCEPT ![p] = "open_load"]
        /\ raced' = (raced \/ Incrementing # {})
  /\ UNCHANGED <<driver, loaded, refs, Device_Open, Message, Message_Ptr, counter, reg,
                 got, said, told>>

device_open_load(p) ==
  /\ pc[p] = "open_load"
  /\ reg' = [reg EXCEPT ![p] = Device_Open]
  /\ pc' = [pc EXCEPT ![p] = "open_store"]
  /\ UNCHANGED <<driver, loaded, refs, Device_Open, Message, Message_Ptr, counter, history>>

device_open_store(p) ==
  /\ pc[p] = "open_store"
  /\ Device_Open' = reg[p] + 1
  /\ reg' = [reg EXCEPT ![p] = 0]
  /\ pc' = [pc EXCEPT ![p] = IF driver = "hello" THEN "open_msg" ELSE "open_ptr"]
  /\ UNCHANGED <<driver, loaded, refs, Message, Message_Ptr, counter, history>>

\* The message of "hello" says how often it has been given.
Greeting(n) == <<"hello", Decimal(n)>>

\* The bound is tested again for those that have raced.
device_open_msg(p) ==
  /\ pc[p] = "open_msg"
  /\ counter < MaxOpens
  /\ Message' = [k \in 0 .. BUF_LEN - 1 |->
                   IF k < 2 THEN Greeting(counter)[k + 1]
                   ELSE IF k = 2 THEN NUL ELSE Message[k]]
  /\ counter' = counter + 1
  /\ pc' = [pc EXCEPT ![p] = "open_ptr"]
  /\ UNCHANGED <<driver, loaded, refs, Device_Open, Message_Ptr, reg, history>>

device_open_ptr(p) ==
  /\ pc[p] = "open_ptr"
  /\ Message_Ptr' = 0 /\ got' = <<>>
  /\ told' = IF driver = "hello" THEN Append(told, Held(Message)) ELSE told
  /\ pc' = [pc EXCEPT ![p] = "open_get"]
  /\ UNCHANGED <<driver, loaded, refs, Device_Open, Message, counter, reg, said, raced>>

\* Mutant: the module is not kept from being unloaded.
device_open_get_missing(p) ==
  /\ pc[p] = "open_get"
  /\ pc' = [pc EXCEPT ![p] = "open"]
  /\ UNCHANGED <<driver, loaded, refs, Device_Open, Message, Message_Ptr, counter, reg, history>>

\* try_module_get.
device_open_get(p) ==
  /\ pc[p] = "open_get"
  /\ refs' = refs + 1
  /\ pc' = [pc EXCEPT ![p] = "open"]
  /\ UNCHANGED <<driver, loaded, Device_Open, Message, Message_Ptr, counter, reg, history>>

(***************************************************************************)
(* release.                                                                *)
(***************************************************************************)
device_release(p) ==
  /\ pc[p] = "open"
  /\ reg' = [reg EXCEPT ![p] = Device_Open]
  /\ pc' = [pc EXCEPT ![p] = "release_store"]
  /\ UNCHANGED <<driver, loaded, refs, Device_Open, Message, Message_Ptr, counter, history>>

device_release_store(p) ==
  /\ pc[p] = "release_store"
  /\ Device_Open' = reg[p] - 1
  /\ reg' = [reg EXCEPT ![p] = 0]
  /\ pc' = [pc EXCEPT ![p] = "release_put"]
  /\ UNCHANGED <<driver, loaded, refs, Message, Message_Ptr, counter, history>>

\* module_put.
device_release_put(p) ==
  /\ pc[p] = "release_put"
  /\ refs' = refs - 1
  /\ pc' = [pc EXCEPT ![p] = "closed"]
  /\ UNCHANGED <<driver, loaded, Device_Open, Message, Message_Ptr, counter, reg, history>>

(***************************************************************************)
(* The message.                                                            *)
(***************************************************************************)
OnlyUser(p) == pc[p] = "open" /\ Inside = {p}

\* "?" stands for what lies behind the buffer, which may be anything but does
\* not belong to the driver.
CharAt(k) == IF k < BUF_LEN THEN Message[k] ELSE "?"

\* How many characters device_read may count when it is asked for length: up to
\* the length or a NUL, and a NUL may be anywhere behind the buffer.
Counts(length) ==
  {n \in 0..length :
     /\ \A k \in Message_Ptr .. Message_Ptr + n - 1 : CharAt(k) # NUL
     /\ n < length => Message_Ptr + n >= BUF_LEN \/ CharAt(Message_Ptr + n) = NUL
     /\ Message_Ptr + n <= BUF_LEN + MaxBeyond}

Copy(length) ==
  \E n \in Counts(length) :
    /\ Message_Ptr' = Message_Ptr + n
    /\ got' = got \o [j \in 1..n |-> CharAt(Message_Ptr + j - 1)]

device_read(p, length) ==
  /\ OnlyUser(p)
  /\ Copy(length)
  /\ UNCHANGED <<driver, loaded, refs, Device_Open, Message, counter, pc, reg,
                 said, told, raced>>

\* Mutant: the characters are stored and the pointer stays where it was.
Store_unreset(chars) ==
  /\ Message' = [k \in 0 .. BUF_LEN - 1 |->
                   IF k < Len(chars) THEN chars[k + 1] ELSE Message[k]]
  /\ UNCHANGED Message_Ptr

\* The body of device_write: what lies behind the new characters stays, and of
\* more than BUF_LEN the first ones fill the buffer, with no NUL behind them.
Store(chars) ==
  /\ Message' = [k \in 0 .. BUF_LEN - 1 |->
                   IF k < Len(chars) THEN chars[k + 1] ELSE Message[k]]
  /\ Message_Ptr' = 0

device_write(p, text) ==
  /\ OnlyUser(p)
  /\ Store(text)
  /\ got' = <<>> /\ said' = NONE
  /\ UNCHANGED <<driver, loaded, refs, Device_Open, counter, pc, reg, told, raced>>

\* What a buffer can hold of some characters.
Cut(chars) == SubSeq(chars, 1, IF Len(chars) < BUF_LEN THEN Len(chars) ELSE BUF_LEN)

\* Mutant: the NUL is not counted.
Counted_bare(text) == Cut(text)

\* The characters of a NUL-terminated text that SET_MSG counts: the NUL too, but
\* no more than BUF_LEN, and none of a text that is empty.
Counted(text) == IF text = <<>> THEN <<>> ELSE Cut(Append(text, NUL))

ioctl_set_msg(p, text) ==
  /\ OnlyUser(p)
  /\ Store(Counted(text))
  /\ got' = <<>> /\ said' = text
  /\ UNCHANGED <<driver, loaded, refs, Device_Open, counter, pc, reg, told, raced>>

\* GET_MSG reads on from where the last read stopped.
ioctl_get_msg(p) ==
  /\ OnlyUser(p)
  /\ Copy(GetLen)
  /\ UNCHANGED <<driver, loaded, refs, Device_Open, Message, counter, pc, reg,
                 said, told, raced>>

-----------------------------------------------------------------------------
\* "hello" answers a write with EINVAL.
device_write_refused(p) == OnlyUser(p) /\ UNCHANGED vars

\* The calls that all three drivers have.
fops(p) ==
  \/ device_open(p) \/ device_open_load(p) \/ device_open_store(p)
  \/ device_open_ptr(p) \/ device_open_get(p)
  \/ device_release(p) \/ device_release_store(p) \/ device_release_put(p)
  \/ \E length \in ReadLen : device_read(p, length)

hello_fops(p) ==
  /\ driver = "hello"
  /\ fops(p) \/ device_open_msg(p) \/ device_write_refused(p)

device_ioctl(p) ==
  \/ \E text \in Text[driver] : ioctl_set_msg(p, text)
  \/ ioctl_get_msg(p)

message_fops(p) ==
  /\ driver # "hello"
  /\ fops(p) \/ device_ioctl(p) \/ \E text \in Text[driver] : device_write(p, text)

Next ==
  \/ init_module \/ cleanup_module
  \/ \E p \in Proc : hello_fops(p) \/ message_fops(p)

Spec == Init /\ [][Next]_vars
-----------------------------------------------------------------------------
(***************************************************************************)
(* Properties.                                                             *)
(***************************************************************************)

\* What the code promises and does not keep.  "We don't want to talk to two
\* processes at the same time" (ioctl/chardev.c:35): the device never has two
\* users.
OneUser == Cardinality(Users) <= 1

\* In whatever order opens and releases interleave, the use count between calls
\* is the number of users, so that the module is not unloaded under one and can
\* be unloaded after the last ("or else once you opened the file, you'll never
\* get get rid of the module", chardev/chardev.c:98).  Device_Open counts one
\* user at most, and is zero again for the next caller, as long as no open
\* overlaps the increment of another: that a release or a refused open does is
\* no harm.
ReadyForNextCaller ==
  /\ Users # {} => loaded
  /\ InCall = {} => refs = Cardinality(Users)
  /\ loaded /\ ~raced =>
       /\ Cardinality(Inside) <= 1
       /\ Inside = {} => Device_Open = 0
       /\ InCall = {} => Device_Open = Cardinality(Users)

\* The k-th process to open "hello" since it was loaded is told that k - 1 came
\* before it, unless opens have raced: who is turned away does not count, nobody
\* is told the same.
GreetingsCount == ~raced => \A k \in 1..Len(told) : told[k] = Greeting(k - 1)

\* Reads deliver the message in order from its first character, without a gap or
\* a repetition, although writes come between them, and go past the end of the
\* buffer only when a text that fills it has left no NUL there.  While a process
\* is in device_open the message may have changed and Message_Ptr not yet.
ReadsFollowMessage ==
  (loaded /\ \A p \in Proc : pc[p] # "open_ptr") =>
    /\ Len(got) = Message_Ptr
    /\ \A k \in 1..Message_Ptr : k <= BUF_LEN =>
         got[k] = Message[k - 1] /\ Message[k - 1] # NUL

\* A text that SET_MSG was given is the message of the device, or as much of it
\* as the buffer holds, and nothing of a longer one before it shows behind it.
\* An empty text is not counted and leaves the old message.
TextIsMessage == said \notin {NONE, <<>>} => Held(Message) = Cut(said)
=============================================================================
