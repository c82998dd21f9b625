--------------------------- MODULE PortReuseProofs ---------------------------
(***************************************************************************)
(* The safety properties of CharDevice and of PortReuse, which uses it,    *)
(* for any number of processes, threads and connections, every order in    *)
(* which their calls of open and release interleave, every text and every  *)
(* length of the buffer.                                                   *)
(***************************************************************************)
EXTENDS PortReuse, FiniteSetTheorems, SequenceTheorems, TLAPS

-----------------------------------------------------------------------------
(***************************************************************************)
(* The message as a C string.                                              *)
(***************************************************************************)

\* A set of naturals that is not empty has a least element.
LEMMA LeastOf ==
  ASSUME NEW S \in SUBSET Nat, S # {}
  PROVE  \E n \in S : \A m \in S : n <= m
<1> DEFINE T == {0..n : n \in S}
<1>1. T \subseteq FiniteSubsetsOf(Nat)
  <2> SUFFICES ASSUME NEW n \in S PROVE 0..n \in FiniteSubsetsOf(Nat)
    OBVIOUS
  <2>1. IsFiniteSet(0..n)
    BY FS_Interval
  <2> QED BY <2>1 DEF FiniteSubsetsOf
<1>2. PICK x \in T : \A y \in T : ~(<<y, x>> \in StrictSubsetOrdering(Nat))
  <2>1. T # {}
    OBVIOUS
  <2> HIDE DEF T
  <2> QED BY <1>1, <2>1, FS_StrictSubsetOrderingWellFounded, WFMin
<1>3. PICK n \in S : x = 0..n
  OBVIOUS
<1>4. ASSUME NEW m \in S, m < n
      PROVE  FALSE
  <2>1. n \in 0..n /\ n \notin 0..m /\ 0..m \subseteq 0..n
    BY <1>4
  <2>2. <<0..m, x>> \in (SUBSET Nat) \X (SUBSET Nat)
    BY <1>3
  <2>3. <<0..m, x>> \in StrictSubsetOrdering(Nat)
    BY <2>1, <2>2, <1>3 DEF StrictSubsetOrdering
  <2> QED BY <2>3, <1>2
<1> QED BY <1>4

\* What a place of the buffer may hold, and what is read behind it.
Char == STRING \cup {NUL, "hello", "none", "?"}

Buffer == [0 .. BUF_LEN - 1 -> Char]

\* The text of m ends in front of place e.
EndsAt(m, e) ==
  /\ e \in 0..BUF_LEN
  /\ e = BUF_LEN \/ m[e] = NUL
  /\ \A j \in 0 .. e - 1 : m[j] # NUL

\* A buffer has a first NUL or none.
LEMMA HasEnd ==
  ASSUME NEW m \in Buffer
  PROVE  \E e \in 0..BUF_LEN : EndsAt(m, e)
<1> DEFINE S == {e \in 0..BUF_LEN : e = BUF_LEN \/ m[e] = NUL}
<1>1. BUF_LEN \in S /\ S \in SUBSET Nat
  BY TextAssumption
<1>2. PICK e \in S : \A h \in S : e <= h
  <2> HIDE DEF S
  <2> QED BY <1>1, LeastOf
<1>3. \A j \in 0 .. e - 1 : m[j] # NUL
  <2> SUFFICES ASSUME NEW j \in 0 .. e - 1, m[j] = NUL PROVE FALSE
    OBVIOUS
  <2>1. j \in S /\ j < e
    BY <1>2, TextAssumption
  <2> HIDE DEF S
  <2> QED BY <1>2, <2>1
<1>4. EndsAt(m, e)
  BY <1>2, <1>3 DEF EndsAt
<1> QED BY <1>4

\* There the text ends.
LEMMA HeldIs ==
  ASSUME NEW m \in Buffer, NEW e \in 0..BUF_LEN, EndsAt(m, e)
  PROVE  /\ Held(m) \in Seq(Char)
         /\ Len(Held(m)) = e
         /\ \A j \in 1..e : Held(m)[j] = m[j - 1]
<1> DEFINE P(h) == (h = BUF_LEN \/ m[h] = NUL) /\ \A j \in 0 .. h - 1 : m[j] # NUL
<1>1. P(e)
  BY DEF EndsAt
<1>2. ASSUME NEW h \in 0..BUF_LEN, P(h)
      PROVE  h = e
  <2>1. CASE h < e
    <3>1. h \in 0 .. e - 1 /\ h # BUF_LEN
      BY <2>1, TextAssumption
    <3> QED BY <1>1, <1>2, <3>1
  <2>2. CASE e < h
    <3>1. e \in 0 .. h - 1 /\ e # BUF_LEN
      BY <2>2, TextAssumption
    <3> QED BY <1>1, <1>2, <3>1
  <2> QED BY <2>1, <2>2, TextAssumption
<1>3. (CHOOSE h \in 0..BUF_LEN : P(h)) = e
  <2> HIDE DEF P
  <2> QED BY <1>1, <1>2
<1>4. Held(m) = [j \in 1..e |-> m[j - 1]]
  BY <1>3 DEF Held
<1>5. \A j \in 1..e : m[j - 1] \in Char
  BY TextAssumption DEF Buffer
<1>6. e \in Nat
  BY TextAssumption
<1> QED BY <1>4, <1>5, <1>6

LEMMA HeldType ==
  ASSUME NEW m \in Buffer
  PROVE  Held(m) \in Seq(Char)
<1>1. PICK e \in 0..BUF_LEN : EndsAt(m, e)
  BY HasEnd
<1> QED BY <1>1, HeldIs

\* As much of some characters as the buffer holds.
LEMMA CutFacts ==
  ASSUME NEW chars \in Seq(Char)
  PROVE  /\ Cut(chars) \in Seq(Char)
         /\ Len(Cut(chars)) = IF Len(chars) < BUF_LEN THEN Len(chars) ELSE BUF_LEN
         /\ \A k \in 1..Len(Cut(chars)) : k <= Len(chars) /\ Cut(chars)[k] = chars[k]
<1> DEFINE n == IF Len(chars) < BUF_LEN THEN Len(chars) ELSE BUF_LEN
<1>1. n \in 0..Len(chars) /\ n \in Nat /\ Len(chars) \in Nat
  BY TextAssumption
<1>2. Cut(chars) = SubSeq(chars, 1, n)
  BY DEF Cut
<1> HIDE DEF n
<1>3. /\ SubSeq(chars, 1, n) \in Seq(Char)
      /\ Len(SubSeq(chars, 1, n)) = n
      /\ \A k \in 1..n : SubSeq(chars, 1, n)[k] = chars[k]
  BY <1>1
<1> QED BY <1>1, <1>2, <1>3 DEF n

-----------------------------------------------------------------------------
(***************************************************************************)
(* The inductive invariant of the device.                                  *)
(***************************************************************************)
Label == {"closed", "open_load", "open_store", "open_msg", "open_ptr", "open_get",
          "open", "release_store", "release_put"}

DeviceType ==
  /\ driver \in Drivers
  /\ loaded \in BOOLEAN /\ raced \in BOOLEAN
  /\ refs \in Nat /\ Device_Open \in Int /\ Message_Ptr \in Nat /\ counter \in Nat
  /\ Message \in Buffer
  /\ pc \in [Proc -> Label]
  /\ reg \in [Proc -> Int]
  /\ got \in Seq(Char) /\ said \in Seq(Char) /\ told \in Seq(Seq(Char))

\* The use count is the number of those that have taken it and not given it
\* back.  Nobody is in a module that is not loaded.
Holders == {p \in Proc : pc[p] \in {"open", "release_store", "release_put"}}

RefCount ==
  /\ IsFiniteSet(Holders) /\ refs = Cardinality(Holders)
  /\ ~loaded => \A p \in Proc : pc[p] = "closed"

\* Where opens have not raced, at most one process is inside, and where it is
\* tells what Device_Open is.
Opened(label) == IF label \in {"open_load", "open_store"} THEN 0 ELSE 1

OneInside ==
  loaded /\ ~raced =>
    /\ \A p, q \in Inside : p = q
    /\ Inside = {} => Device_Open = 0
    /\ \A p \in Inside :
         /\ Device_Open = Opened(pc[p])
         /\ pc[p] = "open_store" => reg[p] = 0
         /\ pc[p] = "release_store" => reg[p] = 1

\* The greetings given, and the one that is ready to be given.
Greeted ==
  /\ counter <= MaxOpens
  /\ ~raced => \A k \in 1..Len(told) : told[k] = Greeting(k - 1)
  /\ driver = "hello" => said = NONE
  /\ driver # "hello" => told = <<>>
  /\ \A p \in Proc : pc[p] = "open_msg" => driver = "hello"
  /\ loaded /\ ~raced /\ driver = "hello" =>
       /\ (\A p \in Proc : pc[p] # "open_ptr") => counter = Len(told)
       /\ \A p \in Proc : pc[p] = "open_ptr" =>
            /\ counter = Len(told) + 1
            /\ Message[0] = "hello" /\ Message[1] = Decimal(counter - 1) /\ Message[2] = NUL

\* The text that was set is in the buffer, as far as it reaches.
Holds ==
  said \notin {NONE, <<>>} =>
    /\ \A k \in 1..Len(said) : said[k] # NUL
    /\ \A k \in 1..Len(said) : k <= BUF_LEN => Message[k - 1] = said[k]
    /\ Len(said) < BUF_LEN => Message[Len(said)] = NUL

DInv == DeviceType /\ RefCount /\ OneInside /\ Greeted /\ ReadsFollowMessage /\ Holds

LEMMA NoneIsText == NONE \in Seq(Char)
<1>1. "none" \in Char
  BY DEF Char
<1> QED BY <1>1 DEF NONE

LEMMA DeviceInit == Init => DInv
<1> SUFFICES ASSUME Init PROVE DInv
  OBVIOUS
<1> USE TextAssumption DEF Init
<1>1. DeviceType
  <2>1. Message \in Buffer
    BY DEF Buffer, NoMessage, Char
  <2>2. got \in Seq(Char) /\ said \in Seq(Char) /\ told \in Seq(Seq(Char))
    BY NoneIsText
  <2>3. pc \in [Proc -> Label] /\ reg \in [Proc -> Int]
    BY DEF Label
  <2>4. loaded \in BOOLEAN /\ raced \in BOOLEAN
    OBVIOUS
  <2>5. refs \in Nat /\ Device_Open \in Int /\ Message_Ptr \in Nat /\ counter \in Nat
    OBVIOUS
  <2> QED BY <2>1, <2>2, <2>3, <2>4, <2>5, Zenon DEF DeviceType
<1>2. RefCount
  <2>1. Holders = {}
    BY DEF Holders
  <2> QED BY <2>1, FS_EmptySet DEF RefCount
<1>3. OneInside /\ Greeted /\ ReadsFollowMessage /\ Holds
  BY DEF OneInside, Greeted, ReadsFollowMessage, Holds
<1> QED BY <1>1, <1>2, <1>3 DEF DInv

LEMMA StutterKeeps ==
  ASSUME DInv, UNCHANGED vars
  PROVE  DInv'
BY DEF vars, history, DInv, DeviceType, RefCount, Holders, OneInside, Inside, Greeted,
       ReadsFollowMessage, Holds

\* init_module starts afresh: nobody has the device of a module that is not
\* loaded.
LEMMA LoadInv ==
  ASSUME DInv, init_module
  PROVE  DInv'
<1>1. CASE UNCHANGED vars
  BY <1>1, StutterKeeps
<1>2. CASE ~UNCHANGED vars
  <2>1. /\ loaded' = TRUE /\ raced' = FALSE
        /\ Device_Open' = 0 /\ Message' = NoMessage /\ Message_Ptr' = 0 /\ counter' = 0
        /\ got' = <<>> /\ said' = NONE /\ told' = <<>>
        /\ UNCHANGED <<driver, refs, pc, reg>>
    BY <1>2, Zenon DEF init_module
  <2>2. \A p \in Proc : pc[p] = "closed"
    BY DEF DInv, RefCount, init_module
  <2> USE <2>1, TextAssumption
  <2>3. DeviceType'
    <3>1. Message' \in Buffer
      BY DEF Buffer, NoMessage, Char
    <3>2. got' \in Seq(Char) /\ said' \in Seq(Char) /\ told' \in Seq(Seq(Char))
      BY NoneIsText
    <3>3. loaded' \in BOOLEAN /\ raced' \in BOOLEAN
      OBVIOUS
    <3>4. Device_Open' \in Int /\ Message_Ptr' \in Nat /\ counter' \in Nat
      OBVIOUS
    <3>5. driver' = driver /\ refs' = refs /\ pc' = pc /\ reg' = reg
      OBVIOUS
    <3> QED BY <3>1, <3>2, <3>3, <3>4, <3>5, Zenon DEF DInv, DeviceType
  <2>4. RefCount'
    BY <2>2 DEF DInv, RefCount, Holders
  <2>5. OneInside'
    BY <2>2 DEF OneInside, Inside
  <2>6. Greeted'
    BY <2>2 DEF Greeted
  <2>7. ReadsFollowMessage'
    BY DEF ReadsFollowMessage
  <2>8. Holds'
    BY DEF Holds
  <2> QED BY <2>3, <2>4, <2>5, <2>6, <2>7, <2>8 DEF DInv
<1> QED BY <1>1, <1>2

\* cleanup_module finds no process that holds the module; those on their way
\* through device_open end.
LEMMA UnloadInv ==
  ASSUME DInv, cleanup_module
  PROVE  DInv'
<1> USE DEF cleanup_module, history
<1>1. \A p \in Proc : pc'[p] = "closed"
  OBVIOUS
<1>2. DeviceType'
  <2>1. pc' \in [Proc -> Label] /\ reg' \in [Proc -> Int]
    BY DEF Label
  <2>2. /\ driver \in Drivers /\ loaded' \in BOOLEAN /\ raced \in BOOLEAN
        /\ UNCHANGED <<driver, refs, Device_Open, Message_Ptr, counter, Message,
                       got, said, told, raced>>
    BY DEF DInv, DeviceType
  <2> QED BY <2>1, <2>2 DEF DInv, DeviceType
<1>3. RefCount'
  <2>1. Holders' = {}
    BY <1>1 DEF Holders
  <2> QED BY <1>1, <2>1, FS_EmptySet DEF RefCount
<1>4. OneInside' /\ ReadsFollowMessage'
  BY DEF OneInside, ReadsFollowMessage
<1>5. Greeted'
  BY <1>1 DEF DInv, Greeted
<1>6. Holds'
  BY DEF DInv, Holds
<1> QED BY <1>2, <1>3, <1>4, <1>5, <1>6 DEF DInv

-----------------------------------------------------------------------------
(***************************************************************************)
(* The steps of open and release.                                          *)
(***************************************************************************)

\* A step of a process that moves on in open or release and leaves the message
\* and its history alone.
Moves(p, there) ==
  /\ pc' = [pc EXCEPT ![p] = there]
  /\ UNCHANGED <<driver, loaded, Message, Message_Ptr, counter, got, said, told>>

\* Unless it passes or leaves open_ptr, such a step disturbs nothing of them.
LEMMA MoveKeeps ==
  ASSUME DInv, NEW p \in Proc, NEW there \in Label, Moves(p, there),
         raced => raced',
         pc[p] # "open_ptr",
         there # "open_ptr" \/ driver # "hello",
         there = "open_msg" => driver = "hello"
  PROVE  Greeted' /\ ReadsFollowMessage' /\ Holds'
<1> USE DEF Moves, DInv
<1>1. pc'[p] = there /\ \A q \in Proc \ {p} : pc'[q] = pc[q]
  BY DEF DeviceType
<1>2. Greeted'
  BY <1>1 DEF Greeted
<1>3. ReadsFollowMessage'
  BY <1>1 DEF ReadsFollowMessage
<1>4. Holds'
  BY DEF Holds
<1> QED BY <1>2, <1>3, <1>4

\* A step that takes and gives back no use count.
LEMMA SameHolders ==
  ASSUME DInv, NEW p \in Proc, NEW there, pc' = [pc EXCEPT ![p] = there],
         pc[p] \in {"open", "release_store", "release_put"}
           <=> there \in {"open", "release_store", "release_put"},
         loaded, loaded' = loaded, refs' = refs
  PROVE  RefCount'
<1>1. Holders' = Holders
  BY DEF DInv, DeviceType, Holders
<1> QED BY <1>1 DEF DInv, RefCount

\* Whoever is somewhere is in a module that is loaded.
LEMMA IsLoaded ==
  ASSUME DInv, NEW p \in Proc, pc[p] # "closed"
  PROVE  loaded
BY DEF DInv, RefCount

\* A process that is inside, and alone there unless opens have raced, moves.
LEMMA InsideMoves ==
  ASSUME DInv, NEW p \in Proc, NEW there \in Label, pc' = [pc EXCEPT ![p] = there],
         UNCHANGED <<loaded, raced>>, p \in Inside,
         loaded /\ ~raced =>
           /\ IF there = "release_put" THEN Device_Open' = 0 ELSE Device_Open' = Opened(there)
           /\ there = "open_store" => reg'[p] = 0
           /\ there = "release_store" => reg'[p] = 1,
         there # "closed"
  PROVE  OneInside'
<1> SUFFICES ASSUME loaded, ~raced
             PROVE  /\ \A x, y \in Inside' : x = y
                    /\ Inside' = {} => Device_Open' = 0
                    /\ \A x \in Inside' :
                         /\ Device_Open' = Opened(pc'[x])
                         /\ pc'[x] = "open_store" => reg'[x] = 0
                         /\ pc'[x] = "release_store" => reg'[x] = 1
  BY DEF OneInside
<1>1. Inside = {p}
  BY DEF DInv, OneInside
<1>2. pc'[p] = there /\ \A q \in Proc \ {p} : pc'[q] = pc[q]
  BY DEF DInv, DeviceType
<1>3. Inside' = IF there = "release_put" THEN {} ELSE {p}
  BY <1>1, <1>2 DEF Inside
<1> QED BY <1>2, <1>3

\* A process that finds Device_Open zero either races or is the only one inside.
LEMMA OpenInv ==
  ASSUME DInv, NEW p \in Proc, device_open(p)
  PROVE  DInv'
<1> USE DEF device_open, history
<1>1. CASE UNCHANGED <<pc, raced>>
  <2>1. UNCHANGED vars
    BY <1>1 DEF vars
  <2> QED BY <2>1, StutterKeeps
<1>2. CASE /\ Device_Open = 0 /\ pc' = [pc EXCEPT ![p] = "open_load"]
           /\ raced' = (raced \/ Incrementing # {})
  <2>1. DeviceType'
    BY <1>2 DEF DInv, DeviceType, Label
  <2>2. RefCount'
    BY <1>2, SameHolders
  <2>3. OneInside'
    <3> SUFFICES ASSUME ~raced' PROVE OneInside'
      BY DEF OneInside
    <3>1. Incrementing = {} /\ ~raced
      BY <1>2
    <3>2. Inside = {}
      BY <1>2, <3>1 DEF DInv, OneInside, Opened, Incrementing, Inside
    <3>3. Inside' = {p} /\ pc'[p] = "open_load"
      BY <1>2, <3>2 DEF DInv, DeviceType, Inside
    <3> QED BY <1>2, <3>3 DEF OneInside, Opened
  <2>4. Moves(p, "open_load")
    BY <1>2 DEF Moves
  <2>5. Greeted' /\ ReadsFollowMessage' /\ Holds'
    BY <1>2, <2>4, MoveKeeps DEF Label
  <2> QED BY <2>1, <2>2, <2>3, <2>5 DEF DInv
<1> QED BY <1>1, <1>2

LEMMA OpenLoadInv ==
  ASSUME DInv, NEW p \in Proc, device_open_load(p)
  PROVE  DInv'
<1> USE DEF device_open_load, history
<1>1. DeviceType'
  BY DEF DInv, DeviceType, Label
<1>2. RefCount'
  BY SameHolders, IsLoaded
<1>3. OneInside'
  <2>1. p \in Inside /\ (loaded /\ ~raced => Device_Open = 0)
    BY DEF DInv, OneInside, Opened, Inside
  <2>2. reg'[p] = Device_Open
    BY DEF DInv, DeviceType
  <2> QED BY <2>1, <2>2, InsideMoves DEF Opened, Label
<1>4. Greeted' /\ ReadsFollowMessage' /\ Holds'
  BY MoveKeeps DEF Moves, Label
<1> QED BY <1>1, <1>2, <1>3, <1>4 DEF DInv

LEMMA OpenStoreInv ==
  ASSUME DInv, NEW p \in Proc, device_open_store(p)
  PROVE  DInv'
<1> USE DEF device_open_store, history
<1> DEFINE there == IF driver = "hello" THEN "open_msg" ELSE "open_ptr"
<1>1. DeviceType'
  BY DEF DInv, DeviceType, Label
<1>2. RefCount'
  BY SameHolders, IsLoaded
<1>3. OneInside'
  <2>1. p \in Inside /\ (loaded /\ ~raced => reg[p] = 0)
    BY DEF DInv, OneInside, Inside
  <2>2. loaded /\ ~raced => Device_Open' = 1
    BY <2>1
  <2>3. Opened(there) = 1 /\ there \in Label \ {"open_store", "release_store", "release_put", "closed"}
    BY DEF Opened, Label
  <2>4. pc' = [pc EXCEPT ![p] = there] /\ UNCHANGED <<loaded, raced>>
    OBVIOUS
  <2> HIDE DEF there, device_open_store
  <2> QED BY <2>1, <2>2, <2>3, <2>4, InsideMoves
<1>4. Greeted' /\ ReadsFollowMessage' /\ Holds'
  <2>1. Moves(p, there)
    BY DEF Moves
  <2> QED BY <2>1, MoveKeeps DEF Label
<1> QED BY <1>1, <1>2, <1>3, <1>4 DEF DInv

\* try_module_get counts a new holder.
LEMMA OpenGetInv ==
  ASSUME DInv, NEW p \in Proc, device_open_get(p)
  PROVE  DInv'
<1> USE DEF device_open_get, history
<1>1. DeviceType'
  BY DEF DInv, DeviceType, Label
<1>2. RefCount'
  <2>1. p \notin Holders /\ Holders' = Holders \cup {p}
    BY DEF DInv, DeviceType, Holders
  <2>2. IsFiniteSet(Holders') /\ Cardinality(Holders') = Cardinality(Holders) + 1
    BY <2>1, FS_AddElement DEF DInv, RefCount
  <2> QED BY <2>2, IsLoaded DEF DInv, RefCount
<1>3. OneInside'
  <2>1. p \in Inside /\ (loaded /\ ~raced => Device_Open = 1)
    BY DEF DInv, OneInside, Opened, Inside
  <2> QED BY <2>1, InsideMoves DEF Opened, Label
<1>4. Greeted' /\ ReadsFollowMessage' /\ Holds'
  BY MoveKeeps DEF Moves, Label
<1> QED BY <1>1, <1>2, <1>3, <1>4 DEF DInv

LEMMA ReleaseInv ==
  ASSUME DInv, NEW p \in Proc, device_release(p)
  PROVE  DInv'
<1> USE DEF device_release, history
<1>1. DeviceType'
  BY DEF DInv, DeviceType, Label
<1>2. RefCount'
  BY SameHolders, IsLoaded
<1>3. OneInside'
  <2>1. p \in Inside /\ (loaded /\ ~raced => Device_Open = 1)
    BY DEF DInv, OneInside, Opened, Inside
  <2>2. reg'[p] = Device_Open
    BY DEF DInv, DeviceType
  <2> QED BY <2>1, <2>2, InsideMoves DEF Opened, Label
<1>4. Greeted' /\ ReadsFollowMessage' /\ Holds'
  BY MoveKeeps DEF Moves, Label
<1> QED BY <1>1, <1>2, <1>3, <1>4 DEF DInv

LEMMA ReleaseStoreInv ==
  ASSUME DInv, NEW p \in Proc, device_release_store(p)
  PROVE  DInv'
<1> USE DEF device_release_store, history
<1>1. DeviceType'
  BY DEF DInv, DeviceType, Label
<1>2. RefCount'
  BY SameHolders, IsLoaded
<1>3. OneInside'
  <2>1. p \in Inside /\ (loaded /\ ~raced => reg[p] = 1)
    BY DEF DInv, OneInside, Inside
  <2>2. loaded /\ ~raced => Device_Open' = 0
    BY <2>1
  <2> QED BY <2>1, <2>2, InsideMoves DEF Label
<1>4. Greeted' /\ ReadsFollowMessage' /\ Holds'
  BY MoveKeeps DEF Moves, Label
<1> QED BY <1>1, <1>2, <1>3, <1>4 DEF DInv

\* module_put: one holder less, who was inside no more.
LEMMA ReleasePutInv ==
  ASSUME DInv, NEW p \in Proc, device_release_put(p)
  PROVE  DInv'
<1> USE DEF device_release_put, history
<1>1. RefCount' /\ refs' \in Nat
  <2>1. p \in Holders /\ Holders' = Holders \ {p}
    BY DEF DInv, DeviceType, Holders
  <2>2. IsFiniteSet(Holders) /\ refs = Cardinality(Holders)
    BY DEF DInv, RefCount
  <2>3. IsFiniteSet(Holders') /\ Cardinality(Holders') = Cardinality(Holders) - 1
    BY <2>1, <2>2, FS_RemoveElement
  <2>4. Cardinality(Holders') \in Nat
    BY <2>3, FS_CardinalityType
  <2> QED BY <2>2, <2>3, <2>4, IsLoaded DEF RefCount
<1>2. DeviceType'
  BY <1>1 DEF DInv, DeviceType, Label
<1>3. OneInside'
  <2>1. Inside' = Inside /\ p \notin Inside
    BY DEF DInv, DeviceType, Inside
  <2>2. \A q \in Inside : pc'[q] = pc[q]
    BY <2>1 DEF DInv, DeviceType, Inside
  <2> QED BY <2>1, <2>2 DEF DInv, OneInside
<1>4. Greeted' /\ ReadsFollowMessage' /\ Holds'
  BY MoveKeeps DEF Moves, Label
<1> QED BY <1>1, <1>2, <1>3, <1>4 DEF DInv

\* The greeting is written over the message.
LEMMA OpenMsgInv ==
  ASSUME DInv, NEW p \in Proc, device_open_msg(p)
  PROVE  DInv'
<1> USE DEF device_open_msg, history
<1>1. driver = "hello" /\ BUF_LEN > 2 /\ BUF_LEN \in Nat /\ MaxOpens \in Nat
  BY TextAssumption, GreetingAssumption DEF DInv, DeviceType, Greeted
<1>2. counter \in 0..MaxOpens /\ counter < MaxOpens /\ said = NONE
  BY <1>1 DEF DInv, DeviceType, Greeted
<1>3. Greeting(counter)[1] = "hello" /\ Greeting(counter)[2] = Decimal(counter)
  BY DEF Greeting
<1>4. Message' \in Buffer
  <2>1. "hello" \in Char /\ Decimal(counter) \in Char /\ NUL \in Char
    BY <1>2, GreetingAssumption, <1>1 DEF Char, DInv, DeviceType
  <2>2. \A k \in 0 .. BUF_LEN - 1 : Message[k] \in Char
    BY DEF DInv, DeviceType, Buffer
  <2>3. \A k \in 0 .. BUF_LEN - 1 : k < 2 => Greeting(counter)[k + 1] \in Char
    BY <1>3, <2>1
  <2> QED BY <2>1, <2>2, <2>3 DEF Buffer
<1>5. Message'[0] = "hello" /\ Message'[1] = Decimal(counter) /\ Message'[2] = NUL
  BY <1>1, <1>3
<1>6. pc'[p] = "open_ptr" /\ \A q \in Proc \ {p} : pc'[q] = pc[q]
  BY DEF DInv, DeviceType
<1>7. DeviceType'
  BY <1>4 DEF DInv, DeviceType, Label
<1>8. RefCount'
  BY SameHolders, IsLoaded
<1>9. OneInside'
  <2>1. p \in Inside /\ (loaded /\ ~raced => Device_Open = 1)
    BY DEF DInv, OneInside, Opened, Inside
  <2> QED BY <2>1, InsideMoves DEF Opened, Label
<1>10. Greeted'
  <2>1. ASSUME loaded, ~raced
        PROVE  /\ counter = Len(told)
               /\ \A q \in Proc \ {p} : pc[q] # "open_ptr"
    <3>1. \A q \in Proc \ {p} : q \notin Inside
      BY <2>1 DEF DInv, OneInside, Inside
    <3>2. \A q \in Proc : pc[q] # "open_ptr"
      BY <3>1 DEF Inside
    <3> QED BY <1>1, <2>1, <3>2 DEF DInv, Greeted
  <2>2. counter' = counter + 1 /\ counter' - 1 = counter /\ counter' <= MaxOpens
    BY <1>1, <1>2
  <2>3. UNCHANGED <<driver, loaded, raced, said, told>>
    OBVIOUS
  <2> HIDE DEF device_open_msg
  <2> QED BY <1>1, <1>5, <1>6, <2>1, <2>2, <2>3 DEF DInv, Greeted
<1>11. ReadsFollowMessage'
  BY <1>6 DEF ReadsFollowMessage
<1>12. Holds'
  BY <1>2 DEF Holds
<1> QED BY <1>7, <1>8, <1>9, <1>10, <1>11, <1>12 DEF DInv

\* What is then given is the greeting, up to the NUL behind it.
LEMMA OpenPtrInv ==
  ASSUME DInv, NEW p \in Proc, device_open_ptr(p)
  PROVE  DInv'
<1> USE DEF device_open_ptr, history
<1>1. pc'[p] = "open_get" /\ \A q \in Proc \ {p} : pc'[q] = pc[q]
  BY DEF DInv, DeviceType
<1>2. RefCount'
  BY SameHolders, IsLoaded
<1>3. OneInside'
  <2>1. p \in Inside /\ (loaded /\ ~raced => Device_Open = 1)
    BY DEF DInv, OneInside, Opened, Inside
  <2> QED BY <2>1, InsideMoves DEF Opened, Label
<1>4. ReadsFollowMessage'
  BY DEF ReadsFollowMessage
<1>5. Holds'
  BY DEF DInv, Holds
<1>6. ASSUME loaded, ~raced
      PROVE  \A q \in Proc \ {p} : pc[q] # "open_ptr"
  BY <1>6 DEF DInv, OneInside, Inside
<1>7. CASE driver = "hello"
  <2>1. BUF_LEN > 2 /\ BUF_LEN \in Nat /\ MaxOpens \in Nat
    BY <1>7, TextAssumption, GreetingAssumption DEF DInv, DeviceType
  <2>2. /\ Held(Message) \in Seq(Char) /\ told \in Seq(Seq(Char)) /\ Len(told) \in Nat
        /\ told' = Append(told, Held(Message))
    BY <1>7, HeldType DEF DInv, DeviceType
  <2>3. /\ told' \in Seq(Seq(Char))
        /\ Len(told') = Len(told) + 1
        /\ \A k \in 1..Len(told) : told'[k] = told[k]
        /\ told'[Len(told) + 1] = Held(Message)
    BY <2>2, AppendProperties
  <2>4. DeviceType'
    BY <2>3 DEF DInv, DeviceType, Label
  <2>5. ASSUME ~raced
        PROVE  counter = Len(told) + 1 /\ Held(Message) = Greeting(Len(told))
    <3>1. loaded
      BY IsLoaded
    <3>2. /\ counter = Len(told) + 1 /\ counter \in Nat /\ counter <= MaxOpens
          /\ Message[0] = "hello" /\ Message[1] = Decimal(counter - 1) /\ Message[2] = NUL
      BY <1>7, <2>5, <3>1 DEF DInv, DeviceType, Greeted
    <3>3. counter - 1 = Len(told) /\ counter - 1 \in 0..MaxOpens
      BY <2>1, <2>2, <3>2
    <3>4. Decimal(counter - 1) # NUL
      BY <1>7, <3>3, GreetingAssumption DEF DInv, DeviceType
    <3>5. EndsAt(Message, 2) /\ 2 \in 0..BUF_LEN /\ Message \in Buffer
      BY <2>1, <3>2, <3>4 DEF EndsAt, NUL, DInv, DeviceType
    <3>6. /\ Held(Message) \in Seq(Char) /\ Len(Held(Message)) = 2
          /\ \A j \in 1..2 : Held(Message)[j] = Message[j - 1]
      BY <3>5, HeldIs
    <3>7. Held(Message)[1] = "hello" /\ Held(Message)[2] = Decimal(counter - 1)
      BY <3>2, <3>6
    <3>8. Held(Message) = Greeting(counter - 1)
      BY <3>6, <3>7 DEF Greeting
    <3> QED BY <3>2, <3>3, <3>8
  <2>6. ASSUME ~raced, NEW k \in 1..Len(told')
        PROVE  told'[k] = Greeting(k - 1)
    <3>1. CASE k = Len(told) + 1
      <4>1. k - 1 = Len(told)
        BY <2>2, <3>1
      <4> QED BY <2>3, <2>5, <2>6, <3>1, <4>1
    <3>2. CASE k # Len(told) + 1
      <4>1. k \in 1..Len(told)
        BY <2>2, <2>3, <3>2
      <4> QED BY <2>3, <2>6, <4>1 DEF DInv, Greeted
    <3> QED BY <3>1, <3>2
  <2>7. Greeted'
    BY <1>1, <1>6, <1>7, <2>3, <2>5, <2>6 DEF DInv, Greeted
  <2> QED BY <1>2, <1>3, <1>4, <1>5, <2>4, <2>7 DEF DInv
<1>8. CASE driver # "hello"
  <2>1. told' = told
    BY <1>8
  <2>2. DeviceType'
    BY <2>1 DEF DInv, DeviceType, Label
  <2>3. Greeted'
    BY <1>1, <1>8, <2>1 DEF DInv, Greeted
  <2> QED BY <1>2, <1>3, <1>4, <1>5, <2>2, <2>3 DEF DInv
<1> QED BY <1>7, <1>8

-----------------------------------------------------------------------------
(***************************************************************************)
(* The calls that use the message.                                         *)
(***************************************************************************)

\* The only user is in a module that is loaded, and nobody is in open.
LEMMA OnlyUserFacts ==
  ASSUME DInv, NEW p \in Proc, OnlyUser(p)
  PROVE  loaded /\ \A q \in Proc : pc[q] # "open_ptr"
BY IsLoaded DEF OnlyUser, Inside

\* read and GET_MSG move Message_Ptr over what they copy.
LEMMA CopyInv ==
  ASSUME DInv, NEW p \in Proc, OnlyUser(p), NEW length \in Nat, Copy(length),
         UNCHANGED <<driver, loaded, refs, Device_Open, Message, counter, pc, reg,
                     said, told, raced>>
  PROVE  DInv'
<1>1. PICK n \in Counts(length) :
        /\ Message_Ptr' = Message_Ptr + n
        /\ got' = got \o [j \in 1..n |-> CharAt(Message_Ptr + j - 1)]
  BY DEF Copy
<1> DEFINE more == [j \in 1..n |-> CharAt(Message_Ptr + j - 1)]
<1>2. /\ n \in Nat /\ Message_Ptr \in Nat /\ BUF_LEN \in Nat /\ Message \in Buffer
      /\ got \in Seq(Char)
      /\ \A k \in Message_Ptr .. Message_Ptr + n - 1 : CharAt(k) # NUL
  BY TextAssumption DEF Counts, DInv, DeviceType
<1>3. /\ Len(got) = Message_Ptr
      /\ \A k \in 1..Message_Ptr : k <= BUF_LEN =>
           got[k] = Message[k - 1] /\ Message[k - 1] # NUL
  BY OnlyUserFacts DEF DInv, ReadsFollowMessage
<1>4. more \in Seq(Char) /\ Len(more) = n
  <2>1. \A k \in Nat : CharAt(k) \in Char
    BY <1>2 DEF CharAt, Buffer, Char
  <2>2. \A j \in 1..n : CharAt(Message_Ptr + j - 1) \in Char
    BY <1>2, <2>1
  <2> QED BY <1>2, <2>2
<1>5. \A j \in 1..n : more[j] = CharAt(Message_Ptr + j - 1)
  OBVIOUS
<1>6. got' = got \o more
  BY <1>1
<1> HIDE DEF more
<1>7. /\ got' \in Seq(Char) /\ Len(got') = Message_Ptr + n
      /\ \A k \in 1 .. Message_Ptr + n :
           got'[k] = IF k <= Message_Ptr THEN got[k] ELSE more[k - Message_Ptr]
  <2>1. got \in Seq(Char) /\ more \in Seq(Char)
    BY <1>2, <1>4
  <2>2. /\ got \o more \in Seq(Char) /\ Len(got \o more) = Len(got) + Len(more)
        /\ \A k \in 1 .. Len(got) + Len(more) :
             (got \o more)[k] = IF k <= Len(got) THEN got[k] ELSE more[k - Len(got)]
    BY <2>1, ConcatProperties
  <2> QED BY <1>3, <1>4, <1>6, <2>2
<1>8. ASSUME NEW k \in 1 .. Message_Ptr + n, k <= BUF_LEN
      PROVE  got'[k] = Message[k - 1] /\ Message[k - 1] # NUL
  <2>1. CASE k <= Message_Ptr
    BY <1>3, <1>7, <1>8, <2>1
  <2>2. CASE k > Message_Ptr
    <3>1. /\ k - Message_Ptr \in 1..n
          /\ Message_Ptr + (k - Message_Ptr) - 1 = k - 1
          /\ k - 1 \in Message_Ptr .. Message_Ptr + n - 1
          /\ k - 1 < BUF_LEN
      BY <1>2, <1>8, <2>2
    <3>2. more[k - Message_Ptr] = CharAt(Message_Ptr + (k - Message_Ptr) - 1)
      BY <1>5, <3>1
    <3>3. got'[k] = more[k - Message_Ptr]
      BY <1>2, <1>7, <2>2
    <3>4. got'[k] = CharAt(k - 1)
      BY <3>1, <3>2, <3>3
    <3> QED BY <1>2, <3>1, <3>4 DEF CharAt
  <2> QED BY <1>2, <2>1, <2>2
<1>9. DeviceType'
  BY <1>1, <1>2, <1>7 DEF DInv, DeviceType
<1>10. RefCount' /\ OneInside' /\ Greeted' /\ Holds'
  BY DEF DInv, RefCount, Holders, OneInside, Inside, Greeted, Holds
<1>11. ReadsFollowMessage'
  BY <1>1, <1>7, <1>8 DEF ReadsFollowMessage
<1> QED BY <1>9, <1>10, <1>11 DEF DInv

\* What Store leaves in the buffer: as much of the characters as it holds.
LEMMA StoreFacts ==
  ASSUME DInv, NEW chars \in Seq(Char), Store(chars)
  PROVE  /\ Message' \in Buffer /\ Message_Ptr' = 0
         /\ \A k \in 1..Len(chars) : k <= BUF_LEN => Message'[k - 1] = chars[k]
<1>1. BUF_LEN \in Nat \ {0} /\ Message \in Buffer
  BY TextAssumption DEF DInv, DeviceType
<1>2. Message_Ptr' = 0 /\ Message' = [k \in 0 .. BUF_LEN - 1 |->
                                        IF k < Len(chars) THEN chars[k + 1] ELSE Message[k]]
  BY DEF Store
<1>3. \A k \in 0 .. BUF_LEN - 1 : Message[k] \in Char
  BY <1>1 DEF Buffer
<1>4. \A k \in 0 .. BUF_LEN - 1 : k < Len(chars) => chars[k + 1] \in Char
  OBVIOUS
<1>5. Message' \in Buffer
  BY <1>2, <1>3, <1>4 DEF Buffer
<1>6. ASSUME NEW k \in 1..Len(chars), k <= BUF_LEN
      PROVE  Message'[k - 1] = chars[k]
  <2>1. k - 1 \in 0 .. BUF_LEN - 1 /\ k - 1 < Len(chars) /\ (k - 1) + 1 = k
    BY <1>1, <1>6
  <2> QED BY <1>2, <2>1
<1> QED BY <1>2, <1>5, <1>6

\* A call that stores and starts the reading afresh.
LEMMA StoreInv ==
  ASSUME DInv, driver # "hello", NEW chars \in Seq(Char), Store(chars),
         got' = <<>>, said' \in Seq(Char), Holds',
         UNCHANGED <<driver, loaded, refs, Device_Open, counter, pc, reg, told, raced>>
  PROVE  DInv'
<1>1. Message' \in Buffer /\ Message_Ptr' = 0
  BY StoreFacts
<1>2. DeviceType'
  BY <1>1 DEF DInv, DeviceType
<1>3. RefCount' /\ OneInside'
  BY DEF DInv, RefCount, Holders, OneInside, Inside
<1>4. Greeted'
  BY DEF DInv, Greeted
<1>5. ReadsFollowMessage'
  BY <1>1 DEF ReadsFollowMessage
<1> QED BY <1>2, <1>3, <1>4, <1>5 DEF DInv

\* The texts that users write.
LEMMA TextFacts ==
  ASSUME NEW d \in Drivers, NEW text \in Text[d]
  PROVE  text \in Seq(Char) /\ \A k \in 1..Len(text) : text[k] # NUL
<1>1. text \in UNION {Text[e] : e \in Drivers}
  OBVIOUS
<1>2. text \in Seq(STRING) /\ \A k \in 1..Len(text) : text[k] # NUL
  BY <1>1, TextAssumption
<1>3. STRING \subseteq Char
  BY DEF Char
<1> QED BY <1>2, <1>3, SeqMonotonic

LEMMA WriteInv ==
  ASSUME DInv, NEW p \in Proc, driver # "hello",
         NEW text \in Text[driver], device_write(p, text)
  PROVE  DInv'
<1>1. text \in Seq(Char)
  <2>1. driver \in Drivers
    BY DEF DInv, DeviceType
  <2> QED BY <2>1, TextFacts
<1>2. Store(text) /\ said' = NONE
  BY DEF device_write
<1>3. Holds'
  BY <1>2 DEF Holds
<1> QED BY <1>1, <1>2, <1>3, NoneIsText, StoreInv DEF device_write

LEMMA SetMsgInv ==
  ASSUME DInv, NEW p \in Proc, driver # "hello",
         NEW text \in Text[driver], ioctl_set_msg(p, text)
  PROVE  DInv'
<1>1. /\ text \in Seq(Char) /\ Len(text) \in Nat /\ BUF_LEN \in Nat
      /\ \A k \in 1..Len(text) : text[k] # NUL
  <2>1. driver \in Drivers /\ BUF_LEN \in Nat
    BY TextAssumption DEF DInv, DeviceType
  <2>2. text \in Seq(Char) /\ \A k \in 1..Len(text) : text[k] # NUL
    BY <2>1, TextFacts
  <2> QED BY <2>1, <2>2
<1>2. /\ Store(Counted(text)) /\ said' = text /\ got' = <<>>
      /\ UNCHANGED <<driver, loaded, refs, Device_Open, counter, pc, reg, told, raced>>
  BY DEF ioctl_set_msg
<1>3. CASE text = <<>>
  <2>1. Counted(text) = <<>> /\ <<>> \in Seq(Char)
    BY <1>3 DEF Counted
  <2>2. Holds'
    BY <1>2, <1>3 DEF Holds
  <2> QED BY <1>1, <1>2, <2>1, <2>2, StoreInv
<1>4. CASE text # <<>>
  <2> DEFINE ended == Append(text, NUL)
             chars == Cut(ended)
  <2>1. NUL \in Char
    BY DEF Char
  <2>2. /\ ended \in Seq(Char) /\ Len(ended) = Len(text) + 1
        /\ \A k \in 1..Len(text) : ended[k] = text[k]
        /\ ended[Len(text) + 1] = NUL
    BY <1>1, <2>1, AppendProperties
  <2>3. Counted(text) = chars
    BY <1>4 DEF Counted
  <2> HIDE DEF ended
  <2>4. /\ chars \in Seq(Char)
        /\ Len(chars) = IF Len(ended) < BUF_LEN THEN Len(ended) ELSE BUF_LEN
        /\ \A k \in 1..Len(chars) : chars[k] = ended[k]
    BY <2>2, CutFacts
  <2> HIDE DEF chars
  <2>5. \A k \in 1..Len(chars) : k <= BUF_LEN => Message'[k - 1] = chars[k]
    BY <1>2, <2>3, <2>4, StoreFacts
  <2>6. ASSUME NEW k \in 1..Len(text), k <= BUF_LEN
        PROVE  Message'[k - 1] = text[k]
    <3>1. k \in 1..Len(chars)
      BY <1>1, <2>2, <2>4, <2>6
    <3> QED BY <2>2, <2>4, <2>5, <2>6, <3>1
  <2>7. ASSUME Len(text) < BUF_LEN
        PROVE  Message'[Len(text)] = NUL
    <3>1. /\ Len(text) + 1 \in 1..Len(chars) /\ Len(text) + 1 <= BUF_LEN
          /\ (Len(text) + 1) - 1 = Len(text)
      BY <1>1, <2>2, <2>4, <2>7
    <3>2. Message'[(Len(text) + 1) - 1] = chars[Len(text) + 1]
      BY <2>5, <3>1
    <3> QED BY <2>2, <2>4, <3>1, <3>2
  <2>8. Holds'
    BY <1>1, <1>2, <2>6, <2>7 DEF Holds
  <2> QED BY <1>1, <1>2, <2>3, <2>4, <2>8, StoreInv
<1> QED BY <1>3, <1>4

-----------------------------------------------------------------------------
\* Every step of the device preserves the invariant, in every interleaving.
LEMMA DeviceNext ==
  ASSUME DInv, [Next]_vars
  PROVE  DInv'
<1>1. CASE init_module
  BY <1>1, LoadInv
<1>2. CASE cleanup_module
  BY <1>2, UnloadInv
<1>3. ASSUME NEW p \in Proc, fops(p)
      PROVE  DInv'
  <2>1. CASE device_open(p)
    BY <2>1, OpenInv
  <2>2. CASE device_open_load(p)
    BY <2>2, OpenLoadInv
  <2>3. CASE device_open_store(p)
    BY <2>3, OpenStoreInv
  <2>4. CASE device_open_ptr(p)
    BY <2>4, OpenPtrInv
  <2>5. CASE device_open_get(p)
    BY <2>5, OpenGetInv
  <2>6. CASE device_release(p)
    BY <2>6, ReleaseInv
  <2>7. CASE device_release_store(p)
    BY <2>7, ReleaseStoreInv
  <2>8. CASE device_release_put(p)
    BY <2>8, ReleasePutInv
  <2>9. ASSUME NEW length \in ReadLen, device_read(p, length)
        PROVE  DInv'
    <3>1. length \in Nat
      BY TextAssumption
    <3> QED BY <2>9, <3>1, CopyInv DEF device_read
  <2> QED BY <1>3, <2>1, <2>2, <2>3, <2>4, <2>5, <2>6, <2>7, <2>8, <2>9 DEF fops
<1>4. ASSUME NEW p \in Proc, ioctl_get_msg(p)
      PROVE  DInv'
  <2>1. GetLen \in Nat
    BY TextAssumption
  <2> QED BY <1>4, <2>1, CopyInv DEF ioctl_get_msg
<1>5. CASE UNCHANGED vars
  BY <1>5, StutterKeeps
<1>6. ASSUME NEW p \in Proc, hello_fops(p)
      PROVE  DInv'
  BY <1>3, <1>5, <1>6, OpenMsgInv DEF hello_fops, device_write_refused
<1>7. ASSUME NEW p \in Proc, message_fops(p)
      PROVE  DInv'
  BY <1>3, <1>4, <1>7, WriteInv, SetMsgInv DEF message_fops, device_ioctl
<1> QED BY <1>1, <1>2, <1>5, <1>6, <1>7 DEF Next

\* The program of PortReuse makes no step on the device that CharDevice does
\* not have: a signal is a release by the client.
THEOREM ProgramUsesDevice == PSpec => Spec
<1>1. PInit => Init
  BY DEF PInit
<1>2. ASSUME [PNext]_allvars PROVE [Next]_vars
  <2>1. CASE Device
    <3>1. ASSUME NEW p \in Proc, setsockopt_fops(p)
          PROVE  message_fops(p)
      BY <3>1 DEF setsockopt_fops, message_fops, fops
    <3> QED BY <2>1, <3>1 DEF Device, Next
  <2>2. CASE interrupt
    <3>1. message_fops(Client)
      BY <2>2 DEF interrupt, message_fops, fops
    <3> QED BY <3>1, ClientAssumption DEF Next
  <2>3. ASSUME NEW w \in Worker, test_setportreuse(w) \/ worker(w) \/ worker_accept_fails(w)
        PROVE  UNCHANGED vars
    BY <2>3 DEF test_setportreuse, worker_accept_fails, worker, create_listen,
                create_listen_socket, device_ioctl_forceuse, create_listen_bind,
                create_listen_listen, worker_accept, worker_read, worker_send, worker_close
  <2>4. ASSUME NEW c \in Conn, peer_acts(c) \/ \E w \in Worker : connect(c, w)
        PROVE  UNCHANGED vars
    BY <2>4 DEF peer_acts, connect
  <2>5. CASE UNCHANGED allvars
    BY <2>5 DEF allvars
  <2> QED BY <1>2, <2>1, <2>2, <2>3, <2>4, <2>5 DEF PNext
<1> QED BY <1>1, <1>2, PTL DEF PSpec, Spec

\* The invariant holds of the device however it is used.
LEMMA DeviceAlways == PSpec => []DInv
<1>1. Spec => []DInv
  BY DeviceInit, DeviceNext, PTL DEF Spec
<1> QED BY <1>1, ProgramUsesDevice, PTL

\* In every interleaving the use count between calls is the number of users, so
\* that no user's module is unloaded; and unless opens have raced, Device_Open
\* counts the one user or none.
THEOREM ReadyAgain == PSpec => []ReadyForNextCaller
<1>1. ASSUME DInv PROVE ReadyForNextCaller
  <2>1. Users # {} => loaded
    BY <1>1 DEF DInv, RefCount, Users
  <2>2. InCall = {} => refs = Cardinality(Users)
    <3>1. InCall = {} => Holders = Users
      BY DEF InCall, Holders, Users
    <3> QED BY <1>1, <3>1 DEF DInv, RefCount
  <2>3. ASSUME loaded, ~raced
        PROVE  /\ Cardinality(Inside) <= 1
               /\ Inside = {} => Device_Open = 0
               /\ InCall = {} => Device_Open = Cardinality(Users)
    <3>1. InCall = {} => Inside = Users /\ \A p \in Inside : pc[p] = "open"
      BY DEF InCall, Inside, Users
    <3>2. CASE Inside = {}
      BY <1>1, <2>3, <3>1, <3>2, FS_EmptySet DEF DInv, OneInside
    <3>3. ASSUME NEW p \in Inside
          PROVE  /\ Cardinality(Inside) <= 1
                 /\ InCall = {} => Device_Open = Cardinality(Users)
      <4>1. Inside = {p} /\ Device_Open = Opened(pc[p])
        BY <1>1, <2>3, <3>3 DEF DInv, OneInside
      <4>2. Cardinality(Inside) = 1
        BY <4>1, FS_Singleton
      <4> QED BY <3>1, <4>1, <4>2 DEF Opened
    <3> QED BY <3>2, <3>3
  <2> QED BY <2>1, <2>2, <2>3 DEF ReadyForNextCaller
<1> QED BY <1>1, DeviceAlways, PTL

\* Whoever opens "hello" is told how many were told before, unless opens have
\* raced.
THEOREM GreetingsInOrder == PSpec => []GreetingsCount
<1>1. DInv => GreetingsCount
  BY DEF DInv, Greeted, GreetingsCount
<1> QED BY <1>1, DeviceAlways, PTL

\* What has been read is the message up to Message_Ptr, and no read passes a NUL
\* of the buffer.
THEOREM ReadsInOrder == PSpec => []ReadsFollowMessage
<1>1. DInv => ReadsFollowMessage
  BY DEF DInv
<1> QED BY <1>1, DeviceAlways, PTL

\* A text that SET_MSG was given, of any length, is the message, cut to the
\* buffer.
THEOREM SetTextIsMessage == PSpec => []TextIsMessage
<1>1. ASSUME DInv, said \notin {NONE, <<>>}
      PROVE  Held(Message) = Cut(said)
  <2> DEFINE n == IF Len(said) < BUF_LEN THEN Len(said) ELSE BUF_LEN
  <2>1. /\ said \in Seq(Char) /\ Len(said) \in Nat /\ BUF_LEN \in Nat
        /\ Message \in Buffer
        /\ \A k \in 1..Len(said) : said[k] # NUL
        /\ \A k \in 1..Len(said) : k <= BUF_LEN => Message[k - 1] = said[k]
        /\ Len(said) < BUF_LEN => Message[Len(said)] = NUL
    BY <1>1, TextAssumption DEF DInv, DeviceType, Holds
  <2>2. n \in 0..BUF_LEN /\ n <= Len(said)
    BY <2>1
  <2>3. EndsAt(Message, n)
    <3>1. \A j \in 0 .. n - 1 : Message[j] # NUL
      <4> SUFFICES ASSUME NEW j \in 0 .. n - 1 PROVE Message[j] # NUL
        OBVIOUS
      <4>1. j + 1 \in 1..Len(said) /\ (j + 1) - 1 = j /\ j + 1 <= BUF_LEN
        BY <2>1, <2>2
      <4> QED BY <2>1, <4>1
    <3>2. n = BUF_LEN \/ Message[n] = NUL
      BY <2>1
    <3> QED BY <2>2, <3>1, <3>2 DEF EndsAt
  <2>4. /\ Cut(said) \in Seq(Char) /\ Len(Cut(said)) = n
        /\ \A k \in 1..n : Cut(said)[k] = said[k]
    BY <2>1, CutFacts
  <2> HIDE DEF n
  <2>5. /\ Held(Message) \in Seq(Char) /\ Len(Held(Message)) = n
        /\ \A j \in 1..n : Held(Message)[j] = Message[j - 1]
    BY <2>1, <2>2, <2>3, HeldIs
  <2>6. \A j \in 1..n : Held(Message)[j] = Cut(said)[j]
    <3> SUFFICES ASSUME NEW j \in 1..n PROVE Held(Message)[j] = Cut(said)[j]
      OBVIOUS
    <3>1. j \in 1..Len(said) /\ j <= BUF_LEN
      BY <2>1, <2>2
    <3> QED BY <2>1, <2>4, <2>5, <3>1
  <2> QED BY <2>4, <2>5, <2>6, SeqEqual
<1>2. DInv => TextIsMessage
  BY <1>1 DEF TextIsMessage
<1> QED BY <1>2, DeviceAlways, PTL

-----------------------------------------------------------------------------
(***************************************************************************)
(* The program.  A connection is with one thread at most, waiting or       *)
(* served, and a thread that is past socket has forced the port.           *)
(***************************************************************************)
Serving == {"read", "send", "close"}

Socket == [fd : BOOLEAN, sk_reuse : BOOLEAN, bound : BOOLEAN, listening : BOOLEAN]

Connection == [state : {"new", "queued", "open", "closed", "reset", "dropped"},
               peer : {"silent", "spoke", "left"}, answered : BOOLEAN]

PType ==
  /\ pc \in [Proc -> Label]
  /\ wpc \in [Worker -> {"none", "socket", "force", "bind", "listen", "accept"} \cup Serving]
  /\ sk \in [Worker -> Socket]
  /\ backlog \in [Worker -> Seq(Conn)]
  /\ newfd \in [Worker -> Conn \cup {NoConn}]
  /\ conn \in [Conn -> Connection]

Forced == denied = {} /\ \A w \in Worker : wpc[w] \in {"bind", "listen"} => sk[w].sk_reuse

Queues ==
  /\ \A w \in Worker : \A k \in 1..Len(backlog[w]) : conn[backlog[w][k]].state = "queued"
  /\ \A v, w \in Worker : \A j \in 1..Len(backlog[v]), k \in 1..Len(backlog[w]) :
       backlog[v][j] = backlog[w][k] => v = w /\ j = k

Served ==
  /\ \A w \in Worker : newfd[w] # NoConn =>
       wpc[w] \in Serving /\ conn[newfd[w]].state = "open"
  /\ \A c \in Conn : conn[c].state = "open" => \E w \in Worker : newfd[w] = c
  /\ \A v, w \in Worker : newfd[v] = newfd[w] /\ newfd[v] # NoConn => v = w

Answered ==
  /\ \A w \in Worker : wpc[w] = "close" /\ newfd[w] # NoConn =>
       conn[newfd[w]].answered \/ conn[newfd[w]].peer = "left"
  /\ \A c \in Conn : conn[c].state = "closed" => conn[c].answered \/ conn[c].peer = "left"

\* Only the program's end releases the device.
Attached == \A w \in Worker : wpc[w] # "none" => driver = "setsockopt" /\ pc[Client] = "open"

PInv == PType /\ Forced /\ Queues /\ Served /\ Answered /\ Attached

LEMMA ProgramInit == PInit => PInv
<1> SUFFICES ASSUME PInit PROVE PInv
  OBVIOUS
<1> USE ClientAssumption DEF PInit
<1>1. PType
  BY DEF PType, Socket, Connection, Init, Label, Serving, NoSocket, NewConn
<1>2. Forced /\ Queues /\ Served /\ Answered /\ Attached
  BY DEF Forced, Queues, Served, Answered, Attached, NewConn, Serving
<1> QED BY <1>1, <1>2 DEF PInv

\* The other processes, and main on its way to the device, do not take it from
\* the client; nor does the module go, which the client holds.
LEMMA DeviceKeepsClient ==
  ASSUME PInv, RefCount, Device
  PROVE  PInv'
<1> DEFINE Keeps == /\ pc' \in [Proc -> Label] /\ driver' = driver
                    /\ driver = "setsockopt" /\ pc[Client] = "open" => pc'[Client] = "open"
<1>1. pc \in [Proc -> Label]
  BY DEF PInv, PType
<1>2. ASSUME UNCHANGED <<pc, driver>>
      PROVE  Keeps
  BY <1>1, <1>2, Zenon
<1>3. ASSUME NEW p \in Proc,
             \/ device_open(p) \/ device_open_load(p) \/ device_open_store(p)
             \/ device_open_msg(p) \/ device_open_ptr(p) \/ device_open_get(p)
             \/ device_release_store(p) \/ device_release_put(p)
      PROVE  Keeps
  <2> USE <1>1 DEF Label
  <2>1. CASE device_open(p)
    <3>1. UNCHANGED <<pc, driver>> \/ (pc[p] = "closed" /\ pc' = [pc EXCEPT ![p] = "open_load"])
      BY <2>1 DEF device_open
    <3>2. driver' = driver
      BY <2>1 DEF device_open
    <3>3. CASE UNCHANGED pc
      BY <1>2, <3>2, <3>3
    <3>4. CASE pc[p] = "closed" /\ pc' = [pc EXCEPT ![p] = "open_load"]
      BY <3>2, <3>4
    <3> QED BY <3>1, <3>3, <3>4
  <2>2. CASE device_open_load(p)
    BY <2>2 DEF device_open_load
  <2>3. CASE device_open_store(p)
    BY <2>3 DEF device_open_store
  <2>4. CASE device_open_msg(p)
    BY <2>4 DEF device_open_msg
  <2>5. CASE device_open_ptr(p)
    BY <2>5 DEF device_open_ptr
  <2>6. CASE device_open_get(p)
    BY <2>6 DEF device_open_get
  <2>7. CASE device_release_store(p)
    BY <2>7 DEF device_release_store
  <2>8. CASE device_release_put(p)
    BY <2>8 DEF device_release_put
  <2> QED BY <1>3, <2>1, <2>2, <2>3, <2>4, <2>5, <2>6, <2>7, <2>8
<1>4. ASSUME NEW p \in Proc, device_release(p), driver # "setsockopt" \/ p # Client
      PROVE  Keeps
  BY <1>1, <1>4 DEF device_release, Label
<1>5. ASSUME NEW p \in Proc,
             \/ \E length \in ReadLen : device_read(p, length)
             \/ device_ioctl(p) \/ device_write_refused(p)
             \/ \E text \in Text[driver] : device_write(p, text)
      PROVE  Keeps
  BY <1>1, <1>5 DEF device_read, device_ioctl, ioctl_set_msg, ioctl_get_msg,
     device_write_refused, device_write, vars
<1> HIDE DEF Keeps
<1>6. ASSUME NEW p \in Proc, fops(p), driver # "setsockopt" \/ p # Client
      PROVE  Keeps
  BY <1>3, <1>4, <1>5, <1>6 DEF fops
<1>7. ASSUME NEW p \in Proc, hello_fops(p)
      PROVE  Keeps
  BY <1>3, <1>5, <1>6, <1>7 DEF hello_fops
<1>8. ASSUME NEW p \in Proc, message_fops(p), driver # "setsockopt" \/ p # Client
      PROVE  Keeps
  BY <1>3, <1>5, <1>6, <1>8 DEF message_fops
<1>9. ASSUME NEW p \in Proc, setsockopt_fops(p)
      PROVE  Keeps
  BY <1>3, <1>8, <1>9 DEF setsockopt_fops
<1>10. Keeps /\ UNCHANGED svars
  <2>1. ASSUME init_module
        PROVE  Keeps
    <3>1. UNCHANGED <<pc, driver>>
      BY <2>1 DEF init_module, vars
    <3> QED BY <1>2, <3>1
  <2>2. UNCHANGED svars
    BY DEF Device
  <2>3. ASSUME cleanup_module
        PROVE  Keeps
    <3>1. Holders = {}
      BY <2>3, FS_EmptySet DEF RefCount, cleanup_module
    <3>2. pc[Client] # "open"
      BY <3>1, ClientAssumption DEF Holders
    <3> QED BY <2>3, <3>2 DEF Keeps, cleanup_module, Label
  <2>4. Keeps
    BY <1>7, <1>8, <1>9, <2>1, <2>3 DEF Device
  <2> QED BY <2>2, <2>4
<1>11. Attached'
  BY <1>10 DEF Keeps, svars, PInv, Attached
<1> QED BY <1>10, <1>11 DEF Keeps, svars, PInv, PType, Forced, Queues, Served, Answered

\* The steps of a thread that has nothing to do with connections yet.
LEMMA ListenInv ==
  ASSUME PInv, NEW w \in Worker, test_setportreuse(w) \/ create_listen(w)
  PROVE  PInv'
<1> USE DEF At, PInv
<1>1. /\ UNCHANGED <<backlog, newfd, conn>> /\ UNCHANGED vars
      /\ wpc[w] \in {"none", "socket", "force", "bind", "listen"}
      /\ test_setportreuse(w) \/ wpc[w] # "none"
      /\ wpc' \in [Worker -> {"none", "socket", "force", "bind", "listen", "accept"} \cup Serving]
      /\ wpc'[w] \in {"socket", "force", "bind", "listen", "accept"}
      /\ \A v \in Worker \ {w} : wpc'[v] = wpc[v]
  BY DEF PType, test_setportreuse, create_listen, create_listen_socket,
         device_ioctl_forceuse, create_listen_bind, create_listen_listen
<1>2. Served'
  BY <1>1 DEF Served, Serving
<1>3. Queues'
  BY <1>1 DEF Queues
<1>4. Answered'
  BY <1>1 DEF Answered
<1>5. pc' = pc /\ driver' = driver
  BY <1>1 DEF vars
<1>6. Attached'
  BY <1>1, <1>5 DEF Attached, test_setportreuse
<1>7. sk' \in [Worker -> Socket] /\ Forced'
  <2>1. sk \in [Worker -> Socket]
    BY DEF PType
  <2>2. wpc \in [Worker -> {"none", "socket", "force", "bind", "listen", "accept"} \cup Serving]
    BY DEF PType
  <2>3. CASE test_setportreuse(w)
    BY <2>1, <2>2, <2>3 DEF test_setportreuse, Forced
  <2>4. CASE create_listen_socket(w)
    <3>1. sk' \in [Worker -> Socket]
      BY <2>1, <2>4 DEF create_listen_socket, NoSocket, Socket
    <3>2. Forced'
      BY <2>1, <2>2, <2>4 DEF create_listen_socket, Forced, Socket
    <3> QED BY <3>1, <3>2
  <2>5. CASE device_ioctl_forceuse(w)
    <3>1. sk' \in [Worker -> Socket]
      BY <2>1, <2>5 DEF device_ioctl_forceuse, setsock_forceuse, Socket
    <3>2. Forced'
      BY <2>1, <2>2, <2>5 DEF device_ioctl_forceuse, setsock_forceuse, Forced, Socket
    <3> QED BY <3>1, <3>2
  <2>6. CASE create_listen_bind(w)
    <3>1. ~Conflict(w)
      BY <2>6 DEF create_listen_bind, Conflict, Forced
    <3>2. sk' \in [Worker -> Socket]
      <4>1. \/ sk' = [sk EXCEPT ![w].bound = TRUE]
            \/ sk' = [sk EXCEPT ![w] = NoSocket]
        BY <2>6 DEF create_listen_bind
      <4>2. NoSocket \in Socket
        BY DEF NoSocket, Socket
      <4>3. CASE sk' = [sk EXCEPT ![w].bound = TRUE]
        BY <2>1, <4>3 DEF Socket
      <4> QED BY <2>1, <4>1, <4>2, <4>3
    <3>3. Forced'
      BY <2>1, <2>2, <2>6, <3>1 DEF create_listen_bind, NoSocket, Forced, Socket
    <3> QED BY <3>2, <3>3
  <2>7. CASE create_listen_listen(w)
    <3>1. ~Conflict(w)
      BY <2>7 DEF create_listen_listen, Conflict, Forced
    <3>2. sk' \in [Worker -> Socket]
      <4>1. \/ sk' = [sk EXCEPT ![w].listening = TRUE]
            \/ sk' = [sk EXCEPT ![w] = NoSocket]
        BY <2>7 DEF create_listen_listen
      <4>2. NoSocket \in Socket
        BY DEF NoSocket, Socket
      <4>3. CASE sk' = [sk EXCEPT ![w].listening = TRUE]
        BY <2>1, <4>3 DEF Socket
      <4> QED BY <2>1, <4>1, <4>2, <4>3
    <3>3. Forced'
      BY <2>1, <2>2, <2>7, <3>1 DEF create_listen_listen, NoSocket, Forced, Socket
    <3> QED BY <3>2, <3>3
  <2> QED BY <2>3, <2>4, <2>5, <2>6, <2>7 DEF create_listen
<1>8. PType'
  BY <1>1, <1>5, <1>7 DEF PType
<1> QED BY <1>2, <1>3, <1>4, <1>6, <1>7, <1>8

\* Facts that every step with a connection keeps.
LEMMA ConnTypes ==
  ASSUME PInv
  PROVE  /\ NoConn \notin Conn
         /\ \A w \in Worker : /\ newfd[w] \in Conn \cup {NoConn}
                              /\ backlog[w] \in Seq(Conn) /\ Len(backlog[w]) \in Nat
         /\ \A w \in Worker : \A k \in 1..Len(backlog[w]) : backlog[w][k] \in Conn
BY ClientAssumption DEF PInv, PType

\* A connection changes in one field.
LEMMA StateSet ==
  ASSUME conn \in [Conn -> Connection], NEW c \in Conn,
         NEW s \in {"new", "queued", "open", "closed", "reset", "dropped"},
         conn' = [conn EXCEPT ![c].state = s]
  PROVE  conn' \in [Conn -> Connection]
<1> DEFINE next == [conn[c] EXCEPT !.state = s]
<1>1. conn[c] \in Connection
  OBVIOUS
<1>2. next \in Connection
  BY <1>1 DEF Connection
<1>3. conn' = [conn EXCEPT ![c] = next]
  OBVIOUS
<1> HIDE DEF next
<1> QED BY <1>2, <1>3

LEMMA PeerSet ==
  ASSUME conn \in [Conn -> Connection], NEW c \in Conn, NEW p \in {"spoke", "left"},
         conn' = [conn EXCEPT ![c].peer = p]
  PROVE  conn' \in [Conn -> Connection]
<1> DEFINE next == [conn[c] EXCEPT !.peer = p]
<1>1. conn[c] \in Connection
  OBVIOUS
<1>2. next \in Connection
  BY <1>1 DEF Connection
<1>3. conn' = [conn EXCEPT ![c] = next]
  OBVIOUS
<1> HIDE DEF next
<1> QED BY <1>2, <1>3

\* One that is no more is a connection still.
LEMMA EndedType ==
  ASSUME NEW s \in {"open", "reset", "dropped"}
  PROVE  Ended(s) \in Connection /\ Ended(s).state = s
BY DEF Ended, NewConn, Connection

LEMMA HeadInConn ==
  ASSUME PInv, NEW w \in Worker, backlog[w] # <<>>
  PROVE  Head(backlog[w]) \in Conn
BY DEF PInv, PType

\* The connection that leaves a backlog leaves every backlog.
LEMMA TakeInv ==
  ASSUME PInv, NEW w \in Worker, backlog[w] # <<>>,
         backlog' = [backlog EXCEPT ![w] = Tail(@)],
         \A d \in Conn \ {Head(backlog[w])} : conn'[d] = conn[d]
  PROVE  /\ conn[Head(backlog[w])].state = "queued"
         /\ backlog' \in [Worker -> Seq(Conn)]
         /\ Queues'
<1> USE DEF PInv
<1> DEFINE c == Head(backlog[w])
<1>1. /\ backlog[w] \in Seq(Conn) /\ Len(backlog[w]) \in Nat \ {0}
      /\ c = backlog[w][1] /\ c \in Conn
      /\ Tail(backlog[w]) \in Seq(Conn) /\ Len(Tail(backlog[w])) = Len(backlog[w]) - 1
      /\ \A k \in 1 .. Len(backlog[w]) - 1 : Tail(backlog[w])[k] = backlog[w][k + 1]
  BY HeadTailProperties DEF PType
<1>2. conn[c].state = "queued"
  BY <1>1 DEF Queues
<1>3. backlog' \in [Worker -> Seq(Conn)]
  BY <1>1 DEF PType
<1>4. \A d \in Conn \ {c} : conn'[d] = conn[d]
  OBVIOUS
<1> HIDE DEF c
<1>5. Queues'
  <2>1. \A v \in Worker \ {w} : backlog'[v] = backlog[v]
    BY DEF PType
  <2>2. backlog'[w] = Tail(backlog[w]) /\ Len(backlog'[w]) = Len(backlog[w]) - 1
    BY <1>1 DEF PType
  \* Where the k-th of the ones that v is left with stood before.
  <2> DEFINE was(v, k) == IF v = w THEN k + 1 ELSE k
  <2>3. ASSUME NEW v \in Worker, NEW k \in 1..Len(backlog'[v])
        PROVE  /\ was(v, k) \in 1..Len(backlog[v])
               /\ backlog'[v][k] = backlog[v][was(v, k)]
               /\ backlog'[v][k] \in Conn \ {c}
    <3>1. was(v, k) \in 1..Len(backlog[v]) /\ backlog'[v][k] = backlog[v][was(v, k)]
      <4>1. CASE v = w
        <5>1. k \in 1 .. Len(backlog[w]) - 1
          BY <2>2, <4>1
        <5>2. k + 1 \in 1..Len(backlog[w]) /\ Tail(backlog[w])[k] = backlog[w][k + 1]
          BY <1>1, <5>1
        <5> QED BY <2>2, <4>1, <5>2
      <4>2. CASE v # w
        BY <2>1, <4>2
      <4> QED BY <4>1, <4>2
    <3>2. 1 \in 1..Len(backlog[w]) /\ (v = w => was(v, k) # 1)
      BY <1>1, <2>2
    <3>3. backlog[v][was(v, k)] # c
      BY <1>1, <3>1, <3>2 DEF Queues
    <3> QED BY <3>1, <3>3, ConnTypes
  <2>4. ASSUME NEW v \in Worker, NEW k \in 1..Len(backlog'[v])
        PROVE  conn'[backlog'[v][k]].state = "queued"
    <3>1. /\ was(v, k) \in 1..Len(backlog[v])
          /\ backlog'[v][k] = backlog[v][was(v, k)]
          /\ backlog'[v][k] \in Conn \ {c}
      BY <2>3
    <3> HIDE DEF was
    <3>2. conn[backlog'[v][k]].state = "queued"
      BY <3>1 DEF Queues
    <3>3. conn'[backlog'[v][k]] = conn[backlog'[v][k]]
      BY <1>4, <3>1
    <3> QED BY <3>2, <3>3
  <2>5. ASSUME NEW u \in Worker, NEW v \in Worker,
               NEW j \in 1..Len(backlog'[u]), NEW k \in 1..Len(backlog'[v]),
               backlog'[u][j] = backlog'[v][k]
        PROVE  u = v /\ j = k
    <3>1. /\ was(u, j) \in 1..Len(backlog[u]) /\ backlog'[u][j] = backlog[u][was(u, j)]
          /\ was(v, k) \in 1..Len(backlog[v]) /\ backlog'[v][k] = backlog[v][was(v, k)]
      BY <2>3
    <3> DEFINE a == was(u, j)
               b == was(v, k)
    <3>2. a \in 1..Len(backlog[u]) /\ b \in 1..Len(backlog[v]) /\ backlog[u][a] = backlog[v][b]
      BY <2>5, <3>1
    <3> HIDE DEF a, b
    <3>3. u = v /\ a = b
      BY <3>2 DEF Queues
    <3> QED BY <3>3 DEF a, b
  <2> QED BY <2>4, <2>5 DEF Queues
<1> QED BY <1>1, <1>2, <1>3, <1>5 DEF c

\* A thread serves what it accepts.
LEMMA AcceptInv ==
  ASSUME PInv, NEW w \in Worker, worker_accept(w)
  PROVE  PInv'
<1> USE DEF At, PInv
<1> DEFINE c == Head(backlog[w])
<1>1. /\ wpc[w] = "accept" /\ wpc' = [wpc EXCEPT ![w] = "read"]
      /\ newfd' = [newfd EXCEPT ![w] = c]
      /\ UNCHANGED <<sk, denied>> /\ UNCHANGED vars
  BY DEF worker_accept
<1>2. /\ c \in Conn /\ c # NoConn /\ conn[c].state = "queued"
      /\ backlog' \in [Worker -> Seq(Conn)] /\ conn' \in [Conn -> Connection]
      /\ \A d \in Conn \ {c} : conn'[d] = conn[d]
      /\ conn'[c].state = "open"
      /\ Queues'
  <2>1. /\ backlog[w] # <<>> /\ backlog' = [backlog EXCEPT ![w] = Tail(@)]
        /\ conn' = [conn EXCEPT ![c].state = "open"]
    BY DEF worker_accept
  <2>2. c \in Conn /\ c # NoConn
    BY <2>1, HeadInConn, ClientAssumption
  <2> HIDE DEF c
  <2>3. conn' \in [Conn -> Connection]
    BY <2>1, <2>2, StateSet DEF PType
  <2>4. (\A d \in Conn \ {c} : conn'[d] = conn[d]) /\ conn'[c].state = "open"
    BY <2>1, <2>2 DEF PType
  <2>5. /\ conn[c].state = "queued"
        /\ backlog' \in [Worker -> Seq(Conn)]
        /\ Queues'
    BY <2>1, <2>4, TakeInv DEF c
  <2> QED BY <2>2, <2>3, <2>4, <2>5
<1> HIDE DEF c
<1>3. PType'
  <2>1. newfd' \in [Worker -> Conn \cup {NoConn}]
    BY <1>1, <1>2 DEF PType
  <2>2. wpc' \in [Worker -> {"none", "socket", "force", "bind", "listen", "accept"} \cup Serving]
    BY <1>1 DEF PType, Serving
  <2> QED BY <1>1, <1>2, <2>1, <2>2 DEF PType, vars
<1>4. /\ newfd'[w] = c /\ wpc'[w] = "read"
      /\ \A v \in Worker \ {w} : newfd'[v] = newfd[v] /\ wpc'[v] = wpc[v]
  BY <1>1 DEF PType
<1>5. newfd[w] = NoConn /\ \A v \in Worker : newfd[v] # c
  BY <1>1, <1>2 DEF Served, Serving
<1>6. Forced' /\ Attached'
  BY <1>1, <1>4 DEF Forced, Attached, vars
<1>7. Served'
  <2>1. \A v \in Worker : newfd'[v] # NoConn =>
          wpc'[v] \in Serving /\ conn'[newfd'[v]].state = "open"
    BY <1>2, <1>4, <1>5, ConnTypes DEF Served, Serving
  <2>2. \A d \in Conn : conn'[d].state = "open" => \E v \in Worker : newfd'[v] = d
    <3> SUFFICES ASSUME NEW d \in Conn, conn'[d].state = "open"
                 PROVE  \E v \in Worker : newfd'[v] = d
      OBVIOUS
    <3>1. CASE d = c
      BY <1>4, <3>1
    <3>2. CASE d # c
      <4>1. PICK v \in Worker : newfd[v] = d
        BY <1>2, <3>2 DEF Served
      <4>2. v # w
        BY <1>5, <4>1, ConnTypes
      <4> QED BY <1>4, <4>1, <4>2
    <3> QED BY <3>1, <3>2
  <2>3. \A u, v \in Worker : newfd'[u] = newfd'[v] /\ newfd'[u] # NoConn => u = v
    BY <1>4, <1>5 DEF Served
  <2> QED BY <2>1, <2>2, <2>3 DEF Served
<1>8. Answered'
  <2>1. \A v \in Worker : wpc'[v] = "close" /\ newfd'[v] # NoConn =>
          wpc[v] = "close" /\ newfd[v] \in Conn \ {c} /\ newfd'[v] = newfd[v]
    BY <1>4, <1>5, ConnTypes
  <2>2. ASSUME NEW v \in Worker, wpc'[v] = "close", newfd'[v] # NoConn
        PROVE  conn'[newfd'[v]].answered \/ conn'[newfd'[v]].peer = "left"
    <3>1. newfd[v] # NoConn /\ conn'[newfd'[v]] = conn[newfd[v]]
      BY <1>2, <2>1, <2>2
    <3> QED BY <2>1, <2>2, <3>1 DEF Answered
  <2>3. \A d \in Conn : conn'[d].state = "closed" =>
          conn'[d].answered \/ conn'[d].peer = "left"
    BY <1>2 DEF Answered
  <2> QED BY <2>2, <2>3 DEF Answered
<1> QED BY <1>2, <1>3, <1>6, <1>7, <1>8

\* An accept that fails leaves the thread with no connection to serve, and drops
\* one at most.
LEMMA AcceptFailsInv ==
  ASSUME PInv, NEW w \in Worker, worker_accept_fails(w)
  PROVE  PInv'
<1> USE DEF At, PInv
<1>1. /\ wpc[w] = "accept" /\ wpc' = [wpc EXCEPT ![w] = "read"]
      /\ UNCHANGED <<sk, newfd, denied>> /\ UNCHANGED vars
  BY DEF worker_accept_fails
<1>2. wpc'[w] = "read" /\ \A v \in Worker \ {w} : wpc'[v] = wpc[v]
  BY <1>1 DEF PType
<1>3. newfd[w] = NoConn
  BY <1>1 DEF Served, Serving
<1>4. wpc' \in [Worker -> {"none", "socket", "force", "bind", "listen", "accept"} \cup Serving]
  BY <1>1 DEF PType, Serving
<1>5. Forced' /\ Attached'
  BY <1>1, <1>2 DEF Forced, Attached, vars
<1>6. CASE UNCHANGED <<backlog, conn>>
  <2>1. PType'
    BY <1>1, <1>4, <1>6 DEF PType, vars
  <2>2. Queues' /\ Answered'
    BY <1>1, <1>2, <1>6 DEF Queues, Answered
  <2>3. Served'
    BY <1>1, <1>2, <1>3, <1>6 DEF Served
  <2> QED BY <1>5, <2>1, <2>2, <2>3
<1>7. CASE /\ backlog[w] # <<>>
           /\ backlog' = [backlog EXCEPT ![w] = Tail(@)]
           /\ conn' = [conn EXCEPT ![Head(backlog[w])] = Ended("dropped")]
  <2> DEFINE c == Head(backlog[w])
  <2>1. /\ c \in Conn /\ conn[c].state = "queued"
        /\ backlog' \in [Worker -> Seq(Conn)] /\ conn' \in [Conn -> Connection]
        /\ \A d \in Conn \ {c} : conn'[d] = conn[d]
        /\ conn'[c].state = "dropped"
        /\ Queues'
    <3>1. c \in Conn
      BY <1>7, HeadInConn
    <3>2. Ended("dropped") \in Connection /\ Ended("dropped").state = "dropped"
      BY EndedType
    <3>3. conn' = [conn EXCEPT ![c] = Ended("dropped")]
      BY <1>7
    <3> HIDE DEF c
    <3>4. /\ conn' \in [Conn -> Connection] /\ conn'[c].state = "dropped"
          /\ \A d \in Conn \ {c} : conn'[d] = conn[d]
      BY <3>1, <3>2, <3>3 DEF PType
    <3>5. /\ conn[c].state = "queued"
          /\ backlog' \in [Worker -> Seq(Conn)]
          /\ Queues'
      BY <1>7, <3>4, TakeInv DEF c
    <3> QED BY <3>1, <3>4, <3>5
  <2> HIDE DEF c
  <2>2. \A v \in Worker : newfd[v] # c
    BY <2>1, ClientAssumption DEF Served
  <2>3. PType'
    BY <1>1, <1>4, <2>1 DEF PType, vars
  <2>4. newfd' = newfd /\ \A v \in Worker : newfd[v] # NoConn =>
          v # w /\ wpc'[v] = wpc[v] /\ conn'[newfd[v]] = conn[newfd[v]]
    BY <1>1, <1>2, <1>3, <2>1, <2>2, ConnTypes
  <2>5. Served'
    <3>1. \A v \in Worker : newfd'[v] # NoConn =>
            wpc'[v] \in Serving /\ conn'[newfd'[v]].state = "open"
      BY <2>4 DEF Served
    <3>2. \A d \in Conn : conn'[d].state = "open" => \E v \in Worker : newfd'[v] = d
      BY <2>1, <2>4 DEF Served
    <3> QED BY <2>4, <3>1, <3>2 DEF Served
  <2>6. Answered'
    <3>1. \A v \in Worker : wpc'[v] = "close" /\ newfd'[v] # NoConn =>
            conn'[newfd'[v]].answered \/ conn'[newfd'[v]].peer = "left"
      BY <2>4 DEF Answered
    <3>2. \A d \in Conn : conn'[d].state = "closed" =>
            conn'[d].answered \/ conn'[d].peer = "left"
      BY <2>1 DEF Answered
    <3> QED BY <3>1, <3>2 DEF Answered
  <2> QED BY <1>5, <2>1, <2>3, <2>5, <2>6
<1> QED BY <1>6, <1>7 DEF worker_accept_fails

\* What the peer sends, or that it leaves, changes nothing else; and neither
\* does answering it.
LEMMA ChangeInv ==
  ASSUME PInv, NEW c \in Conn, PType', Forced', Attached',
         \A d \in Conn : conn'[d].state = conn[d].state,
         \A d \in Conn \ {c} : conn'[d] = conn[d],
         backlog' = backlog, newfd' = newfd,
         \A w \in Worker : wpc'[w] \in Serving <=> wpc[w] \in Serving,
         Answered'
  PROVE  PInv'
<1>1. Queues'
  BY ConnTypes DEF PInv, Queues
<1>2. Served'
  BY ConnTypes DEF PInv, Served
<1> QED BY <1>1, <1>2 DEF PInv

LEMMA ReadInv ==
  ASSUME PInv, NEW w \in Worker, worker_read(w)
  PROVE  PInv'
<1> USE DEF At, PInv
<1>1. /\ wpc[w] = "read" /\ wpc' = [wpc EXCEPT ![w] = "send"]
      /\ UNCHANGED <<sk, backlog, newfd, conn, denied>> /\ UNCHANGED vars
  BY DEF worker_read
<1>2. PType'
  BY <1>1 DEF PType, Serving, vars
<1>3. wpc'[w] = "send" /\ \A v \in Worker \ {w} : wpc'[v] = wpc[v]
  BY <1>1 DEF PType
<1>4. Forced' /\ Queues' /\ Answered' /\ Attached'
  BY <1>1, <1>3 DEF Forced, Queues, Answered, Attached, vars
<1>5. Served'
  BY <1>1, <1>3 DEF Served, Serving
<1> QED BY <1>2, <1>4, <1>5

\* send answers unless the peer has left, and of -1 it does nothing.
LEMMA SendInv ==
  ASSUME PInv, NEW w \in Worker, worker_send(w)
  PROVE  PInv'
<1> USE DEF At, PInv
<1> DEFINE c == newfd[w]
           sent(d) == [conn[d] EXCEPT !.answered = conn[d].peer # "left"]
<1>1. /\ wpc[w] = "send" /\ wpc' = [wpc EXCEPT ![w] = "close"]
      /\ conn' = [d \in Conn |-> IF d = c THEN sent(d) ELSE conn[d]]
      /\ UNCHANGED <<sk, backlog, newfd, denied>> /\ UNCHANGED vars
  BY DEF worker_send
<1>2. c \in Conn \cup {NoConn}
  BY ConnTypes
<1>3. \A d \in Conn : /\ sent(d) \in Connection
                     /\ sent(d).state = conn[d].state /\ sent(d).peer = conn[d].peer
                     /\ sent(d).answered = (conn[d].peer # "left")
  BY DEF PType, Connection
<1>4. conn \in [Conn -> Connection] /\ newfd[w] = c
  BY DEF PType
<1> HIDE DEF c, sent
<1>5. PType'
  <2>1. conn' \in [Conn -> Connection]
    BY <1>1, <1>3, <1>4
  <2>2. wpc' \in [Worker -> {"none", "socket", "force", "bind", "listen", "accept"} \cup Serving]
    BY <1>1 DEF PType, Serving
  <2> QED BY <1>1, <2>1, <2>2 DEF PType, vars
<1>6. wpc'[w] = "close" /\ \A v \in Worker \ {w} : wpc'[v] = wpc[v]
  BY <1>1 DEF PType
<1>7. /\ \A d \in Conn : conn'[d].state = conn[d].state /\ conn'[d].peer = conn[d].peer
      /\ \A d \in Conn \ {c} : conn'[d] = conn[d]
      /\ c \in Conn => conn'[c].answered = (conn[c].peer # "left")
  BY <1>1, <1>3
<1>8. Forced' /\ Attached'
  BY <1>1, <1>6 DEF Forced, Attached, vars
<1>9. Queues' /\ Served'
  BY <1>1, <1>4, <1>6, <1>7, ConnTypes DEF Queues, Served, Serving
<1>10. Answered'
  <2>1. ASSUME NEW v \in Worker, wpc'[v] = "close", newfd'[v] # NoConn
        PROVE  conn'[newfd'[v]].answered \/ conn'[newfd'[v]].peer = "left"
    <3>1. CASE v = w
      BY <1>1, <1>2, <1>4, <1>7, <2>1, <3>1
    <3>2. CASE v # w
      <4>1. newfd[v] \in Conn /\ newfd[v] # c
        BY <1>1, <1>4, <2>1, <3>2, ConnTypes DEF Served
      <4> QED BY <1>1, <1>6, <1>7, <2>1, <3>2, <4>1 DEF Answered
    <3> QED BY <3>1, <3>2
  <2>2. ASSUME NEW d \in Conn, conn'[d].state = "closed"
        PROVE  conn'[d].answered \/ conn'[d].peer = "left"
    BY <1>7, <2>2 DEF Answered
  <2> QED BY <2>1, <2>2 DEF Answered
<1> QED BY <1>5, <1>8, <1>9, <1>10

LEMMA PeerInv ==
  ASSUME PInv, NEW c \in Conn, peer_acts(c)
  PROVE  PInv'
<1> USE DEF PInv
<1>1. PICK what \in {"spoke", "left"} :
        /\ conn[c].peer # "left" /\ conn[c].peer # what
        /\ conn' = [conn EXCEPT ![c].peer = what]
  BY DEF peer_acts
<1>2. UNCHANGED <<wpc, sk, backlog, newfd, denied>> /\ UNCHANGED vars
  BY DEF peer_acts
<1>3. PType' /\ Forced' /\ Attached'
  <2>1. conn' \in [Conn -> Connection]
    BY <1>1, PeerSet DEF PType
  <2>2. PType'
    BY <1>2, <2>1 DEF PType, vars
  <2>3. Forced' /\ Attached'
    BY <1>2 DEF Forced, Attached, vars
  <2> QED BY <2>2, <2>3
<1>4. /\ \A d \in Conn \ {c} : conn'[d] = conn[d]
      /\ conn'[c].state = conn[c].state /\ conn'[c].answered = conn[c].answered
      /\ conn[c].peer # "left"
  BY <1>1 DEF PType
<1>5. Answered'
  <2>1. \A v \in Worker : newfd[v] # NoConn => newfd[v] \in Conn
    BY ConnTypes
  <2> QED BY <1>2, <1>4, <2>1 DEF Answered
<1> QED BY <1>2, <1>3, <1>4, <1>5, ChangeInv

\* close gives the descriptor back, if there is one.
LEMMA CloseInv ==
  ASSUME PInv, NEW w \in Worker, worker_close(w)
  PROVE  PInv'
<1> USE DEF At, PInv
<1> DEFINE c == newfd[w]
           shut(d) == [conn[d] EXCEPT !.state = "closed"]
<1>1. /\ wpc[w] = "close" /\ wpc' = [wpc EXCEPT ![w] = "accept"]
      /\ conn' = [d \in Conn |-> IF d = c THEN shut(d) ELSE conn[d]]
      /\ newfd' = [newfd EXCEPT ![w] = NoConn]
      /\ UNCHANGED <<sk, backlog, denied>> /\ UNCHANGED vars
  BY DEF worker_close
<1>2. /\ c \in Conn \cup {NoConn}
      /\ c # NoConn => /\ conn[c].state = "open"
                       /\ conn[c].answered \/ conn[c].peer = "left"
      /\ \A v \in Worker \ {w} : newfd[v] # NoConn => newfd[v] # c
  BY <1>1, ConnTypes DEF Served, Answered
<1>3. \A d \in Conn : /\ shut(d) \in Connection
                     /\ shut(d).state = "closed" /\ shut(d).peer = conn[d].peer
                     /\ shut(d).answered = conn[d].answered
  BY DEF PType, Connection
<1>4. conn \in [Conn -> Connection] /\ newfd[w] = c
  BY DEF PType
<1> HIDE DEF c, shut
<1>5. PType'
  <2>1. conn' \in [Conn -> Connection]
    BY <1>1, <1>3, <1>4
  <2>2. newfd' \in [Worker -> Conn \cup {NoConn}]
    BY <1>1 DEF PType
  <2>3. wpc' \in [Worker -> {"none", "socket", "force", "bind", "listen", "accept"} \cup Serving]
    BY <1>1 DEF PType, Serving
  <2> QED BY <1>1, <2>1, <2>2, <2>3 DEF PType, vars
<1>6. /\ wpc'[w] = "accept" /\ newfd'[w] = NoConn
      /\ \A v \in Worker \ {w} : wpc'[v] = wpc[v] /\ newfd'[v] = newfd[v]
  BY <1>1 DEF PType
<1>7. /\ \A d \in Conn \ {c} : conn'[d] = conn[d]
      /\ c \in Conn => /\ conn'[c].state = "closed" /\ conn'[c].peer = conn[c].peer
                       /\ conn'[c].answered = conn[c].answered
  BY <1>1, <1>3
<1>8. Forced' /\ Attached'
  BY <1>1, <1>6 DEF Forced, Attached, vars
<1>9. Queues'
  <2>1. \A v \in Worker : \A k \in 1..Len(backlog[v]) : backlog[v][k] \in Conn \ {c}
    BY <1>2, ConnTypes DEF Queues
  <2> QED BY <1>1, <1>7, <2>1 DEF Queues
<1>10. Served'
  <2>1. \A v \in Worker : newfd'[v] # NoConn =>
          v # w /\ newfd'[v] = newfd[v] /\ newfd[v] \in Conn \ {c} /\ wpc'[v] = wpc[v]
    BY <1>2, <1>6, ConnTypes
  <2>2. \A v \in Worker : newfd'[v] # NoConn =>
          wpc'[v] \in Serving /\ conn'[newfd'[v]].state = "open"
    BY <1>7, <2>1 DEF Served
  <2>3. \A d \in Conn : conn'[d].state = "open" => \E v \in Worker : newfd'[v] = d
    <3> SUFFICES ASSUME NEW d \in Conn, conn'[d].state = "open"
                 PROVE  \E v \in Worker : newfd'[v] = d
      OBVIOUS
    <3>1. d # c /\ conn[d].state = "open"
      BY <1>7
    <3>2. PICK v \in Worker : newfd[v] = d
      BY <3>1 DEF Served
    <3> QED BY <1>4, <1>6, <3>1, <3>2
  <2>4. \A u, v \in Worker : newfd'[u] = newfd'[v] /\ newfd'[u] # NoConn => u = v
    BY <2>1 DEF Served
  <2> QED BY <2>2, <2>3, <2>4 DEF Served
<1>11. Answered'
  <2>1. \A v \in Worker : wpc'[v] = "close" /\ newfd'[v] # NoConn =>
          conn'[newfd'[v]].answered \/ conn'[newfd'[v]].peer = "left"
    BY <1>2, <1>6, <1>7, ConnTypes DEF Answered
  <2>2. ASSUME NEW d \in Conn, conn'[d].state = "closed"
        PROVE  conn'[d].answered \/ conn'[d].peer = "left"
    <3>1. CASE d = c
      BY <1>2, <1>7, <3>1, ClientAssumption
    <3>2. CASE d # c
      BY <1>7, <2>2, <3>2 DEF Answered
    <3> QED BY <3>1, <3>2
  <2> QED BY <2>1, <2>2 DEF Answered
<1> QED BY <1>5, <1>8, <1>9, <1>10, <1>11

\* A new connection is on no backlog yet.
LEMMA ConnectInv ==
  ASSUME PInv, NEW c \in Conn, NEW w \in Worker, connect(c, w)
  PROVE  PInv'
<1> USE DEF PInv
<1>1. /\ conn[c].state = "new"
      /\ conn' = [conn EXCEPT ![c].state = "queued"]
      /\ backlog' = [backlog EXCEPT ![w] = Append(@, c)]
      /\ UNCHANGED <<wpc, sk, newfd, denied>> /\ UNCHANGED vars
  BY DEF connect
<1>2. /\ backlog[w] \in Seq(Conn) /\ Len(backlog[w]) \in Nat
      /\ Append(backlog[w], c) \in Seq(Conn)
      /\ Len(Append(backlog[w], c)) = Len(backlog[w]) + 1
      /\ \A k \in 1..Len(backlog[w]) : Append(backlog[w], c)[k] = backlog[w][k]
      /\ Append(backlog[w], c)[Len(backlog[w]) + 1] = c
  BY AppendProperties DEF PType
<1>3. PType'
  <2>1. conn' \in [Conn -> Connection]
    BY <1>1, StateSet DEF PType
  <2> QED BY <1>1, <1>2, <2>1 DEF PType, vars
<1>4. /\ \A d \in Conn \ {c} : conn'[d] = conn[d]
      /\ conn'[c].state = "queued"
  BY <1>1 DEF PType
<1>5. /\ \A v \in Worker \ {w} : backlog'[v] = backlog[v]
      /\ backlog'[w] = Append(backlog[w], c)
  BY <1>1 DEF PType
<1>6. \A v \in Worker : \A k \in 1..Len(backlog[v]) : backlog[v][k] \in Conn \ {c}
  BY <1>1, ConnTypes DEF Queues
<1>7. Queues'
  \* The last one is c, which was on none; the others were there.
  <2> DEFINE last(v, k) == v = w /\ k = Len(backlog[w]) + 1
  <2>1. ASSUME NEW v \in Worker, NEW k \in 1..Len(backlog'[v])
        PROVE  \/ last(v, k) /\ backlog'[v][k] = c
               \/ /\ k \in 1..Len(backlog[v]) /\ backlog'[v][k] = backlog[v][k]
                  /\ backlog'[v][k] \in Conn \ {c}
    <3>1. CASE v = w
      <4>1. k \in 1 .. Len(backlog[w]) + 1
        BY <1>2, <1>5, <3>1
      <4>2. backlog'[v][k] = Append(backlog[w], c)[k]
        BY <1>5, <3>1
      <4>3. CASE k = Len(backlog[w]) + 1
        BY <1>2, <3>1, <4>2, <4>3
      <4>4. CASE k # Len(backlog[w]) + 1
        <5>1. k \in 1..Len(backlog[w])
          BY <1>2, <4>1, <4>4
        <5> QED BY <1>2, <1>6, <3>1, <4>2, <5>1
      <4> QED BY <4>3, <4>4
    <3>2. CASE v # w
      BY <1>5, <1>6, <3>2
    <3> QED BY <3>1, <3>2
  <2>2. ASSUME NEW v \in Worker, NEW k \in 1..Len(backlog'[v])
        PROVE  conn'[backlog'[v][k]].state = "queued"
    BY <1>4, <2>1 DEF Queues
  <2>3. ASSUME NEW u \in Worker, NEW v \in Worker,
               NEW j \in 1..Len(backlog'[u]), NEW k \in 1..Len(backlog'[v]),
               backlog'[u][j] = backlog'[v][k]
        PROVE  u = v /\ j = k
    <3>1. CASE last(u, j)
      <4>1. backlog'[u][j] = c
        BY <1>2, <1>5, <3>1
      <4> QED BY <2>1, <2>3, <3>1, <4>1
    <3>2. CASE ~last(u, j)
      <4>1. /\ j \in 1..Len(backlog[u]) /\ backlog'[u][j] = backlog[u][j]
            /\ backlog'[u][j] # c
        BY <2>1, <3>2
      <4>2. ~last(v, k)
        BY <1>2, <1>5, <2>3, <4>1
      <4>3. k \in 1..Len(backlog[v]) /\ backlog'[v][k] = backlog[v][k]
        BY <2>1, <4>2
      <4>4. backlog[u][j] = backlog[v][k]
        BY <2>3, <4>1, <4>3
      <4> QED BY <4>1, <4>3, <4>4 DEF Queues
    <3> QED BY <3>1, <3>2
  <2> QED BY <2>2, <2>3 DEF Queues
<1>8. Served'
  BY <1>1, <1>4, ConnTypes DEF Served
<1>9. Answered'
  <2>1. \A v \in Worker : newfd[v] # NoConn => newfd[v] \in Conn \ {c}
    BY <1>1, ConnTypes DEF Served
  <2> QED BY <1>1, <1>4, <2>1 DEF Answered
<1>10. Forced' /\ Attached'
  BY <1>1 DEF Forced, Attached, vars
<1> QED BY <1>3, <1>7, <1>8, <1>9, <1>10

\* A signal leaves no thread and no open connection.
LEMMA InterruptInv ==
  ASSUME PInv, interrupt
  PROVE  PInv'
<1> USE DEF PInv, interrupt
<1>1. pc' \in [Proc -> Label]
  BY ClientAssumption DEF PType, device_release, Label
<1>2. \A c \in Conn :
        /\ conn'[c] \in Connection
        /\ conn'[c].state # "open"
        /\ conn'[c].state = "closed" => conn'[c] = conn[c]
  <2>1. Ended("reset") \in Connection /\ Ended("reset").state = "reset"
    BY EndedType
  <2> QED BY <2>1 DEF PType, Connection
<1>3. conn' \in [Conn -> Connection]
  BY <1>2
<1>4. /\ wpc' \in [Worker -> {"none", "socket", "force", "bind", "listen", "accept"} \cup Serving]
      /\ newfd' \in [Worker -> Conn \cup {NoConn}]
      /\ backlog' \in [Worker -> Seq(Conn)]
      /\ sk' \in [Worker -> Socket]
  BY DEF Socket, NoSocket
<1>5. PType'
  BY <1>1, <1>3, <1>4 DEF PType
<1>6. \A w \in Worker : wpc'[w] = "none" /\ backlog'[w] = <<>> /\ newfd'[w] = NoConn
  OBVIOUS
<1>7. Forced' /\ Queues' /\ Attached'
  BY <1>6 DEF Forced, Queues, Attached
<1>8. Served'
  BY <1>2, <1>6 DEF Served, Serving
<1>9. Answered'
  BY <1>2, <1>6 DEF Answered
<1> QED BY <1>5, <1>7, <1>8, <1>9

LEMMA StutterInv ==
  ASSUME PInv, UNCHANGED allvars
  PROVE  PInv'
BY DEF allvars, svars, vars, PInv, PType, Forced, Queues, Served, Answered, Attached

LEMMA ProgramNext == PInv /\ DInv /\ [PNext]_allvars => PInv'
<1> SUFFICES ASSUME PInv, DInv, [PNext]_allvars PROVE PInv'
  OBVIOUS
<1>1. CASE Device
  BY <1>1, DeviceKeepsClient DEF DInv
<1>2. ASSUME NEW w \in Worker, test_setportreuse(w) \/ worker(w) \/ worker_accept_fails(w)
      PROVE  PInv'
  BY <1>2, ListenInv, AcceptInv, AcceptFailsInv, ReadInv, SendInv, CloseInv DEF worker
<1>3. CASE interrupt
  BY <1>3, InterruptInv
<1>4. ASSUME NEW c \in Conn, peer_acts(c) \/ \E w \in Worker : connect(c, w)
      PROVE  PInv'
  BY <1>4, PeerInv, ConnectInv
<1> QED BY <1>1, <1>2, <1>3, <1>4, StutterInv DEF PNext

LEMMA ProgramAlways == PSpec => []PInv
BY ProgramInit, ProgramNext, DeviceAlways, PTL DEF PSpec

\* No thread is refused the port because of another one: the socket is forced
\* before it is bound.
THEOREM PortIsShared == PSpec => []PortShared
<1>1. PInv => PortShared
  BY DEF PInv, Forced, PortShared
<1> QED BY <1>1, ProgramAlways, PTL

\* No connection is lost: the open ones are those that the threads serve, and
\* a closed one has had its answer.
THEOREM NoConnectionLost == PSpec => []NoDescriptorLost
<1>1. ASSUME PInv, DInv PROVE NoDescriptorLost
  <2> USE <1>1 DEF PInv
  <2>1. {c \in Conn : conn[c].state = "open"} = {newfd[w] : w \in Worker} \ {NoConn}
    BY ConnTypes DEF Served
  <2>2. \A v, w \in Worker : newfd[v] = newfd[w] /\ newfd[v] # NoConn => v = w
    BY DEF Served
  <2>3. \A w \in Worker : wpc[w] # "none" => pc[Client] = "open" /\ loaded
    BY ClientAssumption DEF Attached, DInv, RefCount
  <2>4. \A c \in Conn : conn[c].state = "closed" => conn[c].answered \/ conn[c].peer = "left"
    BY DEF Answered
  <2> QED BY <2>1, <2>2, <2>3, <2>4 DEF NoDescriptorLost
<1> QED BY <1>1, ProgramAlways, DeviceAlways, PTL

=============================================================================
