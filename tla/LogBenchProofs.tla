---------------------------- MODULE LogBenchProofs ----------------------------
(***************************************************************************)
(* For every number of threads and messages: the overflows of a test are   *)
(* all counted, and once past its step in a group a thread keeps to it.    *)
(***************************************************************************)
EXTENDS LogBench, FiniteSetTheorems, TLAPS

Place == {"start", "group", "write", "pause", "lock", "load", "store", "done"}
Mode == {"SYNC", "ASYNC"}

TypeOK ==
  /\ tests \in Seq(Mode \X Thread)
  /\ log_mode \in Mode
  /\ active \in SUBSET Thread
  /\ buff_full_count \in Nat /\ misses \in Nat
  /\ lock \in Thread \cup {0}
  /\ pc \in [Thread -> Place]
  /\ reg \in [Thread -> Nat]
  /\ i \in [Thread -> Nat] /\ j \in [Thread -> Nat]
  /\ step \in [Thread -> Nat]
  /\ sleep_step \in [Thread -> 1..max_num_per_group]
  /\ last_miss_count \in [Thread -> Nat]
  /\ burst \in [Thread -> Nat]

\* The threads that have met an overflow and not counted it yet.
Telling == {t \in Thread : pc[t] \in {"lock", "load", "store"}}

\* The counter lags behind by these threads; who is between the load and the
\* store holds the lock, and what it has loaded is still right.
Counting ==
  /\ \A t \in Thread \ active : pc[t] = "done"
  /\ \A t \in Thread : pc[t] \in {"load", "store"} <=> lock = t
  /\ \A t \in Thread : pc[t] = "store" => reg[t] = buff_full_count
  /\ misses = buff_full_count + Cardinality(Telling)

\* In the first stretch of a group the step counts all of its messages; after a
\* pause it is ahead of the burst.
Bursting(t) ==
  log_mode = "ASYNC" =>
    /\ pc[t] = "write" =>
         step[t] <= sleep_step[t] /\ (step[t] = j[t] \/ burst[t] < step[t])
    /\ pc[t] \in {"pause", "lock", "load", "store"} =>
         step[t] <= sleep_step[t] /\ (step[t] = j[t] \/ burst[t] <= step[t])

IInv ==
  /\ TypeOK
  /\ Counting
  /\ \A t \in Thread : Bursting(t)

-----------------------------------------------------------------------------
(***************************************************************************)
(* What the steps have in common.                                          *)
(***************************************************************************)
LEMMA Numbers ==
  /\ num \in Nat \ {0} /\ thread_num \in Nat \ {0} /\ max_num_per_group \in Nat \ {0}
  /\ Increase \in Nat
  /\ IsFiniteSet(Thread) /\ \A S \in SUBSET Thread : IsFiniteSet(S)
  /\ \A t \in Thread : t # 0
<1>1. IsFiniteSet(Thread)
  BY ArgsAssumption, FS_Interval DEF Thread
<1>2. \A S \in SUBSET Thread : IsFiniteSet(S)
  BY <1>1, FS_Subset
<1>3. \A t \in Thread : t # 0
  BY ArgsAssumption DEF Thread
<1> QED BY <1>1, <1>2, <1>3, ArgsAssumption

\* The counter of one thread is set.
LEMMA SetCount ==
  ASSUME NEW f \in [Thread -> Nat], NEW t \in Thread, NEW n \in Nat
  PROVE  [f EXCEPT ![t] = n] \in [Thread -> Nat] /\ f[t] \in Nat /\ f[t] + 1 \in Nat
OBVIOUS

\* The types that a step of a thread starts from.
LEMMA Types ==
  ASSUME IInv, NEW t \in Thread
  PROVE  /\ tests \in Seq(Mode \X Thread) /\ log_mode \in Mode /\ active \in SUBSET Thread
         /\ buff_full_count \in Nat /\ misses \in Nat /\ lock \in Thread \cup {0}
         /\ reg \in [Thread -> Nat] /\ i \in [Thread -> Nat] /\ j \in [Thread -> Nat]
         /\ step \in [Thread -> Nat] /\ last_miss_count \in [Thread -> Nat]
         /\ burst \in [Thread -> Nat]
         /\ sleep_step \in [Thread -> 1..max_num_per_group]
         /\ pc \in [Thread -> Place]
         /\ \A there \in Place : Goto(t, there) => pc' \in [Thread -> Place]
BY DEF IInv, TypeOK, Goto

\* A thread that goes from a place without an overflow to another.
LEMMA MoveCounts ==
  ASSUME IInv, NEW t \in Thread, NEW there \in Place \ {"lock", "load", "store"},
         pc[t] \notin {"lock", "load", "store", "done"},
         Goto(t, there),
         active' = active, buff_full_count' = buff_full_count, lock' = lock,
         reg' = reg, misses' = misses
  PROVE  Counting'
<1>1. /\ pc' \in [Thread -> Place] /\ pc'[t] = there
      /\ \A u \in Thread \ {t} : pc'[u] = pc[u]
  BY DEF Goto, IInv, TypeOK
<1>2. Telling' = Telling
  BY <1>1 DEF Telling
<1>3. t \in active
  BY DEF IInv, Counting
<1> QED BY <1>1, <1>2, <1>3 DEF IInv, Counting

\* The other threads go on with their bursts.
LEMMA OthersBurst ==
  ASSUME IInv, NEW t \in Thread, Bursting(t)',
         log_mode' = log_mode,
         \A u \in Thread \ {t} : /\ pc'[u] = pc[u] /\ burst'[u] = burst[u]
                                /\ step'[u] = step[u] /\ sleep_step'[u] = sleep_step[u]
                                /\ j'[u] = j[u]
  PROVE  \A u \in Thread : Bursting(u)'
BY DEF IInv, Bursting

LEMMA AdaptedFacts ==
  ASSUME NEW s \in 1..max_num_per_group, NEW diff
  PROVE  Adapted(s, diff) \in 1..max_num_per_group
<1>1. CASE diff > 0
  BY <1>1, Numbers DEF Adapted
<1>2. CASE ~(diff > 0)
  BY <1>2, Numbers DEF Adapted
<1> QED BY <1>1, <1>2

-----------------------------------------------------------------------------
(***************************************************************************)
(* The steps of write_log.                                                 *)
(***************************************************************************)
LEMMA StartInv ==
  ASSUME IInv, NEW t \in Thread, write_log_start(t) \/ write_log_group(t) \/ write_log_end(t)
  PROVE  IInv'
<1>1. CASE write_log_start(t)
  <2>1. TypeOK'
    <3>1. /\ last_miss_count' \in [Thread -> Nat] /\ i' \in [Thread -> Nat]
          /\ burst' \in [Thread -> Nat] /\ pc' \in [Thread -> Place]
      BY <1>1, Types, SetCount DEF write_log_start, Place
    <3>2. sleep_step' \in [Thread -> 1..max_num_per_group]
      BY <1>1, Types, Numbers DEF write_log_start
    <3> QED BY <1>1, <3>1, <3>2 DEF write_log_start, run, IInv, TypeOK
  <2>2. Counting'
    BY <1>1, MoveCounts DEF write_log_start, run, Place
  <2>3. Bursting(t)'
    BY <1>1 DEF write_log_start, Goto, IInv, TypeOK, Bursting
  <2> QED BY <1>1, <2>1, <2>2, <2>3, OthersBurst
          DEF write_log_start, run, Goto, IInv, TypeOK
<1>2. CASE write_log_group(t)
  <2>1. TypeOK'
    BY <1>2, Numbers DEF write_log_group, run, Goto, Place, IInv, TypeOK
  <2>2. Counting'
    BY <1>2, MoveCounts DEF write_log_group, run, Place
  <2>3. Bursting(t)'
    BY <1>2, Numbers DEF write_log_group, Goto, IInv, TypeOK, Bursting
  <2> QED BY <1>2, <2>1, <2>2, <2>3, OthersBurst
          DEF write_log_group, run, Goto, IInv, TypeOK
<1>3. CASE write_log_end(t)
  <2>1. TypeOK'
    BY <1>3 DEF write_log_end, run, locals, Goto, Place, IInv, TypeOK
  <2>2. Counting'
    BY <1>3, MoveCounts DEF write_log_end, run, locals, Place
  <2>3. Bursting(t)'
    BY <1>3 DEF write_log_end, locals, Goto, IInv, TypeOK, Bursting
  <2> QED BY <1>3, <2>1, <2>2, <2>3, OthersBurst
          DEF write_log_end, run, locals, Goto, IInv, TypeOK
<1> QED BY <1>1, <1>2, <1>3

LEMMA MessageInv ==
  ASSUME IInv, NEW t \in Thread, FLOG_DEBUG(t)
  PROVE  IInv'
<1>1. /\ pc[t] = "write"
      /\ burst' = [burst EXCEPT ![t] = @ + 1]
      /\ UNCHANGED <<tests, log_mode, active, buff_full_count, lock, reg, i, j, step,
                     sleep_step, last_miss_count>>
  BY DEF FLOG_DEBUG, run
<1>2. \/ Goto(t, "pause") /\ misses' = misses
      \/ Goto(t, "lock") /\ misses' = misses + 1
  BY DEF FLOG_DEBUG
<1>3. TypeOK'
  <2>1. burst' \in [Thread -> Nat]
    BY <1>1, Types, SetCount
  <2>2. pc' \in [Thread -> Place] /\ misses' \in Nat
    BY <1>2, Types DEF Place
  <2> QED BY <1>1, <2>1, <2>2 DEF IInv, TypeOK
<1>4. /\ pc'[t] \in {"pause", "lock"}
      /\ \A u \in Thread \ {t} : pc'[u] = pc[u]
  BY <1>2 DEF Goto, IInv, TypeOK
<1>5. Bursting(t)'
  <2>1. burst'[t] = burst[t] + 1 /\ step' = step /\ sleep_step' = sleep_step
    BY <1>1, Types
  <2>2. burst[t] \in Nat /\ step[t] \in Nat /\ j' = j
    BY <1>1, Types
  <2>3. log_mode = "ASYNC" =>
          step[t] <= sleep_step[t] /\ (step[t] = j[t] \/ burst[t] < step[t])
    BY <1>1 DEF IInv, Bursting
  <2> QED BY <1>1, <1>4, <2>1, <2>2, <2>3 DEF Bursting
<1>6. \A u \in Thread : Bursting(u)'
  BY <1>1, <1>4, <1>5, OthersBurst DEF IInv, TypeOK
<1>7. Counting'
  <2>1. CASE Goto(t, "pause") /\ misses' = misses
    BY <1>1, <2>1, MoveCounts DEF Place
  <2>2. CASE Goto(t, "lock") /\ misses' = misses + 1
    <3>1. pc'[t] = "lock" /\ t \in active
      BY <1>1, <2>2 DEF Goto, IInv, TypeOK, Counting
    <3>2. Telling' = Telling \cup {t} /\ t \notin Telling
      BY <1>1, <1>4, <3>1 DEF Telling
    <3>3. Cardinality(Telling') = Cardinality(Telling) + 1 /\ Cardinality(Telling) \in Nat
      <4>1. IsFiniteSet(Telling)
        BY Numbers DEF Telling
      <4> QED BY <3>2, <4>1, FS_AddElement, FS_CardinalityType
    <3>4. misses' = buff_full_count' + Cardinality(Telling')
      BY <1>1, <2>2, <3>3 DEF IInv, TypeOK, Counting
    <3>5. /\ \A u \in Thread \ active' : pc'[u] = "done"
          /\ \A u \in Thread : pc'[u] \in {"load", "store"} <=> lock' = u
          /\ \A u \in Thread : pc'[u] = "store" => reg'[u] = buff_full_count'
      BY <1>1, <1>4, <3>1 DEF IInv, Counting
    <3> QED BY <3>4, <3>5 DEF Counting
  <2> QED BY <1>2, <2>1, <2>2
<1> QED BY <1>3, <1>6, <1>7 DEF IInv

\* get_log_event, from the lock to the store.
LEMMA EventInv ==
  ASSUME IInv, NEW t \in Thread,
         get_log_event_lock(t) \/ get_log_event_load(t) \/ get_log_event_store(t)
  PROVE  IInv'
<1> DEFINE Rest == UNCHANGED <<tests, log_mode, active, i, j, step, sleep_step,
                              last_miss_count, misses, burst>>
<1>1. Rest
  BY DEF get_log_event_lock, get_log_event_load, get_log_event_store, run, locals
<1>2. TypeOK'
  <2>1. CASE get_log_event_lock(t)
    BY <2>1 DEF get_log_event_lock, run, locals, Goto, Place, IInv, TypeOK
  <2>2. CASE get_log_event_load(t)
    BY <2>2 DEF get_log_event_load, run, locals, Goto, Place, IInv, TypeOK
  <2>3. CASE get_log_event_store(t)
    <3>1. buff_full_count' \in Nat
      BY <2>3, Types, SetCount DEF get_log_event_store
    <3>2. pc' \in [Thread -> Place]
      BY <2>3, Types DEF get_log_event_store, Place
    <3> QED BY <2>3, <3>1, <3>2 DEF get_log_event_store, run, locals, IInv, TypeOK
  <2> QED BY <2>1, <2>2, <2>3
<1>3. /\ pc[t] \in {"lock", "load", "store"}
      /\ pc'[t] \in {"load", "store", "pause"}
      /\ \A u \in Thread \ {t} : pc'[u] = pc[u]
  BY DEF get_log_event_lock, get_log_event_load, get_log_event_store, Goto, IInv, TypeOK
<1>4. \A u \in Thread : Bursting(u)'
  <2>1. Bursting(t)'
    BY <1>1, <1>3 DEF IInv, TypeOK, Bursting
  <2> QED BY <1>1, <1>3, <2>1, OthersBurst
<1>5. t \in active
  BY <1>3 DEF IInv, Counting
<1>6. Counting'
  <2>1. CASE get_log_event_lock(t)
    <3>1. /\ pc[t] = "lock" /\ pc'[t] = "load" /\ lock = 0 /\ lock' = t
          /\ buff_full_count' = buff_full_count /\ reg' = reg
      BY <2>1 DEF get_log_event_lock, Goto, IInv, TypeOK
    <3>2. Telling' = Telling
      BY <1>3, <3>1 DEF Telling
    <3> QED BY <1>1, <1>3, <1>5, <3>1, <3>2, Numbers DEF IInv, Counting
  <2>2. CASE get_log_event_load(t)
    <3>1. /\ pc[t] = "load" /\ pc'[t] = "store" /\ lock' = lock
          /\ buff_full_count' = buff_full_count
          /\ reg'[t] = buff_full_count /\ \A u \in Thread \ {t} : reg'[u] = reg[u]
      BY <2>2 DEF get_log_event_load, Goto, IInv, TypeOK
    <3>2. Telling' = Telling
      BY <1>3, <3>1 DEF Telling
    <3> QED BY <1>1, <1>3, <1>5, <3>1, <3>2 DEF IInv, Counting
  <2>3. CASE get_log_event_store(t)
    <3>1. /\ pc[t] = "store" /\ pc'[t] = "pause" /\ lock' = 0 /\ reg' = reg
          /\ buff_full_count' = reg[t] + 1
      BY <2>3 DEF get_log_event_store, Goto, IInv, TypeOK
    <3>2. /\ lock = t /\ buff_full_count' = buff_full_count + 1
      BY <3>1 DEF IInv, Counting
    <3>3. Telling' = Telling \ {t} /\ t \in Telling
      BY <1>3, <3>1 DEF Telling
    <3>4. Cardinality(Telling') = Cardinality(Telling) - 1 /\ Cardinality(Telling) \in Nat
      <4>1. IsFiniteSet(Telling)
        BY Numbers DEF Telling
      <4> QED BY <3>3, <4>1, FS_RemoveElement, FS_CardinalityType
    <3>5. misses' = buff_full_count' + Cardinality(Telling')
      BY <1>1, <3>2, <3>4 DEF IInv, TypeOK, Counting
    <3>6. \A u \in Thread : pc'[u] \notin {"load", "store"} /\ lock' # u
      BY <1>3, <3>1, <3>2, Numbers DEF IInv, Counting
    <3> QED BY <1>1, <1>3, <1>5, <3>5, <3>6 DEF IInv, Counting
  <2> QED BY <2>1, <2>2, <2>3
<1> QED BY <1>2, <1>4, <1>6 DEF IInv

LEMMA PauseInv ==
  ASSUME IInv, NEW t \in Thread, usleep(t)
  PROVE  IInv'
<1>1. TypeOK'
  <2>1. /\ burst' \in [Thread -> Nat] /\ step' \in [Thread -> Nat]
        /\ j' \in [Thread -> Nat]
    <3>1. /\ burst' = [burst EXCEPT ![t] = IF Pauses(t) THEN 0 ELSE burst[t]]
          /\ step' = [step EXCEPT ![t] = IF Pauses(t) THEN 1 ELSE step[t] + 1]
          /\ j' = [j EXCEPT ![t] = j[t] + 1]
      BY DEF usleep
    <3>2. /\ (IF Pauses(t) THEN 0 ELSE burst[t]) \in Nat
          /\ (IF Pauses(t) THEN 1 ELSE step[t] + 1) \in Nat
          /\ j[t] + 1 \in Nat
      BY Types, SetCount
    <3> QED BY <3>1, <3>2, Types, SetCount
  <2>2. pc' \in [Thread -> Place]
    BY Types DEF usleep, Place
  <2> QED BY <2>1, <2>2 DEF usleep, run, IInv, TypeOK
<1>2. Counting'
  BY MoveCounts DEF usleep, run, Place
<1>3. Bursting(t)'
  <2>1. /\ pc[t] = "pause" /\ pc'[t] = "write" /\ log_mode' = log_mode
        /\ step'[t] = IF Pauses(t) THEN 1 ELSE step[t] + 1
        /\ burst'[t] = IF Pauses(t) THEN 0 ELSE burst[t]
        /\ sleep_step'[t] = sleep_step[t] /\ j'[t] = j[t] + 1
    BY DEF usleep, run, Goto, IInv, TypeOK
  <2>2. step[t] \in Nat /\ j[t] \in Nat /\ burst[t] \in Nat /\ sleep_step[t] \in Nat /\ 1 <= sleep_step[t]
    BY Numbers DEF IInv, TypeOK
  <2>3. log_mode = "ASYNC" =>
          step[t] <= sleep_step[t] /\ (step[t] = j[t] \/ burst[t] <= step[t])
    BY <2>1 DEF IInv, Bursting
  <2> QED BY <2>1, <2>2, <2>3 DEF Pauses, Bursting
<1> QED BY <1>1, <1>2, <1>3, OthersBurst DEF usleep, run, Goto, IInv, TypeOK

LEMMA AdaptInv ==
  ASSUME IInv, NEW t \in Thread, adapt(t)
  PROVE  IInv'
<1>1. TypeOK'
  <2>1. sleep_step' \in [Thread -> 1..max_num_per_group]
    BY AdaptedFacts DEF adapt, IInv, TypeOK
  <2>2. i' = [i EXCEPT ![t] = i[t] + 1] /\ Goto(t, "group")
    BY DEF adapt
  <2>3. /\ i' \in [Thread -> Nat]
        /\ pc' \in [Thread -> Place]
    BY <2>2, Types, SetCount DEF Place
  <2> QED BY <2>1, <2>3 DEF adapt, run, IInv, TypeOK
<1>2. Counting'
  BY MoveCounts DEF adapt, run, Place
<1>3. Bursting(t)'
  BY DEF adapt, Goto, IInv, TypeOK, Bursting
<1> QED BY <1>1, <1>2, <1>3, OthersBurst DEF adapt, run, Goto, IInv, TypeOK

-----------------------------------------------------------------------------
\* The next test starts when no thread runs, so it counts from zero.
LEMMA TestInv ==
  ASSUME IInv, do_test
  PROVE  IInv'
<1>1. \A t \in Thread : pc[t] = "done"
  BY DEF do_test, IInv, Counting
<1>2. \A t \in Thread : pc'[t] \in {"start", "done"} /\ (t \notin active' => pc'[t] = "done")
  BY DEF do_test
<1>3. TypeOK'
  <2>1. tests # <<>> /\ tests \in Seq(Mode \X Thread)
    BY DEF do_test, IInv, TypeOK
  <2>2. Head(tests) \in Mode \X Thread /\ Tail(tests) \in Seq(Mode \X Thread)
    BY <2>1
  <2>3. Head(tests)[1] \in Mode /\ Head(tests)[2] \in Thread
    BY <2>2
  <2>4. active' \in SUBSET Thread
    BY <2>3, Numbers DEF do_test, Thread
  <2> QED BY <2>2, <2>3, <2>4 DEF do_test, Place, IInv, TypeOK
<1>4. Counting'
  <2>1. Telling' = {}
    BY <1>2 DEF Telling
  <2>2. \A t \in Thread : lock # t
    BY <1>1 DEF IInv, Counting
  <2> QED BY <1>2, <2>1, <2>2, FS_EmptySet DEF do_test, Counting
<1>5. ASSUME NEW t \in Thread
      PROVE  Bursting(t)'
  BY <1>1, <1>2 DEF do_test, IInv, Bursting
<1> QED BY <1>3, <1>4, <1>5 DEF IInv

LEMMA NextInv == IInv /\ [Next]_vars => IInv'
<1> SUFFICES ASSUME IInv, [Next]_vars PROVE IInv'
  OBVIOUS
<1>1. CASE do_test
  BY <1>1, TestInv
<1>2. ASSUME NEW t \in Thread, write_log(t)
      PROVE  IInv'
  BY <1>2, StartInv, MessageInv, EventInv, PauseInv, AdaptInv DEF write_log
<1>3. CASE UNCHANGED vars
  BY <1>3 DEF vars, IInv, TypeOK, Counting, Telling, Bursting
<1> QED BY <1>1, <1>2, <1>3 DEF Next, Finished

LEMMA AlwaysIInv == Spec => []IInv
<1>1. Init => IInv
  <2> SUFFICES ASSUME Init PROVE IInv
    OBVIOUS
  <2>1. Tests \in Seq(Mode \X Thread)
    <3>1. {SingleSync, MultiSync, SingleAsync, MultiAsync} \subseteq Mode \X Thread
      BY Numbers DEF SingleSync, MultiSync, SingleAsync, MultiAsync, Mode, Thread
    <3>2. mode \in 0..4
      BY ArgsAssumption
    <3> DEFINE S == Mode \X Thread
    <3> HIDE DEF S
    <3>3. /\ <<SingleSync>> \in Seq(S) /\ <<MultiSync>> \in Seq(S)
          /\ <<SingleAsync>> \in Seq(S) /\ <<MultiAsync>> \in Seq(S)
          /\ <<SingleSync, MultiSync, SingleAsync, MultiAsync>> \in Seq(S)
      <4>1. {SingleSync, MultiSync, SingleAsync, MultiAsync} \subseteq S
        BY <3>1 DEF S
      <4> QED BY <4>1
    <3>4. \/ Tests = <<SingleSync>> \/ Tests = <<MultiSync>>
          \/ Tests = <<SingleAsync>> \/ Tests = <<MultiAsync>>
          \/ Tests = <<SingleSync, MultiSync, SingleAsync, MultiAsync>>
      <4>1. mode = 0 \/ mode = 1 \/ mode = 2 \/ mode = 3 \/ mode = 4
        BY <3>2
      <4> QED BY <4>1 DEF Tests
    <3>5. Tests \in Seq(S)
      BY <3>3, <3>4
    <3> QED BY <3>5 DEF S
  <2>2. TypeOK
    BY <2>1, Numbers DEF Init, TypeOK, Mode, Place
  <2>3. Telling = {}
    BY DEF Init, Telling
  <2>4. Counting
    BY <2>3, FS_EmptySet, Numbers DEF Init, Counting
  <2>5. \A t \in Thread : Bursting(t)
    BY DEF Init, Bursting
  <2> QED BY <2>2, <2>4, <2>5 DEF IInv
<1> QED BY <1>1, NextInv, PTL DEF Spec

\* miss_msg is right for any number of threads: no increment is lost.
THEOREM NoMissLost == Spec => []MissesCounted
<1>1. ASSUME IInv PROVE MissesCounted
  <2>1. ASSUME \A t \in active : pc[t] = "done"
        PROVE  buff_full_count = misses
    <3>1. Telling = {}
      BY <1>1, <2>1 DEF IInv, Counting, Telling
    <3> QED BY <1>1, <3>1, FS_EmptySet DEF IInv, TypeOK, Counting
  <2> QED BY <2>1 DEF MissesCounted
<1> QED BY <1>1, AlwaysIInv, PTL

\* From its step on into a group, a thread is never more than its step beyond
\* its last pause, whatever step it has adapted to.
THEOREM BurstsAreBounded == Spec => []BurstsBounded
<1>1. ASSUME IInv PROVE BurstsBounded
  <2>1. ASSUME log_mode = "ASYNC", NEW t \in active
        PROVE  /\ sleep_step[t] \in 1..max_num_per_group
               /\ InGroup(t) /\ j[t] > sleep_step[t] => burst[t] <= sleep_step[t]
    <3>1. /\ t \in Thread /\ Bursting(t)
          /\ step[t] \in Nat /\ burst[t] \in Nat /\ j[t] \in Nat
          /\ sleep_step[t] \in 1..max_num_per_group
      BY <1>1, <2>1 DEF IInv, TypeOK
    <3>2. sleep_step[t] \in Nat
      BY <3>1, Numbers
    <3> QED BY <2>1, <3>1, <3>2 DEF Bursting, InGroup
  <2> QED BY <2>1 DEF BurstsBounded
<1> QED BY <1>1, AlwaysIInv, PTL

=============================================================================
