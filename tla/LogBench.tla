------------------------------ MODULE LogBench ------------------------------
(***************************************************************************)
(* The logging benchmark of src/log/main.c: a series of tests, each with   *)
(* its writing threads, which slow down when the log's buffer overflows.   *)
(* The log itself is a library: a write in asynchronous mode may find the  *)
(* buffer full and then calls get_log_event back in the writing thread.    *)
(***************************************************************************)
EXTENDS Integers, Sequences, FiniteSets

CONSTANTS
  num, thread_num, mode,  \* the arguments of main
  max_num_per_group,      \* 5000 in the code
  Increase,               \* 250 in the code
  MaxMisses               \* bound: overflows in one test

\* What main lets through.
ASSUME ArgsAssumption ==
  /\ num \in Nat \ {0} /\ thread_num \in Nat \ {0} /\ mode \in 0..4
  /\ max_num_per_group \in Nat \ {0} /\ Increase \in Nat /\ MaxMisses \in Nat

Thread == 1..thread_num

VARIABLES
  tests,            \* the tests still to be made: <<log mode, threads>>
  log_mode,
  active,           \* the threads of the test that runs
  buff_full_count, lock,
  pc, reg,          \* per thread: where it is, what it has loaded
  i, j, step, sleep_step, last_miss_count,
  misses,           \* history: overflows in this test
  burst             \* history: messages since it has started or last paused

vars == <<tests, log_mode, active, buff_full_count, lock, pc, reg, i, j, step,
          sleep_step, last_miss_count, misses, burst>>

locals == <<i, j, step, sleep_step, last_miss_count, misses, burst>>
run == <<tests, log_mode, active>>

SingleSync  == <<"SYNC", 1>>
MultiSync   == <<"SYNC", thread_num>>
SingleAsync == <<"ASYNC", 1>>
MultiAsync  == <<"ASYNC", thread_num>>

Tests ==
  CASE mode = 0 -> <<SingleSync>>
    [] mode = 1 -> <<MultiSync>>
    [] mode = 2 -> <<SingleAsync>>
    [] mode = 3 -> <<MultiAsync>>
    [] mode = 4 -> <<SingleSync, MultiSync, SingleAsync, MultiAsync>>

\* The share of one thread, and the full groups that it makes of it.
Share == num \div Cardinality(active)
group == Share \div max_num_per_group

Init ==
  /\ tests = Tests /\ log_mode = "SYNC" /\ active = {}
  /\ buff_full_count = 0 /\ lock = 0
  /\ pc = [t \in Thread |-> "done"] /\ reg = [t \in Thread |-> 0]
  /\ i = [t \in Thread |-> 0] /\ j = [t \in Thread |-> 0]
  /\ step = [t \in Thread |-> 0]
  /\ sleep_step = [t \in Thread |-> max_num_per_group]
  /\ last_miss_count = [t \in Thread |-> 0]
  /\ misses = 0
  /\ burst = [t \in Thread |-> 0]

Goto(t, label) == pc' = [pc EXCEPT ![t] = label]

\* All threads of the last test are joined, the next test starts its own.
do_test ==
  /\ \A t \in active : pc[t] = "done"
  /\ tests # <<>>
  /\ tests' = Tail(tests)
  /\ log_mode' = Head(tests)[1]
  /\ active' = 1..Head(tests)[2]
  /\ buff_full_count' = 0
  /\ pc' = [t \in Thread |-> IF t \in active' THEN "start" ELSE "done"]
  /\ misses' = 0
  /\ UNCHANGED <<lock, reg, i, j, step, sleep_step, last_miss_count, burst>>

(***************************************************************************)
(* write_log.                                                              *)
(***************************************************************************)
write_log_start(t) ==
  /\ pc[t] = "start"
  /\ last_miss_count' = [last_miss_count EXCEPT ![t] = buff_full_count]
  /\ sleep_step' = [sleep_step EXCEPT ![t] = max_num_per_group]
  /\ i' = [i EXCEPT ![t] = 0]
  /\ burst' = [burst EXCEPT ![t] = 0]
  /\ Goto(t, "group")
  /\ UNCHANGED <<run, buff_full_count, lock, reg, j, step, misses>>

write_log_group(t) ==
  /\ pc[t] = "group" /\ i[t] < group
  /\ last_miss_count' = IF log_mode = "ASYNC"
                        THEN [last_miss_count EXCEPT ![t] = buff_full_count]
                        ELSE last_miss_count
  /\ step' = [step EXCEPT ![t] = 0] /\ j' = [j EXCEPT ![t] = 0]
  /\ Goto(t, "write")
  /\ UNCHANGED <<run, buff_full_count, lock, reg, i, sleep_step, misses, burst>>

write_log_end(t) ==
  /\ pc[t] = "group" /\ i[t] >= group
  /\ Goto(t, "done")
  /\ UNCHANGED <<run, buff_full_count, lock, reg, locals>>

\* One message; the buffer may turn out to be full.
FLOG_DEBUG(t) ==
  /\ pc[t] = "write" /\ j[t] < max_num_per_group
  /\ burst' = [burst EXCEPT ![t] = @ + 1]
  /\ \/ Goto(t, "pause") /\ UNCHANGED misses
     \/ /\ log_mode = "ASYNC" /\ misses < MaxMisses
        /\ misses' = misses + 1
        /\ Goto(t, "lock")
  /\ UNCHANGED <<run, buff_full_count, lock, reg, i, j, step, sleep_step, last_miss_count>>

\* Mutant: the counter is not protected.
get_log_event_lock_none(t) ==
  /\ pc[t] = "lock"
  /\ lock' = t
  /\ Goto(t, "load")
  /\ UNCHANGED <<run, buff_full_count, reg, locals>>

get_log_event_lock(t) ==
  /\ pc[t] = "lock" /\ lock = 0
  /\ lock' = t
  /\ Goto(t, "load")
  /\ UNCHANGED <<run, buff_full_count, reg, locals>>

get_log_event_load(t) ==
  /\ pc[t] = "load"
  /\ reg' = [reg EXCEPT ![t] = buff_full_count]
  /\ Goto(t, "store")
  /\ UNCHANGED <<run, buff_full_count, lock, locals>>

get_log_event_store(t) ==
  /\ pc[t] = "store"
  /\ buff_full_count' = reg[t] + 1
  /\ lock' = 0
  /\ Goto(t, "pause")
  /\ UNCHANGED <<run, reg, locals>>

\* Mutant: the thread pauses only when it is past its step.
Pauses_late(t) == log_mode = "ASYNC" /\ step[t] > sleep_step[t] + 1

\* After a message: sleep if it is time, and the loop's ++j, ++step.
Pauses(t) == log_mode = "ASYNC" /\ step[t] = sleep_step[t]

\* Mutant: a pause starts the count of the group again, with that of the step.
usleep_restarts(t) ==
  /\ pc[t] = "pause"
  /\ step' = [step EXCEPT ![t] = IF Pauses(t) THEN 1 ELSE @ + 1]
  /\ burst' = [burst EXCEPT ![t] = IF Pauses(t) THEN 0 ELSE @]
  /\ j' = [j EXCEPT ![t] = IF Pauses(t) THEN 1 ELSE @ + 1]
  /\ Goto(t, "write")
  /\ UNCHANGED <<run, buff_full_count, lock, reg, i, sleep_step, last_miss_count, misses>>

usleep(t) ==
  /\ pc[t] = "pause"
  /\ step' = [step EXCEPT ![t] = IF Pauses(t) THEN 1 ELSE @ + 1]
  /\ burst' = [burst EXCEPT ![t] = IF Pauses(t) THEN 0 ELSE @]
  /\ j' = [j EXCEPT ![t] = @ + 1]
  /\ Goto(t, "write")
  /\ UNCHANGED <<run, buff_full_count, lock, reg, i, sleep_step, last_miss_count, misses>>

\* Half the step after an overflow, a longer one otherwise.
Adapted(s, diff) ==
  IF diff > 0 THEN IF s \div 2 = 0 THEN 1 ELSE s \div 2
  ELSE IF s + Increase > max_num_per_group THEN max_num_per_group ELSE s + Increase

\* The end of a group.
adapt(t) ==
  /\ pc[t] = "write" /\ j[t] >= max_num_per_group
  /\ sleep_step' = IF log_mode = "ASYNC"
                   THEN [sleep_step EXCEPT ![t] =
                           Adapted(@, buff_full_count - last_miss_count[t])]
                   ELSE sleep_step
  /\ i' = [i EXCEPT ![t] = @ + 1]
  /\ Goto(t, "group")
  /\ UNCHANGED <<run, buff_full_count, lock, reg, j, step, last_miss_count, misses, burst>>

write_log(t) ==
  \/ write_log_start(t) \/ write_log_group(t) \/ write_log_end(t)
  \/ FLOG_DEBUG(t)
  \/ get_log_event_lock(t) \/ get_log_event_load(t) \/ get_log_event_store(t)
  \/ usleep(t) \/ adapt(t)

InGroup(t) == pc[t] \in {"write", "lock", "load", "store", "pause"}

AllJoined == tests = <<>> /\ \A t \in active : pc[t] = "done"

\* main returns.
Finished == AllJoined /\ UNCHANGED vars

Next == do_test \/ (\E t \in Thread : write_log(t)) \/ Finished

Spec == Init /\ [][Next]_vars

\* The scheduler runs every thread that can run; a thread that waits for the
\* lock gets it when it is free.
FairSpec ==
  /\ Spec
  /\ WF_vars(do_test)
  /\ \A t \in Thread : WF_vars(write_log(t))
-----------------------------------------------------------------------------
(***************************************************************************)
(* Properties.                                                             *)
(***************************************************************************)

\* The step adapts between one message and a whole group; and from its step on
\* into a group, a thread is never more than its step beyond its last pause.
\* (Up to there it may come from any number of groups without a pause: a step of
\* a whole group means none.)
BurstsBounded ==
  log_mode = "ASYNC" =>
    \A t \in active :
      /\ sleep_step[t] \in 1..max_num_per_group
      /\ InGroup(t) /\ j[t] > sleep_step[t] => burst[t] <= sleep_step[t]

\* When the threads of a test are joined, miss_msg is the number of times the
\* buffer was full in that test: no increment is lost between the threads.
MissesCounted ==
  active # {} /\ (\A t \in active : pc[t] = "done") => buff_full_count = misses

\* The benchmark comes to its end.
Terminates == <>AllJoined

=============================================================================
