---------------------------- MODULE SchedModule ----------------------------
(***************************************************************************)
(* The kernel module of src/kernel/sched/sched.c: a task that queues       *)
(* itself again each time it runs, and the cleanup that has to stop it     *)
(* before the module is taken out of memory.                               *)
(*                                                                         *)
(* The delayed work, its timer and the worker thread belong to the kernel  *)
(* and are modelled from how the module uses them.                         *)
(***************************************************************************)
EXTENDS Integers

CONSTANT MaxTicks   \* bound: counts above it are not told apart

ASSUME TicksAssumption == MaxTicks \in Nat

VARIABLES
  loader,       \* where sched_init_module or cleanup_module is, or "loaded", ...
  die,
  TimerIntrpt,
  pending,      \* Task: "no", "timer" (its delay runs) or "queued"
  worker,       \* where intrpt_routine is in the worker thread, or "idle"
  shown,        \* the count last read from /proc/sched
  ticked,       \* history: flips each time intrpt_routine runs
  late          \* history: how often it has run since cancel_delayed_work,
                \* more than twice counting as twice

sched_vars == <<loader, die, TimerIntrpt, pending, worker, shown, ticked, late>>

SchedInit ==
  /\ loader = "init" /\ die = 0 /\ TimerIntrpt = 0
  /\ pending = "no" /\ worker = "idle"
  /\ shown = 0 /\ ticked = FALSE /\ late = 0

queue_delayed_work == pending' = IF pending = "no" THEN "timer" ELSE pending

\* The /proc entry may not be created; then nothing is queued.
sched_init_module ==
  /\ loader = "init"
  /\ \/ loader' = "loaded" /\ queue_delayed_work
     \/ loader' = "failed" /\ UNCHANGED pending
  /\ UNCHANGED <<die, TimerIntrpt, worker, shown, ticked, late>>

\* The kernel: the delay is over; the worker takes the work up.  What happens
\* when the memory of the task is gone is not modelled.
timer_expires ==
  /\ pending = "timer" /\ loader # "unloaded"
  /\ pending' = "queued"
  /\ UNCHANGED <<loader, die, TimerIntrpt, worker, shown, ticked, late>>

worker_takes_work ==
  /\ pending = "queued" /\ worker = "idle"
  /\ pending' = "no" /\ worker' = "count"
  /\ UNCHANGED <<loader, die, TimerIntrpt, shown, ticked, late>>

\* intrpt_routine, in the steps that another processor can get between.
intrpt_routine_count ==
  /\ worker = "count"
  /\ TimerIntrpt' = IF TimerIntrpt < MaxTicks THEN TimerIntrpt + 1 ELSE TimerIntrpt
  /\ worker' = "test"
  /\ ticked' = ~ticked
  /\ late' = IF loader \in {"flush", "destroy"} /\ late < 2 THEN late + 1 ELSE late
  /\ UNCHANGED <<loader, die, pending, shown>>

intrpt_routine_test ==
  /\ worker = "test"
  /\ worker' = IF die = 0 THEN "requeue" ELSE "idle"
  /\ UNCHANGED <<loader, die, TimerIntrpt, pending, shown, ticked, late>>

\* Mutant: the task does not queue itself again.
intrpt_routine_requeue_once ==
  /\ worker = "requeue"
  /\ worker' = "idle"
  /\ UNCHANGED <<loader, die, TimerIntrpt, pending, shown, ticked, late>>

intrpt_routine_requeue ==
  /\ worker = "requeue"
  /\ queue_delayed_work
  /\ worker' = "idle"
  /\ UNCHANGED <<loader, die, TimerIntrpt, shown, ticked, late>>

sched_procfile_read ==
  /\ loader = "loaded"
  /\ shown' = TimerIntrpt
  /\ UNCHANGED <<loader, die, TimerIntrpt, pending, worker, ticked, late>>

\* cleanup_module, in the order of its calls.
remove_proc_entry ==
  /\ loader = "loaded"
  /\ loader' = "die"
  /\ UNCHANGED <<die, TimerIntrpt, pending, worker, shown, ticked, late>>

\* Mutant: the task is not told to stop.
cleanup_die_forgotten ==
  /\ loader = "die"
  /\ loader' = "cancel"
  /\ UNCHANGED <<die, TimerIntrpt, pending, worker, shown, ticked, late>>

cleanup_die ==
  /\ loader = "die"
  /\ die' = 1 /\ loader' = "cancel"
  /\ UNCHANGED <<TimerIntrpt, pending, worker, shown, ticked, late>>

\* Stops a timer that runs; kernels differ in whether work that is queued
\* already is taken back too.
cancel_delayed_work ==
  /\ loader = "cancel"
  /\ \/ pending = "timer" /\ pending' = "no"
     \/ pending = "queued" /\ pending' = "no"
     \/ pending # "timer" /\ UNCHANGED pending
  /\ loader' = "flush"
  /\ UNCHANGED <<die, TimerIntrpt, worker, shown, ticked, late>>

\* Waits for the work that is queued or runs, not for a timer.
flush_workqueue ==
  /\ loader = "flush"
  /\ pending # "queued" /\ worker = "idle"
  /\ loader' = "destroy"
  /\ UNCHANGED <<die, TimerIntrpt, pending, worker, shown, ticked, late>>

\* Drains the queue once more; then the module's memory is given back.
destroy_workqueue ==
  /\ loader = "destroy"
  /\ pending # "queued" /\ worker = "idle"
  /\ loader' = "unloaded"
  /\ UNCHANGED <<die, TimerIntrpt, pending, worker, shown, ticked, late>>

SchedNext ==
  \/ sched_init_module
  \/ timer_expires \/ worker_takes_work
  \/ intrpt_routine_count \/ intrpt_routine_test \/ intrpt_routine_requeue
  \/ sched_procfile_read
  \/ remove_proc_entry \/ cleanup_die \/ cancel_delayed_work
  \/ flush_workqueue \/ destroy_workqueue

SchedSpec == SchedInit /\ [][SchedNext]_sched_vars

(***************************************************************************)
(* Timers expire, the worker thread runs, and cleanup_module, once called, *)
(* goes on; nobody has to unload the module.                               *)
(***************************************************************************)
Fairness ==
  /\ WF_sched_vars(timer_expires) /\ WF_sched_vars(worker_takes_work)
  /\ WF_sched_vars(intrpt_routine_count) /\ WF_sched_vars(intrpt_routine_test)
  /\ WF_sched_vars(intrpt_routine_requeue)
  /\ WF_sched_vars(cleanup_die) /\ WF_sched_vars(cancel_delayed_work)
  /\ WF_sched_vars(flush_workqueue) /\ WF_sched_vars(destroy_workqueue)

FairSpec == SchedSpec /\ Fairness
-----------------------------------------------------------------------------
(***************************************************************************)
(* Properties.                                                             *)
(***************************************************************************)

\* However the task and the cleanup interleave, the task runs at most once
\* more after it has been cancelled: the "one last time" of sched.c:137.
AtMostOneLateRun == late <= 1

\* While the module is loaded its task is run again and again.
KeepsTicking ==
  \A b \in BOOLEAN :
    (loader = "loaded" /\ ticked = b) ~> (loader # "loaded" \/ ticked # b)

\* Unloading comes to an end although the task queues itself again.
CleanupFinishes == (loader = "die") ~> (loader = "unloaded")

\* "otherwise we'll deallocate the memory holding intrpt_routine and Task
\* while work_timer still references them" (sched.c:138-139): nothing
\* refers to the task once the module is unloaded.
NothingRefersToFreedTask == loader = "unloaded" => pending = "no" /\ worker = "idle"
=============================================================================
