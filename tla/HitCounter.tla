----------------------------- MODULE HitCounter -----------------------------
(***************************************************************************)
(* The page of src/docker_mon/app.py that counts its visits in redis.  The *)
(* connection to redis may fail before a request arrives, after it has     *)
(* been served or while redis has yet to take it, and get_hit_count cannot *)
(* tell which: it asks again.                                              *)
(***************************************************************************)
EXTENDS Integers, FiniteSets

CONSTANTS
  Visit,      \* the visits, each a run of hello
  Retries     \* how often get_hit_count asks again, 5 in the code

ASSUME RetriesAssumption == Retries \in Nat

VARIABLES
  hits,       \* the number that redis keeps
  at,         \* where each visit is: "start", "ask", "asked", "served",
              \* "sleep", "shown" or "failed"
  retries,    \* get_hit_count's local
  count,      \* what incr returned to it
  late,       \* its earlier requests that redis has yet to take
  applied,    \* history: how often redis has counted the visit
  base        \* history: the largest number shown when the visit began

vars == <<hits, at, retries, count, late, applied, base>>

Init ==
  /\ hits = 0
  /\ at = [v \in Visit |-> "start"]
  /\ retries = [v \in Visit |-> Retries]
  /\ count = [v \in Visit |-> 0]
  /\ late = [v \in Visit |-> 0]
  /\ applied = [v \in Visit |-> 0]
  /\ base = [v \in Visit |-> 0]

Shown == {v \in Visit : at[v] = "shown"}

LargestShown == IF Shown = {} THEN 0
                ELSE CHOOSE n \in {count[v] : v \in Shown} :
                       \A v \in Shown : count[v] <= n

hello(v) ==
  /\ at[v] = "start"
  /\ at' = [at EXCEPT ![v] = "ask"]
  /\ base' = [base EXCEPT ![v] = LargestShown]
  /\ UNCHANGED <<hits, retries, count, late, applied>>

\* cache.incr sends its request.
incr(v) ==
  /\ at[v] = "ask"
  /\ at' = [at EXCEPT ![v] = "asked"]
  /\ UNCHANGED <<hits, retries, count, late, applied, base>>

\* Mutant: get and set instead of incr, so that two visits that are served at
\* the same time may both write the same number.
redis_incr_torn(v) ==
  /\ at[v] = "asked"
  /\ hits' = IF \E w \in Visit \ {v} : at[w] = "served" THEN hits ELSE hits + 1
  /\ count' = [count EXCEPT ![v] = hits']
  /\ applied' = [applied EXCEPT ![v] = @ + 1]
  /\ at' = [at EXCEPT ![v] = "served"]
  /\ UNCHANGED <<retries, late, base>>

\* redis adds one and answers with the sum.
redis_incr(v) ==
  /\ at[v] = "asked"
  /\ hits' = hits + 1
  /\ count' = [count EXCEPT ![v] = hits + 1]
  /\ applied' = [applied EXCEPT ![v] = @ + 1]
  /\ at' = [at EXCEPT ![v] = "served"]
  /\ UNCHANGED <<retries, late, base>>

get_hit_count_return(v) ==
  /\ at[v] = "served"
  /\ at' = [at EXCEPT ![v] = "shown"]
  /\ UNCHANGED <<hits, retries, count, late, applied, base>>

\* A request that get_hit_count has given up reaches redis after all.
redis_incr_late(v) ==
  /\ late[v] > 0
  /\ hits' = hits + 1
  /\ late' = [late EXCEPT ![v] = @ - 1]
  /\ applied' = [applied EXCEPT ![v] = @ + 1]
  /\ UNCHANGED <<at, retries, count, base>>

\* Mutant: retries is not counted down.
ConnectionError_always(v) ==
  /\ at[v] \in {"asked", "served"} /\ applied[v] <= Retries + 1
  /\ at' = [at EXCEPT ![v] = "sleep"]
  /\ UNCHANGED <<hits, retries, count, late, applied, base>>

\* The request or its answer is lost, or the request is still on its way: the
\* exception ends the visit when no retry is left.
ConnectionError(v) ==
  /\ at[v] \in {"asked", "served"}
  /\ \/ UNCHANGED late
     \/ at[v] = "asked" /\ late' = [late EXCEPT ![v] = @ + 1]
  /\ IF retries[v] = 0
     THEN at' = [at EXCEPT ![v] = "failed"] /\ UNCHANGED retries
     ELSE /\ at' = [at EXCEPT ![v] = "sleep"]
          /\ retries' = [retries EXCEPT ![v] = @ - 1]
  /\ UNCHANGED <<hits, count, applied, base>>

time_sleep(v) ==
  /\ at[v] = "sleep"
  /\ at' = [at EXCEPT ![v] = "ask"]
  /\ UNCHANGED <<hits, retries, count, late, applied, base>>

get_hit_count(v) ==
  \/ incr(v) \/ redis_incr(v) \/ get_hit_count_return(v)
  \/ ConnectionError(v) \/ time_sleep(v)

Next == \E v \in Visit : hello(v) \/ get_hit_count(v) \/ redis_incr_late(v)

\* A visit that has begun goes on: a call returns or times out.
Spec == Init /\ [][Next]_vars /\ \A v \in Visit : WF_vars(get_hit_count(v))
-----------------------------------------------------------------------------
(***************************************************************************)
(* Properties.                                                             *)
(***************************************************************************)

\* No two visitors are shown the same number, however often their increments
\* were repeated; a visitor who comes after another was answered is shown a
\* larger one; and a visit, shown or failed, counts at most once per attempt.
CountsDistinctAndGrow ==
  /\ \A v \in Shown :
       /\ count[v] > base[v]
       /\ \A w \in Shown : count[v] = count[w] => v = w
  /\ \A v \in Visit : applied[v] <= Retries + 1

\* Every visit ends, with a number or with the exception.
VisitsEnd == \A v \in Visit : (at[v] = "ask") ~> (at[v] \in {"shown", "failed"})
=============================================================================
