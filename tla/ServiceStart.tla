---------------------------- MODULE ServiceStart ----------------------------
(***************************************************************************)
(* How httpd_mock starts (src/httpd_mock/main.c): the command line and the *)
(* configuration file are turned into the service_arg_t, checked, and the  *)
(* process forks its workers.  HttpServer models one worker from there on. *)
(*                                                                         *)
(* The strings of the file are abstracted to the values they stand for;    *)
(* the log file name and the printing of the settings are left out.        *)
(***************************************************************************)
EXTENDS Integers, Sequences, FiniteSets

CONSTANTS
  Port,          \* the values that -p may be given
  Line,          \* the pairs <<key, value>> a configuration file may hold
  MaxLines,      \* bound: the lines of the configuration file
  MaxWorkers,    \* bound: no line asks for more workers
  max_open_files,
  cpu_cores

\* What atoi makes of a port and of a value: of any but the two that are names.
ASSUME LineAssumption ==
  /\ Port \subseteq Int
  /\ \A l \in Line : /\ l[1] \notin {"response_type", "log_level"} => l[2] \in Int
                     /\ l[1] = "workers" => l[2] <= MaxWorkers

\* The limit is cast to an int: without a limit it is below zero.
ASSUME HostAssumption ==
  /\ max_open_files \in Int /\ cpu_cores \in Nat \ {0}
  /\ MaxWorkers \in Nat \ {0} /\ MaxLines \in Nat

Key == {"port", "max_queue_len", "workers", "response_type", "chunk_ratio",
        "min_latency", "max_latency", "min_response_size", "max_response_size",
        "min_chunk_latency", "max_chunk_latency",
        "min_chunk_response_size", "max_chunk_response_size",
        "chunk_blocks", "timeout", "log_level"}

RespType == {"CONTENT", "CHUNKED", "MIX"}
LogLevel == {"TRACE", "DEBUG", "INFO", "WARN", "ERROR", "FATAL"}

\* The first process, and those that it forks, by the turn of the loop.
Parent == MaxWorkers
Proc == 0..MaxWorkers

VARIABLES
  pc,         \* where each process is in main
  args,       \* service_arg_t; a child has the values it was forked with
  i,          \* main's i, of each process
  listening,  \* init_listen has succeeded
  lines,      \* how many lines of the configuration file have been read
  failed      \* history: a fork has failed

vars == <<pc, args, i, listening, lines, failed>>

Default(k) ==
  CASE k = "port" -> 80
    [] k = "max_queue_len" -> 1024
    [] k = "workers" -> 1
    [] k = "response_type" -> "MIX"
    [] k = "chunk_ratio" -> 20
    [] k \in {"min_latency", "min_response_size",
              "min_chunk_latency", "min_chunk_response_size"} -> 100
    [] k \in {"max_latency", "max_response_size",
              "max_chunk_latency", "max_chunk_response_size"} -> 200
    [] k = "chunk_blocks" -> 2
    [] k = "timeout" -> 10000
    [] k = "log_level" -> "INFO"

Defaults == [k \in Key |-> Default(k)]

init_service_args == args' = Defaults

Init ==
  /\ pc = [p \in Proc |-> IF p = Parent THEN "main" ELSE "none"]
  /\ args = Defaults
  /\ i = [p \in Proc |-> 0]
  /\ listening = FALSE /\ lines = 0 /\ failed = FALSE

Goto(p, label) == pc' = [pc EXCEPT ![p] = label]

\* Without arguments, or with an option it does not know, main prints its
\* usage and exits.
usage ==
  /\ pc[Parent] \in {"main", "getopt"}
  /\ Goto(Parent, "exited")
  /\ UNCHANGED <<args, i, listening, lines, failed>>

argc_gt_1 ==
  /\ pc[Parent] = "main"
  /\ Goto(Parent, "getopt")
  /\ UNCHANGED <<args, i, listening, lines, failed>>

option_p(port) ==
  /\ pc[Parent] = "getopt"
  /\ args' = [args EXCEPT !["port"] = port]
  /\ UNCHANGED <<pc, i, listening, lines, failed>>

\* read_config starts by setting all arguments back to their defaults.
option_c ==
  /\ pc[Parent] = "getopt"
  /\ init_service_args
  /\ Goto(Parent, "read_config")
  /\ UNCHANGED <<i, listening, lines, failed>>

no_more_options ==
  /\ pc[Parent] = "getopt"
  /\ Goto(Parent, "check")
  /\ UNCHANGED <<args, i, listening, lines, failed>>

\* The setting that a key of the file names; the others are named alike.
Field(key) ==
  CASE key = "listen_port" -> "port"
    [] key = "max_connection" -> "max_queue_len"
    [] key \in {"port", "max_queue_len"} -> "unknown"
    [] OTHER -> key

\* What one line of the file makes of the arguments; a response type or a log
\* level that is not one ends the program, an unknown key is skipped.
BadPair(key, value) ==
  \/ key = "response_type" /\ value \notin RespType
  \/ key = "log_level" /\ value \notin LogLevel

Assign(a, key, value) ==
  IF Field(key) \in Key THEN [a EXCEPT ![Field(key)] = value] ELSE a

read_pairs(key, value) ==
  /\ pc[Parent] = "read_config" /\ lines < MaxLines
  /\ IF BadPair(key, value)
     THEN Goto(Parent, "exited") /\ UNCHANGED <<args, lines>>
     ELSE /\ args' = Assign(args, key, value)
          /\ lines' = lines + 1
          /\ UNCHANGED pc
  /\ UNCHANGED <<i, listening, failed>>

\* GenConfig comes to the end of the file, or fails.
end_of_file ==
  /\ pc[Parent] = "read_config"
  /\ \/ Goto(Parent, "check") \/ Goto(Parent, "exited")
  /\ UNCHANGED <<args, i, listening, lines, failed>>

Ranges == {<<"min_latency", "max_latency">>,
           <<"min_response_size", "max_response_size">>,
           <<"min_chunk_latency", "max_chunk_latency">>,
           <<"min_chunk_response_size", "max_chunk_response_size">>}

\* Mutant: only the lower end of a range is compared with zero.
Acceptable_half(a) ==
  /\ a["port"] > 0 /\ a["port"] <= 65535
  /\ a["response_type"] = "MIX" => a["chunk_ratio"] >= 0 /\ a["chunk_ratio"] <= 100
  /\ \A r \in Ranges : a[r[1]] >= 0
  /\ a["chunk_blocks"] > 0
  /\ a["log_level"] \in LogLevel

\* The checks that end the program.
Acceptable(a) ==
  /\ a["port"] > 0 /\ a["port"] <= 65535
  /\ a["response_type"] = "MIX" => a["chunk_ratio"] >= 0 /\ a["chunk_ratio"] <= 100
  /\ \A r \in Ranges : a[r[1]] >= 0 /\ a[r[2]] >= 0 /\ a[r[1]] <= a[r[2]]
  /\ a["chunk_blocks"] > 0
  /\ a["log_level"] \in LogLevel

\* And those that repair a value.
Adjusted(a) ==
  [a EXCEPT !["max_queue_len"] = IF @ > max_open_files THEN max_open_files ELSE @,
            !["workers"] = IF @ <= 0 THEN 1 ELSE @]

\* A limit that getrlimit cannot tell ends the program too.
checkServiceArgs ==
  /\ pc[Parent] = "check"
  /\ \/ /\ args' = Adjusted(args)
        /\ Goto(Parent, IF Acceptable(args) THEN "listen" ELSE "exited")
     \/ Goto(Parent, "exited") /\ UNCHANGED args
  /\ UNCHANGED <<i, listening, lines, failed>>

\* Whether the socket could be created is not looked at.
init_listen ==
  /\ pc[Parent] = "listen"
  /\ listening' \in BOOLEAN
  /\ Goto(Parent, "fork")
  /\ UNCHANGED <<args, i, lines, failed>>

\* Mutant: the parent counts before it forks, so the child is one ahead.
fork_ahead ==
  /\ pc[Parent] = "fork"
  /\ i[Parent] < args["workers"] - 1
  /\ \/ /\ pc' = [pc EXCEPT ![i[Parent]] = "start"]
        /\ i' = [i EXCEPT ![i[Parent]] = i[Parent] + 1, ![Parent] = @ + 1]
        /\ UNCHANGED failed
     \/ /\ failed' = TRUE
        /\ i' = [i EXCEPT ![Parent] = @ + 1]
        /\ UNCHANGED pc
  /\ UNCHANGED <<args, listening, lines>>

\* One turn of the loop: the child leaves it with the parent's i.  A fork
\* that fails takes a turn too.
fork ==
  /\ pc[Parent] = "fork"
  /\ i[Parent] < args["workers"] - 1
  /\ \/ /\ pc' = [pc EXCEPT ![i[Parent]] = "start"]
        /\ i' = [i EXCEPT ![i[Parent]] = i[Parent], ![Parent] = @ + 1]
        /\ UNCHANGED failed
     \/ /\ failed' = TRUE
        /\ i' = [i EXCEPT ![Parent] = @ + 1]
        /\ UNCHANGED pc
  /\ UNCHANGED <<args, listening, lines>>

fork_done ==
  /\ pc[Parent] = "fork"
  /\ i[Parent] >= args["workers"] - 1
  /\ Goto(Parent, "start")
  /\ UNCHANGED <<args, i, listening, lines, failed>>

\* The core that a process asks to run on (set_cpu_mask).
Core(p) == i[p] % cpu_cores

\* From the fork to the event loop: the log, then init_service, which gives
\* up when there is nothing to listen on.
prepare(p) ==
  /\ pc[p] = "start"
  /\ \/ Goto(p, "init_service")
     \/ Goto(p, "exited")
  /\ UNCHANGED <<args, i, listening, lines, failed>>

init_service(p) ==
  /\ pc[p] = "init_service"
  /\ \/ listening /\ Goto(p, "serving")
     \/ Goto(p, "exited")
  /\ UNCHANGED <<args, i, listening, lines, failed>>

\* start_service never returns and a process that has exited does no more.
Settled ==
  /\ \A p \in Proc : pc[p] \in {"none", "serving", "exited"}
  /\ UNCHANGED vars

Next ==
  \/ usage \/ argc_gt_1 \/ option_c \/ no_more_options
  \/ \E port \in Port : option_p(port)
  \/ \E l \in Line : read_pairs(l[1], l[2])
  \/ end_of_file
  \/ checkServiceArgs \/ init_listen
  \/ fork \/ fork_done
  \/ \E p \in Proc : prepare(p) \/ init_service(p)
  \/ Settled

Spec == Init /\ [][Next]_vars
-----------------------------------------------------------------------------
(***************************************************************************)
(* Properties.                                                             *)
(***************************************************************************)
Started(p) == pc[p] \in {"start", "init_service", "serving"}

\* The arguments that a worker serves with are those that HttpServer takes
\* for granted (its ArgsAssumption), whatever the file holds.
WorkersHaveSaneArgs ==
  \A p \in Proc : Started(p) =>
    /\ args["workers"] \in 1..MaxWorkers
    /\ args["max_queue_len"] <= max_open_files
    /\ args["response_type"] \in RespType
    /\ args["response_type"] = "MIX" => args["chunk_ratio"] \in 0..100
    /\ \A r \in Ranges : 0 <= args[r[1]] /\ args[r[1]] <= args[r[2]]
    /\ args["chunk_blocks"] >= 1

\* No two processes have the same i, so the cores are shared out evenly:
\* when all forks succeeded, as many processes as workers were asked for run,
\* and no core has two more of them than another.
WorkersSpread ==
  /\ \A p, q \in Proc : Started(p) /\ Started(q) /\ i[p] = i[q] => p = q
  /\ (~failed /\ \A p \in Proc : pc[p] = "serving" <=> (p = Parent \/ p < args["workers"] - 1))
       => \A a, b \in 0 .. cpu_cores - 1 :
            Cardinality({p \in Proc : pc[p] = "serving" /\ Core(p) = a})
              <= 1 + Cardinality({p \in Proc : pc[p] = "serving" /\ Core(p) = b})

=============================================================================
