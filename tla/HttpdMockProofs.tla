--------------------------- MODULE HttpdMockProofs ---------------------------
(***************************************************************************)
(* The two parts of httpd_mock that come before what HttpServer models:    *)
(* how the workers get their arguments, for any configuration file and any *)
(* number of workers and cores, and how a worker finds the requests in the *)
(* bytes of a connection, however the network cuts these into pieces.      *)
(***************************************************************************)
EXTENDS ServiceStart, RequestScanner, FiniteSetTheorems, SequenceTheorems, TLAPS

-----------------------------------------------------------------------------
(***************************************************************************)
(* The start (main.c): the inductive invariant.                            *)
(***************************************************************************)
Before == {"main", "getopt", "read_config", "check"}
Point == Before \cup {"none", "listen", "fork", "start", "init_service", "serving", "exited"}
Child == Proc \ {Parent}

\* The arguments have the types of their fields all along.
ArgsTyped ==
  /\ args \in [Key -> Int \cup RespType \cup LogLevel]
  /\ \A k \in Key \ {"response_type", "log_level"} : args[k] \in Int
  /\ args["response_type"] \in RespType /\ args["log_level"] \in LogLevel
  /\ args["workers"] <= MaxWorkers

TypeOK ==
  /\ pc \in [Proc -> Point]
  /\ i \in [Proc -> Nat]
  /\ ArgsTyped

\* What WorkersHaveSaneArgs says of the arguments.
Sane ==
  /\ args["workers"] \in 1..MaxWorkers
  /\ args["max_queue_len"] <= max_open_files
  /\ args["response_type"] = "MIX" => args["chunk_ratio"] \in 0..100
  /\ \A r \in Ranges : 0 <= args[r[1]] /\ args[r[1]] <= args[r[2]]
  /\ args["chunk_blocks"] >= 1

\* No child runs before the arguments are checked, and none with others.
Checked ==
  /\ pc[Parent] \in Before \cup {"listen"} =>
       i[Parent] = 0 /\ \A p \in Child : pc[p] = "none"
  /\ pc[Parent] \notin Before /\ (\E p \in Proc : pc[p] \notin {"none", "exited"}) => Sane

\* A child keeps the turn of the loop in which it was forked; the parent is
\* past it, and ends with the last turn.
Counted ==
  /\ pc[Parent] # "none"
  /\ \A p \in Child :
       /\ pc[p] \in {"none", "start", "init_service", "serving", "exited"}
       /\ pc[p] # "none" => i[p] = p /\ p < i[Parent]
  /\ pc[Parent] \in {"fork", "start", "init_service", "serving"} =>
       i[Parent] <= args["workers"] - 1
  /\ pc[Parent] \in {"start", "init_service", "serving"} =>
       i[Parent] = args["workers"] - 1

IInv == TypeOK /\ Checked /\ Counted

\* The constants, and who is a child.
LEMMA Numbers ==
  /\ MaxWorkers \in Nat \ {0} /\ cpu_cores \in Nat \ {0} /\ max_open_files \in Int
  /\ Parent = MaxWorkers /\ Parent \in Proc
  /\ Proc \subseteq Nat /\ \A n \in Nat : n < Parent => n \in Child
  /\ Child = 0 .. Parent - 1
BY HostAssumption DEF Parent, Proc, Child

\* Until the arguments are checked, the parent goes on alone.
LEMMA ParentMoves ==
  ASSUME IInv, NEW there \in Before \cup {"exited"}, pc[Parent] \in Before,
         pc' = [pc EXCEPT ![Parent] = there], i' = i, ArgsTyped'
  PROVE  IInv'
<1>1. /\ pc \in [Proc -> Point] /\ i \in [Proc -> Nat]
      /\ i[Parent] = 0 /\ \A p \in Child : pc[p] = "none"
  BY DEF IInv, TypeOK, Checked
<1>2. Parent \in Proc /\ Child = Proc \ {Parent} /\ there \in Point
  BY Numbers DEF Child, Point
<1>3. /\ pc' \in [Proc -> Point] /\ pc'[Parent] = there
      /\ \A p \in Child : pc'[p] = "none"
  BY <1>1, <1>2
<1>4. TypeOK'
  BY <1>1, <1>3 DEF TypeOK
<1>5. Checked'
  <2>1. i'[Parent] = 0
    BY <1>1
  <2>2. pc'[Parent] \notin Before => pc'[Parent] = "exited"
    BY <1>3
  <2>3. \A p \in Proc : pc'[Parent] = "exited" => pc'[p] \in {"none", "exited"}
    BY <1>2, <1>3
  <2> QED BY <1>3, <2>1, <2>2, <2>3 DEF Checked
<1>6. Counted'
  BY <1>3 DEF Counted, Before
<1> QED BY <1>4, <1>5, <1>6 DEF IInv

\* Or it stays where it is and sets arguments.
LEMMA ParentStays ==
  ASSUME IInv, pc[Parent] \in Before, pc' = pc, i' = i, ArgsTyped'
  PROVE  IInv'
<1>1. pc \in [Proc -> Point] /\ Parent \in Proc
  BY Numbers DEF IInv, TypeOK
<1>2. pc' = [pc EXCEPT ![Parent] = pc[Parent]]
  BY <1>1
<1> HIDE DEF IInv, ArgsTyped
<1> QED BY <1>2, ParentMoves

\* One more argument is set.
LEMMA SetArg ==
  ASSUME IInv, NEW key \in Key, NEW v,
         key \in {"response_type", "log_level"} \/ v \in Int,
         key = "workers" => v <= MaxWorkers,
         key = "response_type" => v \in RespType,
         key = "log_level" => v \in LogLevel,
         args' = [args EXCEPT ![key] = v]
  PROVE  ArgsTyped'
<1>1. args \in [Key -> Int \cup RespType \cup LogLevel] /\ v \in Int \cup RespType \cup LogLevel
  BY DEF IInv, TypeOK, ArgsTyped
<1>2. args' \in [Key -> Int \cup RespType \cup LogLevel]
  BY <1>1
<1>3. args'[key] = v /\ \A k \in Key \ {key} : args'[k] = args[k]
  BY <1>1
<1>4. {"response_type", "log_level", "workers"} \subseteq Key
  BY DEF Key
<1> QED BY <1>2, <1>3, <1>4 DEF IInv, TypeOK, ArgsTyped

\* The arguments that init_service_args sets.
LEMMA DefaultsTyped ==
  /\ Defaults \in [Key -> Int \cup RespType \cup LogLevel]
  /\ \A k \in Key \ {"response_type", "log_level"} : Defaults[k] \in Int
  /\ Defaults["response_type"] \in RespType /\ Defaults["log_level"] \in LogLevel
  /\ Defaults["workers"] <= MaxWorkers
<1>1. /\ \A k \in Key : Default(k) \in Int \cup RespType \cup LogLevel
      /\ \A k \in Key \ {"response_type", "log_level"} : Default(k) \in Int
  BY DEF Default, Key, RespType, LogLevel
<1>2. /\ Default("response_type") \in RespType /\ Default("log_level") \in LogLevel
      /\ Default("workers") = 1
  BY DEF Default, RespType, LogLevel
<1>3. {"response_type", "log_level", "workers"} \subseteq Key
  BY DEF Key
<1> QED BY <1>1, <1>2, <1>3, Numbers DEF Defaults

\* The options and the configuration file.
LEMMA EarlyInv ==
  ASSUME IInv,
         \/ usage \/ argc_gt_1 \/ option_c \/ no_more_options \/ end_of_file
         \/ \E port \in Port : option_p(port)
         \/ \E l \in Line : read_pairs(l[1], l[2])
  PROVE  IInv'
<1>1. CASE usage \/ argc_gt_1 \/ no_more_options \/ end_of_file
  <2>1. ArgsTyped'
    BY <1>1 DEF usage, argc_gt_1, no_more_options, end_of_file, IInv, TypeOK, ArgsTyped
  <2>2. PICK there \in Before \cup {"exited"} :
          pc[Parent] \in Before /\ Goto(Parent, there) /\ i' = i
    BY <1>1 DEF usage, argc_gt_1, no_more_options, end_of_file, Before
  <2> QED BY <2>1, <2>2, ParentMoves DEF Goto
<1>2. CASE option_c
  <2>1. ArgsTyped'
    BY <1>2, DefaultsTyped DEF option_c, init_service_args, ArgsTyped
  <2>2. /\ pc' = [pc EXCEPT ![Parent] = "read_config"] /\ i' = i
        /\ pc[Parent] \in Before /\ "read_config" \in Before
    BY <1>2 DEF option_c, Goto, Before
  <2> QED BY <2>1, <2>2, ParentMoves
<1>3. ASSUME NEW port \in Port, option_p(port)
      PROVE  IInv'
  <2>1. ArgsTyped'
    <3>1. port \in Int /\ "port" \in Key
      BY LineAssumption DEF Key
    <3> QED BY <1>3, <3>1, SetArg DEF option_p
  <2>2. pc[Parent] \in Before /\ pc' = pc /\ i' = i
    BY <1>3 DEF option_p, Before
  <2> QED BY <2>1, <2>2, ParentStays
<1>4. ASSUME NEW l \in Line, read_pairs(l[1], l[2])
      PROVE  IInv'
  <2> DEFINE key == l[1]
             value == l[2]
  <2>1. /\ key \notin {"response_type", "log_level"} => value \in Int
        /\ key = "workers" => value <= MaxWorkers
    BY LineAssumption
  <2> HIDE DEF key, value
  <2>2. /\ pc[Parent] = "read_config" /\ i' = i
        /\ \/ Goto(Parent, "exited") /\ args' = args
           \/ ~BadPair(key, value) /\ args' = Assign(args, key, value) /\ pc' = pc
    BY <1>4 DEF read_pairs, key, value
  <2>3. CASE args' = args
    <3>1. ArgsTyped'
      BY <2>3 DEF IInv, TypeOK, ArgsTyped
    <3>2. CASE pc' = pc
      BY <2>2, <3>1, <3>2, ParentStays DEF Before
    <3>3. CASE Goto(Parent, "exited")
      <4>1. pc' = [pc EXCEPT ![Parent] = "exited"] /\ pc[Parent] \in Before
        BY <2>2, <3>3 DEF Goto, Before
      <4> QED BY <2>2, <3>1, <4>1, ParentMoves
    <3> QED BY <2>2, <3>2, <3>3
  <2>4. CASE ~BadPair(key, value) /\ args' = Assign(args, key, value) /\ pc' = pc
    <3>1. CASE Field(key) \in Key
      <4>1. args' = [args EXCEPT ![Field(key)] = value]
        BY <2>4, <3>1 DEF Assign
      <4>2. /\ Field(key) \in {"response_type", "log_level"} \/ value \in Int
            /\ Field(key) = "workers" => value <= MaxWorkers
            /\ Field(key) = "response_type" => value \in RespType
            /\ Field(key) = "log_level" => value \in LogLevel
        BY <2>1, <2>4 DEF Field, BadPair
      <4>3. ArgsTyped'
        BY <3>1, <4>1, <4>2, SetArg
      <4> QED BY <2>2, <2>4, <4>3, ParentStays DEF Before
    <3>2. CASE Field(key) \notin Key
      BY <2>3, <2>4, <3>2 DEF Assign
    <3> QED BY <3>1, <3>2
  <2> QED BY <2>2, <2>3, <2>4
<1> QED BY <1>1, <1>2, <1>3, <1>4

\* checkServiceArgs makes them sane, or the program ends.
LEMMA CheckInv ==
  ASSUME IInv, checkServiceArgs
  PROVE  IInv'
<1>0. CASE Goto(Parent, "exited") /\ args' = args
  <2>1. /\ pc' = [pc EXCEPT ![Parent] = "exited"] /\ pc[Parent] \in Before /\ i' = i
    BY <1>0 DEF checkServiceArgs, Goto, Before
  <2>2. ArgsTyped'
    BY <1>0 DEF IInv, TypeOK, ArgsTyped
  <2> QED BY <1>0, <2>1, <2>2, ParentMoves
<1> SUFFICES ASSUME ~(Goto(Parent, "exited") /\ args' = args) PROVE IInv'
  BY <1>0
<1>1. /\ pc[Parent] = "check" /\ args' = Adjusted(args) /\ i' = i
      /\ Goto(Parent, IF Acceptable(args) THEN "listen" ELSE "exited")
  BY DEF checkServiceArgs
<1>2. /\ {"max_queue_len", "workers", "response_type", "log_level", "chunk_ratio",
          "chunk_blocks"} \subseteq Key
      /\ \A r \in Ranges : /\ {r[1], r[2]} \subseteq Key
                           /\ {r[1], r[2]} \cap {"max_queue_len", "workers"} = {}
                           /\ {r[1], r[2]} \cap {"response_type", "log_level"} = {}
  BY DEF Key, Ranges
<1>3. /\ args \in [Key -> Int \cup RespType \cup LogLevel]
      /\ args["max_queue_len"] \in Int /\ args["workers"] \in Int
      /\ args["workers"] <= MaxWorkers
      /\ args["response_type"] \in RespType /\ args["log_level"] \in LogLevel
      /\ \A k \in Key \ {"response_type", "log_level"} : args[k] \in Int
  BY <1>2 DEF IInv, TypeOK, ArgsTyped
<1>4. /\ args'["max_queue_len"] = IF args["max_queue_len"] > max_open_files
                                  THEN max_open_files ELSE args["max_queue_len"]
      /\ args'["workers"] = IF args["workers"] <= 0 THEN 1 ELSE args["workers"]
      /\ \A k \in Key \ {"max_queue_len", "workers"} : args'[k] = args[k]
      /\ DOMAIN args' = Key
      /\ args' = [k \in Key |-> args'[k]]
  BY <1>1, <1>2, <1>3 DEF Adjusted
<1>5. /\ args'["max_queue_len"] \in Int /\ args'["max_queue_len"] <= max_open_files
      /\ args'["workers"] \in 1..MaxWorkers
  BY <1>3, <1>4, Numbers
<1>6. ArgsTyped'
  <2>1. \A k \in Key : args'[k] \in Int \cup RespType \cup LogLevel
    BY <1>3, <1>4, <1>5, Numbers
  <2>2. args' \in [Key -> Int \cup RespType \cup LogLevel]
    BY <1>4, <2>1
  <2> QED BY <1>2, <1>3, <1>4, <1>5, <2>2, Numbers DEF ArgsTyped
<1>7. CASE ~Acceptable(args)
  <2>1. pc' = [pc EXCEPT ![Parent] = "exited"] /\ pc[Parent] \in Before
    BY <1>1, <1>7 DEF Goto, Before
  <2> QED BY <1>1, <1>6, <2>1, ParentMoves
<1>8. CASE Acceptable(args)
  <2>1. /\ pc' \in [Proc -> Point] /\ pc'[Parent] = "listen" /\ i[Parent] = 0
        /\ \A p \in Child : pc'[p] = "none"
    BY <1>1, <1>8, Numbers DEF Goto, IInv, TypeOK, Checked, Child, Point, Before
  <2>2. TypeOK'
    BY <1>1, <1>6, <2>1 DEF IInv, TypeOK
  <2>3. Sane'
    <3>1. args["response_type"] = "MIX" => args["chunk_ratio"] \in 0..100
      BY <1>2, <1>3, <1>8 DEF Acceptable
    <3>2. \A r \in Ranges : 0 <= args[r[1]] /\ args[r[1]] <= args[r[2]]
      BY <1>2, <1>3, <1>8 DEF Acceptable
    <3>3. args["chunk_blocks"] >= 1
      BY <1>2, <1>3, <1>8 DEF Acceptable
    <3> QED BY <1>2, <1>4, <1>5, <3>1, <3>2, <3>3 DEF Sane
  <2>4. Checked'
    BY <1>1, <2>1, <2>3 DEF Checked
  <2>5. Counted'
    BY <2>1 DEF Counted
  <2> QED BY <2>2, <2>4, <2>5 DEF IInv
<1> QED BY <1>7, <1>8

\* The facts of IInv that the steps after the check use.
LEMMA Forking ==
  ASSUME IInv, pc[Parent] \notin Before
  PROVE  /\ pc \in [Proc -> Point] /\ i \in [Proc -> Nat] /\ args["workers"] \in Int
         /\ (\E p \in Proc : pc[p] \notin {"none", "exited"}) =>
              Sane /\ args["workers"] \in 1..MaxWorkers
BY DEF IInv, TypeOK, ArgsTyped, Checked, Sane, Key

\* The parent has made its socket and begins to fork.
LEMMA ListenInv ==
  ASSUME IInv, init_listen
  PROVE  IInv'
<1>1. /\ pc[Parent] = "listen" /\ pc' = [pc EXCEPT ![Parent] = "fork"]
      /\ args' = args /\ i' = i
  BY DEF init_listen, Goto
<1>2. pc[Parent] \notin Before
  BY <1>1 DEF Before
<1>3. /\ pc \in [Proc -> Point] /\ i \in [Proc -> Nat]
      /\ Sane /\ args["workers"] \in 1..MaxWorkers
  BY <1>1, <1>2, Forking, Numbers
<1>4. i[Parent] = 0 /\ \A p \in Child : pc[p] = "none"
  BY <1>1 DEF IInv, Checked
<1>5. /\ pc' \in [Proc -> Point] /\ pc'[Parent] = "fork"
      /\ \A p \in Child : pc'[p] = "none"
  BY <1>1, <1>3, <1>4, Numbers DEF Child, Point
<1>6. TypeOK'
  BY <1>1, <1>3, <1>5 DEF TypeOK, IInv, ArgsTyped
<1>7. Checked'
  BY <1>1, <1>3, <1>5 DEF Checked, Sane, Before
<1>8. Counted'
  <2>1. i'[Parent] <= args'["workers"] - 1
    BY <1>1, <1>3, <1>4, Numbers
  <2> QED BY <1>5, <2>1 DEF Counted
<1> QED BY <1>6, <1>7, <1>8 DEF IInv

\* The child of a turn takes the number of the turn.
LEMMA ForkInv ==
  ASSUME IInv, fork
  PROVE  IInv'
<1> DEFINE n == i[Parent]
<1>1. /\ pc[Parent] = "fork" /\ n < args["workers"] - 1 /\ args' = args
      /\ \/ pc' = [pc EXCEPT ![n] = "start"] /\ i' = [i EXCEPT ![n] = n, ![Parent] = @ + 1]
         \/ pc' = pc /\ i' = [i EXCEPT ![Parent] = @ + 1]
  BY DEF fork
<1>2. pc[Parent] \notin Before
  BY <1>1 DEF Before
<1>3. /\ pc \in [Proc -> Point] /\ i \in [Proc -> Nat]
      /\ Sane /\ args["workers"] \in 1..MaxWorkers
  BY <1>1, <1>2, Forking, Numbers
<1>4. n \in Nat /\ n < Parent /\ n \in Child /\ n # Parent /\ n \in Proc
  <2>1. n \in Nat /\ n < Parent
    BY <1>1, <1>3, Numbers
  <2> QED BY <2>1, Numbers DEF Child
<1>5. \A p \in Child : p \in Nat /\ p \in Proc /\ p # Parent
  BY Numbers DEF Child
<1> HIDE DEF n
<1>6. /\ i' \in [Proc -> Nat] /\ i'[Parent] = n + 1
      /\ \A p \in Child : p # n => i'[p] = i[p]
      /\ pc' = pc \/ i'[n] = n
  <2>1. CASE i' = [i EXCEPT ![n] = n, ![Parent] = @ + 1]
    <3>1. i'[Parent] = n + 1 /\ i'[n] = n
      BY <1>3, <1>4, <2>1, Numbers DEF n
    <3>2. \A q \in Proc : q # n /\ q # Parent => i'[q] = i[q]
      BY <1>3, <2>1
    <3>3. DOMAIN i' = Proc /\ i' = [q \in Proc |-> i'[q]]
      BY <1>3, <2>1
    <3>4. \A q \in Proc : i'[q] \in Nat
      BY <1>3, <1>4, <3>1, <3>2
    <3> QED BY <1>5, <3>1, <3>2, <3>3, <3>4
  <2>2. CASE i' = [i EXCEPT ![Parent] = @ + 1] /\ pc' = pc
    BY <1>3, <1>4, <1>5, <2>2, Numbers DEF n
  <2> QED BY <1>1, <2>1, <2>2
<1>7. /\ pc' \in [Proc -> Point] /\ pc'[Parent] = "fork"
      /\ \A p \in Child : p # n => pc'[p] = pc[p]
      /\ pc' = pc \/ pc'[n] = "start"
  BY <1>1, <1>3, <1>4, <1>5, Numbers DEF Point
<1>8. TypeOK'
  BY <1>1, <1>6, <1>7 DEF TypeOK, IInv, ArgsTyped
<1>9. Checked'
  BY <1>1, <1>3, <1>7 DEF Checked, Sane, Before
<1>10. Counted'
  <2>1. ASSUME NEW p \in Child
        PROVE  /\ pc'[p] \in {"none", "start", "init_service", "serving", "exited"}
               /\ pc'[p] # "none" => i'[p] = p /\ p < i'[Parent]
    <3>1. /\ pc[p] \in {"none", "start", "init_service", "serving", "exited"}
          /\ pc[p] # "none" => i[p] = p /\ p < n
      BY DEF IInv, Counted, n
    <3>2. p \in Nat
      BY <1>5
    <3>3. CASE p = n
      BY <1>4, <1>6, <1>7, <3>1, <3>3
    <3>4. CASE p # n
      BY <1>4, <1>6, <1>7, <3>1, <3>2, <3>4
    <3> QED BY <3>3, <3>4
  <2>2. i'[Parent] <= args'["workers"] - 1
    BY <1>1, <1>3, <1>4, <1>6, Numbers
  <2> QED BY <1>7, <2>1, <2>2 DEF Counted
<1> QED BY <1>8, <1>9, <1>10 DEF IInv

\* The loop ends when as many turns were taken as there are other workers.
LEMMA ForkDoneInv ==
  ASSUME IInv, fork_done
  PROVE  IInv'
<1>1. /\ pc[Parent] = "fork" /\ i[Parent] >= args["workers"] - 1
      /\ pc' = [pc EXCEPT ![Parent] = "start"] /\ args' = args /\ i' = i
  BY DEF fork_done, Goto
<1>2. pc[Parent] \notin Before
  BY <1>1 DEF Before
<1>3. /\ pc \in [Proc -> Point] /\ i \in [Proc -> Nat]
      /\ Sane /\ args["workers"] \in 1..MaxWorkers
  BY <1>1, <1>2, Forking, Numbers
<1>4. /\ pc' \in [Proc -> Point] /\ pc'[Parent] = "start"
      /\ \A p \in Child : pc'[p] = pc[p]
  BY <1>1, <1>3, Numbers DEF Child, Point
<1>5. TypeOK'
  BY <1>1, <1>3, <1>4 DEF TypeOK, IInv, ArgsTyped
<1>6. Checked'
  BY <1>1, <1>3, <1>4 DEF Checked, Sane, Before
<1>7. Counted'
  <2>1. i[Parent] \in Nat /\ i[Parent] <= args["workers"] - 1
    BY <1>1, <1>3, Numbers DEF IInv, Counted
  <2>2. i'[Parent] = args'["workers"] - 1 /\ i'[Parent] <= args'["workers"] - 1
    BY <1>1, <1>3, <2>1, Numbers
  <2> QED BY <1>1, <1>4, <2>2 DEF IInv, Counted
<1> QED BY <1>5, <1>6, <1>7 DEF IInv

\* A process that has left the loop goes on, or gives up.
LEMMA WorkerInv ==
  ASSUME IInv, NEW p \in Proc, prepare(p) \/ init_service(p)
  PROVE  IInv'
<1>1. PICK there \in {"init_service", "serving", "exited"} :
        /\ pc[p] \in {"start", "init_service"} /\ pc' = [pc EXCEPT ![p] = there]
        /\ args' = args /\ i' = i
  BY DEF prepare, init_service, Goto
<1>2. pc[Parent] \notin Before \cup {"listen"}
  BY <1>1 DEF IInv, Checked, Before, Child
<1>3. /\ pc \in [Proc -> Point] /\ i \in [Proc -> Nat]
      /\ Sane /\ args["workers"] \in 1..MaxWorkers
  BY <1>1, <1>2, Forking, Numbers
<1>4. /\ pc' \in [Proc -> Point] /\ pc'[p] = there
      /\ \A q \in Proc \ {p} : pc'[q] = pc[q]
  BY <1>1, <1>3, Numbers DEF Point
<1>5. TypeOK'
  BY <1>1, <1>3, <1>4 DEF TypeOK, IInv, ArgsTyped
<1>6. Checked'
  <2>1. pc'[Parent] \notin Before \cup {"listen"}
    BY <1>2, <1>4, Numbers DEF Before
  <2> QED BY <1>1, <1>3, <2>1 DEF Checked, Sane
<1>7. Counted'
  BY <1>1, <1>4, Numbers DEF IInv, Counted, Child
<1> QED BY <1>5, <1>6, <1>7 DEF IInv

\* The invariant of the start holds.
LEMMA AlwaysIInv == Spec => []IInv
<1>1. Init => IInv
  <2> SUFFICES ASSUME Init PROVE IInv
    OBVIOUS
  <2>1. /\ pc \in [Proc -> Point] /\ pc[Parent] = "main" /\ i \in [Proc -> Nat]
        /\ i[Parent] = 0 /\ \A p \in Child : pc[p] = "none"
    BY Numbers DEF Init, Point, Before, Child
  <2>2. ArgsTyped
    BY DefaultsTyped DEF Init, ArgsTyped
  <2>3. TypeOK
    BY <2>1, <2>2 DEF TypeOK
  <2>4. Checked /\ Counted
    BY <2>1 DEF Checked, Counted, Before
  <2> QED BY <2>3, <2>4 DEF IInv
<1>2. IInv /\ [Next]_vars => IInv'
  <2> SUFFICES ASSUME IInv, [Next]_vars PROVE IInv'
    OBVIOUS
  <2>1. CASE UNCHANGED vars
    BY <2>1 DEF vars, IInv, TypeOK, ArgsTyped, Checked, Counted, Sane
  <2>2. CASE Settled
    BY <2>1, <2>2 DEF Settled
  <2>3. CASE \E p \in Proc : prepare(p) \/ init_service(p)
    BY <2>3, WorkerInv
  <2> QED BY <2>1, <2>2, <2>3, EarlyInv, CheckInv, ListenInv, ForkInv, ForkDoneInv DEF Next
<1> QED BY <1>1, <1>2, PTL DEF Spec

\* A process that has left the loop finds the arguments checked.
LEMMA StartedSane ==
  ASSUME IInv, NEW p \in Proc, Started(p)
  PROVE  Sane /\ pc[Parent] \notin Before \cup {"listen"}
<1>1. pc[p] \in {"start", "init_service", "serving"}
  BY DEF Started
<1>2. pc[Parent] \notin Before \cup {"listen"}
  BY <1>1 DEF IInv, Checked, Child, Before
<1> QED BY <1>1, <1>2, Forking

\* Whatever the configuration file holds, no process starts to serve with
\* arguments that HttpServer does not expect.
THEOREM ArgsAreSane == Spec => []WorkersHaveSaneArgs
<1>1. IInv => WorkersHaveSaneArgs
  BY StartedSane DEF WorkersHaveSaneArgs, Sane, IInv, TypeOK, ArgsTyped
<1> QED BY <1>1, AlwaysIInv, PTL

\* Each running process has a turn of the loop of its own.
LEMMA OwnTurn ==
  ASSUME IInv, NEW p \in Proc, NEW q \in Proc, Started(p), Started(q), i[p] = i[q]
  PROVE  p = q
<1>1. \A r \in Child : Started(r) => i[r] = r /\ r < i[Parent]
  BY DEF IInv, Counted, Started
<1>2. \A r \in Proc : r \in Nat /\ i[r] \in Nat
  BY Numbers DEF IInv, TypeOK
<1> QED BY <1>1, <1>2, Numbers DEF Child

\* Numbers that leave the same rest are apart by at least the divisor, and
\* the rest moves with the number.
LEMMA Rests ==
  ASSUME NEW c \in Nat \ {0}, NEW a \in 0 .. c - 1, NEW b \in 0 .. c - 1
  PROVE  /\ \A x, y \in Nat : x % c = a /\ y % c = a /\ x < y => x + c <= y
         /\ \A x \in Nat : x % c = a => a <= x /\ (x + (b - a)) % c = b
<1>1. \A x \in Nat : x % c = a => \E k \in Nat : x = c * k + a
  OBVIOUS
<1>2. ASSUME NEW k \in Nat, NEW r \in 0 .. c - 1
      PROVE  (c * k + r) % c = r
  OBVIOUS
<1>3. ASSUME NEW x \in Nat, NEW y \in Nat, x % c = a, y % c = a, x < y
      PROVE  x + c <= y
  <2>1. PICK k \in Nat, l \in Nat : x = c * k + a /\ y = c * l + a
    BY <1>1, <1>3
  <2>2. c * k < c * l
    BY <1>3, <2>1
  <2>3. k < l
    BY <2>2
  <2>4. c * (k + 1) <= c * l
    BY <2>3
  <2> QED BY <2>1, <2>4
<1>4. ASSUME NEW x \in Nat, x % c = a
      PROVE  a <= x /\ (x + (b - a)) % c = b
  <2>1. PICK k \in Nat : x = c * k + a
    BY <1>1, <1>4
  <2>2. x + (b - a) = c * k + b /\ a <= x
    BY <2>1
  <2> QED BY <1>2, <2>2
<1> QED BY <1>3, <1>4

\* The serving processes of one core can be sent to those of another, by the
\* distance of the two cores: the last one may find no process there.
LEMMA CoresEven ==
  ASSUME IInv,
         \A p \in Proc : pc[p] = "serving" <=> (p = Parent \/ p < args["workers"] - 1),
         NEW a \in 0 .. cpu_cores - 1, NEW b \in 0 .. cpu_cores - 1
  PROVE  Cardinality({p \in Proc : pc[p] = "serving" /\ Core(p) = a})
           <= 1 + Cardinality({p \in Proc : pc[p] = "serving" /\ Core(p) = b})
<1> DEFINE On(k) == {p \in Proc : pc[p] = "serving" /\ Core(p) = k}
           last == args["workers"] - 1
           none == MaxWorkers + 1
           At(t) == IF t = last THEN Parent ELSE t
           send == [p \in On(a) |-> IF i[p] + (b - a) <= last THEN At(i[p] + (b - a)) ELSE none]
<1>1. pc[Parent] = "serving" /\ Parent \in Proc
  BY Numbers
<1>2. /\ last \in Nat /\ last < MaxWorkers
      /\ i[Parent] = last /\ i \in [Proc -> Nat]
      /\ \A p \in Proc : pc[p] = "serving" /\ p # Parent => i[p] = p /\ p < last
  <2>1. Sane
    BY <1>1, StartedSane DEF Started
  <2>2. last \in Nat /\ last < MaxWorkers
    BY <2>1, Numbers DEF Sane
  <2> QED BY <1>1, <2>2 DEF IInv, TypeOK, Counted, Child
<1>3. \A t \in 0 .. last : /\ At(t) \in Proc /\ pc[At(t)] = "serving" /\ i[At(t)] = t
  <2> SUFFICES ASSUME NEW t \in 0 .. last
               PROVE  At(t) \in Proc /\ pc[At(t)] = "serving" /\ i[At(t)] = t
    OBVIOUS
  <2>1. CASE t = last
    BY <1>1, <1>2, <2>1
  <2>2. CASE t # last
    <3>1. t \in Nat /\ t < last /\ t < Parent
      BY <1>2, <2>2, Numbers
    <3>2. t \in Proc /\ t # Parent
      BY <3>1, Numbers DEF Child
    <3> QED BY <1>2, <2>2, <3>1, <3>2
  <2> QED BY <2>1, <2>2
<1>4. \A p \in On(a) : p \in Proc /\ pc[p] = "serving" /\ i[p] \in Nat /\ i[p] <= last /\ i[p] % cpu_cores = a
  BY <1>2 DEF Core
<1>5. /\ cpu_cores \in Nat \ {0} /\ a \in Nat /\ b \in Nat /\ b - a < cpu_cores
      /\ \A p \in Proc : p # none
  BY Numbers DEF Proc
<1> HIDE DEF On, last, none, At, send
<1>6. \A p \in On(a) : /\ i[p] + (b - a) \in Nat
                       /\ (i[p] + (b - a)) % cpu_cores = b
  <2> TAKE p \in On(a)
  <2>1. i[p] \in Nat /\ i[p] % cpu_cores = a
    BY <1>4
  <2>2. a <= i[p] /\ (i[p] + (b - a)) % cpu_cores = b
    BY <1>5, <2>1, Rests
  <2> QED BY <1>5, <2>1, <2>2
<1>7. \A p \in On(a) : i[p] + (b - a) <= last =>
        /\ send[p] \in On(b) /\ i[send[p]] = i[p] + (b - a)
  <2> SUFFICES ASSUME NEW p \in On(a), i[p] + (b - a) <= last
               PROVE  send[p] \in On(b) /\ i[send[p]] = i[p] + (b - a)
    OBVIOUS
  <2> DEFINE t == i[p] + (b - a)
  <2>1. t \in 0 .. last /\ t % cpu_cores = b
    BY <1>2, <1>6
  <2>2. send[p] = At(t)
    BY DEF send
  <2> HIDE DEF t
  <2> QED BY <1>3, <2>1, <2>2 DEF On, Core, t
<1>8. \A p \in On(a) : ~ i[p] + (b - a) <= last => send[p] = none
  BY DEF send
<1>9. none \notin On(b)
  BY <1>5 DEF On
<1>10. send \in Injection(On(a), On(b) \cup {none})
  <2>1. send \in [On(a) -> On(b) \cup {none}]
    <3>1. \A p \in On(a) : send[p] \in On(b) \cup {none}
      BY <1>7, <1>8
    <3> QED BY <3>1 DEF send
  <2>2. ASSUME NEW p \in On(a), NEW q \in On(a), send[p] = send[q]
        PROVE  p = q
    <3>1. CASE i[p] + (b - a) <= last
      <4>1. i[q] + (b - a) <= last
        BY <1>7, <1>8, <1>9, <2>2, <3>1
      <4>2. i[p] + (b - a) = i[q] + (b - a)
        BY <1>7, <2>2, <3>1, <4>1
      <4>3. i[p] = i[q]
        BY <1>4, <1>5, <4>2
      <4> QED BY <1>4, <4>3, OwnTurn DEF Started
    <3>2. CASE ~ i[p] + (b - a) <= last
      <4>1. ~ i[q] + (b - a) <= last
        BY <1>7, <1>8, <1>9, <2>2, <3>2
      <4>2. i[p] = i[q]
        <5>1. ~ (i[p] + cpu_cores <= i[q]) /\ ~ (i[q] + cpu_cores <= i[p])
          BY <1>2, <1>4, <1>5, <3>2, <4>1
        <5>2. /\ i[p] < i[q] => i[p] + cpu_cores <= i[q]
              /\ i[q] < i[p] => i[q] + cpu_cores <= i[p]
          BY <1>4, <1>5, Rests
        <5> QED BY <1>4, <5>1, <5>2
      <4> QED BY <1>4, <4>2, OwnTurn DEF Started
    <3> QED BY <3>1, <3>2
  <2> QED BY <2>1, <2>2 DEF Injection, IsInjective
<1>11. IsFiniteSet(On(b))
  <2>1. IsFiniteSet(Proc)
    BY FS_Interval, Numbers DEF Proc
  <2>2. On(b) \in SUBSET Proc
    BY DEF On
  <2> QED BY <2>1, <2>2, FS_Subset
<1>12. /\ IsFiniteSet(On(b) \cup {none}) /\ Cardinality(On(b)) \in Nat
       /\ Cardinality(On(b) \cup {none}) = Cardinality(On(b)) + 1
  BY <1>9, <1>11, FS_AddElement, FS_CardinalityType
<1>13. IsFiniteSet(On(a)) /\ Cardinality(On(a)) <= Cardinality(On(b) \cup {none})
  BY <1>10, <1>12, FS_Injection
<1>14. Cardinality(On(a)) <= 1 + Cardinality(On(b))
  BY <1>12, <1>13, FS_CardinalityType
<1> QED BY <1>14 DEF On

\* No two processes run with the same i, and when all forks succeeded the
\* cores are shared out evenly.
THEOREM WorkersAreSpread == Spec => []WorkersSpread
<1>1. IInv => WorkersSpread
  <2> SUFFICES ASSUME IInv PROVE WorkersSpread
    OBVIOUS
  <2>1. \A p, q \in Proc : Started(p) /\ Started(q) /\ i[p] = i[q] => p = q
    BY OwnTurn
  <2>2. ~failed /\ (\A p \in Proc : pc[p] = "serving" <=> (p = Parent \/ p < args["workers"] - 1))
       => \A a, b \in 0 .. cpu_cores - 1 :
            Cardinality({p \in Proc : pc[p] = "serving" /\ Core(p) = a})
              <= 1 + Cardinality({p \in Proc : pc[p] = "serving" /\ Core(p) = b})
    BY CoresEven
  <2> QED BY <2>1, <2>2 DEF WorkersSpread
<1> QED BY <1>1, AlwaysIInv, PTL

-----------------------------------------------------------------------------
(***************************************************************************)
(* Naturals.                                                               *)
(***************************************************************************)

\* A set of naturals that is not empty has a least element.
LEMMA LeastOf ==
  ASSUME NEW S \in SUBSET Nat, S # {}
  PROVE  \E n \in S : \A m \in S : n <= m
<1> DEFINE T == {0..n : n \in S}
<1>1. T \subseteq FiniteSubsetsOf(Nat)
  <2> SUFFICES ASSUME NEW n \in S PROVE 0..n \in FiniteSubsetsOf(Nat)
    OBVIOUS
  <2>1. IsFiniteSet(0..n)
    BY FS_Interval
  <2> QED BY <2>1 DEF FiniteSubsetsOf
<1>2. PICK x \in T : \A y \in T : ~(<<y, x>> \in StrictSubsetOrdering(Nat))
  <2>1. T # {}
    OBVIOUS
  <2> HIDE DEF T
  <2> QED BY <1>1, <2>1, FS_StrictSubsetOrderingWellFounded, WFMin
<1>3. PICK n \in S : x = 0..n
  OBVIOUS
<1>4. ASSUME NEW m \in S, m < n
      PROVE  FALSE
  <2>1. n \in 0..n /\ n \notin 0..m /\ 0..m \subseteq 0..n
    BY <1>4
  <2>2. <<0..m, x>> \in (SUBSET Nat) \X (SUBSET Nat)
    BY <1>3
  <2>3. <<0..m, x>> \in StrictSubsetOrdering(Nat)
    BY <2>1, <2>2, <1>3 DEF StrictSubsetOrdering
  <2> QED BY <2>3, <1>2
<1> QED BY <1>4

\* A set that holds zero and, with a number, the next one, holds them all.
LEMMA AllNaturals ==
  ASSUME NEW G, 0 \in G, \A n \in Nat : n \in G => n + 1 \in G
  PROVE  \A n \in Nat : n \in G
<1> DEFINE Missing == {n \in Nat : n \notin G}
<1>1. CASE Missing # {}
  <2>1. PICK n \in Missing : \A m \in Missing : n <= m
    <3>1. Missing \in SUBSET Nat
      OBVIOUS
    <3> HIDE DEF Missing
    <3> QED BY <1>1, <3>1, LeastOf
  <2>2. n - 1 \in Nat /\ n - 1 \in G
    BY <2>1
  <2> QED BY <2>1, <2>2
<1> QED BY <1>1

\* The least element of a set.
First(S) == CHOOSE o \in S : \A h \in S : o <= h

LEMMA FirstFacts ==
  ASSUME NEW S \in SUBSET Nat, S # {}
  PROVE  First(S) \in S /\ \A h \in S : First(S) <= h
BY LeastOf DEF First

LEMMA FirstIs ==
  ASSUME NEW S \in SUBSET Nat, NEW o \in S, \A h \in S : o <= h
  PROVE  First(S) = o
<1>1. First(S) \in S /\ First(S) <= o
  BY FirstFacts
<1>2. First(S) \in Nat /\ o \in Nat /\ o <= First(S)
  BY <1>1
<1> QED BY <1>1, <1>2

-----------------------------------------------------------------------------
(***************************************************************************)
(* CutAfter.                                                               *)
(***************************************************************************)

\* Where the next request ends, or -1.
Cut(s, c) == IF c = -1 \/ Ends(s, c) = {} THEN -1 ELSE 2 + First(Ends(s, c))

IsCut(s, k, g) == g = [j \in 0..k |-> IF j = 0 THEN 0 ELSE Cut(s, g[j - 1])]

\* The function that CutAfter defines by recursion exists.
LEMMA CutExists ==
  ASSUME NEW s
  PROVE  \A k \in Nat : \E g : IsCut(s, k, g)
<1> DEFINE G == {k \in Nat : \E g : IsCut(s, k, g)}
<1>1. 0 \in G
  <2>1. IsCut(s, 0, [j \in 0..0 |-> 0])
    BY DEF IsCut
  <2> QED BY <2>1
<1>2. ASSUME NEW k \in Nat, k \in G
      PROVE  k + 1 \in G
  <2>1. PICK g : IsCut(s, k, g)
    BY <1>2
  <2>2. /\ g[0] = 0
        /\ \A j \in 1..k : g[j] = Cut(s, g[j - 1])
    BY <2>1 DEF IsCut
  <2> DEFINE h == [j \in 0 .. k + 1 |-> IF j = k + 1 THEN Cut(s, g[k]) ELSE g[j]]
             r(j) == IF j = 0 THEN 0 ELSE Cut(s, h[j - 1])
  <2>3. ASSUME NEW j \in 0 .. k + 1
        PROVE  h[j] = r(j)
    <3>1. CASE j = 0
      BY <2>2, <3>1
    <3>2. CASE j = k + 1
      BY <3>2
    <3>3. CASE j \in 1..k
      <4>1. h[j] = g[j] /\ h[j - 1] = g[j - 1]
        BY <3>3
      <4> QED BY <2>2, <3>3, <4>1
    <3> QED BY <3>1, <3>2, <3>3
  <2>4. h = [j \in 0 .. k + 1 |-> r(j)]
    BY <2>3
  <2>5. IsCut(s, k + 1, h)
    BY <2>4 DEF IsCut
  <2> QED BY <2>5
<1> HIDE DEF G
<1>3. \A k \in Nat : k \in G
  BY <1>1, <1>2, AllNaturals
<1> QED BY <1>3 DEF G

\* It is the only one, and a longer one begins with it.
LEMMA CutUnique ==
  ASSUME NEW s, NEW k \in Nat, NEW n \in Nat, NEW g, NEW h,
         IsCut(s, k, g), IsCut(s, n, h)
  PROVE  \A j \in Nat : j <= k /\ j <= n => g[j] = h[j]
<1> DEFINE G == {j \in Nat : j <= k /\ j <= n => g[j] = h[j]}
<1>1. g[0] = 0 /\ \A j \in 1..k : g[j] = Cut(s, g[j - 1])
  BY DEF IsCut
<1>2. h[0] = 0 /\ \A j \in 1..n : h[j] = Cut(s, h[j - 1])
  BY DEF IsCut
<1>3. 0 \in G
  BY <1>1, <1>2
<1>4. ASSUME NEW j \in Nat, j \in G
      PROVE  j + 1 \in G
  <2>1. ASSUME j + 1 <= k, j + 1 <= n
        PROVE  g[j + 1] = h[j + 1]
    <3>1. g[j] = h[j]
      BY <1>4, <2>1
    <3>2. g[j + 1] = Cut(s, g[j])
      BY <1>1, <2>1
    <3>3. h[j + 1] = Cut(s, h[j])
      BY <1>2, <2>1
    <3> QED BY <3>1, <3>2, <3>3
  <2> QED BY <2>1
<1> HIDE DEF G
<1>5. \A j \in Nat : j \in G
  BY <1>3, <1>4, AllNaturals
<1> QED BY <1>5 DEF G

\* So that CutAfter is what its recursion says.
LEMMA CutAfterFacts ==
  ASSUME NEW s, NEW k \in Nat
  PROVE  CutAfter(s, 0) = 0 /\ CutAfter(s, k + 1) = Cut(s, CutAfter(s, k))
<1> DEFINE f(n) == CHOOSE g : IsCut(s, n, g)
<1>1. \A n \in Nat : CutAfter(s, n) = f(n)[n]
  BY DEF CutAfter, IsCut, Cut, First
<1>2. \A n \in Nat : IsCut(s, n, f(n))
  BY CutExists
<1> HIDE DEF f
<1>3. f(0)[0] = 0
  BY <1>2 DEF IsCut
<1>4. f(k + 1)[k + 1] = Cut(s, f(k + 1)[k])
  <2>1. IsCut(s, k + 1, f(k + 1))
    BY <1>2
  <2> DEFINE h == f(k + 1)
  <2> HIDE DEF h
  <2>2. h = [j \in 0 .. k + 1 |-> IF j = 0 THEN 0 ELSE Cut(s, h[j - 1])]
    BY <2>1 DEF IsCut, h
  <2>3. h[k + 1] = Cut(s, h[(k + 1) - 1])
    BY <2>2
  <2> QED BY <2>3 DEF h
<1>5. f(k + 1)[k] = f(k)[k]
  <2>1. IsCut(s, k + 1, f(k + 1)) /\ IsCut(s, k, f(k)) /\ k + 1 \in Nat
    BY <1>2
  <2> QED BY <2>1, CutUnique
<1> QED BY <1>1, <1>3, <1>4, <1>5

\* Bytes that come later do not change where the requests before them end.
LEMMA EndsGrow ==
  ASSUME NEW s \in Seq(Byte), NEW t \in Seq(Byte), NEW c \in Nat
  PROVE  /\ Ends(s, c) \subseteq Ends(s \o t, c)
         /\ \A o \in Ends(s \o t, c) : o + 2 < Len(s) => o \in Ends(s, c)
         /\ Ends(s, c) \in SUBSET Nat /\ Ends(s \o t, c) \in SUBSET Nat
         /\ \A o \in Ends(s, c) : o + 2 < Len(s)
<1>1. /\ Len(s \o t) = Len(s) + Len(t) /\ Len(s) \in Nat /\ Len(t) \in Nat
      /\ \A k \in 1..Len(s) : (s \o t)[k] = s[k]
  BY ConcatProperties
<1>2. \A o \in Nat : o + 2 < Len(s) => (EndOfRequest(s \o t, o) <=> EndOfRequest(s, o))
  BY <1>1 DEF EndOfRequest
<1> QED BY <1>1, <1>2 DEF Ends

LEMMA CutGrows ==
  ASSUME NEW s \in Seq(Byte), NEW t \in Seq(Byte), NEW c \in Nat, Cut(s, c) # -1
  PROVE  Cut(s \o t, c) = Cut(s, c) /\ Cut(s, c) \in Nat
<1>1. Ends(s, c) # {}
  BY DEF Cut
<1> DEFINE o == First(Ends(s, c))
<1>2. o \in Ends(s, c) /\ o \in Nat /\ \A h \in Ends(s, c) : o <= h
  BY <1>1, EndsGrow, FirstFacts
<1> HIDE DEF o
<1>3. o \in Ends(s \o t, c)
  BY <1>2, EndsGrow
<1>4. ASSUME NEW h \in Ends(s \o t, c)
      PROVE  o <= h
  <2>1. h \in Nat /\ o + 2 < Len(s) /\ Len(s) \in Nat
    BY <1>2, EndsGrow
  <2>2. CASE h < o
    <3>1. h \in Ends(s, c)
      BY <1>2, <2>1, <2>2, EndsGrow
    <3> QED BY <1>2, <3>1
  <2> QED BY <1>2, <2>1, <2>2
<1>5. First(Ends(s \o t, c)) = o
  BY <1>3, <1>4, EndsGrow, FirstIs
<1> QED BY <1>1, <1>2, <1>3, <1>5 DEF Cut, o

\* Once there is no request left, there is none after it either.
LEMMA CutAfterGrows ==
  ASSUME NEW s \in Seq(Byte), NEW t \in Seq(Byte)
  PROVE  \A k \in Nat : CutAfter(s, k) # -1 =>
           CutAfter(s, k) \in Nat /\ CutAfter(s \o t, k) = CutAfter(s, k)
<1> DEFINE G == {k \in Nat : CutAfter(s, k) # -1 =>
                   CutAfter(s, k) \in Nat /\ CutAfter(s \o t, k) = CutAfter(s, k)}
<1>1. 0 \in G
  BY CutAfterFacts
<1>2. ASSUME NEW k \in Nat, k \in G
      PROVE  k + 1 \in G
  <2>1. ASSUME CutAfter(s, k + 1) # -1
        PROVE  /\ CutAfter(s, k + 1) \in Nat
               /\ CutAfter(s \o t, k + 1) = CutAfter(s, k + 1)
    <3> DEFINE c == CutAfter(s, k)
    <3>1. CutAfter(s, k + 1) = Cut(s, c)
      BY CutAfterFacts
    <3>2. c # -1
      BY <2>1, <3>1 DEF Cut
    <3>3. c \in Nat /\ CutAfter(s \o t, k) = c
      BY <1>2, <3>2
    <3>4. CutAfter(s \o t, k + 1) = Cut(s \o t, c)
      BY <3>3, CutAfterFacts
    <3> HIDE DEF c
    <3> QED BY <2>1, <3>1, <3>3, <3>4, CutGrows
  <2> QED BY <2>1
<1> HIDE DEF G
<1>3. \A k \in Nat : k \in G
  BY <1>1, <1>2, AllNaturals
<1> QED BY <1>3 DEF G

-----------------------------------------------------------------------------
(***************************************************************************)
(* The inductive invariant.  The buffer is what of the stream has not been *)
(* popped, the search has passed over no end of a request in it, and it is *)
(* never so far that the next byte could not complete one.                 *)
(***************************************************************************)
ScannerTypeOK ==
  /\ open \in BOOLEAN
  /\ buf \in Seq(Byte) /\ stream \in Seq(Byte)
  /\ offset \in Nat /\ popped \in Nat /\ found \in Nat

Behind == offset = 0 \/ offset + 2 <= Len(buf)

Suffix(s, c, b) ==
  /\ Len(s) = c + Len(b)
  /\ \A k \in 1..Len(b) : b[k] = s[c + k]

ScannerInv ==
  /\ ScannerTypeOK
  /\ Behind
  /\ NothingSkipped
  /\ popped = CutAfter(stream, found)
  /\ Suffix(stream, popped, buf)

\* A new connection, or none.
Fresh ==
  /\ open \in BOOLEAN
  /\ buf = <<>> /\ offset = 0
  /\ stream = <<>> /\ popped = 0 /\ found = 0

LEMMA FreshInv == Fresh => ScannerInv
BY CutAfterFacts DEF Fresh, ScannerInv, ScannerTypeOK, Behind, NothingSkipped, Suffix

LEMMA FreshStep == Fresh' => ScannerInv'
BY CutAfterFacts DEF Fresh, ScannerInv, ScannerTypeOK, Behind, NothingSkipped, Suffix

\* What stands in the tail of a sequence, an empty tail included.
LEMMA SubSeqFacts ==
  ASSUME NEW s \in Seq(Byte), NEW j \in Nat \ {0}, j <= Len(s) + 1
  PROVE  /\ SubSeq(s, j, Len(s)) \in Seq(Byte)
         /\ Len(SubSeq(s, j, Len(s))) = Len(s) - j + 1
         /\ \A k \in 1 .. Len(s) - j + 1 : SubSeq(s, j, Len(s))[k] = s[j + k - 1]
<1>1. Len(s) \in Nat
  OBVIOUS
<1>2. CASE j <= Len(s)
  BY <1>1, <1>2, SubSeqProperties
<1>3. CASE j = Len(s) + 1
  BY <1>1, <1>3, SubSeqProperties
<1> QED BY <1>1, <1>2, <1>3

-----------------------------------------------------------------------------
(***************************************************************************)
(* A read.                                                                 *)
(***************************************************************************)

\* The search finds the first request of the whole buffer.
LEMMA ScanFacts ==
  ASSUME NEW b \in Seq(Byte), NEW from \in Nat,
         from = 0 \/ from + 2 <= Len(b),
         \A o \in 0 .. from - 1 : o + 2 < Len(b) => ~EndOfRequest(b, o)
  PROVE  LET s == Scan(b, from, Len(b))
         IN /\ s.isfound => /\ s.offset \in Ends(b, 0)
                            /\ \A h \in Ends(b, 0) : s.offset <= h
            /\ ~s.isfound => /\ Ends(b, 0) = {}
                             /\ s.offset \in Nat
                             /\ s.offset = 0 \/ s.offset + 2 <= Len(b)
<1> DEFINE s == Scan(b, from, Len(b))
           hits == Ends(b, from)
<1>1. Len(b) \in Nat
  OBVIOUS
<1>2. hits = Ends(b, 0)
  BY <1>1 DEF Ends
<1>3. hits \in SUBSET Nat
  BY <1>1 DEF Ends
<1>4. /\ s.isfound = (hits # {})
      /\ s.offset = IF hits # {} THEN First(hits)
                    ELSE IF from < Len(b) - 2 THEN Len(b) - 2 ELSE from
  BY DEF Scan, Ends, First
<1> HIDE DEF s, hits
<1>5. CASE hits # {}
  BY <1>2, <1>3, <1>4, <1>5, FirstFacts DEF s
<1>6. CASE hits = {}
  <2>1. /\ ~s.isfound
        /\ s.offset = IF from < Len(b) - 2 THEN Len(b) - 2 ELSE from
    BY <1>4, <1>6
  <2>2. s.offset \in Nat /\ (s.offset = 0 \/ s.offset + 2 <= Len(b))
    <3> DEFINE len == Len(b)
    <3>1. len \in Nat /\ (from = 0 \/ from + 2 <= len)
      BY <1>1
    <3>2. s.offset = IF from < len - 2 THEN len - 2 ELSE from
      BY <2>1
    <3> HIDE DEF len
    <3>5. s.offset \in Nat /\ (s.offset = 0 \/ s.offset + 2 <= len)
      BY <3>1, <3>2
    <3> QED BY <3>5 DEF len
  <2> QED BY <1>2, <1>6, <2>1, <2>2 DEF s
<1> QED BY <1>5, <1>6

\* The buffer with the new bytes is what the search may resume in.
LEMMA BufferFacts ==
  ASSUME ScannerInv, NEW seg \in Seq(Byte)
  PROVE  /\ buf \o seg \in Seq(Byte)
         /\ offset = 0 \/ offset + 2 <= Len(buf \o seg)
         /\ \A o \in 0 .. offset - 1 : o + 2 < Len(buf \o seg) => ~EndOfRequest(buf \o seg, o)
         /\ Suffix(stream \o seg, popped, buf \o seg)
<1> USE DEF ScannerInv, ScannerTypeOK
<1>1. /\ buf \o seg \in Seq(Byte)
      /\ Len(buf \o seg) = Len(buf) + Len(seg) /\ Len(buf) \in Nat /\ Len(seg) \in Nat
      /\ \A k \in 1 .. Len(buf) + Len(seg) :
           (buf \o seg)[k] = IF k <= Len(buf) THEN buf[k] ELSE seg[k - Len(buf)]
  BY ConcatProperties
<1>2. /\ Len(stream \o seg) = Len(stream) + Len(seg) /\ Len(stream) \in Nat
      /\ \A k \in 1 .. Len(stream) + Len(seg) :
           (stream \o seg)[k] = IF k <= Len(stream) THEN stream[k] ELSE seg[k - Len(stream)]
  BY ConcatProperties
<1>3. offset = 0 \/ offset + 2 <= Len(buf)
  BY DEF Behind
<1>4. ASSUME NEW o \in 0 .. offset - 1
      PROVE  ~EndOfRequest(buf \o seg, o)
  <2>1. o + 2 < Len(buf) /\ ~EndOfRequest(buf, o)
    BY <1>1, <1>3 DEF NothingSkipped
  <2>2. (buf \o seg)[o + 1] = buf[o + 1] /\ (buf \o seg)[o + 3] = buf[o + 3]
    BY <1>1, <2>1
  <2> QED BY <2>1, <2>2 DEF EndOfRequest
<1>5. Suffix(stream \o seg, popped, buf \o seg)
  <2>1. Len(stream) = popped + Len(buf)
    BY DEF Suffix
  <2>2. ASSUME NEW k \in 1 .. Len(buf) + Len(seg)
        PROVE  (buf \o seg)[k] = (stream \o seg)[popped + k]
    <3>1. CASE k <= Len(buf)
      <4>1. buf[k] = stream[popped + k]
        BY <1>1, <3>1 DEF Suffix
      <4> QED BY <1>1, <1>2, <2>1, <3>1, <4>1
    <3>2. CASE k > Len(buf)
      <4>1. popped \in Nat /\ k \in Nat
        BY <1>1
      <4>2. /\ popped + k - Len(stream) = k - Len(buf)
            /\ popped + k \in 1 .. Len(stream) + Len(seg)
            /\ ~(popped + k <= Len(stream))
        <5>1. k <= Len(buf) + Len(seg) /\ Len(buf) < k
          BY <3>2
        <5> HIDE DEF ScannerInv, ScannerTypeOK
        <5> QED BY <1>1, <1>2, <2>1, <4>1, <5>1
      <4>3. (stream \o seg)[popped + k] = seg[popped + k - Len(stream)]
        BY <1>2, <4>2
      <4>4. (buf \o seg)[k] = seg[k - Len(buf)]
        BY <1>1, <3>2
      <4> QED BY <4>2, <4>3, <4>4
    <3>3. k <= Len(buf) \/ k > Len(buf)
      BY <1>1
    <3> QED BY <3>1, <3>2, <3>3
  <2>3. Len(stream \o seg) = popped + (Len(buf) + Len(seg))
    BY <1>1, <1>2, <2>1
  <2> QED BY <1>1, <2>2, <2>3 DEF Suffix
<1>6. offset = 0 \/ offset + 2 <= Len(buf \o seg)
  BY <1>1, <1>3
<1> QED BY <1>1, <1>4, <1>5, <1>6

\* The ends in the buffer are those in the stream behind what was popped.
LEMMA SuffixEnds ==
  ASSUME NEW s, NEW c \in Nat, NEW b \in Seq(Byte), Suffix(s, c, b)
  PROVE  \A o \in Nat : o \in Ends(b, 0) <=> c + o \in Ends(s, c)
<1> SUFFICES ASSUME NEW o \in Nat PROVE o \in Ends(b, 0) <=> c + o \in Ends(s, c)
  OBVIOUS
<1>1. Len(b) \in Nat /\ Len(s) = c + Len(b)
  BY DEF Suffix
<1>2. CASE o + 2 < Len(b)
  <2> o + 1 \in 1..Len(b) /\ o + 3 \in 1..Len(b)
    BY <1>1, <1>2
  <2>1. b[o + 1] = s[c + (o + 1)] /\ b[o + 3] = s[c + (o + 3)]
    BY DEF Suffix
  <2>2. c + (o + 1) = (c + o) + 1 /\ c + (o + 3) = (c + o) + 3
    OBVIOUS
  <2>3. EndOfRequest(b, o) <=> EndOfRequest(s, c + o)
    BY <2>1, <2>2 DEF EndOfRequest
  <2> QED BY <1>1, <1>2, <2>3 DEF Ends
<1>3. CASE ~(o + 2 < Len(b))
  BY <1>1, <1>3 DEF Ends
<1> QED BY <1>2, <1>3

\* So the first of them ends the next request of the stream.
LEMMA SuffixCut ==
  ASSUME NEW s \in Seq(Byte), NEW c \in Nat, NEW b \in Seq(Byte), Suffix(s, c, b),
         NEW o \in Ends(b, 0), \A h \in Ends(b, 0) : o <= h
  PROVE  Cut(s, c) = c + o + 2 /\ o \in Nat /\ o + 2 < Len(b)
<1>1. o \in Nat /\ o + 2 < Len(b)
  BY DEF Ends
<1>2. c + o \in Ends(s, c)
  BY <1>1, SuffixEnds
<1>3. Ends(s, c) \in SUBSET Nat /\ \A h \in Ends(s, c) : h >= c
  BY DEF Ends
<1>4. ASSUME NEW h \in Ends(s, c)
      PROVE  c + o <= h
  <2>1. h - c \in Nat /\ c + (h - c) = h
    BY <1>3
  <2>2. h - c \in Ends(b, 0)
    BY <2>1, SuffixEnds
  <2> QED BY <1>1, <2>1, <2>2
<1>5. First(Ends(s, c)) = c + o
  BY <1>2, <1>3, <1>4, FirstIs
<1> QED BY <1>1, <1>2, <1>5 DEF Cut

LEMMA ReadInv ==
  ASSUME ScannerInv, NEW seg \in Seq(Byte), http_read(seg)
  PROVE  ScannerInv'
<1> DEFINE b == buf \o seg
           s == Scan(b, offset, Len(b))
           n == s.offset + 2
           t == stream \o seg
<1>1. /\ b \in Seq(Byte) /\ Len(b) \in Nat
      /\ offset = 0 \/ offset + 2 <= Len(b)
      /\ \A o \in 0 .. offset - 1 : o + 2 < Len(b) => ~EndOfRequest(b, o)
      /\ Suffix(t, popped, b)
  BY BufferFacts
<1>2. t \in Seq(Byte) /\ offset \in Nat /\ popped \in Nat /\ found \in Nat
  BY ConcatProperties DEF ScannerInv, ScannerTypeOK
<1>3. /\ s.isfound => /\ s.offset \in Ends(b, 0)
                      /\ \A h \in Ends(b, 0) : s.offset <= h
      /\ ~s.isfound => /\ Ends(b, 0) = {}
                       /\ s.offset \in Nat
                       /\ s.offset = 0 \/ s.offset + 2 <= Len(b)
  <2> HIDE DEF b
  <2> QED BY <1>1, <1>2, ScanFacts
<1>4. CutAfter(t, found) = popped
  BY <1>2, CutAfterGrows DEF ScannerInv, ScannerTypeOK
<1>5. \/ /\ ~s.isfound
         /\ buf' = b /\ offset' = s.offset
         /\ stream' = t
         /\ UNCHANGED <<open, popped, found>>
      \/ /\ s.isfound
         /\ buf' = SubSeq(b, n + 1, Len(b)) /\ offset' = 0
         /\ stream' = t /\ popped' = popped + n
         /\ found' = found + 1
         /\ UNCHANGED open
      \/ s.isfound /\ destroy_client
  BY DEF http_read
<1> HIDE DEF b, s, t
<1>6. CASE /\ ~s.isfound
           /\ buf' = b /\ offset' = s.offset
           /\ stream' = t
           /\ UNCHANGED <<open, popped, found>>
  <2>1. ScannerTypeOK'
    BY <1>1, <1>2, <1>3, <1>6 DEF ScannerInv, ScannerTypeOK
  <2>2. Behind'
    BY <1>3, <1>6 DEF Behind
  <2>3. NothingSkipped'
    BY <1>1, <1>3, <1>6 DEF NothingSkipped, Ends
  <2>4. popped' = CutAfter(stream', found') /\ Suffix(stream', popped', buf')
    BY <1>1, <1>4, <1>6
  <2> QED BY <2>1, <2>2, <2>3, <2>4 DEF ScannerInv
<1>7. CASE /\ s.isfound
           /\ buf' = SubSeq(b, n + 1, Len(b)) /\ offset' = 0
           /\ stream' = t /\ popped' = popped + n
           /\ found' = found + 1
           /\ UNCHANGED open
  <2>1. Cut(t, popped) = popped + s.offset + 2 /\ s.offset \in Nat /\ s.offset + 2 < Len(b)
    BY <1>1, <1>2, <1>3, <1>7, SuffixCut
  <2>2. n \in Nat /\ n < Len(b) /\ popped + n = popped + s.offset + 2
    BY <1>1, <1>2, <2>1
  <2>3. CutAfter(t, found + 1) = popped + n
    BY <1>2, <1>4, <2>1, <2>2, CutAfterFacts
  <2> HIDE DEF n
  <2>4. /\ buf' \in Seq(Byte) /\ Len(buf') = Len(b) - n
        /\ \A k \in 1 .. Len(b) - n : buf'[k] = b[n + k]
    BY <1>1, <1>7, <2>2
  <2>5. ScannerTypeOK'
    <3>1. popped' \in Nat /\ found' \in Nat /\ offset' \in Nat
      BY <1>2, <1>7, <2>2
    <3> QED BY <1>2, <1>7, <2>4, <3>1 DEF ScannerInv, ScannerTypeOK
  <2>6. Behind' /\ NothingSkipped'
    BY <1>7 DEF Behind, NothingSkipped
  <2>7. popped' = CutAfter(stream', found')
    BY <1>7, <2>3
  <2>8. Suffix(stream', popped', buf')
    <3>1. Len(t) = (popped + n) + (Len(b) - n)
      BY <1>1, <1>2, <2>2 DEF Suffix
    <3>2. ASSUME NEW k \in 1 .. Len(b) - n
          PROVE  b[n + k] = t[(popped + n) + k]
      <4>1. n + k \in 1..Len(b) /\ popped + (n + k) = (popped + n) + k
        BY <1>1, <1>2, <2>2
      <4> QED BY <1>1, <4>1 DEF Suffix
    <3> QED BY <1>7, <2>4, <3>1, <3>2 DEF Suffix
  <2> QED BY <2>5, <2>6, <2>7, <2>8 DEF ScannerInv
<1>8. CASE destroy_client
  <2>1. Fresh'
    BY <1>8 DEF destroy_client, Fresh
  <2> QED BY <2>1, FreshStep
<1> QED BY <1>5, <1>6, <1>7, <1>8

LEMMA ScannerNext == ScannerInv /\ [ScanNext]_scan_vars => ScannerInv'
<1> SUFFICES ASSUME ScannerInv, [ScanNext]_scan_vars PROVE ScannerInv'
  OBVIOUS
<1>1. CASE http_accept
  BY <1>1 DEF http_accept, ScannerInv, ScannerTypeOK, Behind, NothingSkipped
<1>2. ASSUME NEW seg \in Segment, http_read(seg)
      PROVE  ScannerInv'
  <2>1. seg \in Seq(Byte)
    <3>1. PICK n \in Nat : seg \in [1..n -> Byte]
      BY <1>2 DEF Segment
    <3> QED BY <3>1
  <2> QED BY <1>2, <2>1, ReadInv
<1>3. CASE http_error
  <2>1. Fresh'
    BY <1>3 DEF http_error, destroy_client, Fresh
  <2> QED BY <2>1, FreshStep
<1>4. CASE UNCHANGED scan_vars
  BY <1>4 DEF scan_vars, ScannerInv, ScannerTypeOK, Behind, NothingSkipped
<1> QED BY <1>1, <1>2, <1>3, <1>4 DEF ScanNext

LEMMA ScannerAlways == ScanSpec => []ScannerInv
<1>1. ScanInit => ScannerInv
  BY FreshInv DEF ScanInit, Fresh
<1> QED BY <1>1, ScannerNext, PTL DEF ScanSpec

\* No end of a request is passed over, in however many pieces it came.
THEOREM SearchSkipsNothing == ScanSpec => []NothingSkipped
<1>1. ScannerInv => NothingSkipped
  BY DEF ScannerInv
<1> QED BY <1>1, ScannerAlways, PTL

\* The requests found are those that the whole stream has, and end where they
\* end there; the buffer holds the rest of it.
THEOREM PiecesDoNotMatter == ScanSpec => []SegmentationIndependent
<1>1. ASSUME ScannerInv PROVE SegmentationIndependent
  <2>1. /\ buf \in Seq(Byte) /\ stream \in Seq(Byte) /\ popped \in Nat
        /\ Len(stream) = popped + Len(buf) /\ Len(buf) \in Nat
        /\ \A k \in 1..Len(buf) : buf[k] = stream[popped + k]
    BY <1>1 DEF ScannerInv, ScannerTypeOK, Suffix
  <2> DEFINE rest == SubSeq(stream, popped + 1, Len(stream))
  <2>2. /\ rest \in Seq(Byte) /\ Len(rest) = Len(buf)
        /\ \A k \in 1..Len(buf) : rest[k] = stream[popped + k]
    <3>1. Len(stream) \in Nat /\ popped + 1 \in Nat \ {0} /\ popped + 1 <= Len(stream) + 1
      BY <2>1
    <3>2. /\ rest \in Seq(Byte)
          /\ Len(rest) = Len(stream) - (popped + 1) + 1
          /\ \A k \in 1 .. Len(stream) - (popped + 1) + 1 :
               rest[k] = stream[(popped + 1) + k - 1]
      BY <2>1, <3>1, SubSeqFacts
    <3>3. Len(stream) - (popped + 1) + 1 = Len(buf)
      BY <2>1
    <3>4. \A k \in 1..Len(buf) : (popped + 1) + k - 1 = popped + k
      BY <2>1
    <3> HIDE DEF rest
    <3> QED BY <3>2, <3>3, <3>4
  <2> HIDE DEF rest
  <2>3. buf = rest
    BY <2>1, <2>2, SeqEqual
  <2> QED BY <1>1, <2>3 DEF SegmentationIndependent, ScannerInv, rest
<1> QED BY <1>1, ScannerAlways, PTL

=============================================================================
