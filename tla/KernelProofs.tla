----------------------------- MODULE KernelProofs -----------------------------
(***************************************************************************)
(* Two modules of src/kernel that nothing connects but the kernel: the     *)
(* /proc buffer of procfs2.c, for any number of processes that read and    *)
(* write it at the same time, any size and any texts, and the task of      *)
(* sched.c, whose module is cleaned up while it runs.                      *)
(***************************************************************************)
EXTENDS Procfs, SchedModule, SequenceTheorems, TLAPS

-----------------------------------------------------------------------------
(***************************************************************************)
(* procfs2.c: the inductive invariant.                                     *)
(***************************************************************************)

\* What may stand in the buffer.
Char == STRING \cup {"NUL", "?", "unknown"}

Point == {"idle", "w_size", "w_cap", "w_cut", "w_copy", "r_copy", "r_ret", "r_done"}

TypeOK ==
  /\ loaded \in BOOLEAN
  /\ procfs_buffer \in [Place -> Char] /\ procfs_buffer_size \in Nat
  /\ pc \in [Proc -> Point]
  /\ arg \in [Proc -> Seq(STRING)]
  /\ out \in [Proc -> Seq(Char)]
  /\ ret \in [Proc -> Nat]
  /\ quiet \in [Proc -> BOOLEAN]
  /\ stored \in Seq(Char)
  /\ smashed \in BOOLEAN

\* Nobody is in a call of a module that is not loaded.
NobodyInside == ~loaded => \A p \in Proc : pc[p] = "idle"

\* Whoever has stored a size that is too large has yet to cut it.
SomebodyCuts ==
  procfs_buffer_size > PROCFS_MAX_SIZE /\ ~smashed
    => \E p \in Proc : pc[p] \in {"w_cap", "w_cut"}

\* A call that is not overlapped by a write is so now: no other write runs.
Alone == \A p \in Writing \cup Reading : quiet[p] => \A q \in Writing : q = p

\* So the size is its own.
OwnSize ==
  \A p \in Proc : quiet[p] =>
    /\ pc[p] \in {"w_cap", "w_cut"} => procfs_buffer_size = Len(arg[p])
    /\ pc[p] = "w_cut" => procfs_buffer_size > PROCFS_MAX_SIZE
    /\ pc[p] = "w_copy" =>
         procfs_buffer_size = IF Len(arg[p]) > PROCFS_MAX_SIZE THEN PROCFS_MAX_SIZE
                              ELSE Len(arg[p])

\* What the last write has stored is what the buffer holds.
BufferHolds ==
  stored # UNKNOWN =>
    /\ Writing = {}
    /\ Len(stored) = procfs_buffer_size /\ procfs_buffer_size <= PROCFS_MAX_SIZE
    /\ \A k \in 1..procfs_buffer_size : procfs_buffer[k - 1] = stored[k]

\* And what reads have copied from it.
CopiesHold ==
  stored # UNKNOWN =>
    \A p \in Proc : quiet[p] =>
      /\ pc[p] \in {"r_ret", "r_done"} => out[p] = stored
      /\ pc[p] = "r_done" => ret[p] = Len(stored)

\* What a quiet read has copied is as long as the size says, which nobody changes.
CopiesFit ==
  \A p \in Proc : quiet[p] =>
    /\ pc[p] = "r_ret" => Len(out[p]) = procfs_buffer_size
    /\ pc[p] = "r_done" => ret[p] = Len(out[p])

IInv ==
  /\ TypeOK /\ NobodyInside /\ SomebodyCuts
  /\ Alone /\ OwnSize /\ BufferHolds /\ CopiesHold /\ CopiesFit

-----------------------------------------------------------------------------
\* The types that a step starts from.
LEMMA Types ==
  ASSUME IInv, NEW p \in Proc
  PROVE  /\ PROCFS_MAX_SIZE \in Nat /\ procfs_buffer_size \in Nat /\ Garbage \subseteq Nat
         /\ pc \in [Proc -> Point] /\ arg \in [Proc -> Seq(STRING)]
         /\ out \in [Proc -> Seq(Char)] /\ ret \in [Proc -> Nat]
         /\ quiet \in [Proc -> BOOLEAN]
         /\ arg[p] \in Seq(STRING) /\ Len(arg[p]) \in Nat
<1>1. arg \in [Proc -> Seq(STRING)]
  BY DEF IInv, TypeOK
<1>2. arg[p] \in Seq(STRING)
  BY <1>1
<1> QED BY <1>1, <1>2, DataAssumption DEF IInv, TypeOK

LEMMA GotoFacts ==
  ASSUME IInv, NEW p \in Proc, NEW there \in Point, Goto(p, there)
  PROVE  /\ pc' \in [Proc -> Point] /\ pc'[p] = there
         /\ \A q \in Proc \ {p} : pc'[q] = pc[q]
BY Types DEF Goto

LEMMA ReturnFacts ==
  ASSUME IInv, NEW p \in Proc, Return(p)
  PROVE  /\ pc' \in [Proc -> Point] /\ arg' \in [Proc -> Seq(STRING)]
         /\ out' \in [Proc -> Seq(Char)] /\ ret' \in [Proc -> Nat]
         /\ quiet' \in [Proc -> BOOLEAN]
         /\ pc'[p] = "idle" /\ quiet'[p] = FALSE
         /\ \A q \in Proc \ {p} :
              /\ pc'[q] = pc[q] /\ arg'[q] = arg[q] /\ out'[q] = out[q]
              /\ ret'[q] = ret[q] /\ quiet'[q] = quiet[q]
<1>1. /\ pc' \in [Proc -> Point] /\ pc'[p] = "idle"
      /\ \A q \in Proc \ {p} : pc'[q] = pc[q]
  BY GotoFacts DEF Return, Point
<1>2. arg' \in [Proc -> Seq(STRING)] /\ \A q \in Proc \ {p} : arg'[q] = arg[q]
  <2>1. <<>> \in Seq(STRING)
    OBVIOUS
  <2> QED BY <2>1, Types DEF Return
<1>3. out' \in [Proc -> Seq(Char)] /\ \A q \in Proc \ {p} : out'[q] = out[q]
  <2>1. <<>> \in Seq(Char)
    OBVIOUS
  <2> QED BY <2>1, Types DEF Return
<1>4. ret' \in [Proc -> Nat] /\ \A q \in Proc \ {p} : ret'[q] = ret[q]
  BY Types DEF Return
<1>5. /\ quiet' \in [Proc -> BOOLEAN] /\ quiet'[p] = FALSE
      /\ \A q \in Proc \ {p} : quiet'[q] = quiet[q]
  BY Types DEF Return
<1> QED BY <1>1, <1>2, <1>3, <1>4, <1>5

LEMMA InitInv == Init => IInv
<1> SUFFICES ASSUME Init PROVE IInv
  OBVIOUS
<1>1. TypeOK
  <2>1. /\ procfs_buffer \in [Place -> Char]
        /\ loaded \in BOOLEAN /\ procfs_buffer_size \in Nat
    BY DEF Init, Char
  <2>2. pc \in [Proc -> Point] /\ ret \in [Proc -> Nat] /\ quiet \in [Proc -> BOOLEAN]
    BY DEF Init, Point
  <2>3. arg \in [Proc -> Seq(STRING)] /\ out \in [Proc -> Seq(Char)] /\ stored \in Seq(Char)
    <3>1. <<>> \in Seq(STRING) /\ <<>> \in Seq(Char)
      OBVIOUS
    <3> QED BY <3>1 DEF Init
  <2>4. smashed \in BOOLEAN
    BY DEF Init
  <2> QED BY <2>1, <2>2, <2>3, <2>4 DEF TypeOK
<1>2. Writing = {} /\ Reading = {}
  BY DEF Init, Writing, Reading
<1>3. NobodyInside /\ SomebodyCuts /\ Alone /\ OwnSize /\ BufferHolds /\ CopiesHold /\ CopiesFit
  BY <1>2, DataAssumption
     DEF Init, NobodyInside, SomebodyCuts, Alone, OwnSize, BufferHolds, CopiesHold, CopiesFit
<1> QED BY <1>1, <1>3 DEF IInv

LEMMA LoadInv ==
  ASSUME IInv, init_module \/ cleanup_module
  PROVE  IInv'
<1>1. CASE cleanup_module
  BY <1>1 DEF cleanup_module, IInv, TypeOK, NobodyInside, SomebodyCuts, Alone, OwnSize,
             BufferHolds, CopiesHold, CopiesFit, Writing, Reading, Point
<1>2. CASE init_module /\ UNCHANGED vars
  BY <1>2 DEF vars, file, IInv, TypeOK, NobodyInside, SomebodyCuts, Alone, OwnSize,
             BufferHolds, CopiesHold, CopiesFit, Writing, Reading
<1>3. CASE /\ ~loaded /\ loaded' = TRUE
           /\ procfs_buffer' = [k \in Place |-> "NUL"] /\ procfs_buffer_size' = 0
           /\ stored' = <<>> /\ smashed' = FALSE
           /\ UNCHANGED <<pc, arg, out, ret, quiet>>
  <2>1. \A p \in Proc : pc'[p] = "idle"
    BY <1>3 DEF IInv, NobodyInside
  <2>2. Writing' = {} /\ Reading' = {}
    BY <2>1 DEF Writing, Reading
  <2>3. TypeOK'
    <3>1. procfs_buffer' \in [Place -> Char] /\ procfs_buffer_size' \in Nat
      BY <1>3 DEF Char
    <3>2. loaded' \in BOOLEAN /\ smashed' \in BOOLEAN
      BY <1>3
    <3>4. stored' \in Seq(Char)
      <4>1. <<>> \in Seq(Char)
        OBVIOUS
      <4> QED BY <1>3, <4>1
    <3>3. /\ pc' \in [Proc -> Point] /\ arg' \in [Proc -> Seq(STRING)]
          /\ out' \in [Proc -> Seq(Char)] /\ ret' \in [Proc -> Nat]
          /\ quiet' \in [Proc -> BOOLEAN]
      BY <1>3 DEF IInv, TypeOK
    <3> QED BY <3>1, <3>2, <3>3, <3>4, Zenon DEF TypeOK
  <2>4. /\ NobodyInside' /\ SomebodyCuts' /\ Alone' /\ OwnSize'
        /\ BufferHolds' /\ CopiesHold' /\ CopiesFit'
    BY <1>3, <2>1, <2>2, DataAssumption
       DEF NobodyInside, SomebodyCuts, Alone, OwnSize, BufferHolds, CopiesHold, CopiesFit
  <2> QED BY <2>3, <2>4 DEF IInv
<1> QED BY <1>1, <1>2, <1>3 DEF init_module

-----------------------------------------------------------------------------
(***************************************************************************)
(* write.                                                                  *)
(***************************************************************************)
\* While somebody writes nothing is said of what is stored.
LEMMA WriterUnknown ==
  ASSUME IInv, NEW p \in Proc, pc[p] \in {"w_size", "w_cap", "w_cut", "w_copy"}
  PROVE  stored = UNKNOWN
BY DEF IInv, BufferHolds, Writing

LEMMA WriteInv ==
  ASSUME IInv, NEW p \in Proc, NEW d \in Data, procfile_write(p, d)
  PROVE  IInv'
<1>1. /\ loaded /\ pc[p] = "idle" /\ Goto(p, "w_size")
      /\ arg' = [arg EXCEPT ![p] = d]
      /\ quiet' = [q \in Proc |-> q = p /\ Writing = {}]
      /\ stored' = UNKNOWN
      /\ UNCHANGED <<loaded, procfs_buffer, procfs_buffer_size, out, ret, smashed>>
  BY DEF procfile_write, file
<1>2. /\ pc' \in [Proc -> Point] /\ pc'[p] = "w_size"
      /\ \A q \in Proc \ {p} : pc'[q] = pc[q]
  BY <1>1, GotoFacts DEF Point
<1>3. TypeOK'
  <2>1. arg' \in [Proc -> Seq(STRING)]
    BY <1>1, Types, DataAssumption
  <2>2. quiet' \in [Proc -> BOOLEAN]
    BY <1>1
  <2>3. UNKNOWN \in Seq(Char)
    BY DEF UNKNOWN, Char
  <2> QED BY <1>1, <1>2, <2>1, <2>2, <2>3 DEF IInv, TypeOK
<1>4. NobodyInside' /\ SomebodyCuts'
  BY <1>1, <1>2 DEF IInv, NobodyInside, SomebodyCuts
<1>5. Alone'
  BY <1>1, <1>2 DEF Alone, Writing, Reading
<1>6. OwnSize'
  BY <1>1, <1>2 DEF OwnSize
<1>7. BufferHolds' /\ CopiesHold'
  BY <1>1 DEF BufferHolds, CopiesHold, UNKNOWN
<1>8. CopiesFit'
  BY <1>1, <1>2 DEF CopiesFit
<1> QED BY <1>3, <1>4, <1>5, <1>6, <1>7, <1>8 DEF IInv

LEMMA SizeInv ==
  ASSUME IInv, NEW p \in Proc,
         procfile_write_size(p) \/ procfile_write_cap(p) \/ procfile_write_cut(p)
  PROVE  IInv'
<1>1. /\ pc[p] \in {"w_size", "w_cap", "w_cut"}
      /\ UNCHANGED <<loaded, procfs_buffer, arg, out, ret, quiet, stored>>
  BY DEF procfile_write_size, procfile_write_cap, procfile_write_cut, file
<1>2. stored' = UNKNOWN
  BY <1>1, WriterUnknown
<1>3. BufferHolds' /\ CopiesHold'
  BY <1>2 DEF BufferHolds, CopiesHold, UNKNOWN
\* No read is quiet while p writes.
<1>b. \A q \in Proc : quiet[q] => pc[q] \notin {"r_ret", "r_done"}
  BY <1>1 DEF IInv, Alone, Writing, Reading
<1>9. CopiesFit'
  <2>1. pc'[p] \in {"w_cap", "w_cut", "w_copy"} /\ \A q \in Proc \ {p} : pc'[q] = pc[q]
    BY Types DEF procfile_write_size, procfile_write_cap, procfile_write_cut, Goto, IInv, TypeOK
  <2> QED BY <1>1, <1>b, <2>1 DEF CopiesFit
<1>4. loaded
  BY <1>1 DEF IInv, NobodyInside
<1>5. \A q \in Proc : quiet[q] /\ pc[q] \in {"w_cap", "w_cut", "w_copy"} => q = p
  BY <1>1 DEF IInv, Alone, Writing
<1>6. CASE procfile_write_size(p)
  <2>1. /\ pc[p] = "w_size" /\ Goto(p, "w_cap")
        /\ procfs_buffer_size' = Len(arg[p]) /\ smashed' = FALSE
    BY <1>6 DEF procfile_write_size
  <2>2. /\ pc' \in [Proc -> Point] /\ pc'[p] = "w_cap"
        /\ \A q \in Proc \ {p} : pc'[q] = pc[q]
    BY <2>1, GotoFacts DEF Point
  <2>3. TypeOK'
    <3>1. Len(arg[p]) \in Nat
      BY Types
    <3> QED BY <1>1, <2>1, <2>2, <3>1 DEF IInv, TypeOK
  <2>4. NobodyInside' /\ SomebodyCuts'
    BY <1>1, <1>4, <2>2 DEF NobodyInside, SomebodyCuts
  <2>5. Writing' = Writing /\ Reading' = Reading
    BY <2>1, <2>2 DEF Writing, Reading
  <2>6. Alone'
    BY <1>1, <2>5 DEF IInv, Alone
  <2>7. OwnSize'
    BY <1>1, <1>5, <2>1, <2>2 DEF OwnSize
  <2> QED BY <1>3, <1>9, <2>3, <2>4, <2>6, <2>7 DEF IInv
<1>7. CASE procfile_write_cap(p)
  <2> DEFINE there == IF procfs_buffer_size > PROCFS_MAX_SIZE THEN "w_cut" ELSE "w_copy"
  <2>1. /\ pc[p] = "w_cap" /\ Goto(p, there)
        /\ UNCHANGED <<procfs_buffer_size, smashed>>
    BY <1>7 DEF procfile_write_cap, file
  <2>2. there \in Point /\ there \in {"w_cut", "w_copy"}
    BY DEF Point
  <2>3. /\ pc' \in [Proc -> Point] /\ pc'[p] = there
        /\ \A q \in Proc \ {p} : pc'[q] = pc[q]
    <3> HIDE DEF there
    <3> QED BY <2>1, <2>2, GotoFacts
  <2>4. TypeOK'
    BY <1>1, <2>1, <2>3 DEF IInv, TypeOK
  <2>5. NobodyInside' /\ SomebodyCuts'
    BY <1>1, <1>4, <2>1, <2>3 DEF NobodyInside, SomebodyCuts
  <2>6. Writing' = Writing /\ Reading' = Reading
    <3> HIDE DEF there
    <3> QED BY <2>1, <2>2, <2>3 DEF Writing, Reading
  <2>7. Alone'
    BY <1>1, <2>6 DEF IInv, Alone
  <2>8. OwnSize'
    <3>1. quiet[p] => procfs_buffer_size = Len(arg[p])
      BY <2>1 DEF IInv, OwnSize
    <3> QED BY <1>1, <1>5, <2>1, <2>3, <3>1 DEF OwnSize
  <2> QED BY <1>3, <1>9, <2>4, <2>5, <2>7, <2>8 DEF IInv
<1>8. CASE procfile_write_cut(p)
  <2>1. /\ pc[p] = "w_cut" /\ Goto(p, "w_copy")
        /\ procfs_buffer_size' = PROCFS_MAX_SIZE /\ smashed' = FALSE
    BY <1>8 DEF procfile_write_cut
  <2>2. /\ pc' \in [Proc -> Point] /\ pc'[p] = "w_copy"
        /\ \A q \in Proc \ {p} : pc'[q] = pc[q]
    BY <2>1, GotoFacts DEF Point
  <2>3. TypeOK'
    BY <1>1, <2>1, <2>2, Types DEF IInv, TypeOK
  <2>4. NobodyInside' /\ SomebodyCuts'
    <3>1. ~(procfs_buffer_size' > PROCFS_MAX_SIZE)
      BY <2>1, Types
    <3> QED BY <1>1, <1>4, <3>1 DEF NobodyInside, SomebodyCuts
  <2>5. Writing' = Writing /\ Reading' = Reading
    BY <2>1, <2>2 DEF Writing, Reading
  <2>6. Alone'
    BY <1>1, <2>5 DEF IInv, Alone
  <2>7. OwnSize'
    <3>1. quiet[p] => procfs_buffer_size = Len(arg[p]) /\ procfs_buffer_size > PROCFS_MAX_SIZE
      BY <2>1 DEF IInv, OwnSize
    <3> QED BY <1>1, <1>5, <2>1, <2>2, <3>1 DEF OwnSize
  <2> QED BY <1>3, <1>9, <2>3, <2>4, <2>6, <2>7 DEF IInv
<1> QED BY <1>6, <1>7, <1>8

LEMMA CopyInv ==
  ASSUME IInv, NEW p \in Proc, procfile_write_copy(p)
  PROVE  IInv'
<1> DEFINE char(k) == IF k < Len(arg[p]) THEN arg[p][k + 1] ELSE "?"
<1>1. pc[p] = "w_copy" /\ Return(p) /\ loaded' = loaded
  BY DEF procfile_write_copy
\* Only a copy past the buffer disturbs the size.
<1>a. /\ procfs_buffer_size' \in Nat /\ smashed' \in BOOLEAN
      /\ \/ UNCHANGED <<procfs_buffer_size, smashed>>
         \/ procfs_buffer_size > PROCFS_MAX_SIZE /\ smashed' = TRUE
  BY Types DEF procfile_write_copy, Overrun, IInv, TypeOK
<1>2. \/ /\ procfs_buffer' = [k \in Place |-> IF k < procfs_buffer_size THEN char(k)
                                              ELSE procfs_buffer[k]]
         /\ stored' = IF quiet[p] THEN SubSeq(arg[p], 1, procfs_buffer_size) ELSE UNKNOWN
      \/ /\ \E n \in 0 .. procfs_buffer_size - 1 :
              procfs_buffer' = [k \in Place |-> IF k < n THEN char(k)
                                                ELSE IF k < procfs_buffer_size THEN "NUL"
                                                ELSE procfs_buffer[k]]
         /\ stored' = UNKNOWN
  BY DEF procfile_write_copy
<1>3. \A k \in Place : k \in Nat /\ char(k) \in Char /\ procfs_buffer[k] \in Char
  <2>1. arg[p] \in Seq(STRING)
    BY Types
  <2>2. \A k \in Nat : k < Len(arg[p]) => arg[p][k + 1] \in STRING
    BY <2>1
  <2> QED BY <2>2, DataAssumption DEF Char, Place, IInv, TypeOK
<1> HIDE DEF char
<1>4. procfs_buffer' \in [Place -> Char]
  BY <1>2, <1>3 DEF Char
\* The size that a quiet write copies by is that of its own text.
<1>5. ASSUME quiet[p]
      PROVE  /\ SubSeq(arg[p], 1, procfs_buffer_size) \in Seq(Char)
             /\ Len(SubSeq(arg[p], 1, procfs_buffer_size)) = procfs_buffer_size
             /\ procfs_buffer_size <= PROCFS_MAX_SIZE
             /\ \A k \in 1..procfs_buffer_size :
                  /\ k <= Len(arg[p])
                  /\ SubSeq(arg[p], 1, procfs_buffer_size)[k] = arg[p][k]
  <2> DEFINE a == arg[p]
             n == procfs_buffer_size
  <2>1. a \in Seq(STRING) /\ Len(a) \in Nat /\ n \in Nat /\ PROCFS_MAX_SIZE \in Nat
    BY Types
  <2>2. n = IF Len(a) > PROCFS_MAX_SIZE THEN PROCFS_MAX_SIZE ELSE Len(a)
    BY <1>1, <1>5 DEF IInv, OwnSize
  <2> HIDE DEF a, n
  <2>3. n <= Len(a) /\ n <= PROCFS_MAX_SIZE
    BY <2>1, <2>2
  <2>4. \A k \in 1..n : a[k] \in Char
    BY <2>1, <2>3 DEF Char
  <2>5. /\ SubSeq(a, 1, n) \in Seq(Char)
        /\ Len(SubSeq(a, 1, n)) = IF 1 <= n THEN n - 1 + 1 ELSE 0
        /\ \A k \in 1 .. n - 1 + 1 : SubSeq(a, 1, n)[k] = a[1 + k - 1]
    BY <2>1, <2>4, SubSeqProperties
  <2>6. Len(SubSeq(a, 1, n)) = n
    BY <2>1, <2>5
  <2>7. \A k \in 1..n : k \in 1 .. n - 1 + 1 /\ 1 + k - 1 = k /\ k <= Len(a)
    BY <2>1, <2>3
  <2>8. \A k \in 1..n : SubSeq(a, 1, n)[k] = a[k]
    BY <2>5, <2>7
  <2> QED BY <2>3, <2>5, <2>6, <2>7, <2>8 DEF a, n
<1>6. TypeOK'
  <2>1. UNKNOWN \in Seq(Char)
    BY DEF UNKNOWN, Char
  <2>2. stored' \in Seq(Char)
    BY <1>2, <1>5, <2>1
  <2> QED BY <1>1, <1>a, <1>4, <2>2, ReturnFacts DEF IInv, TypeOK
<1>7. /\ pc'[p] = "idle"
      /\ \A q \in Proc \ {p} : pc'[q] = pc[q] /\ arg'[q] = arg[q] /\ quiet'[q] = quiet[q]
  BY <1>1, ReturnFacts
<1>8. NobodyInside' /\ SomebodyCuts'
  <2>1. loaded
    BY <1>1 DEF IInv, NobodyInside
  <2>2. \A q \in Proc : pc[q] \in {"w_cap", "w_cut"} => pc'[q] = pc[q]
    BY <1>1, <1>7
  <2> QED BY <1>1, <1>a, <2>1, <2>2 DEF IInv, NobodyInside, SomebodyCuts
<1>9. Writing' = Writing \ {p} /\ Reading' = Reading
  BY <1>1, <1>7 DEF Writing, Reading
<1>10. Alone'
  <2>1. \A q \in (Writing \cup Reading)' : q \in Proc \ {p} /\ q \in Writing \cup Reading
    BY <1>1, <1>9 DEF Writing, Reading
  <2> QED BY <1>7, <1>9, <2>1 DEF IInv, Alone
\* Another quiet write would be overlapped by this one.
<1>11. OwnSize'
  <2>1. \A q \in Proc : quiet'[q] => pc'[q] \notin {"w_cap", "w_cut", "w_copy"}
    BY <1>1, <1>7 DEF IInv, Alone, Writing
  <2> QED BY <2>1 DEF OwnSize
<1>12. ASSUME stored' # UNKNOWN
       PROVE  /\ quiet[p] /\ Writing' = {}
              /\ procfs_buffer' = [k \in Place |-> IF k < procfs_buffer_size THEN char(k)
                                                   ELSE procfs_buffer[k]]
              /\ stored' = SubSeq(arg[p], 1, procfs_buffer_size)
              /\ procfs_buffer_size' = procfs_buffer_size
  <2>1. quiet[p]
    BY <1>2, <1>12
  <2>2. p \in Writing /\ \A q \in Writing : q = p
    BY <1>1, <2>1 DEF IInv, Alone, Writing
  <2>3. procfs_buffer_size' = procfs_buffer_size
    BY <1>a, <1>5, <2>1, Types
  <2> QED BY <1>2, <1>9, <1>12, <2>1, <2>2, <2>3
<1>13. BufferHolds'
  <2> SUFFICES ASSUME stored' # UNKNOWN
               PROVE  /\ Writing' = {}
                      /\ Len(stored') = procfs_buffer_size'
                      /\ procfs_buffer_size' <= PROCFS_MAX_SIZE
                      /\ \A k \in 1..procfs_buffer_size' : procfs_buffer'[k - 1] = stored'[k]
    BY DEF BufferHolds, UNKNOWN
  <2>1. ASSUME NEW k \in 1..procfs_buffer_size
        PROVE  procfs_buffer'[k - 1] = stored'[k]
    <3>1. /\ k <= Len(arg[p]) /\ stored'[k] = arg[p][k] /\ procfs_buffer_size <= PROCFS_MAX_SIZE
      BY <1>5, <1>12
    <3>2. k - 1 \in Place /\ k - 1 < procfs_buffer_size /\ k - 1 < Len(arg[p])
          /\ (k - 1) + 1 = k
      <4>1. k \in Nat /\ 1 <= k /\ k <= procfs_buffer_size /\ PROCFS_MAX_SIZE \in Nat
            /\ procfs_buffer_size \in Nat /\ Len(arg[p]) \in Nat
        BY Types
      <4> QED BY <3>1, <4>1 DEF Place
    <3>3. procfs_buffer'[k - 1] = char(k - 1)
      BY <1>12, <3>2
    <3> QED BY <3>1, <3>2, <3>3 DEF char
  <2> QED BY <1>1, <1>5, <1>12, <2>1
<1>14. CopiesHold'
  <2> SUFFICES ASSUME stored' # UNKNOWN, NEW q \in Proc, quiet'[q],
                      pc'[q] \in {"r_ret", "r_done"}
               PROVE  FALSE
    BY DEF CopiesHold, UNKNOWN
  <2>1. q # p /\ quiet[q] /\ q \in Reading
    BY <1>7 DEF Reading
  <2>2. p \in Writing
    BY <1>1 DEF Writing
  <2> QED BY <2>1, <2>2 DEF IInv, Alone
<1>15. CopiesFit'
  <2>1. \A q \in Proc : quiet'[q] => pc'[q] \notin {"r_ret", "r_done"}
    BY <1>1, <1>7 DEF IInv, Alone, Writing, Reading
  <2> QED BY <2>1 DEF CopiesFit
<1> QED BY <1>6, <1>8, <1>10, <1>11, <1>13, <1>14, <1>15 DEF IInv

-----------------------------------------------------------------------------
(***************************************************************************)
(* read.                                                                   *)
(***************************************************************************)
\* A read leaves the buffer alone, and does not become a write.
LEMMA ReadKeeps ==
  ASSUME IInv, TypeOK', NEW p \in Proc,
         pc[p] \in {"idle", "r_copy", "r_ret", "r_done"},
         pc'[p] \in {"idle", "r_copy", "r_ret", "r_done"},
         pc'[p] = "idle" \/ loaded,
         \A q \in Proc \ {p} : /\ pc'[q] = pc[q] /\ arg'[q] = arg[q] /\ out'[q] = out[q]
                                /\ ret'[q] = ret[q] /\ quiet'[q] = quiet[q],
         loaded' = loaded, procfs_buffer' = procfs_buffer,
         procfs_buffer_size' = procfs_buffer_size, stored' = stored, smashed' = smashed,
         pc'[p] = "idle" \/ (quiet'[p] => Writing = {}),
         stored # UNKNOWN /\ quiet'[p] =>
           /\ pc'[p] \in {"r_ret", "r_done"} => out'[p] = stored
           /\ pc'[p] = "r_done" => ret'[p] = Len(stored),
         quiet'[p] =>
           /\ pc'[p] = "r_ret" => Len(out'[p]) = procfs_buffer_size
           /\ pc'[p] = "r_done" => ret'[p] = Len(out'[p])
  PROVE  IInv'
<1>1. NobodyInside'
  BY DEF IInv, NobodyInside
<1>2. SomebodyCuts'
  <2>1. \A q \in Proc : pc[q] \in {"w_cap", "w_cut"} => pc'[q] = pc[q]
    OBVIOUS
  <2> QED BY <2>1 DEF IInv, SomebodyCuts
<1>3. Writing' = Writing /\ p \notin Writing
  BY DEF Writing
<1>4. Alone'
  <2> SUFFICES ASSUME NEW q \in (Writing \cup Reading)', quiet'[q], NEW w \in Writing
               PROVE  w = q
    BY <1>3 DEF Alone
  <2>1. CASE q = p
    BY <1>3, <2>1 DEF Writing, Reading
  <2>2. CASE q # p
    BY <1>3, <2>2 DEF IInv, Alone, Writing, Reading
  <2> QED BY <2>1, <2>2
<1>5. OwnSize'
  BY DEF IInv, OwnSize
<1>6. BufferHolds'
  BY <1>3 DEF IInv, BufferHolds, UNKNOWN
<1>7. CopiesHold'
  BY DEF IInv, CopiesHold, UNKNOWN
<1>8. CopiesFit'
  BY DEF IInv, CopiesFit
<1> QED BY <1>1, <1>2, <1>4, <1>5, <1>6, <1>7, <1>8 DEF IInv

LEMMA ReadInv ==
  ASSUME IInv, NEW p \in Proc,
         \/ procfile_read(p) \/ procfile_read_copy(p)
         \/ procfile_read_ret(p) \/ procfile_read_done(p)
  PROVE  IInv'
<1>1. CASE procfile_read(p)
  <2>1. /\ loaded /\ pc[p] = "idle" /\ Goto(p, "r_copy")
        /\ quiet' = [quiet EXCEPT ![p] = Writing = {}]
        /\ UNCHANGED <<loaded, procfs_buffer, procfs_buffer_size>>
        /\ UNCHANGED <<arg, out, ret, stored, smashed>>
    BY <1>1 DEF procfile_read, file
  <2>2. /\ pc' \in [Proc -> Point] /\ pc'[p] = "r_copy"
        /\ \A q \in Proc \ {p} : pc'[q] = pc[q]
    BY <2>1, GotoFacts DEF Point
  <2>3. /\ quiet' \in [Proc -> BOOLEAN] /\ (quiet'[p] => Writing = {})
        /\ \A q \in Proc \ {p} : quiet'[q] = quiet[q]
    BY <2>1, Types
  <2>4. TypeOK'
    BY <2>1, <2>2, <2>3 DEF IInv, TypeOK
  <2> QED BY <2>1, <2>2, <2>3, <2>4, ReadKeeps
<1>2. CASE procfile_read_copy(p)
  <2> DEFINE n == procfs_buffer_size
             copy == [k \in 1..n |-> IF k <= PROCFS_MAX_SIZE THEN procfs_buffer[k - 1]
                                     ELSE "?"]
  <2>1. /\ pc[p] = "r_copy" /\ Goto(p, "r_ret")
        /\ out' = [out EXCEPT ![p] = copy]
        /\ UNCHANGED <<loaded, procfs_buffer, procfs_buffer_size>>
        /\ UNCHANGED <<arg, ret, quiet, stored, smashed>>
    BY <1>2 DEF procfile_read_copy, file
  <2>2. /\ pc' \in [Proc -> Point] /\ pc'[p] = "r_ret"
        /\ \A q \in Proc \ {p} : pc'[q] = pc[q]
    BY <2>1, GotoFacts DEF Point
  <2>3. copy \in Seq(Char) /\ Len(copy) = n
    <3>1. n \in Nat /\ PROCFS_MAX_SIZE \in Nat
      BY Types
    <3> HIDE DEF n
    <3>2. \A k \in 1..n : k <= PROCFS_MAX_SIZE => procfs_buffer[k - 1] \in Char
      BY <3>1 DEF IInv, TypeOK, Place
    <3>3. \A k \in 1..n : (IF k <= PROCFS_MAX_SIZE THEN procfs_buffer[k - 1] ELSE "?") \in Char
      BY <3>2 DEF Char
    <3> QED BY <3>1, <3>3, IsASeq
  <2>4. ASSUME stored # UNKNOWN
        PROVE  copy = stored
    <3>1. /\ Len(stored) = procfs_buffer_size /\ procfs_buffer_size <= PROCFS_MAX_SIZE
          /\ \A k \in 1..procfs_buffer_size : procfs_buffer[k - 1] = stored[k]
          /\ stored \in Seq(Char)
      BY <2>4 DEF IInv, TypeOK, BufferHolds
    <3>2. n = procfs_buffer_size /\ n \in Nat /\ PROCFS_MAX_SIZE \in Nat
      BY <3>1, Types
    <3>3. \A k \in 1..Len(stored) : copy[k] = stored[k]
      BY <3>1, <3>2
    <3> HIDE DEF copy, n
    <3> QED BY <2>3, <3>1, <3>2, <3>3, SeqEqual
  <2>8. Len(copy) = procfs_buffer_size
    BY <2>3
  <2> HIDE DEF copy, n
  <2>5. /\ out' \in [Proc -> Seq(Char)] /\ out'[p] = copy
        /\ \A q \in Proc \ {p} : out'[q] = out[q]
    BY <2>1, <2>3, Types
  <2>6. TypeOK'
    BY <2>1, <2>2, <2>5 DEF IInv, TypeOK
  <2>7. loaded /\ (quiet[p] => Writing = {})
    <3>1. p \in Reading /\ p \notin Writing
      BY <2>1 DEF Reading, Writing
    <3> QED BY <2>1, <3>1 DEF IInv, NobodyInside, Alone, Writing
  <2> QED BY <2>1, <2>2, <2>4, <2>5, <2>6, <2>7, <2>8, ReadKeeps
<1>3. CASE procfile_read_ret(p)
  <2>1. /\ pc[p] = "r_ret" /\ Goto(p, "r_done")
        /\ ret' = [ret EXCEPT ![p] = procfs_buffer_size]
        /\ UNCHANGED <<loaded, procfs_buffer, procfs_buffer_size>>
        /\ UNCHANGED <<arg, out, quiet, stored, smashed>>
    BY <1>3 DEF procfile_read_ret, file
  <2>2. /\ pc' \in [Proc -> Point] /\ pc'[p] = "r_done"
        /\ \A q \in Proc \ {p} : pc'[q] = pc[q]
    BY <2>1, GotoFacts DEF Point
  <2>3. /\ ret' \in [Proc -> Nat] /\ ret'[p] = procfs_buffer_size
        /\ \A q \in Proc \ {p} : ret'[q] = ret[q]
    BY <2>1, Types
  <2>4. TypeOK'
    BY <2>1, <2>2, <2>3 DEF IInv, TypeOK
  <2>5. loaded /\ (quiet[p] => Writing = {})
    <3>1. p \in Reading /\ p \notin Writing
      BY <2>1 DEF Reading, Writing
    <3> QED BY <2>1, <3>1 DEF IInv, NobodyInside, Alone, Writing
  <2>6. stored # UNKNOWN /\ quiet[p] => out[p] = stored /\ procfs_buffer_size = Len(stored)
    BY <2>1 DEF IInv, BufferHolds, CopiesHold
  <2>7. quiet[p] => Len(out[p]) = procfs_buffer_size
    BY <2>1 DEF IInv, CopiesFit
  <2> QED BY <2>1, <2>2, <2>3, <2>4, <2>5, <2>6, <2>7, ReadKeeps
<1>4. CASE procfile_read_done(p)
  <2>1. /\ pc[p] = "r_done" /\ Return(p)
        /\ UNCHANGED <<loaded, procfs_buffer, procfs_buffer_size, stored, smashed>>
    BY <1>4 DEF procfile_read_done, file
  <2>2. TypeOK'
    BY <2>1, ReturnFacts DEF IInv, TypeOK
  <2>3. /\ pc'[p] = "idle" /\ quiet'[p] = FALSE
        /\ \A q \in Proc \ {p} : /\ pc'[q] = pc[q] /\ arg'[q] = arg[q] /\ out'[q] = out[q]
                               /\ ret'[q] = ret[q] /\ quiet'[q] = quiet[q]
    BY <2>1, ReturnFacts
  <2> QED BY <2>1, <2>2, <2>3, ReadKeeps
<1> QED BY <1>1, <1>2, <1>3, <1>4

-----------------------------------------------------------------------------
LEMMA NextInv == IInv /\ [Next]_vars => IInv'
<1> SUFFICES ASSUME IInv, [Next]_vars PROVE IInv'
  OBVIOUS
<1>1. CASE UNCHANGED vars
  BY <1>1 DEF vars, file, IInv, TypeOK, NobodyInside, SomebodyCuts, Alone, OwnSize,
             BufferHolds, CopiesHold, CopiesFit, Writing, Reading
<1>2. ASSUME NEW p \in Proc, procfile_read_eof(p)
      PROVE  IInv'
  BY <1>1, <1>2 DEF procfile_read_eof
<1> QED BY <1>1, <1>2, LoadInv, WriteInv, SizeInv, CopyInv, ReadInv DEF Next

LEMMA AlwaysIInv == Spec => []IInv
BY InitInv, NextInv, PTL DEF Spec

\* Whatever sizes overlapping writes have stored and cut, the one that stays
\* is one that the buffer holds, unless a copy has run over it since; and a write
\* that no other overlaps copies no more than that.
THEOREM SizeFits == Spec => []SizeFitsUndisturbed
<1>1. ASSUME IInv PROVE SizeFitsUndisturbed
  <2>1. ASSUME Writing = {}, ~smashed, procfs_buffer_size > PROCFS_MAX_SIZE
        PROVE  FALSE
    BY <1>1, <2>1 DEF IInv, SomebodyCuts, Writing
  <2>2. ASSUME NEW p \in Proc, pc[p] = "w_copy", quiet[p]
        PROVE  procfs_buffer_size <= PROCFS_MAX_SIZE
    BY <1>1, <2>2, DataAssumption, Types DEF IInv, OwnSize
  <2> QED BY <1>1, <2>1, <2>2, DataAssumption DEF SizeFitsUndisturbed, IInv, TypeOK
<1> QED BY <1>1, AlwaysIInv, PTL

\* A read that no write overlaps returns the size of what it has copied, and copies
\* what the last write has stored.
THEOREM QuietReads == Spec => []QuietReadsAreExact
<1>1. ASSUME IInv PROVE QuietReadsAreExact
  BY <1>1 DEF IInv, CopiesHold, CopiesFit, QuietReadsAreExact
<1> QED BY <1>1, AlwaysIInv, PTL

-----------------------------------------------------------------------------
(***************************************************************************)
(* sched.c.                                                                *)
(***************************************************************************)
\* Where cleanup_module is when cancel_delayed_work lies behind it.
Cancelled == {"flush", "destroy", "unloaded"}

\* The task will run once more: it runs, has decided to queue itself again,
\* or is queued.  What has passed the test of die after the cancel has not.
OneMore == worker \in {"count", "requeue"} \/ pending # "no"

\* Nothing runs before the module is loaded; the task is not queued while it
\* runs; it is told to die before it is cancelled; and since then it has run
\* once or will run once, not both.
SchedInv ==
  /\ loader = "init" => worker = "idle" /\ pending = "no"
  /\ pending # "no" => worker = "idle"
  /\ loader \in Cancelled \cup {"cancel"} => die = 1
  /\ loader \notin Cancelled => late = 0
  /\ loader \in Cancelled => late <= 1 /\ (OneMore => late = 0)

LEMMA SchedStep == SchedInv /\ [SchedNext]_sched_vars => SchedInv'
<1> SUFFICES ASSUME SchedInv, [SchedNext]_sched_vars PROVE SchedInv'
  OBVIOUS
<1> USE DEF SchedInv, Cancelled, OneMore
<1>1. CASE sched_init_module \/ sched_procfile_read \/ remove_proc_entry
  BY <1>1 DEF sched_init_module, sched_procfile_read, remove_proc_entry,
             queue_delayed_work
<1>2. CASE timer_expires \/ worker_takes_work
  BY <1>2 DEF timer_expires, worker_takes_work
<1>3. CASE intrpt_routine_count
  BY <1>3 DEF intrpt_routine_count
<1>4. CASE intrpt_routine_test
  BY <1>4 DEF intrpt_routine_test
<1>5. CASE intrpt_routine_requeue
  BY <1>5 DEF intrpt_routine_requeue, queue_delayed_work
<1>6. CASE cleanup_die \/ cancel_delayed_work
  BY <1>6 DEF cleanup_die, cancel_delayed_work
<1>7. CASE flush_workqueue \/ destroy_workqueue
  BY <1>7 DEF flush_workqueue, destroy_workqueue
<1>8. CASE UNCHANGED sched_vars
  BY <1>8 DEF sched_vars
<1> QED BY <1>1, <1>2, <1>3, <1>4, <1>5, <1>6, <1>7, <1>8 DEF SchedNext

\* However task and cleanup interleave, the task runs at most once more after
\* it was cancelled.
THEOREM OneLateRun == SchedSpec => []AtMostOneLateRun
<1>1. SchedInit => SchedInv
  BY DEF SchedInit, SchedInv, Cancelled, OneMore
<1>2. SchedInv => AtMostOneLateRun
  BY DEF SchedInv, AtMostOneLateRun
<1> QED BY <1>1, <1>2, SchedStep, PTL DEF SchedSpec

=============================================================================
