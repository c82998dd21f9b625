------------------------------- MODULE Procfs -------------------------------
(***************************************************************************)
(* The /proc file of src/kernel/proc/procfs2.c: a buffer and its size,     *)
(* which nothing locks.  A call is cut where the code loads or stores the  *)
(* size, since calls of several processes run at the same time.            *)
(***************************************************************************)
EXTENDS Integers, Sequences

CONSTANTS
  Proc,
  PROCFS_MAX_SIZE,
  Data,         \* what processes write, sequences of characters
  Garbage       \* what a copy past the buffer may leave in the size

ASSUME DataAssumption ==
  /\ PROCFS_MAX_SIZE \in Nat
  /\ \A d \in Data : d \in Seq(STRING)
  /\ Garbage \subseteq Nat

VARIABLES
  loaded,               \* the module is loaded and the file exists
  procfs_buffer, procfs_buffer_size,
  pc,                   \* where each process is in its call
  arg,                  \* what it writes
  out,                  \* what its read has copied
  ret,                  \* what its read returns
  quiet,                \* history: no other write has overlapped its call
  stored,               \* history: what the last write has stored, if no other
                        \* overlapped it and it succeeded
  smashed               \* history: no write has stored a size since a copy that
                        \* ran past the buffer has overwritten it

file == <<loaded, procfs_buffer, procfs_buffer_size>>
vars == <<file, pc, arg, out, ret, quiet, stored, smashed>>

UNKNOWN == <<"unknown">>
Place == 0 .. PROCFS_MAX_SIZE - 1

Init ==
  /\ loaded = FALSE
  /\ procfs_buffer = [k \in Place |-> "NUL"] /\ procfs_buffer_size = 0
  /\ pc = [p \in Proc |-> "idle"]
  /\ arg = [p \in Proc |-> <<>>]
  /\ out = [p \in Proc |-> <<>>]
  /\ ret = [p \in Proc |-> 0]
  /\ quiet = [p \in Proc |-> FALSE]
  /\ stored = <<>> /\ smashed = FALSE

Writing == {p \in Proc : pc[p] \in {"w_size", "w_cap", "w_cut", "w_copy"}}
Reading == {p \in Proc : pc[p] \in {"r_copy", "r_ret", "r_done"}}

Goto(p, there) == pc' = [pc EXCEPT ![p] = there]

\* The call is over and its locals are gone.
Return(p) ==
  /\ Goto(p, "idle")
  /\ arg' = [arg EXCEPT ![p] = <<>>] /\ out' = [out EXCEPT ![p] = <<>>]
  /\ ret' = [ret EXCEPT ![p] = 0] /\ quiet' = [quiet EXCEPT ![p] = FALSE]

(***************************************************************************)
(* Loading and unloading; remove_proc_entry waits for the calls that run.  *)
(***************************************************************************)
\* When create_proc_entry fails the module is not loaded.
init_module ==
  /\ ~loaded
  /\ \/ /\ loaded' = TRUE
        /\ procfs_buffer' = [k \in Place |-> "NUL"] /\ procfs_buffer_size' = 0
        /\ stored' = <<>> /\ smashed' = FALSE
        /\ UNCHANGED <<pc, arg, out, ret, quiet>>
     \/ UNCHANGED vars

cleanup_module ==
  /\ loaded /\ Writing = {} /\ Reading = {}
  /\ loaded' = FALSE
  /\ UNCHANGED <<procfs_buffer, procfs_buffer_size>>
  /\ UNCHANGED <<pc, arg, out, ret, quiet, stored, smashed>>

(***************************************************************************)
(* write.                                                                  *)
(***************************************************************************)
\* A write makes the calls that run, and itself if there is another, overlapped.
procfile_write(p, d) ==
  /\ loaded /\ pc[p] = "idle"
  /\ Goto(p, "w_size")
  /\ arg' = [arg EXCEPT ![p] = d]
  /\ quiet' = [q \in Proc |-> q = p /\ Writing = {}]
  /\ stored' = UNKNOWN
  /\ UNCHANGED <<file, out, ret, smashed>>

procfile_write_size(p) ==
  /\ pc[p] = "w_size"
  /\ procfs_buffer_size' = Len(arg[p]) /\ smashed' = FALSE
  /\ Goto(p, "w_cap")
  /\ UNCHANGED <<loaded, procfs_buffer, arg, out, ret, quiet, stored>>

\* Mutant: the size is not cut to what the buffer holds.
procfile_write_cap_missing(p) ==
  /\ pc[p] = "w_cap"
  /\ Goto(p, "w_copy")
  /\ UNCHANGED <<file, arg, out, ret, quiet, stored, smashed>>

\* The size is tested,
procfile_write_cap(p) ==
  /\ pc[p] = "w_cap"
  /\ Goto(p, IF procfs_buffer_size > PROCFS_MAX_SIZE THEN "w_cut" ELSE "w_copy")
  /\ UNCHANGED <<file, arg, out, ret, quiet, stored, smashed>>

\* and cut, whatever it is by now.
procfile_write_cut(p) ==
  /\ pc[p] = "w_cut"
  /\ procfs_buffer_size' = PROCFS_MAX_SIZE /\ smashed' = FALSE
  /\ Goto(p, "w_copy")
  /\ UNCHANGED <<loaded, procfs_buffer, arg, out, ret, quiet, stored>>

\* A copy of more than the buffer holds runs over what lies behind it, the size
\* among it or not.
Overrun ==
  \/ UNCHANGED <<procfs_buffer_size, smashed>>
  \/ /\ procfs_buffer_size > PROCFS_MAX_SIZE
     /\ procfs_buffer_size' \in Garbage /\ smashed' = TRUE

\* Mutant: the buffer is filled from where the last write ended.
procfile_write_copy_appending(p) ==
  /\ pc[p] = "w_copy"
  /\ procfs_buffer' = [k \in Place |->
                         IF procfs_buffer[k] # "NUL" THEN procfs_buffer[k]
                         ELSE IF k < Len(arg[p]) THEN arg[p][k + 1] ELSE "NUL"]
  /\ stored' = IF quiet[p] THEN SubSeq(arg[p], 1, procfs_buffer_size) ELSE UNKNOWN
  /\ Overrun
  /\ Return(p)
  /\ UNCHANGED loaded

\* copy_from_user, of as many characters as the size says by now: "?" stands
\* for what lies behind the ones that p has.  When it fails, EFAULT, some are
\* copied and zeros take the place of the others.
procfile_write_copy(p) ==
  /\ pc[p] = "w_copy"
  /\ LET char(k) == IF k < Len(arg[p]) THEN arg[p][k + 1] ELSE "?"
     IN \/ /\ procfs_buffer' = [k \in Place |-> IF k < procfs_buffer_size THEN char(k)
                                                ELSE procfs_buffer[k]]
           /\ stored' = IF quiet[p] THEN SubSeq(arg[p], 1, procfs_buffer_size)
                                    ELSE UNKNOWN
        \/ /\ \E n \in 0 .. procfs_buffer_size - 1 :
                procfs_buffer' = [k \in Place |-> IF k < n THEN char(k)
                                                  ELSE IF k < procfs_buffer_size THEN "NUL"
                                                  ELSE procfs_buffer[k]]
           /\ stored' = UNKNOWN
  /\ Overrun
  /\ Return(p)
  /\ UNCHANGED loaded

(***************************************************************************)
(* read.                                                                   *)
(***************************************************************************)
procfile_read(p) ==
  /\ loaded /\ pc[p] = "idle"
  /\ quiet' = [quiet EXCEPT ![p] = Writing = {}]
  /\ Goto(p, "r_copy")
  /\ UNCHANGED <<file, arg, out, ret, stored, smashed>>

\* An offset above zero is the end of the file.
procfile_read_eof(p) == loaded /\ pc[p] = "idle" /\ UNCHANGED vars

\* memcpy, of as many characters as the size says by now: "?" stands for what
\* lies behind the buffer.
procfile_read_copy(p) ==
  /\ pc[p] = "r_copy"
  /\ out' = [out EXCEPT ![p] = [k \in 1 .. procfs_buffer_size |->
                                  IF k <= PROCFS_MAX_SIZE THEN procfs_buffer[k - 1]
                                  ELSE "?"]]
  /\ Goto(p, "r_ret")
  /\ UNCHANGED <<file, arg, ret, quiet, stored, smashed>>

procfile_read_ret(p) ==
  /\ pc[p] = "r_ret"
  /\ ret' = [ret EXCEPT ![p] = procfs_buffer_size]
  /\ Goto(p, "r_done")
  /\ UNCHANGED <<file, arg, out, quiet, stored, smashed>>

procfile_read_done(p) ==
  pc[p] = "r_done" /\ Return(p) /\ UNCHANGED <<file, stored, smashed>>

Next ==
  \/ init_module \/ cleanup_module
  \/ \E p \in Proc :
       \/ \E d \in Data : procfile_write(p, d)
       \/ procfile_write_size(p) \/ procfile_write_cap(p)
       \/ procfile_write_cut(p) \/ procfile_write_copy(p)
       \/ procfile_read(p) \/ procfile_read_copy(p) \/ procfile_read_ret(p)
       \/ procfile_read_done(p) \/ procfile_read_eof(p)

Spec == Init /\ [][Next]_vars
-----------------------------------------------------------------------------
(***************************************************************************)
(* Properties.  They say what is left of the buffer's meaning without a    *)
(* lock: what a call that no write overlaps can rely on.                   *)
(***************************************************************************)

\* When no write is under way the size is one that the buffer holds, in
\* whatever order the writes before stored their sizes and cut them, unless a
\* copy has run over it since; and copies run past the buffer only where two
\* writes overlap.
SizeFitsUndisturbed ==
  /\ Writing = {} /\ ~smashed => procfs_buffer_size <= PROCFS_MAX_SIZE
  /\ \A p \in Proc : pc[p] = "w_copy" /\ quiet[p] => procfs_buffer_size <= PROCFS_MAX_SIZE

\* A read that no write overlaps returns the size of what it has copied, whatever
\* writes before it have left; and that is exactly what the last write stored, if
\* that one succeeded and no other overlapped it: all of it, or as much as the
\* buffer holds.
QuietReadsAreExact ==
  \A p \in Proc : pc[p] = "r_done" /\ quiet[p] =>
    /\ ret[p] = Len(out[p])
    /\ stored # UNKNOWN => out[p] = stored
=============================================================================
