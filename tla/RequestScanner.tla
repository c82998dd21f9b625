--------------------------- MODULE RequestScanner ---------------------------
(***************************************************************************)
(* How http_read (src/httpd_mock/http_handlers.c) finds the requests of    *)
(* one connection in the bytes that reach it, in whatever pieces the       *)
(* network hands them over.  What is done with a request once found is the *)
(* subject of HttpServer; all that matters of it here is whether the       *)
(* connection survives.                                                    *)
(*                                                                         *)
(* "n" is the line feed, "r" the carriage return, "x" any other byte.      *)
(***************************************************************************)
EXTENDS Integers, Sequences, FiniteSets

CONSTANTS
  ReadMax,    \* the number of bytes http_read asks for, 1024 in the code
  MaxStream   \* bound: the bytes sent over one connection

ASSUME BoundsAssumption == ReadMax \in Nat /\ MaxStream \in Nat

Byte == {"n", "r", "x"}

VARIABLES
  open,     \* there is a client structure
  buf,      \* the bytes that the fev_buff holds
  offset,   \* client.offset
  stream,   \* history: all bytes received over this connection
  popped,   \* history: how many of them were popped
  found     \* history: how many requests were found among them

scan_vars == <<open, buf, offset, stream, popped, found>>

ScanInit ==
  /\ open = FALSE
  /\ buf = <<>> /\ offset = 0
  /\ stream = <<>> /\ popped = 0 /\ found = 0

http_accept ==
  /\ ~open /\ open' = TRUE
  /\ UNCHANGED <<buf, offset, stream, popped, found>>

\* The next client of the descriptor starts with nothing.
destroy_client ==
  /\ open' = FALSE
  /\ buf' = <<>> /\ offset' = 0
  /\ stream' = <<>> /\ popped' = 0 /\ found' = 0

\* Two line feeds with one byte between them, from the o-th byte of b on; as
\* in C, the first byte is the 0-th.
EndOfRequest(b, o) == b[o + 1] = "n" /\ b[o + 3] = "n"

\* Mutant: the last two bytes seen are taken as searched.
Scan_eager(b, from, bytes) ==
  LET hits == {o \in from .. bytes - 3 : EndOfRequest(b, o)}
  IN [isfound |-> hits # {},
      offset  |-> IF hits # {} THEN CHOOSE o \in hits : \A h \in hits : o <= h
                  ELSE bytes]

\* Mutant: the search runs from the end of the buffer.
Scan_last(b, from, bytes) ==
  LET hits == {o \in from .. bytes - 3 : EndOfRequest(b, o)}
  IN [isfound |-> hits # {},
      offset  |-> IF hits # {} THEN CHOOSE o \in hits : \A h \in hits : h <= o
                  ELSE IF from < bytes - 2 THEN bytes - 2 ELSE from]

\* The while loop: where it stops, and whether it stops at a request.
Scan(b, from, bytes) ==
  LET hits == {o \in from .. bytes - 3 : EndOfRequest(b, o)}
  IN [isfound |-> hits # {},
      offset  |-> IF hits # {} THEN CHOOSE o \in hits : \A h \in hits : o <= h
                  ELSE IF from < bytes - 2 THEN bytes - 2 ELSE from]

\* What fevbuff_read may add to the buffer: some bytes, none only when the
\* buffer holds all that is asked for.
Segment ==
  {seg \in UNION {[1..k -> Byte] : k \in 0 .. (ReadMax - Len(buf))} :
     /\ seg = <<>> => Len(buf) = ReadMax
     /\ Len(stream) + Len(seg) <= MaxStream}

\* A request that was found is popped and the search starts afresh, unless
\* its connection is closed at once (keep-alive rules, failed write).
http_read(seg) ==
  /\ open
  /\ LET b == buf \o seg
         s == Scan(b, offset, Len(b))
         n == s.offset + 2
     IN \/ /\ ~s.isfound
           /\ buf' = b /\ offset' = s.offset
           /\ stream' = stream \o seg
           /\ UNCHANGED <<open, popped, found>>
        \/ /\ s.isfound
           /\ buf' = SubSeq(b, n + 1, Len(b)) /\ offset' = 0
           /\ stream' = stream \o seg /\ popped' = popped + n
           /\ found' = found + 1
           /\ UNCHANGED open
        \/ s.isfound /\ destroy_client

http_error == open /\ destroy_client

ScanNext ==
  \/ http_accept
  \/ \E seg \in Segment : http_read(seg)
  \/ http_error

ScanSpec == ScanInit /\ [][ScanNext]_scan_vars
-----------------------------------------------------------------------------
(***************************************************************************)
(* Properties.                                                             *)
(***************************************************************************)

\* No request ends before the offset at which the search will resume, so a
\* request is found although its end came in several pieces.
NothingSkipped ==
  \A o \in 0 .. offset - 1 : o + 2 < Len(buf) => ~EndOfRequest(buf, o)

(***************************************************************************)
(* What the same bytes yield when they all come at once: the number of     *)
(* bytes that the first k requests of s take up, or -1 if there are fewer. *)
(***************************************************************************)
Ends(s, from) == {o \in from .. Len(s) - 3 : EndOfRequest(s, o)}

CutAfter(s, k) ==
  LET cut[i \in 0..k] ==
        IF i = 0 THEN 0
        ELSE IF cut[i - 1] = -1 \/ Ends(s, cut[i - 1]) = {} THEN -1
        ELSE 2 + CHOOSE o \in Ends(s, cut[i - 1]) :
                   \A h \in Ends(s, cut[i - 1]) : o <= h
  IN cut[k]

\* The requests found, and where each ends, do not depend on how the stream
\* was cut into pieces, and the buffer holds the bytes after the last end.
SegmentationIndependent ==
  /\ popped = CutAfter(stream, found)
  /\ buf = SubSeq(stream, popped + 1, Len(stream))
=============================================================================
