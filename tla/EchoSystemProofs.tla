--------------------------- MODULE EchoSystemProofs ---------------------------
(***************************************************************************)
(* Words come back whole and in order through buffers and reads of any     *)
(* size, however the connection cuts them and whenever it breaks.          *)
(***************************************************************************)
EXTENDS EchoSystem, SequenceTheorems, TLAPS

-----------------------------------------------------------------------------
(***************************************************************************)
(* Pieces of the stream of numbered bytes.                                 *)
(***************************************************************************)
\* s holds the bytes that follow the first f ones.
Piece(s, f) == s \in Seq(Nat) /\ \A k \in 1..Len(s) : s[k] = f + k

LEMMA EmptyPiece ==
  ASSUME NEW f \in Nat
  PROVE  Piece(<<>>, f) /\ Len(<<>>) = 0
BY DEF Piece

LEMMA ConcatPiece ==
  ASSUME NEW f \in Nat, NEW s, NEW t, Piece(s, f), Piece(t, f + Len(s))
  PROVE  Piece(s \o t, f) /\ Len(s \o t) = Len(s) + Len(t)
<1>1. /\ s \in Seq(Nat) /\ t \in Seq(Nat)
      /\ Len(s) \in Nat /\ Len(t) \in Nat
  BY DEF Piece
<1>2. s \o t \in Seq(Nat) /\ Len(s \o t) = Len(s) + Len(t)
  BY <1>1, ConcatProperties
<1>3. ASSUME NEW k \in 1 .. Len(s) + Len(t)
      PROVE  (s \o t)[k] = f + k
  <2>1. (s \o t)[k] = IF k <= Len(s) THEN s[k] ELSE t[k - Len(s)]
    BY <1>1, ConcatProperties
  <2>2. CASE k <= Len(s)
    BY <1>1, <2>1, <2>2 DEF Piece
  <2>3. CASE k > Len(s)
    <3>1. k - Len(s) \in 1..Len(t) /\ (f + Len(s)) + (k - Len(s)) = f + k
      BY <1>1, <2>3
    <3>2. t[k - Len(s)] = (f + Len(s)) + (k - Len(s))
      BY <3>1 DEF Piece
    <3> QED BY <1>1, <2>1, <2>3, <3>1, <3>2
  <2> QED BY <1>1, <2>2, <2>3
<1> QED BY <1>2, <1>3 DEF Piece

LEMMA AppendPiece ==
  ASSUME NEW f \in Nat, NEW s, Piece(s, f)
  PROVE  /\ Piece(Append(s, f + Len(s) + 1), f)
         /\ Len(Append(s, f + Len(s) + 1)) = Len(s) + 1
<1>1. s \in Seq(Nat) /\ Len(s) \in Nat /\ f + Len(s) + 1 \in Nat
  BY DEF Piece
<1> DEFINE a == f + Len(s) + 1
<1>2. /\ Append(s, a) \in Seq(Nat) /\ Len(Append(s, a)) = Len(s) + 1
      /\ \A k \in 1..Len(s) : Append(s, a)[k] = s[k]
      /\ Append(s, a)[Len(s) + 1] = a
  BY <1>1, AppendProperties
<1>3. \A k \in 1 .. Len(s) + 1 : k \in 1..Len(s) \/ k = Len(s) + 1
  BY <1>1
<1> QED BY <1>1, <1>2, <1>3 DEF Piece

LEMMA FrontPiece ==
  ASSUME NEW f \in Nat, NEW s, Piece(s, f), NEW n \in Nat, n <= Len(s)
  PROVE  /\ Piece(SubSeq(s, 1, n), f)
         /\ Len(SubSeq(s, 1, n)) = n
<1>1. s \in Seq(Nat) /\ Len(s) \in Nat
  BY DEF Piece
<1>2. \A k \in 1..n : s[k] \in Nat /\ s[k] = f + k
  BY <1>1 DEF Piece
<1>3. /\ SubSeq(s, 1, n) \in Seq(Nat)
      /\ Len(SubSeq(s, 1, n)) = IF 1 <= n THEN n - 1 + 1 ELSE 0
      /\ \A k \in 1 .. n - 1 + 1 : SubSeq(s, 1, n)[k] = s[1 + k - 1]
  BY <1>2, SubSeqProperties
<1>4. Len(SubSeq(s, 1, n)) = n
  BY <1>3
<1>5. \A k \in 1..n : SubSeq(s, 1, n)[k] = s[k]
  <2>1. \A k \in 1..n : k \in 1 .. n - 1 + 1 /\ 1 + k - 1 = k
    OBVIOUS
  <2> QED BY <1>3, <2>1
<1> QED BY <1>2, <1>3, <1>4, <1>5 DEF Piece

LEMMA DropPiece ==
  ASSUME NEW f \in Nat, NEW s, Piece(s, f), NEW n \in Nat, n <= Len(s)
  PROVE  Piece(Drop(s, n), f + n) /\ Len(Drop(s, n)) = Len(s) - n
<1>1. s \in Seq(Nat) /\ Len(s) \in Nat
  BY DEF Piece
<1> DEFINE len == Len(s)
           d == SubSeq(s, n + 1, len)
<1>2. \A k \in n + 1 .. len : s[k] \in Nat /\ s[k] = f + k
  BY <1>1 DEF Piece
<1>3. /\ d \in Seq(Nat)
      /\ Len(d) = IF n + 1 <= len THEN len - (n + 1) + 1 ELSE 0
      /\ \A k \in 1 .. len - (n + 1) + 1 : d[k] = s[n + 1 + k - 1]
  <2>1. n + 1 \in Int /\ len \in Int /\ \A k \in n + 1 .. len : s[k] \in Nat
    BY <1>1, <1>2
  <2> HIDE DEF len
  <2> QED BY <2>1, SubSeqProperties
<1> HIDE DEF d
<1>4. Len(d) = len - n
  BY <1>1, <1>3
<1>5. \A k \in 1 .. len - n : d[k] = (f + n) + k
  <2> SUFFICES ASSUME NEW k \in 1 .. len - n PROVE d[k] = (f + n) + k
    OBVIOUS
  <2>1. /\ k \in 1 .. len - (n + 1) + 1 /\ n + 1 + k - 1 = n + k
        /\ n + k \in n + 1 .. len
    BY <1>1
  <2>2. d[k] = s[n + k]
    BY <1>3, <2>1
  <2> QED BY <1>2, <2>1, <2>2
<1> QED BY <1>3, <1>4, <1>5 DEF Piece, Drop, d

LEMMA HeadTailPiece ==
  ASSUME NEW f \in Nat, NEW s, Piece(s, f), s # <<>>
  PROVE  /\ Head(s) = f + 1
         /\ Piece(Tail(s), f + 1) /\ Len(Tail(s)) = Len(s) - 1 /\ Len(s) # 0
<1>1. s \in Seq(Nat) /\ Len(s) \in Nat \ {0}
  BY EmptySeq DEF Piece
<1>2. /\ Head(s) = s[1] /\ Tail(s) \in Seq(Nat) /\ Len(Tail(s)) = Len(s) - 1
      /\ \A k \in 1 .. Len(s) - 1 : Tail(s)[k] = s[k + 1]
  BY <1>1
<1>3. \A k \in 1..Len(s) : s[k] = f + k
  BY DEF Piece
<1> QED BY <1>1, <1>2, <1>3 DEF Piece

\* A piece is known by where it starts and how long it is.
LEMMA PieceIsBytes ==
  ASSUME NEW f \in Nat, NEW s, Piece(s, f), NEW n, Len(s) = n
  PROVE  s = Bytes(f, n)
<1>1. s \in Seq(Nat) /\ n \in Nat
  BY DEF Piece
<1>2. /\ Bytes(f, n) \in Seq(Nat) /\ Len(Bytes(f, n)) = n
      /\ \A k \in 1..n : Bytes(f, n)[k] = f + k
  BY <1>1 DEF Bytes
<1> QED BY <1>1, <1>2, SeqEqual DEF Piece

-----------------------------------------------------------------------------
(***************************************************************************)
(* The inductive invariant.  What the client still reads, it reads in      *)
(* order; while the connection holds, what the server still writes and     *)
(* what it still reads follow, up to the last byte sent.                   *)
(***************************************************************************)
TypeOK ==
  /\ net \in {"up", "broken"}
  /\ main \in {"send", "join", "done"}
  /\ recv \in {"start", "poll", "ended"}
  /\ srv \in {"listen", "buff", "leaked", "closed"}
  /\ i \in Nat /\ part \in 0 .. WordSize - 1
  /\ recv_num \in Nat /\ words \in Seq(Seq(Nat))
  /\ {cbuf, down, sout, up} \subseteq Seq(Nat)

WordsWhole ==
  /\ recv_num = Len(words)
  /\ \A k \in 1..recv_num : words[k] = Bytes((k - 1) * WordSize, WordSize)

\* What the client has counted, has in its buffer, and can still read.
Read == Counted + Len(cbuf)
Back == Read + Len(down)

InOrderBack ==
  recv \in {"start", "poll"} =>
    /\ Piece(cbuf, Counted) /\ Len(cbuf) < WordSize
    /\ Piece(down, Read)

InOrderForth ==
  net = "up" =>
    /\ recv \in {"start", "poll"}
    /\ Piece(sout, Back)
    /\ Piece(up, Back + Len(sout))
    /\ Back + Len(sout) + Len(up) = Sent

IInv == TypeOK /\ WordsWhole /\ InOrderBack /\ InOrderForth

\* The counts of bytes are naturals, and one more byte or word is what it is.
LEMMA Numbers ==
  ASSUME IInv
  PROVE  /\ Counted \in Nat /\ Sent \in Nat /\ Read \in Nat /\ Back \in Nat
         /\ Len(cbuf) \in Nat /\ Len(down) \in Nat /\ Len(sout) \in Nat /\ Len(up) \in Nat
         /\ WordSize \in Nat \ {0} /\ ReadMax \in Nat
         /\ (recv_num + 1) * WordSize = Counted + WordSize
<1>1. WordSize \in Nat \ {0} /\ ReadMax \in Nat
  BY EchoAssumption
<1>2. /\ Len(cbuf) \in Nat /\ Len(down) \in Nat /\ Len(sout) \in Nat /\ Len(up) \in Nat
      /\ recv_num \in Nat /\ i \in Nat /\ part \in Nat
  BY <1>1 DEF IInv, TypeOK
<1>3. \A n \in Nat : n * WordSize \in Nat /\ (n + 1) * WordSize = n * WordSize + WordSize
  BY <1>1
<1> QED BY <1>1, <1>2, <1>3 DEF Counted, Sent, Read, Back

\* A step that moves no byte, adds none and leaves the connection as it is.
LEMMA KeepInv ==
  ASSUME IInv, TypeOK',
         net' = net \/ net' = "broken",
         \/ recv' = recv
         \/ recv = "start" /\ recv' = "poll"
         \/ recv' = "ended" /\ net' = "broken",
         recv_num' = recv_num, words' = words, i' = i, part' = part,
         up' = up, down' = down,
         cbuf' = cbuf \/ recv' = "ended",
         sout' = sout \/ net' = "broken"
  PROVE  IInv'
<1>1. WordsWhole'
  BY DEF IInv, WordsWhole
<1>2. InOrderBack'
  BY DEF IInv, InOrderBack, Counted, Read, TypeOK
<1>3. InOrderForth'
  BY DEF IInv, InOrderBack, InOrderForth, Counted, Read, Back, Sent, TypeOK
<1> QED BY <1>1, <1>2, <1>3 DEF IInv

-----------------------------------------------------------------------------
(***************************************************************************)
(* The server.                                                             *)
(***************************************************************************)
LEMMA ReadInv ==
  ASSUME IInv, NEW k \in 1..ReadMax, eg_read(k)
  PROVE  IInv'
<1>1. k \in Nat /\ k <= Len(up) /\ up \in Seq(Nat)
  BY Numbers DEF eg_read, IInv, TypeOK
<1>2. TypeOK => Drop(up, k) \in Seq(Nat)
  BY <1>1 DEF Drop
<1>3. CASE net = "up"
  <2>1. /\ up' = Drop(up, k) /\ sout' = sout \o SubSeq(up, 1, k)
        /\ UNCHANGED <<net, client, srv, down>>
    BY <1>3 DEF eg_read
  <2>2. Piece(sout, Back) /\ Piece(up, Back + Len(sout))
    BY <1>3 DEF IInv, InOrderForth
  <2>3. /\ Piece(SubSeq(up, 1, k), Back + Len(sout)) /\ Len(SubSeq(up, 1, k)) = k
        /\ Piece(Drop(up, k), Back + Len(sout) + k) /\ Len(Drop(up, k)) = Len(up) - k
    <3>1. Back + Len(sout) \in Nat
      BY Numbers
    <3> QED BY <1>1, <2>2, <3>1, FrontPiece, DropPiece
  <2>4. Piece(sout', Back) /\ Len(sout') = Len(sout) + k
    <3>1. Back \in Nat
      BY Numbers
    <3>2. LET t == SubSeq(up, 1, k)
          IN  Piece(sout \o t, Back) /\ Len(sout \o t) = Len(sout) + Len(t)
      BY <2>2, <2>3, <3>1, ConcatPiece
    <3> QED BY <2>1, <2>3, <3>2
  <2>5. TypeOK'
    BY <1>2, <2>1, <2>4 DEF IInv, TypeOK, client, Piece
  <2>6. Back' = Back /\ Sent' = Sent /\ Counted' = Counted /\ Read' = Read
    BY <2>1 DEF client, Counted, Read, Back, Sent
  <2>7. InOrderForth'
    <3>1. /\ Back + Len(sout) + k = Back + Len(sout')
          /\ Back + Len(sout') + Len(up') = Back + Len(sout) + Len(up)
      <4>1. Back \in Nat /\ Len(sout) \in Nat /\ Len(up) \in Nat
        BY Numbers
      <4>2. Len(up') = Len(up) - k /\ Len(sout') = Len(sout) + k
        BY <2>1, <2>3, <2>4
      <4> QED BY <1>1, <4>1, <4>2
    <3>2. Piece(up', Back + Len(sout'))
      BY <2>1, <2>3, <3>1
    <3> QED BY <1>3, <2>1, <2>4, <2>6, <3>1, <3>2 DEF IInv, InOrderForth, client
  <2>8. WordsWhole' /\ InOrderBack'
    BY <2>1, <2>6 DEF IInv, WordsWhole, InOrderBack, client
  <2> QED BY <2>5, <2>7, <2>8 DEF IInv
<1>4. CASE net = "broken"
  <2>1. /\ up' = Drop(up, k) /\ sout' = <<>> /\ srv' = "closed"
        /\ UNCHANGED <<net, client, down>>
    BY <1>4 DEF eg_read
  <2>2. TypeOK'
    BY <1>2, <2>1 DEF IInv, TypeOK, client
  <2>3. WordsWhole' /\ InOrderBack' /\ InOrderForth'
    BY <1>4, <2>1
       DEF IInv, WordsWhole, InOrderBack, InOrderForth, client, Counted, Read
  <2> QED BY <2>2, <2>3 DEF IInv
<1> QED BY <1>3, <1>4 DEF IInv, TypeOK

LEMMA FlushInv ==
  ASSUME IInv, fevbuff_flush
  PROVE  IInv'
<1>1. /\ net = "up" /\ sout # <<>>
      /\ down' = Append(down, Head(sout)) /\ sout' = Tail(sout)
      /\ UNCHANGED <<net, client, srv, up>>
  BY DEF fevbuff_flush
<1>2. /\ recv \in {"start", "poll"} /\ Piece(cbuf, Counted) /\ Piece(down, Read)
      /\ Piece(sout, Back) /\ Piece(up, Back + Len(sout))
      /\ Back + Len(sout) + Len(up) = Sent
  BY <1>1 DEF IInv, InOrderForth, InOrderBack
<1>3. /\ Head(sout) = Back + 1
      /\ Piece(Tail(sout), Back + 1) /\ Len(Tail(sout)) = Len(sout) - 1
  BY <1>1, <1>2, Numbers, HeadTailPiece
<1>4. Piece(down', Read) /\ Len(down') = Len(down) + 1
  <2>1. Head(sout) = Read + Len(down) + 1
    BY <1>3 DEF Back
  <2>2. Read \in Nat
    BY Numbers
  <2>3. LET d == Append(down, Read + Len(down) + 1)
        IN  Piece(d, Read) /\ Len(d) = Len(down) + 1
    BY <1>2, <2>2, AppendPiece
  <2> QED BY <1>1, <2>1, <2>3
<1>5. /\ Counted' = Counted /\ Read' = Read /\ Sent' = Sent
      /\ Back' = Back + 1 /\ Back' + Len(sout') = Back + Len(sout)
  <2>1. Counted' = Counted /\ Read' = Read /\ Sent' = Sent
    BY <1>1 DEF client, Counted, Read, Sent
  <2>2. Back' = Back + 1
    BY <1>4, <2>1, Numbers DEF Back
  <2>3. Back' + Len(sout') = Back + Len(sout)
    BY <1>1, <1>3, <2>2, Numbers
  <2> QED BY <2>1, <2>2, <2>3
<1>6. TypeOK'
  BY <1>1, <1>3, <1>4 DEF IInv, TypeOK, client, Piece
<1>7. WordsWhole' /\ InOrderBack'
  BY <1>1, <1>4, <1>5 DEF IInv, WordsWhole, InOrderBack, client
<1>8. InOrderForth'
  BY <1>1, <1>2, <1>3, <1>5 DEF InOrderForth, client
<1> QED BY <1>6, <1>7, <1>8 DEF IInv

-----------------------------------------------------------------------------
(***************************************************************************)
(* The client.                                                             *)
(***************************************************************************)
LEMMA SendInv ==
  ASSUME IInv, net_send_safe
  PROVE  IInv'
<1>1. UNCHANGED <<net, main, recv, cbuf, recv_num, words, server, down>>
  BY DEF net_send_safe
<1>2. Counted' = Counted /\ Read' = Read /\ Back' = Back
  BY <1>1 DEF Counted, Read, Back
<1>3. WordsWhole' /\ InOrderBack'
  BY <1>1, <1>2 DEF IInv, WordsWhole, InOrderBack
<1>4. CASE net = "up"
  <2>1. /\ up' = Append(up, Sent + 1)
        /\ part' = (part + 1) % WordSize
        /\ i' = IF part + 1 = WordSize THEN i + 1 ELSE i
    BY <1>4 DEF net_send_safe, Sent
  <2>2. i' \in Nat /\ part' \in 0 .. WordSize - 1 /\ Sent' = Sent + 1
    <3>1. i \in Nat /\ part \in 0 .. WordSize - 1 /\ WordSize \in Nat \ {0}
      BY Numbers DEF IInv, TypeOK
    <3>2. CASE part + 1 = WordSize
      <4>1. part' = 0 /\ i' = i + 1
        BY <2>1, <3>1, <3>2
      <4>2. (i + 1) * WordSize = i * WordSize + WordSize /\ i * WordSize \in Nat
        BY <3>1
      <4> QED BY <3>1, <3>2, <4>1, <4>2 DEF Sent
    <3>3. CASE part + 1 # WordSize
      <4>1. part' = part + 1 /\ i' = i
        BY <2>1, <3>1, <3>3
      <4>2. i * WordSize \in Nat
        BY <3>1
      <4> QED BY <3>1, <3>3, <4>1, <4>2 DEF Sent
    <3> QED BY <3>2, <3>3
  <2>3. /\ Piece(sout, Back) /\ Piece(up, Back + Len(sout))
        /\ Back + Len(sout) + Len(up) = Sent
    BY <1>4 DEF IInv, InOrderForth
  <2>4. Piece(up', Back + Len(sout)) /\ Len(up') = Len(up) + 1
    <3>1. Back + Len(sout) \in Nat
      BY Numbers
    <3>2. LET u == Append(up, Back + Len(sout) + Len(up) + 1)
          IN  Piece(u, Back + Len(sout)) /\ Len(u) = Len(up) + 1
      BY <2>3, <3>1, AppendPiece
    <3> QED BY <2>1, <2>3, <3>2
  <2>5. TypeOK'
    BY <1>1, <2>2, <2>4 DEF IInv, TypeOK, server, Piece
  <2>6. InOrderForth'
    <3>1. Back + Len(sout) + Len(up') = Sent'
      <4>1. Back \in Nat /\ Len(sout) \in Nat /\ Len(up) \in Nat
        BY Numbers
      <4>2. Sent' = Sent + 1 /\ Len(up') = Len(up) + 1
        BY <2>2, <2>4
      <4>3. Back + Len(sout) + Len(up) = Sent
        BY <2>3
      <4> QED BY <4>1, <4>2, <4>3
    <3> QED BY <1>1, <1>2, <1>4, <2>3, <2>4, <3>1 DEF IInv, InOrderForth, server
  <2> QED BY <1>3, <2>5, <2>6 DEF IInv
<1>5. CASE net = "broken"
  <2>1. i' = i + 1 /\ part' = 0 /\ UNCHANGED up
    BY <1>5 DEF net_send_safe
  <2>2. TypeOK'
    <3>1. i' \in Nat /\ part' \in 0 .. WordSize - 1
      <4>1. i \in Nat
        BY DEF IInv, TypeOK
      <4>2. WordSize \in Nat \ {0}
        BY Numbers
      <4> QED BY <2>1, <4>1, <4>2
    <3> QED BY <1>1, <2>1, <3>1 DEF IInv, TypeOK, server
  <2>3. InOrderForth'
    BY <1>1, <1>5 DEF InOrderForth
  <2> QED BY <1>3, <2>2, <2>3 DEF IInv
<1> QED BY <1>4, <1>5 DEF IInv, TypeOK

LEMMA ClientReadInv ==
  ASSUME IInv, NEW k \in 1..WordSize, client_read(k)
  PROVE  IInv'
<1> DEFINE b == cbuf \o SubSeq(down, 1, k)
<1>1. /\ recv = "poll" /\ k \in Nat /\ k <= Len(down) /\ Len(cbuf) + k <= WordSize
      /\ down' = Drop(down, k)
      /\ UNCHANGED <<net, main, i, part, recv, server, up>>
  BY DEF client_read
<1>2. \/ /\ Len(b) = WordSize
         /\ recv_num' = recv_num + 1 /\ words' = Append(words, b) /\ cbuf' = <<>>
      \/ Len(b) # WordSize /\ cbuf' = b /\ UNCHANGED <<recv_num, words>>
  BY DEF client_read
<1>3. Piece(cbuf, Counted) /\ Piece(down, Read)
  BY <1>1 DEF IInv, InOrderBack
<1>4. /\ Piece(SubSeq(down, 1, k), Read) /\ Len(SubSeq(down, 1, k)) = k
      /\ Piece(down', Read + k) /\ Len(down') = Len(down) - k
  <2>1. Read \in Nat
    BY Numbers
  <2> QED BY <1>1, <1>3, <2>1, FrontPiece, DropPiece
<1>5. Piece(b, Counted) /\ Len(b) = Len(cbuf) + k
  <2>1. Piece(SubSeq(down, 1, k), Counted + Len(cbuf))
    BY <1>4 DEF Read
  <2> QED BY <1>3, <1>4, <2>1, Numbers, ConcatPiece
<1> HIDE DEF b
<1>6. /\ recv_num' \in Nat /\ words' \in Seq(Seq(Nat)) /\ WordsWhole'
      /\ Piece(cbuf', Counted') /\ Len(cbuf') < WordSize
      /\ Read' = Read + k
  <2>1. CASE Len(b) = WordSize
    <3>1. recv_num' = recv_num + 1 /\ words' = Append(words, b) /\ cbuf' = <<>>
      BY <1>2, <2>1
    <3>2. b = Bytes(Counted, WordSize) /\ b \in Seq(Nat)
      BY <1>5, <2>1, Numbers, PieceIsBytes DEF IInv, Piece
    <3>3. /\ words \in Seq(Seq(Nat)) /\ recv_num \in Nat /\ recv_num = Len(words)
          /\ \A n \in 1..recv_num : words[n] = Bytes((n - 1) * WordSize, WordSize)
      BY DEF IInv, TypeOK, WordsWhole
    <3>4. /\ words' \in Seq(Seq(Nat)) /\ Len(words') = recv_num + 1
          /\ \A n \in 1..recv_num : words'[n] = words[n]
          /\ words'[recv_num + 1] = b
      BY <3>1, <3>2, <3>3, AppendProperties
    <3>5. ASSUME NEW n \in 1 .. recv_num + 1
          PROVE  words'[n] = Bytes((n - 1) * WordSize, WordSize)
      <4>1. CASE n \in 1..recv_num
        BY <3>3, <3>4, <4>1
      <4>2. CASE n = recv_num + 1
        <5>1. n - 1 = recv_num
          BY <3>3, <4>2
        <5> QED BY <3>2, <3>4, <4>2, <5>1 DEF Counted
      <4> QED BY <3>3, <4>1, <4>2
    <3>6. WordsWhole'
      BY <3>1, <3>4, <3>5 DEF WordsWhole
    <3>7. Counted' = Counted + WordSize /\ Counted' \in Nat
      BY <3>1, Numbers DEF Counted
    <3>8. Piece(cbuf', Counted') /\ Len(cbuf') = 0
      BY <3>1, <3>7, EmptyPiece
    <3>9. Read' = Read + k
      <4>1. Counted \in Nat /\ Len(cbuf) \in Nat /\ WordSize \in Nat
        BY Numbers
      <4>2. Len(cbuf) + k = WordSize
        BY <1>5, <2>1
      <4> QED BY <1>1, <3>7, <3>8, <4>1, <4>2 DEF Read
    <3>10. Len(cbuf') < WordSize
      BY <3>8, Numbers
    <3> QED BY <3>1, <3>3, <3>4, <3>6, <3>8, <3>9, <3>10
  <2>2. CASE Len(b) # WordSize
    <3>1. cbuf' = b /\ recv_num' = recv_num /\ words' = words
      BY <1>2, <2>2
    <3>2. Counted' = Counted
      BY <3>1 DEF Counted
    <3>3. WordsWhole'
      BY <3>1 DEF IInv, WordsWhole
    <3>4. Len(cbuf') < WordSize /\ Read' = Read + k
      <4>1. Counted \in Nat /\ Len(cbuf) \in Nat /\ WordSize \in Nat
        BY Numbers
      <4>2. Len(cbuf') = Len(cbuf) + k /\ Len(cbuf') # WordSize
        BY <1>5, <2>2, <3>1
      <4> QED BY <1>1, <3>2, <4>1, <4>2 DEF Read
    <3> QED BY <1>5, <3>1, <3>2, <3>3, <3>4 DEF IInv, TypeOK
  <2> QED BY <2>1, <2>2
<1>7. TypeOK'
  BY <1>1, <1>4, <1>6 DEF IInv, TypeOK, server, Piece
<1>8. InOrderBack'
  BY <1>4, <1>6 DEF InOrderBack
<1>9. Back' = Back /\ Sent' = Sent
  <2>1. Back' = Back
    <3>1. Read \in Nat /\ Len(down) \in Nat
      BY Numbers
    <3> QED BY <1>1, <1>4, <1>6, <3>1 DEF Back
  <2> QED BY <1>1, <2>1 DEF Sent
<1>10. InOrderForth'
  BY <1>1, <1>9 DEF IInv, InOrderForth, server
<1> QED BY <1>6, <1>7, <1>8, <1>10 DEF IInv

-----------------------------------------------------------------------------
LEMMA NextInv == IInv /\ [Next]_vars => IInv'
<1> SUFFICES ASSUME IInv, [Next]_vars PROVE IInv'
  OBVIOUS
<1>1. CASE eg_accept
  <2>1. TypeOK'
    BY <1>1 DEF eg_accept, client, IInv, TypeOK
  <2> QED BY <1>1, <2>1, KeepInv DEF eg_accept, client
<1>2. CASE eg_error
  <2>1. TypeOK'
    BY <1>2 DEF eg_error, client, IInv, TypeOK
  <2> QED BY <1>2, <2>1, KeepInv DEF eg_error, client
<1>3. CASE send_complete \/ pthread_join
  <2>1. TypeOK'
    BY <1>3 DEF send_complete, pthread_join, server, IInv, TypeOK
  <2> QED BY <1>3, <2>1, KeepInv DEF send_complete, pthread_join, server
<1>4. CASE client_recv \/ client_error
  <2>1. TypeOK'
    <3>1. CASE client_recv
      BY <3>1 DEF client_recv, server, IInv, TypeOK
    <3>2. CASE client_error
      BY <3>2 DEF client_error, server, IInv, TypeOK
    <3> QED BY <1>4, <3>1, <3>2
  <2> QED BY <1>4, <2>1, KeepInv DEF client_recv, client_error, server
<1>5. CASE net_break
  <2>1. TypeOK'
    BY <1>5 DEF net_break, server, client, IInv, TypeOK
  <2> QED BY <1>5, <2>1, KeepInv DEF net_break, server, client
<1>6. CASE UNCHANGED vars
  <2>1. TypeOK'
    BY <1>6 DEF vars, server, client, IInv, TypeOK
  <2> QED BY <1>6, <2>1, KeepInv DEF vars, server, client
<1> QED BY <1>1, <1>2, <1>3, <1>4, <1>5, <1>6,
           ReadInv, FlushInv, SendInv, ClientReadInv DEF Next

LEMMA AlwaysIInv == Spec => []IInv
<1>1. Init => IInv
  <2> SUFFICES ASSUME Init PROVE IInv
    OBVIOUS
  <2>1. TypeOK
    BY EchoAssumption DEF Init, TypeOK
  <2>2. Counted = 0 /\ Sent = 0
    BY EchoAssumption DEF Init, Counted, Sent
  <2>3. Len(<<>>) = 0 /\ Piece(<<>>, 0) /\ Read = 0 /\ Back = 0
    BY <2>2, EmptyPiece DEF Init, Read, Back
  <2> QED BY <2>1, <2>2, <2>3, EchoAssumption
          DEF Init, IInv, WordsWhole, InOrderBack, InOrderForth
<1> QED BY <1>1, NextInv, PTL DEF Spec

\* The client counts whole words in the order in which it sent them, and no
\* byte is lost, repeated or moved between the two ends while they are
\* connected.
THEOREM EchoesWhole == Spec => []WordsComeBackWhole
<1>1. ASSUME IInv PROVE WordsComeBackWhole
  <2>1. ASSUME net = "up"
        PROVE  /\ Counted <= Sent
               /\ cbuf \o down \o sout \o up = Bytes(Counted, Sent - Counted)
    <3>1. /\ Piece(cbuf, Counted) /\ Piece(down, Counted + Len(cbuf))
          /\ Piece(sout, Back) /\ Piece(up, Back + Len(sout))
          /\ Back + Len(sout) + Len(up) = Sent
      BY <1>1, <2>1 DEF IInv, InOrderBack, InOrderForth, Read
    <3>2. /\ Counted \in Nat /\ Len(cbuf) \in Nat /\ Len(down) \in Nat
          /\ Len(sout) \in Nat /\ Len(up) \in Nat
          /\ Back = Counted + Len(cbuf) + Len(down)
      BY <1>1, Numbers DEF Read, Back
    <3> DEFINE back == cbuf \o down
               forth == back \o sout
    <3>3. Piece(back, Counted) /\ Len(back) = Len(cbuf) + Len(down)
      BY <3>1, <3>2, ConcatPiece
    <3> HIDE DEF back
    <3>4. Counted + Len(back) = Back /\ Piece(sout, Counted + Len(back))
      BY <3>1, <3>2, <3>3
    <3>5. Piece(forth, Counted) /\ Len(forth) = Len(back) + Len(sout)
      BY <3>2, <3>3, <3>4, ConcatPiece
    <3> HIDE DEF forth
    <3>6. Counted + Len(forth) = Back + Len(sout)
      BY <3>2, <3>3, <3>5
    <3>7. Piece(forth \o up, Counted) /\ Len(forth \o up) = Len(forth) + Len(up)
      <4>1. Counted \in Nat /\ Piece(forth, Counted)
        BY <3>2, <3>5
      <4>2. Piece(up, Counted + Len(forth))
        BY <3>1, <3>6
      <4> QED BY <4>1, <4>2, ConcatPiece
    <3>8. Len(forth \o up) = Sent - Counted /\ Counted <= Sent
      BY <3>1, <3>2, <3>3, <3>5, <3>7
    <3>9. forth \o up = Bytes(Counted, Sent - Counted)
      BY <3>2, <3>7, <3>8, PieceIsBytes
    <3> QED BY <3>8, <3>9 DEF back, forth
  <2> QED BY <1>1, <2>1 DEF IInv, WordsWhole, WordsComeBackWhole
<1> QED BY <1>1, AlwaysIInv, PTL

=============================================================================
