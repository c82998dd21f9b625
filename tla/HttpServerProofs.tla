--------------------------- MODULE HttpServerProofs ---------------------------
(***************************************************************************)
(* The safety properties of HttpServer, for every set of descriptors and   *)
(* every configuration that checkServiceArgs lets through.                 *)
(***************************************************************************)
EXTENDS HttpServer, SequenceTheorems, FiniteSetTheorems, TLAPS

(***************************************************************************)
(* The inductive invariant.  Framed ties the bookkeeping of a client to    *)
(* what its peer has decoded: a chunked response that has begun has its    *)
(* head behind it, and what the peer has got and what is left to send add  *)
(* up to what was drawn.                                                   *)
(***************************************************************************)
Framed(c, p) ==
  /\ c.request_complete - c.response_complete \in {0, 1}
  /\ Outstanding(c) =>
       /\ p.phase = IF c.chunk_block_num = 0 THEN "head" ELSE "body"
       /\ c.ischunked => /\ p.got + c.last_data_size = p.want
                         /\ c.last_data_size > 0 => c.chunk_size > 0
       /\ ~c.ischunked => c.chunk_block_num = 0
  /\ ~Outstanding(c) =>
       /\ c.chunk_block_num = 0
       /\ p.phase \in {"idle", "done"}
       /\ p.phase = "done" => p.got = p.want

\* The node's interval is that of the request, unless the latency was zero.
Timed(c, d) == d = 0 \/ d = c.timeout

Clients ==
  /\ \A f \in live : Framed(cli[f], peer[f]) /\ Timed(cli[f], due[f])
  /\ \A f \in Fd \ live : peer[f] = IdlePeer /\ due[f] = 0

\* The node that http_on_timer has popped is a node.
InHand == pc = "node" => cli[node].tnidx

IInv ==
  /\ TypeOK
  /\ NodesOnLists
  /\ DeleteFromOwner
  /\ PendingHasTimer
  /\ ConnCount
  /\ Clients
  /\ InHand

-----------------------------------------------------------------------------
(***************************************************************************)
(* Clients and responses.                                                  *)
(***************************************************************************)

\* A new client, with an idle peer, is well formed.
LEMMA CreateFacts ==
  /\ create_client \in Client
  /\ IdlePeer \in Peer
  /\ Framed(create_client, IdlePeer)
  /\ ~Outstanding(create_client)
  /\ create_client.owner = NULL
<1>1. 0 \in 0..MaxAge
  BY BoundAssumption
<1> QED BY <1>1 DEF create_client, Client, IdlePeer, Peer, Framed, Outstanding

\* The chunk size that set_chunked_status computes is not zero for a response
\* that is not empty.
LEMMA ChunkFacts ==
  ASSUME NEW c \in Client, NEW size \in Nat
  PROVE  LET r == set_chunked_status(c, size)
         IN /\ r \in Client
            /\ r.last_data_size = size
            /\ size > 0 => r.chunk_size > 0
            /\ \E q \in Nat : r = [c EXCEPT !.last_data_size = size, !.chunk_size = q]
<1> DEFINE q == size \div chunk_blocks
           k == IF size # 0 /\ q = 0 THEN 1 ELSE q
<1>1. q \in Nat
  BY ArgsAssumption
<1>2. k \in Nat /\ (size > 0 => k > 0)
  BY <1>1
<1>3. set_chunked_status(c, size) = [c EXCEPT !.last_data_size = size, !.chunk_size = k]
  BY DEF set_chunked_status
<1> HIDE DEF k
<1>4. [c EXCEPT !.last_data_size = size, !.chunk_size = k] \in Client
  BY <1>2 DEF Client
<1>5. /\ [c EXCEPT !.last_data_size = size, !.chunk_size = k].last_data_size = size
      /\ [c EXCEPT !.last_data_size = size, !.chunk_size = k].chunk_size = k
  BY DEF Client
<1> QED BY <1>2, <1>3, <1>4, <1>5

\* A request that http_read accepts leaves its client well formed.
LEMMA AcceptedFacts ==
  ASSUME NEW c \in Client, NEW ischunked \in BOOLEAN, NEW size \in Nat,
         c.request_complete - 1 = c.response_complete, c.chunk_block_num = 0
  PROVE  LET c1 == Accepted(c, ischunked, size)
             p1 == Awaiting(ischunked, size)
         IN /\ c1 \in Client /\ p1 \in Peer
            /\ Framed(c1, p1) /\ Outstanding(c1)
            /\ c1.owner = c.owner
<1> DEFINE c0 == [c EXCEPT !.age = 0, !.ischunked = ischunked]
           p1 == Awaiting(ischunked, size)
<1>0. 0 \in 0..MaxAge
  BY BoundAssumption
<1>1. c0 \in Client
  BY <1>0 DEF Client
<1>2. /\ c0.request_complete = c.request_complete
      /\ c0.response_complete = c.response_complete
      /\ c0.chunk_block_num = 0 /\ c0.owner = c.owner /\ c0.ischunked = ischunked
  BY DEF Client
<1>3. p1 \in Peer /\ p1.phase = "head" /\ p1.got = 0
      /\ (ischunked => p1.want = size)
  BY DEF Awaiting, Peer
<1>4. c.request_complete \in Nat /\ c.response_complete \in Nat
  BY DEF Client
<1> HIDE DEF c0, p1
<1>5. CASE ~ischunked
  <2>1. Accepted(c, ischunked, size) = c0
    BY <1>5 DEF Accepted, c0
  <2>2. Framed(c0, p1) /\ Outstanding(c0)
    BY <1>2, <1>3, <1>4, <1>5 DEF Framed, Outstanding
  <2> QED BY <2>1, <2>2, <1>1, <1>2, <1>3 DEF p1
<1>6. CASE ischunked
  <2>1. Accepted(c, ischunked, size) = set_chunked_status(c0, size)
    BY <1>6 DEF Accepted, c0
  <2> DEFINE r == set_chunked_status(c0, size)
  <2>2. /\ r \in Client /\ r.last_data_size = size /\ (size > 0 => r.chunk_size > 0)
        /\ \E q \in Nat : r = [c0 EXCEPT !.last_data_size = size, !.chunk_size = q]
    BY <1>1, ChunkFacts
  <2>3. /\ r.request_complete = c.request_complete
        /\ r.response_complete = c.response_complete
        /\ r.chunk_block_num = 0 /\ r.owner = c.owner /\ r.ischunked
    BY <2>2, <1>1, <1>2, <1>6 DEF Client
  <2> HIDE DEF r
  <2>4. Framed(r, p1) /\ Outstanding(r)
    BY <2>2, <2>3, <1>3, <1>4, <1>6 DEF Framed, Outstanding
  <2> QED BY <2>1, <2>2, <2>3, <2>4, <1>3 DEF p1, r
<1> QED BY <1>5, <1>6

\* The two updates of a chunked response keep the client's type.
LEMMA EndChunks ==
  ASSUME NEW c \in Client, NEW r \in Nat, NEW k \in Nat
  PROVE  [c EXCEPT !.response_complete = r, !.chunk_block_num = k] \in Client
BY DEF Client

LEMMA SendChunk ==
  ASSUME NEW c \in Client, NEW d \in Nat, NEW k \in Nat
  PROVE  [c EXCEPT !.last_data_size = d, !.chunk_block_num = k] \in Client
BY DEF Client

\* A write moves client and peer from one well-formed state to the next.
LEMMA WritesFacts ==
  ASSUME NEW c \in Client, NEW p \in Peer, Framed(c, p), Outstanding(c),
         NEW w \in Writes(c, p)
  PROVE  /\ w.cli \in Client /\ w.peer \in Peer
         /\ Framed(w.cli, w.peer)
         /\ w.cli.owner = c.owner /\ w.cli.tnidx = c.tnidx
         /\ w.cli.timeout = c.timeout
         /\ w.peer # p
<1>1. /\ c.request_complete \in Nat /\ c.response_complete \in Nat
      /\ c.request_complete = c.response_complete + 1
      /\ c.chunk_block_num \in Nat /\ c.chunk_size \in Nat /\ c.last_data_size \in Nat
      /\ c.ischunked \in BOOLEAN
  BY DEF Client, Framed, Outstanding
<1>2. CASE ~c.ischunked
  <2>1. PICK size \in gen_number_in_range(min_response_size, max_response_size) :
               w = send_http_response(c, p, size)
    BY <1>2 DEF Writes
  <2>2. size \in Nat
    BY ArgsAssumption DEF gen_number_in_range
  <2>3. p.phase = "head" /\ c.chunk_block_num = 0
    BY <1>2 DEF Framed
  <2>4. w.cli = [c EXCEPT !.response_complete = @ + 1]
    BY <2>1 DEF send_http_response
  <2>5. w.peer = [phase |-> "done", got |-> (size + 2) + 2, want |-> size + 2 + 2]
    BY <2>1, <2>3 DEF send_http_response, RecvContent, CRLF_SIZE
  <2>6. /\ w.peer \in Peer /\ w.peer.phase = "done" /\ w.peer.got = w.peer.want
    BY <2>2, <2>5 DEF Peer
  <2>7. /\ w.cli \in Client /\ w.cli.owner = c.owner /\ w.cli.tnidx = c.tnidx
        /\ w.cli.timeout = c.timeout /\ w.cli.chunk_block_num = 0
        /\ w.cli.request_complete = w.cli.response_complete
    BY <2>4, <2>3, <1>1 DEF Client
  <2>8. w.cli.request_complete \in Nat
    BY <2>7 DEF Client
  <2>9. Framed(w.cli, w.peer)
    BY <2>6, <2>7, <2>8 DEF Framed, Outstanding
  <2>10. w.peer # p
    BY <2>3, <2>6
  <2> QED BY <2>6, <2>7, <2>9, <2>10
<1>3. CASE c.ischunked
  <2> DEFINE p0 == IF c.chunk_block_num = 0 THEN RecvHead(p) ELSE p
             d == datasize(c)
  <2>1. w = send_http_chunked_response(c, p)
    BY <1>3 DEF Writes
  <2>2. /\ p0 \in Peer /\ p0.phase = "body" /\ p0.got = p.got /\ p0.want = p.want
    BY <1>3, <1>1 DEF Framed, RecvHead, Peer
  <2>3. /\ p.got \in Nat /\ p.want \in Nat /\ p.got + c.last_data_size = p.want
        /\ c.last_data_size > 0 => c.chunk_size > 0
    BY <1>3 DEF Framed, Peer
  <2>9. p.phase # "done"
    BY DEF Framed
  <2>4. CASE c.last_data_size = 0
    <3>1. /\ w.cli = [c EXCEPT !.response_complete = @ + 1, !.chunk_block_num = 0]
          /\ w.peer = RecvEnd(p0)
      BY <2>1, <2>4 DEF send_http_chunked_response
    <3> HIDE DEF p0
    <3>2. w.peer \in Peer /\ w.peer.phase = "done" /\ w.peer.got = w.peer.want
      BY <3>1, <2>2, <2>3, <2>4 DEF RecvEnd, Peer
    <3>t. w.cli \in Client
      <4>1. c.response_complete + 1 \in Nat /\ 0 \in Nat
        BY <1>1
      <4> QED BY ONLY ZenonT(60), <3>1, <4>1, c \in Client, EndChunks
    <3>f. /\ w.cli.owner = c.owner /\ w.cli.tnidx = c.tnidx
          /\ w.cli.timeout = c.timeout /\ w.cli.chunk_block_num = 0
          /\ w.cli.request_complete = c.request_complete
          /\ w.cli.response_complete = c.response_complete + 1
      BY <3>1 DEF Client
    <3>3. /\ w.cli \in Client /\ w.cli.owner = c.owner /\ w.cli.tnidx = c.tnidx
          /\ w.cli.timeout = c.timeout /\ w.cli.chunk_block_num = 0
          /\ w.cli.request_complete = w.cli.response_complete
      BY <3>t, <3>f, <1>1
    <3>4. w.cli.request_complete \in Nat
      BY <3>3 DEF Client
    <3>5. Framed(w.cli, w.peer)
      BY <3>2, <3>3, <3>4 DEF Framed, Outstanding
    <3>6. w.peer # p
      BY <3>2, <2>9 DEF Framed
    <3> QED BY <3>2, <3>3, <3>5, <3>6
  <2>5. CASE c.last_data_size # 0
    <3>1. /\ w.cli = [c EXCEPT !.last_data_size = @ - d,
                               !.chunk_block_num = @ + 1]
          /\ w.peer = RecvChunk(p0, d)
      BY <2>1, <2>5 DEF send_http_chunked_response
    <3>2. d \in Nat /\ d > 0 /\ d <= c.last_data_size
      BY <1>1, <2>3, <2>5 DEF datasize
    <3> HIDE DEF p0, d
    <3>3. /\ w.peer \in Peer /\ w.peer.phase = "body" /\ w.peer.got = p.got + d
          /\ w.peer.want = p.want
      BY <3>1, <3>2, <2>2, <2>3 DEF RecvChunk, Peer
    <3>4. w.cli \in Client
      <4>1. c.last_data_size - d \in Nat /\ c.chunk_block_num + 1 \in Nat
        BY <3>2, <1>1
      <4> QED BY ZenonT(60), <3>1, <4>1, SendChunk
    <3>5. /\ w.cli.owner = c.owner /\ w.cli.tnidx = c.tnidx
          /\ w.cli.timeout = c.timeout /\ w.cli.chunk_block_num = c.chunk_block_num + 1
          /\ w.cli.request_complete = c.request_complete
          /\ w.cli.response_complete = c.response_complete
          /\ w.cli.last_data_size = c.last_data_size - d
          /\ w.cli.chunk_size = c.chunk_size
          /\ w.cli.ischunked
      BY <3>1, <1>3 DEF Client
    <3>6. Framed(w.cli, w.peer)
      BY <3>2, <3>3, <3>5, <1>1, <2>3, <2>5 DEF Framed, Outstanding
    <3>7. w.peer # p
      BY <3>2, <3>3, <2>3 DEF Peer
    <3> QED BY <3>3, <3>4, <3>5, <3>6, <3>7
  <2> QED BY <2>4, <2>5, <1>1
<1> QED BY <1>1, <1>2, <1>3

-----------------------------------------------------------------------------
(***************************************************************************)
(* The chunks of a response.  What is left of it fits into the chunks that *)
(* it may still take, 2 * chunk_blocks - 1 in all.                         *)
(***************************************************************************)
ChunkLimit == 2 * chunk_blocks - 1

Divided(c) ==
  /\ c.chunk_block_num <= ChunkLimit
  /\ c.last_data_size <= (ChunkLimit - c.chunk_block_num) * c.chunk_size
  /\ c.chunk_size <= LargestChunk

AllDivided == \A f \in Fd : Divided(cli[f])

\* Dividing rounds down by less than the divisor.
LEMMA QuotientFacts ==
  ASSUME NEW n \in Nat
  PROVE  LET q == n \div chunk_blocks
         IN /\ q \in Nat
            /\ chunk_blocks * q <= n
            /\ n <= chunk_blocks * q + (chunk_blocks - 1)
BY ArgsAssumption

\* A larger size has no smaller quotient.
LEMMA QuotientGrows ==
  ASSUME NEW m \in Nat, NEW n \in Nat, m <= n
  PROVE  m \div chunk_blocks <= n \div chunk_blocks
<1> DEFINE q == m \div chunk_blocks
           r == n \div chunk_blocks
<1>1. /\ q \in Nat /\ r \in Nat
      /\ chunk_blocks * q <= m /\ n <= chunk_blocks * r + (chunk_blocks - 1)
  BY QuotientFacts
<1>2. chunk_blocks \in Nat \ {0}
  BY ArgsAssumption
<1> HIDE DEF q, r
<1>3. ASSUME q >= r + 1 PROVE FALSE
  <2>1. chunk_blocks * q >= chunk_blocks * (r + 1)
    BY <1>1, <1>2, <1>3
  <2>2. chunk_blocks * (r + 1) = chunk_blocks * r + chunk_blocks
    BY <1>1, <1>2
  <2>3. chunk_blocks * q \in Nat /\ chunk_blocks * r \in Nat
    BY <1>1, <1>2
  <2> QED BY <2>1, <2>2, <2>3, <1>1, <1>2
<1> QED BY <1>1, <1>3 DEF q, r

\* The size of a response fits into its chunks.
LEMMA SizeFitsChunks ==
  ASSUME NEW n \in Nat, NEW k \in Nat,
         k = IF n # 0 /\ n \div chunk_blocks = 0 THEN 1 ELSE n \div chunk_blocks
  PROVE  n <= ChunkLimit * k
<1> DEFINE q == n \div chunk_blocks
<1>1. /\ q \in Nat /\ n <= chunk_blocks * q + (chunk_blocks - 1) /\ chunk_blocks * q <= n
  BY QuotientFacts
<1>2. chunk_blocks \in Nat \ {0} /\ ChunkLimit \in Nat /\ ChunkLimit = 2 * chunk_blocks - 1
  BY ArgsAssumption DEF ChunkLimit
<1>k. k = IF n # 0 /\ q = 0 THEN 1 ELSE q
  OBVIOUS
<1> HIDE DEF q
<1>3. CASE n = 0
  <2>1. ChunkLimit * k \in Nat
    BY <1>2
  <2> QED BY <2>1, <1>3
<1>4. CASE n # 0 /\ q = 0
  <2>1. k = 1 /\ chunk_blocks * q = 0
    BY <1>4, <1>k, <1>2
  <2>2. n <= chunk_blocks - 1
    BY <2>1, <1>1, <1>2
  <2> QED BY <2>1, <2>2, <1>2
<1>5. CASE n # 0 /\ q # 0
  <2>1. k = q /\ q >= 1
    BY <1>5, <1>1, <1>k
  <2>2. (chunk_blocks - 1) * q >= chunk_blocks - 1
    BY <2>1, <1>1, <1>2
  <2>3. ChunkLimit * q = chunk_blocks * q + (chunk_blocks - 1) * q
    BY <1>1, <1>2
  <2>4. chunk_blocks * q \in Nat /\ (chunk_blocks - 1) * q \in Nat
    BY <1>1, <1>2
  <2> QED BY <2>1, <2>2, <2>3, <2>4, <1>1, <1>2
<1> QED BY <1>3, <1>4, <1>5

\* Sending a chunk leaves a rest that fits into one chunk less.
LEMMA RestFitsChunks ==
  ASSUME NEW room \in Nat, NEW rest \in Nat, NEW k \in Nat,
         rest > 0, rest <= room * k
  PROVE  /\ room >= 1
         /\ k < rest => rest - k <= (room - 1) * k
         /\ 0 <= (room - 1) * k
<1>1. room >= 1
  <2>1. ASSUME room = 0 PROVE FALSE
    <3>1. room * k = 0
      BY <2>1
    <3> QED BY <3>1
  <2> QED BY <2>1
<1>2. (room - 1) * k = room * k - k /\ room * k \in Nat
  OBVIOUS
<1>3. room - 1 \in Nat
  BY <1>1
<1>4. (room - 1) * k \in Nat
  BY <1>3
<1> QED BY <1>1, <1>2, <1>4

\* A larger number takes no fewer digits.
LEMMA DigitsGrow ==
  ASSUME NEW m \in Nat, NEW n \in Nat, m <= n
  PROVE  /\ HexDigits(m) \in Nat /\ HexDigits(n) \in Nat
         /\ HexDigits(m) <= HexDigits(n)
<1> DEFINE Reached(k) == {power \in PowersOf16 : k >= power}
<1>1. IsFiniteSet(PowersOf16)
  <2>1. PICK top \in Nat : \A power \in PowersOf16 : power \in 0..top
    BY SMTT(60), 268435456 \in Nat DEF PowersOf16
  <2>2. IsFiniteSet(0..top)
    BY FS_Interval
  <2>3. PowersOf16 \subseteq 0..top
    BY <2>1
  <2> QED BY <2>2, <2>3, FS_Subset
<1>2. Reached(m) \subseteq Reached(n) /\ Reached(n) \subseteq PowersOf16
  <2>1. \A power \in PowersOf16 : power \in Nat
    BY SMTT(60) DEF PowersOf16
  <2> QED BY <2>1
<1>3. IsFiniteSet(Reached(n)) /\ IsFiniteSet(Reached(m))
  BY <1>1, <1>2, FS_Subset
<1>4. /\ Cardinality(Reached(m)) \in Nat /\ Cardinality(Reached(n)) \in Nat
      /\ Cardinality(Reached(m)) <= Cardinality(Reached(n))
  BY <1>2, <1>3, FS_Subset, FS_CardinalityType
<1>5. HexDigits(m) = 1 + Cardinality(Reached(m)) /\ HexDigits(n) = 1 + Cardinality(Reached(n))
  BY DEF HexDigits
<1> HIDE DEF Reached
<1> QED BY <1>4, <1>5

LEMMA LargestFacts ==
  /\ LargestChunk \in Nat \ {0} /\ ChunkLimit \in Nat \ {0}
  /\ max_chunk_response_size \div chunk_blocks <= LargestChunk
<1>1. max_chunk_response_size \in Nat /\ chunk_blocks \in Nat \ {0}
  BY ArgsAssumption
<1>2. ChunkLimit \in Nat \ {0}
  BY <1>1 DEF ChunkLimit
<1>3. max_chunk_response_size \div chunk_blocks \in Nat
  BY <1>1, QuotientFacts
<1> QED BY <1>2, <1>3 DEF LargestChunk

\* The chunk size of a response that may be drawn.
LEMMA ChunkSizeFacts ==
  ASSUME NEW n \in Nat, n <= max_chunk_response_size, NEW k,
         k = IF n # 0 /\ n \div chunk_blocks = 0 THEN 1 ELSE n \div chunk_blocks
  PROVE  k \in Nat /\ k <= LargestChunk
<1>1. max_chunk_response_size \in Nat
  BY ArgsAssumption
<1>2. n \div chunk_blocks \in Nat /\ max_chunk_response_size \div chunk_blocks \in Nat
  BY <1>1, QuotientFacts
<1>3. n \div chunk_blocks <= max_chunk_response_size \div chunk_blocks
  BY <1>1, QuotientGrows
<1> QED BY <1>2, <1>3, LargestFacts

\* Any chunk of a divided response fits, if the head and the largest chunk do.
LEMMA FitsInBuffer ==
  ASSUME NEW c \in Client, Divided(c),
         FHTTP_CHUNK_RESPONSE_HEADER_SIZE + create_chunk_response(LargestChunk) <= buffsize
  PROVE  StoredBytes(c) <= buffsize
<1>1. /\ c.chunk_size \in Nat /\ c.last_data_size \in Nat /\ max_response_size \in Nat
      /\ c.chunk_size <= LargestChunk
  BY ArgsAssumption DEF Client, Divided
<1>2. datasize(c) \in Nat /\ LargestChunk \in Nat /\ datasize(c) <= LargestChunk
  BY <1>1, LargestFacts DEF datasize
<1>3. /\ HexDigits(datasize(c)) \in Nat /\ HexDigits(LargestChunk) \in Nat
      /\ HexDigits(datasize(c)) <= HexDigits(LargestChunk)
  BY <1>2, DigitsGrow
<1>4. /\ create_chunk_response(datasize(c)) <= create_chunk_response(LargestChunk)
      /\ create_chunk_response(datasize(c)) \in Nat
      /\ create_chunk_response(LargestChunk) \in Nat
  BY <1>2, <1>3 DEF create_chunk_response, CRLF_SIZE
<1>5. /\ FHTTP_CHUNK_RESPONSE_HEADER_SIZE + FHTTP_CHUNK_END_SIZE <= buffsize
      /\ buffsize \in Nat
  BY <1>1 DEF FHTTP_CHUNK_RESPONSE_HEADER_SIZE, FHTTP_CHUNK_END_SIZE, buffsize,
             FHTTP_REPONSE_HEADER_SIZE, CRLF_SIZE
<1>6. FHTTP_CHUNK_RESPONSE_HEADER_SIZE \in Nat /\ FHTTP_CHUNK_END_SIZE \in Nat
  BY DEF FHTTP_CHUNK_RESPONSE_HEADER_SIZE, FHTTP_CHUNK_END_SIZE
<1> QED BY <1>4, <1>5, <1>6 DEF StoredBytes

\* Only the fields of its chunks matter.
SameChunks(r, c) ==
  /\ r.chunk_block_num = c.chunk_block_num
  /\ r.last_data_size = c.last_data_size
  /\ r.chunk_size = c.chunk_size

LEMMA DividedFrame ==
  ASSUME NEW c, NEW r, Divided(c), SameChunks(r, c)
  PROVE  Divided(r)
BY DEF Divided, SameChunks

LEMMA DividedCreate == Divided(create_client)
BY LargestFacts DEF create_client, Divided

\* A request that is accepted.
LEMMA DividedAccepted ==
  ASSUME NEW c \in Client, NEW ischunked \in BOOLEAN, NEW size \in SizeOf(ischunked),
         Divided(c), c.chunk_block_num = 0
  PROVE  Divided(Accepted(c, ischunked, size))
<1> DEFINE c0 == [c EXCEPT !.age = 0, !.ischunked = ischunked]
           k == IF size # 0 /\ size \div chunk_blocks = 0 THEN 1 ELSE size \div chunk_blocks
<1>1. SameChunks(c0, c) /\ c0.chunk_block_num = 0
  BY DEF Client, SameChunks
<1>2. CASE ~ischunked
  <2>1. Accepted(c, ischunked, size) = c0
    BY <1>2 DEF Accepted
  <2> HIDE DEF c0
  <2> QED BY <1>1, <2>1, DividedFrame
<1>3. CASE ischunked
  <2>1. size \in Nat /\ size <= max_chunk_response_size
    BY <1>3, ArgsAssumption DEF SizeOf, gen_number_in_range
  <2>2. k \in Nat /\ k <= LargestChunk /\ size <= ChunkLimit * k
    <3>1. k \in Nat /\ k <= LargestChunk
      BY <2>1, ChunkSizeFacts
    <3> QED BY <3>1, <2>1, SizeFitsChunks
  <2>3. Accepted(c, ischunked, size) = [c0 EXCEPT !.last_data_size = size, !.chunk_size = k]
    BY <1>3 DEF Accepted, set_chunked_status
  <2>c. c0.chunk_block_num = 0 /\ c0 = [c EXCEPT !.age = 0, !.ischunked = ischunked]
    BY <1>1
  <2> HIDE DEF k
  <2>4. /\ Accepted(c, ischunked, size).chunk_block_num = 0
        /\ Accepted(c, ischunked, size).last_data_size = size
        /\ Accepted(c, ischunked, size).chunk_size = k
    BY <2>3, <2>c DEF Client
  <2>5. ChunkLimit - 0 = ChunkLimit /\ 0 <= ChunkLimit
    BY LargestFacts
  <2> QED BY <2>2, <2>4, <2>5 DEF Divided
<1> QED BY <1>2, <1>3

\* A part of a response that is written.
LEMMA DividedWrites ==
  ASSUME NEW c \in Client, NEW p, Divided(c), NEW w \in Writes(c, p)
  PROVE  Divided(w.cli)
<1>1. /\ c.chunk_block_num \in Nat /\ c.last_data_size \in Nat /\ c.chunk_size \in Nat
      /\ ChunkLimit \in Nat /\ c.response_complete \in Nat
  BY LargestFacts DEF Client
<1>2. CASE ~c.ischunked
  <2>1. w.cli = [c EXCEPT !.response_complete = @ + 1]
    BY <1>2 DEF Writes, send_http_response
  <2>2. SameChunks(w.cli, c)
    BY <2>1 DEF Client, SameChunks
  <2> QED BY <2>2, DividedFrame
<1>3. CASE c.ischunked /\ c.last_data_size = 0
  <2>1. w.cli = [c EXCEPT !.response_complete = @ + 1, !.chunk_block_num = 0]
    BY <1>3 DEF Writes, send_http_chunked_response
  <2>2. /\ w.cli.chunk_block_num = 0 /\ w.cli.last_data_size = 0
        /\ w.cli.chunk_size = c.chunk_size
    BY <2>1, <1>3 DEF Client
  <2>3. ChunkLimit * c.chunk_size \in Nat /\ ChunkLimit - 0 = ChunkLimit
    BY <1>1
  <2> QED BY <1>1, <2>2, <2>3 DEF Divided
<1>4. CASE c.ischunked /\ c.last_data_size # 0
  <2> DEFINE d == datasize(c)
             room == ChunkLimit - c.chunk_block_num
  <2>1. w.cli = [c EXCEPT !.last_data_size = @ - d, !.chunk_block_num = @ + 1]
    BY <1>4 DEF Writes, send_http_chunked_response
  <2>2. /\ w.cli.chunk_block_num = c.chunk_block_num + 1
        /\ w.cli.last_data_size = c.last_data_size - d
        /\ w.cli.chunk_size = c.chunk_size
    BY <2>1 DEF Client
  <2>3. room \in Nat /\ c.last_data_size > 0 /\ c.last_data_size <= room * c.chunk_size
    BY <1>1, <1>4 DEF Divided
  <2>4. /\ room >= 1
        /\ c.chunk_size < c.last_data_size
             => c.last_data_size - c.chunk_size <= (room - 1) * c.chunk_size
        /\ 0 <= (room - 1) * c.chunk_size
    BY <2>3, <1>1, RestFitsChunks
  <2>5. c.last_data_size - d <= (room - 1) * c.chunk_size
    <3>1. CASE c.chunk_size < c.last_data_size
      BY <2>4, <3>1 DEF datasize
    <3>2. CASE ~(c.chunk_size < c.last_data_size)
      <4>1. c.last_data_size - d = 0
        BY <3>2, <1>1 DEF datasize
      <4> QED BY <4>1, <2>4
    <3> QED BY <3>1, <3>2
  <2>6. ChunkLimit - w.cli.chunk_block_num = room - 1 /\ w.cli.chunk_block_num <= ChunkLimit
    BY <2>2, <2>4, <1>1
  <2> HIDE DEF d, room
  <2> QED BY <2>2, <2>5, <2>6 DEF Divided
<1> QED BY <1>1, <1>2, <1>3, <1>4

-----------------------------------------------------------------------------
\* Setting the timer fields of a client does not touch its framing or its
\* chunks.
LEMMA TimerFields ==
  ASSUME NEW c \in Client, NEW p, NEW interval \in Int
  PROVE  LET r == timer_node_create(c, interval)
         IN /\ r \in Client /\ r.tnidx /\ r.owner = c.owner /\ r.timeout = interval
            /\ Framed(c, p) => Framed(r, p)
            /\ SameChunks(r, c)
<1> DEFINE r == timer_node_create(c, interval)
<1>1. /\ r \in Client /\ r.tnidx /\ r.owner = c.owner /\ r.timeout = interval
      /\ r.request_complete = c.request_complete
      /\ r.response_complete = c.response_complete
      /\ r.chunk_block_num = c.chunk_block_num /\ r.ischunked = c.ischunked
      /\ r.last_data_size = c.last_data_size /\ r.chunk_size = c.chunk_size
  BY DEF timer_node_create, Client
<1> HIDE DEF r
<1>2. Framed(c, p) => Framed(r, p)
  BY <1>1 DEF Framed, Outstanding
<1>3. SameChunks(r, c)
  BY <1>1 DEF SameChunks
<1> QED BY <1>1, <1>2, <1>3 DEF r

-----------------------------------------------------------------------------
(***************************************************************************)
(* The timer lists.                                                        *)
(***************************************************************************)

\* What NodesOnLists says of one list l of manager m.
Listed(m, l) ==
  /\ \A i \in 1..Len(l) :
       /\ l[i] \in live
       /\ cli[l[i]].tnidx /\ cli[l[i]].owner = m
       /\ \A j \in 1..Len(l) : l[i] = l[j] => i = j
  /\ \A f \in Fd : cli[f].owner = m => \E i \in 1..Len(l) : l[i] = f

LEMMA ListedDef == NodesOnLists <=> \A m \in Mgr : Listed(m, list[m])
BY DEF NodesOnLists, Listed

\* A step that leaves alone the clients on a list, and gives it no others,
\* keeps it.
LEMMA ListedFrame ==
  ASSUME NEW m \in Mgr, NEW l \in Seq(Fd), Listed(m, l),
         \A f \in Fd : cli[f].owner = m =>
            /\ f \in live => f \in live'
            /\ cli'[f].tnidx = cli[f].tnidx /\ cli'[f].owner = m,
         \A f \in Fd : cli'[f].owner = m => cli[f].owner = m
  PROVE  Listed(m, l)'
<1>1. \A i \in 1..Len(l) : l[i] \in Fd
  BY ElementOfSeq
<1> QED BY <1>1 DEF Listed

\* Appending a node that is on no list.
LEMMA ListedAppend ==
  ASSUME NEW m \in Mgr, NEW l \in Seq(Fd), Listed(m, l), NEW n \in Fd,
         n \in live', cli[n].owner = NULL,
         cli'[n].tnidx, cli'[n].owner = m,
         \A f \in Fd \ {n} : cli'[f] = cli[f] /\ (f \in live => f \in live')
  PROVE  LET r == Append(l, n) IN r \in Seq(Fd) /\ Listed(m, r)'
<1> DEFINE r == Append(l, n)
<1>1. /\ r \in Seq(Fd) /\ Len(r) = Len(l) + 1 /\ r[Len(l) + 1] = n
      /\ \A i \in 1..Len(l) : r[i] = l[i]
  BY AppendProperties
<1>2. \A i \in 1..Len(l) : l[i] \in Fd
  BY ElementOfSeq
<1>3. Len(l) \in Nat
  BY LenProperties
<1>4. \A i \in 1..Len(l) : l[i] # n
  BY NullAssumption DEF Listed
<1> HIDE DEF r
<1>5. ASSUME NEW i \in 1..Len(r)
      PROVE  /\ r[i] \in live' /\ cli'[r[i]].tnidx /\ cli'[r[i]].owner = m
             /\ \A j \in 1..Len(r) : r[i] = r[j] => i = j
  <2>1. CASE i = Len(l) + 1
    <3>1. \A j \in 1..Len(r) : j # i => j \in 1..Len(l)
      BY <2>1, <1>1, <1>3
    <3> QED BY <2>1, <3>1, <1>1, <1>4
  <2>2. CASE i # Len(l) + 1
    <3>1. i \in 1..Len(l)
      BY <2>2, <1>1, <1>3
    <3>2. r[i] = l[i] /\ l[i] # n /\ l[i] \in Fd
      BY <3>1, <1>1, <1>2, <1>4
    <3>3. \A j \in 1..Len(r) : j = Len(l) + 1 \/ j \in 1..Len(l)
      BY <1>1, <1>3
    <3> QED BY <3>1, <3>2, <3>3, <1>1 DEF Listed
  <2> QED BY <2>1, <2>2
<1>6. ASSUME NEW f \in Fd, cli'[f].owner = m
      PROVE  \E i \in 1..Len(r) : r[i] = f
  <2>1. CASE f = n
    BY <2>1, <1>1, <1>3
  <2>2. CASE f # n
    <3>1. PICK i \in 1..Len(l) : l[i] = f
      BY <2>2, <1>6 DEF Listed
    <3>2. i \in 1..Len(r)
      BY <1>1, <1>3
    <3> QED BY <3>1, <3>2, <1>1
  <2> QED BY <2>1, <2>2
<1>7. Listed(m, r)'
  BY <1>5, <1>6 DEF Listed
<1> QED BY <1>1, <1>7 DEF r

\* r is l without its k-th node, and the node of f stays as it is.
Without(r, l, k) ==
  Len(r) = Len(l) - 1 /\ \A i \in 1..Len(r) : r[i] = IF i < k THEN l[i] ELSE l[i + 1]

NodeKept(f) ==
  /\ f \in live => f \in live'
  /\ cli'[f].owner = cli[f].owner /\ cli'[f].tnidx = cli[f].tnidx

\* Taking the k-th node off a list; its client may be freed.
LEMMA ListedRemove ==
  ASSUME NEW m \in Mgr, NEW l \in Seq(Fd), Listed(m, l), NEW k \in 1..Len(l),
         NEW r \in Seq(Fd), Without(r, l, k),
         cli'[l[k]].owner # m,
         \A f \in Fd \ {l[k]} : NodeKept(f)
  PROVE  Listed(m, r)'
<1> USE DEF Without, NodeKept
<1>1. Len(l) \in Nat /\ Len(r) \in Nat
  BY LenProperties
<1>2. \A i \in 1..Len(l) : l[i] \in Fd
  BY ElementOfSeq
<1>3. ASSUME NEW i \in 1..Len(r)
      PROVE  \E a \in 1..Len(l) : a # k /\ r[i] = l[a] /\ a = IF i < k THEN i ELSE i + 1
  <2>1. CASE i < k
    <3>1. i \in 1..Len(l) /\ i # k
      BY <2>1, <1>1
    <3> QED BY <3>1, <2>1
  <2>2. CASE ~(i < k)
    <3>1. i + 1 \in 1..Len(l) /\ i + 1 # k
      BY <2>2, <1>1
    <3> QED BY <3>1, <2>2
  <2> QED BY <2>1, <2>2
<1>4. ASSUME NEW i \in 1..Len(r)
      PROVE  /\ r[i] \in live' /\ cli'[r[i]].tnidx /\ cli'[r[i]].owner = m
             /\ \A j \in 1..Len(r) : r[i] = r[j] => i = j
  <2>1. PICK a \in 1..Len(l) : a # k /\ r[i] = l[a] /\ a = IF i < k THEN i ELSE i + 1
    BY <1>3
  <2>2. l[a] \in Fd \ {l[k]}
    <3>1. l[a] = l[k] => a = k
      BY DEF Listed
    <3> QED BY <2>1, <3>1, <1>2
  <2>3. ASSUME NEW j \in 1..Len(r), r[i] = r[j]
        PROVE  i = j
    <3>1. PICK b \in 1..Len(l) : b # k /\ r[j] = l[b] /\ b = IF j < k THEN j ELSE j + 1
      BY <1>3
    <3>2. a = b
      <4>1. l[a] = l[b]
        BY <2>1, <2>3, <3>1
      <4> QED BY <4>1 DEF Listed
    <3> QED BY <2>1, <3>1, <3>2, <1>1
  <2>4. l[a] \in live /\ cli[l[a]].tnidx /\ cli[l[a]].owner = m
    BY DEF Listed
  <2> QED BY <2>1, <2>2, <2>3, <2>4
<1>5. ASSUME NEW f \in Fd, cli'[f].owner = m
      PROVE  \E i \in 1..Len(r) : r[i] = f
  <2>1. PICK a \in 1..Len(l) : l[a] = f
    BY <1>5 DEF Listed
  <2>2. a # k
    BY <2>1, <1>5
  <2>3. CASE a < k
    <3>1. a \in 1..Len(r)
      BY <2>3, <1>1
    <3> QED BY <3>1, <2>3, <2>1
  <2>4. CASE a > k
    <3>1. a - 1 \in 1..Len(r) /\ ~(a - 1 < k) /\ (a - 1) + 1 = a
      BY <2>4, <1>1
    <3> QED BY <3>1, <2>1
  <2> QED BY <2>2, <2>3, <2>4
<1> QED BY <1>4, <1>5 DEF Listed

\* What timer_node_delete returns.
LEMMA DeleteFacts ==
  ASSUME NEW l \in Seq(Fd), NEW n, \E i \in 1..Len(l) : l[i] = n
  PROVE  LET r == timer_node_delete(l, n)
         IN /\ r \in Seq(Fd) /\ Len(r) = Len(l) - 1
            /\ \E k \in 1..Len(l) :
                 /\ l[k] = n
                 /\ \A i \in 1..Len(r) : r[i] = IF i < k THEN l[i] ELSE l[i + 1]
<1> DEFINE k == CHOOSE i \in 1..Len(l) : l[i] = n
           a == SubSeq(l, 1, k - 1)
           b == SubSeq(l, k + 1, Len(l))
<1>1. k \in 1..Len(l) /\ l[k] = n
  OBVIOUS
<1>2. timer_node_delete(l, n) = a \o b
  BY DEF timer_node_delete, Contains, RemoveAt
<1> HIDE DEF k
<1>3. Len(l) \in Nat /\ k \in Int /\ 1 <= k /\ k <= Len(l)
  BY <1>1, LenProperties
<1>4. \A i \in 1..Len(l) : l[i] \in Fd
  BY ElementOfSeq
<1>5. /\ a \in Seq(Fd) /\ Len(a) = k - 1
      /\ \A i \in 1..(k - 1) : a[i] = l[i]
  <2>1. \A i \in 1..(k - 1) : l[i] \in Fd
    BY <1>3, <1>4
  <2>2. 1 \in Int /\ k - 1 \in Int
    BY <1>3
  <2>3. /\ a \in Seq(Fd) /\ Len(a) = IF 1 <= k - 1 THEN (k - 1) - 1 + 1 ELSE 0
        /\ \A i \in 1..((k - 1) - 1 + 1) : a[i] = l[1 + i - 1]
    BY <2>1, <2>2, SubSeqProperties
  <2> QED BY <2>3, <1>3
<1>6. /\ b \in Seq(Fd) /\ Len(b) = Len(l) - k
      /\ \A i \in 1..(Len(l) - k) : b[i] = l[k + i]
  <2>1. \A i \in (k + 1)..Len(l) : l[i] \in Fd
    BY <1>3, <1>4
  <2>2. k + 1 \in Int /\ Len(l) \in Int
    BY <1>3
  <2>3. /\ b \in Seq(Fd) /\ Len(b) = IF k + 1 <= Len(l) THEN Len(l) - (k + 1) + 1 ELSE 0
        /\ \A i \in 1..(Len(l) - (k + 1) + 1) : b[i] = l[(k + 1) + i - 1]
    BY <2>1, <2>2, SubSeqProperties
  <2> QED BY <2>3, <1>3
<1> HIDE DEF a, b
<1>7. /\ a \o b \in Seq(Fd) /\ Len(a \o b) = Len(a) + Len(b)
      /\ \A i \in 1..(Len(a) + Len(b)) :
           (a \o b)[i] = IF i <= Len(a) THEN a[i] ELSE b[i - Len(a)]
  BY <1>5, <1>6, ConcatProperties
<1>8. Len(a \o b) = Len(l) - 1
  BY <1>3, <1>5, <1>6, <1>7
<1>9. ASSUME NEW i \in 1..Len(a \o b)
      PROVE  (a \o b)[i] = IF i < k THEN l[i] ELSE l[i + 1]
  <2>1. CASE i < k
    <3>1. i \in 1..(k - 1) /\ i \in 1..(Len(a) + Len(b)) /\ i <= Len(a)
      BY <2>1, <1>3, <1>5, <1>6, <1>8
    <3> QED BY <2>1, <3>1, <1>5, <1>7
  <2>2. CASE ~(i < k)
    <3>1. /\ i \in 1..(Len(a) + Len(b)) /\ ~(i <= Len(a))
          /\ i - (k - 1) \in 1..(Len(l) - k) /\ k + (i - (k - 1)) = i + 1
      BY <2>2, <1>3, <1>5, <1>6, <1>8
    <3> QED BY <2>2, <3>1, <1>5, <1>6, <1>7
  <2> QED BY <2>1, <2>2
<1> QED BY <1>1, <1>2, <1>7, <1>8, <1>9

-----------------------------------------------------------------------------
(***************************************************************************)
(* The operations on lists and clients.                                    *)
(***************************************************************************)

\* timer_node_push: the client becomes c, and its node is on a list.
LEMMA PushFacts ==
  ASSUME TypeOK, NodesOnLists, NEW mgr \in Mgr, NEW fd \in live, NEW c \in Client,
         NEW p, c.owner = cli[fd].owner, c.tnidx, Framed(c, p),
         timer_node_push(mgr, fd, c), live' = live
  PROVE  /\ cli' \in [Fd -> Client] /\ list' \in [Mgr -> Seq(Fd)]
         /\ NodesOnLists'
         /\ \A f \in Fd \ {fd} : cli'[f] = cli[f]
         /\ cli'[fd].owner = IF c.owner # NULL THEN c.owner ELSE mgr
         /\ cli'[fd].timeout = c.timeout
         /\ Framed(cli'[fd], p)
<1>t. /\ live \subseteq Fd /\ fd \in Fd /\ cli \in [Fd -> Client]
      /\ list \in [Mgr -> Seq(Fd)]
  BY DEF TypeOK
<1>1. CASE c.owner # NULL
  <2>1. cli' = [cli EXCEPT ![fd] = c] /\ list' = list
    BY <1>1 DEF timer_node_push
  <2>2. ASSUME NEW m \in Mgr
        PROVE  Listed(m, list[m])'
    <3>1. Listed(m, list[m]) /\ list[m] \in Seq(Fd)
      BY <1>t, ListedDef
    <3>2. \A f \in Fd : cli[f].owner = m =>
            /\ f \in live => f \in live'
            /\ cli'[f].tnidx = cli[f].tnidx /\ cli'[f].owner = m
      <4>1. cli[fd].owner = m => cli[fd].tnidx
        BY <1>t, <3>1 DEF Listed
      <4> QED BY <4>1, <2>1, <1>t DEF Client
    <3>3. \A f \in Fd : cli'[f].owner = m => cli[f].owner = m
      BY <2>1, <1>t
    <3>4. PICK l \in Seq(Fd) : l = list[m]
      BY <3>1
    <3>5. Listed(m, l)'
      BY <3>1, <3>2, <3>3, <3>4, ListedFrame
    <3> QED BY <3>4, <3>5, <2>1
  <2>3. NodesOnLists'
    BY <2>2 DEF NodesOnLists, Listed
  <2> QED BY <1>1, <1>t, <2>1, <2>3
<1>2. CASE c.owner = NULL
  <2> DEFINE d == [c EXCEPT !.owner = mgr]
  <2>1. cli' = [cli EXCEPT ![fd] = d] /\ list' = [list EXCEPT ![mgr] = Append(@, fd)]
    BY <1>2 DEF timer_node_push
  <2>2. /\ d \in Client /\ d.owner = mgr /\ d.tnidx /\ d.timeout = c.timeout
        /\ d.request_complete = c.request_complete
        /\ d.response_complete = c.response_complete
        /\ d.chunk_block_num = c.chunk_block_num /\ d.ischunked = c.ischunked
        /\ d.last_data_size = c.last_data_size /\ d.chunk_size = c.chunk_size
    BY DEF Client
  <2> HIDE DEF d
  <2>3. Framed(d, p)
    BY <2>2 DEF Framed, Outstanding
  <2>4. cli' \in [Fd -> Client] /\ cli'[fd] = d /\ \A f \in Fd \ {fd} : cli'[f] = cli[f]
    BY <2>1, <2>2, <1>t
  <2>5. PICK q \in Seq(Fd) : q = list[mgr]
    BY <1>t
  <2>6. Listed(mgr, q)
    BY <2>5, ListedDef
  <2>7. Append(q, fd) \in Seq(Fd) /\ Listed(mgr, Append(q, fd))'
    BY <2>2, <2>4, <2>6, <1>2, <1>t, ListedAppend
  <2>8. list' = [list EXCEPT ![mgr] = Append(q, fd)]
    BY <2>1, <2>5
  <2>9. ASSUME NEW m \in Mgr, m # mgr
        PROVE  Listed(m, list[m])' /\ list'[m] = list[m]
    <3>1. PICK l \in Seq(Fd) : l = list[m]
      BY <1>t
    <3>2. Listed(m, l)
      BY <3>1, ListedDef
    <3>3. \A f \in Fd : cli[f].owner = m =>
            /\ f \in live => f \in live'
            /\ cli'[f].tnidx = cli[f].tnidx /\ cli'[f].owner = m
      BY <2>4, <1>2, NullAssumption
    <3>4. \A f \in Fd : cli'[f].owner = m => cli[f].owner = m
      BY <2>2, <2>4, <2>9
    <3>5. Listed(m, l)'
      BY <3>2, <3>3, <3>4, ListedFrame
    <3>6. list'[m] = list[m]
      BY <2>8, <2>9, <1>t
    <3> QED BY <3>1, <3>5, <3>6
  <2>10. list' \in [Mgr -> Seq(Fd)] /\ list'[mgr] = Append(q, fd)
    BY <2>7, <2>8, <1>t
  <2>11. Listed(mgr, list[mgr])'
    BY <2>7, <2>10
  <2>12. NodesOnLists'
    BY <2>9, <2>11 DEF NodesOnLists, Listed
  <2> QED BY <1>2, <2>2, <2>3, <2>4, <2>10, <2>12
<1> QED BY <1>1, <1>2

\* destroy_client: the lists keep their shape when the node is on the current
\* list or on none.
LEMMA DestroyFacts ==
  ASSUME TypeOK, NodesOnLists, ConnCount, NEW fd \in live,
         cli[fd].owner \in {NULL, current}, destroy_client(fd)
  PROVE  /\ live' = live \ {fd}
         /\ cli' \in [Fd -> Client] /\ list' \in [Mgr -> Seq(Fd)]
         /\ peer' \in [Fd -> Peer] /\ due' \in [Fd -> Nat]
         /\ current_conn' \in Nat
         /\ NodesOnLists' /\ ConnCount'
         /\ cli'[fd] = create_client /\ peer'[fd] = IdlePeer /\ due'[fd] = 0
         /\ \A f \in Fd \ {fd} : cli'[f] = cli[f] /\ peer'[f] = peer[f] /\ due'[f] = due[f]
<1>t. /\ live \subseteq Fd /\ fd \in Fd /\ cli \in [Fd -> Client]
      /\ list \in [Mgr -> Seq(Fd)] /\ current \in Mgr
      /\ peer \in [Fd -> Peer] /\ due \in [Fd -> Nat]
  BY DEF TypeOK
<1>1. /\ live' = live \ {fd} /\ cli' = [cli EXCEPT ![fd] = create_client]
      /\ peer' = [peer EXCEPT ![fd] = IdlePeer] /\ due' = [due EXCEPT ![fd] = 0]
      /\ current_conn' = current_conn - 1
      /\ list' = [list EXCEPT ![current] =
                    IF cli[fd].owner = NULL THEN @ ELSE timer_node_delete(@, fd)]
  BY DEF destroy_client
<1>2. /\ cli' \in [Fd -> Client] /\ peer' \in [Fd -> Peer] /\ due' \in [Fd -> Nat]
      /\ cli'[fd] = create_client /\ peer'[fd] = IdlePeer /\ due'[fd] = 0
      /\ \A f \in Fd \ {fd} : cli'[f] = cli[f] /\ peer'[f] = peer[f] /\ due'[f] = due[f]
  BY <1>1, <1>t, CreateFacts
<1>3. current_conn' \in Nat /\ ConnCount'
  <2>1. IsFiniteSet(live)
    BY <1>t, FdAssumption, FS_Subset
  <2>2. Cardinality(live) \in Nat /\ Cardinality(live) # 0
    BY <2>1, FS_CardinalityType, FS_EmptySet
  <2>3. Cardinality(live \ {fd}) = Cardinality(live) - 1
    BY <2>1, FS_RemoveElement
  <2> QED BY <1>1, <2>2, <2>3 DEF ConnCount
<1>4. ASSUME NEW m \in Mgr, cli[fd].owner # m
      PROVE  Listed(m, list[m])' /\ list'[m] = list[m]
  <2>1. PICK l \in Seq(Fd) : l = list[m]
    BY <1>t
  <2>2. Listed(m, l)
    BY <2>1, ListedDef
  <2>3. \A f \in Fd : cli[f].owner = m =>
          /\ f \in live => f \in live'
          /\ cli'[f].tnidx = cli[f].tnidx /\ cli'[f].owner = m
    BY <1>1, <1>2, <1>4
  <2>4. \A f \in Fd : cli'[f].owner = m => cli[f].owner = m
    BY <1>2, CreateFacts, NullAssumption
  <2>5. Listed(m, l)'
    BY <2>2, <2>3, <2>4, ListedFrame
  <2>6. list'[m] = list[m]
    BY <1>1, <1>4, <1>t
  <2> QED BY <2>1, <2>5, <2>6
<1>5. ASSUME NEW m \in Mgr, cli[fd].owner = m
      PROVE  list' \in [Mgr -> Seq(Fd)] /\ Listed(m, list[m])'
  <2>1. m = current
    BY <1>5, NullAssumption
  <2>2. PICK l \in Seq(Fd) : l = list[m]
    BY <1>t
  <2>3. Listed(m, l)
    BY <2>2, ListedDef
  <2>4. \E i \in 1..Len(l) : l[i] = fd
    BY <2>1, <2>3, <1>5, <1>t DEF Listed
  <2>5. PICK r \in Seq(Fd) :
          /\ r = timer_node_delete(l, fd) /\ Len(r) = Len(l) - 1
          /\ \E k \in 1..Len(l) :
               /\ l[k] = fd
               /\ \A i \in 1..Len(r) : r[i] = IF i < k THEN l[i] ELSE l[i + 1]
    BY <2>4, DeleteFacts
  <2>6. PICK k \in 1..Len(l) :
               /\ l[k] = fd
               /\ \A i \in 1..Len(r) : r[i] = IF i < k THEN l[i] ELSE l[i + 1]
    BY <2>5
  <2>7. list' = [list EXCEPT ![m] = r]
    BY <1>1, <1>5, <2>1, <2>2, <2>5, <1>t, NullAssumption
  <2>8. cli'[l[k]].owner # m
    BY <2>6, <1>2, CreateFacts, NullAssumption
  <2>8a. \A f \in Fd \ {l[k]} : NodeKept(f)
    BY <2>6, <1>1, <1>2 DEF NodeKept
  <2>8b. Without(r, l, k)
    BY <2>5, <2>6 DEF Without
  <2>9. Listed(m, r)'
    BY <2>3, <2>8, <2>8a, <2>8b, ListedRemove
  <2>10. list' \in [Mgr -> Seq(Fd)] /\ list'[m] = r
    BY <2>7, <1>t
  <2> QED BY <2>1, <2>9, <2>10
<1>6. list' \in [Mgr -> Seq(Fd)]
  <2>1. CASE cli[fd].owner = current
    BY <2>1, <1>5, <1>t
  <2>2. CASE cli[fd].owner = NULL
    BY <2>2, <1>1, <1>t
  <2> QED BY <2>1, <2>2
<1>7. NodesOnLists'
  BY <1>4, <1>5 DEF NodesOnLists, Listed
<1> QED BY <1>1, <1>2, <1>3, <1>6, <1>7

-----------------------------------------------------------------------------
(***************************************************************************)
(* Every action keeps the invariant.                                       *)
(***************************************************************************)

\* The callback is http_read or http_error, or http_on_timer at node fd.
AtPoll == pc = "poll" /\ pc' = "poll" /\ node' = node
AtNode(fd) == pc = "node" /\ fd = node /\ pc' = "pop" /\ node' = NULL

\* A callback that destroys its client.
LEMMA DestroyInv ==
  ASSUME IInv, NEW fd \in live, destroy_client(fd), AtPoll \/ AtNode(fd),
         current' = current, backup' = backup
  PROVE  IInv'
<1>t. TypeOK /\ NodesOnLists /\ ConnCount /\ DeleteFromOwner
  BY DEF IInv
<1>1. cli[fd].owner \in {NULL, current}
  BY <1>t DEF DeleteFromOwner, AtPoll, AtNode
<1>2. /\ live' = live \ {fd}
      /\ cli' \in [Fd -> Client] /\ list' \in [Mgr -> Seq(Fd)]
      /\ peer' \in [Fd -> Peer] /\ due' \in [Fd -> Nat]
      /\ current_conn' \in Nat
      /\ NodesOnLists' /\ ConnCount'
      /\ cli'[fd] = create_client /\ peer'[fd] = IdlePeer /\ due'[fd] = 0
      /\ \A f \in Fd \ {fd} : cli'[f] = cli[f] /\ peer'[f] = peer[f] /\ due'[f] = due[f]
  BY <1>t, <1>1, DestroyFacts
<1>3. TypeOK'
  BY <1>t, <1>2 DEF TypeOK, AtPoll, AtNode
<1>4. DeleteFromOwner'
  BY <1>t, <1>2 DEF TypeOK, DeleteFromOwner, AtPoll, AtNode
<1>5. PendingHasTimer'
  BY <1>t, <1>2 DEF IInv, TypeOK, PendingHasTimer, AtPoll, AtNode
<1>6. Clients'
  BY <1>t, <1>2 DEF IInv, TypeOK, Clients
<1>7. InHand'
  BY DEF InHand, AtPoll, AtNode
<1> QED BY <1>2, <1>3, <1>4, <1>5, <1>6, <1>7 DEF IInv

\* A callback that keeps its client, as c, and puts its node on list mgr; its
\* peer is then at p, and d is the latency it was promised.  Whatever it wrote,
\* the rest of a response still fits into the chunks it may take.
Kept(mgr, fd, c, p, d) ==
  /\ c.owner = cli[fd].owner /\ c.tnidx
  /\ Framed(c, p) /\ Timed(c, d)
  /\ Divided(cli[fd]) => Divided(c)
  /\ timer_node_push(mgr, fd, c)
  /\ peer' = [peer EXCEPT ![fd] = p] /\ due' = [due EXCEPT ![fd] = d]
  /\ UNCHANGED <<live, current_conn>>

LEMMA KeepInv ==
  ASSUME IInv, NEW mgr \in Mgr, NEW fd \in live, NEW c \in Client, NEW p \in Peer,
         NEW d \in Nat, Kept(mgr, fd, c, p, d),
         (AtPoll /\ mgr = current) \/ AtNode(fd),
         current' = current, backup' = backup
  PROVE  IInv'
<1> USE DEF Kept
<1>t. TypeOK /\ NodesOnLists /\ ConnCount /\ DeleteFromOwner
  BY DEF IInv
<1>u. live' = live /\ current_conn' = current_conn /\ current' = current /\ backup' = backup
  OBVIOUS
<1>1. /\ cli' \in [Fd -> Client] /\ list' \in [Mgr -> Seq(Fd)]
      /\ NodesOnLists'
      /\ \A f \in Fd \ {fd} : cli'[f] = cli[f]
      /\ cli'[fd].owner = IF c.owner # NULL THEN c.owner ELSE mgr
      /\ cli'[fd].timeout = c.timeout
      /\ Framed(cli'[fd], p)
  BY <1>t, <1>u, PushFacts
<1>2. fd \in Fd /\ peer'[fd] = p /\ due'[fd] = d
      /\ \A f \in Fd \ {fd} : peer'[f] = peer[f] /\ due'[f] = due[f]
  BY <1>t DEF TypeOK
<1>3. TypeOK'
  BY <1>t, <1>u, <1>1 DEF TypeOK, AtPoll, AtNode
<1>4. DeleteFromOwner'
  BY <1>t, <1>u, <1>1 DEF TypeOK, DeleteFromOwner, AtPoll, AtNode
<1>5. PendingHasTimer'
  <2>1. cli'[fd].owner # NULL
    BY <1>1, NullAssumption
  <2> QED BY <2>1, <1>t, <1>u, <1>1 DEF IInv, TypeOK, PendingHasTimer, AtPoll, AtNode
<1>6. Clients'
  <2>1. Timed(cli'[fd], due'[fd])
    BY <1>1, <1>2 DEF Timed
  <2>2. Framed(cli'[fd], peer'[fd])
    BY <1>1, <1>2
  <2>3. ASSUME NEW f \in live, f # fd
        PROVE  Framed(cli'[f], peer'[f]) /\ Timed(cli'[f], due'[f])
    <3>1. cli'[f] = cli[f] /\ peer'[f] = peer[f] /\ due'[f] = due[f]
      BY <2>3, <1>1, <1>2, <1>t DEF TypeOK
    <3> QED BY <3>1 DEF IInv, Clients
  <2>4. \A f \in Fd \ live : peer'[f] = IdlePeer /\ due'[f] = 0
    BY <1>2 DEF IInv, Clients
  <2> QED BY <2>1, <2>2, <2>3, <2>4, <1>u DEF Clients
<1>7. InHand'
  BY DEF InHand, AtPoll, AtNode
<1>8. ConnCount'
  BY <1>t, <1>u DEF ConnCount
<1> QED BY <1>1, <1>3, <1>4, <1>5, <1>6, <1>7, <1>8 DEF IInv

LEMMA StutterInv ==
  ASSUME IInv, UNCHANGED vars
  PROVE  IInv'
<1>u. UNCHANGED <<live, cli, list, current, backup, current_conn, pc, node, peer, due>>
  BY DEF vars
<1>1. TypeOK'
  BY <1>u DEF IInv, TypeOK
<1>2. NodesOnLists'
  BY <1>u DEF IInv, NodesOnLists
<1>3. DeleteFromOwner' /\ ConnCount' /\ InHand'
  BY <1>u DEF IInv, DeleteFromOwner, ConnCount, InHand
<1>4. PendingHasTimer'
  BY <1>u DEF IInv, PendingHasTimer, Outstanding
<1>5. Clients'
  <2>1. \A f \in live : Framed(cli[f], peer[f])'
    BY <1>u DEF IInv, Clients, Framed, Outstanding
  <2> QED BY <2>1, <1>u DEF IInv, Clients, Timed
<1> QED BY <1>1, <1>2, <1>3, <1>4, <1>5 DEF IInv

LEMMA AcceptInv ==
  ASSUME IInv, NEW fd \in Fd, http_accept(fd)
  PROVE  IInv'
<1>t. TypeOK /\ NodesOnLists /\ ConnCount /\ DeleteFromOwner
  BY DEF IInv
<1>1. CASE UNCHANGED vars
  BY <1>1, StutterInv
<1>2. CASE ~UNCHANGED vars
  <2>1. /\ pc = "poll" /\ fd \notin live
        /\ live' = live \cup {fd} /\ cli' = [cli EXCEPT ![fd] = create_client]
        /\ current_conn' = current_conn + 1
        /\ UNCHANGED <<list, current, backup, pc, node, peer, due>>
    BY <1>2 DEF http_accept
  <2>2. /\ cli' \in [Fd -> Client] /\ cli'[fd] = create_client
        /\ \A f \in Fd \ {fd} : cli'[f] = cli[f]
    BY <2>1, <1>t, CreateFacts DEF TypeOK
  <2>3. TypeOK'
    BY <2>1, <2>2, <1>t DEF TypeOK
  <2>4. cli[fd].owner = NULL
    <3>1. \A m \in Mgr : cli[fd].owner # m
      BY <1>t, <2>1 DEF NodesOnLists
    <3> QED BY <3>1, <1>t DEF TypeOK, Client
  <2>5. NodesOnLists'
    <3>1. ASSUME NEW m \in Mgr
          PROVE  Listed(m, list[m])'
      <4>1. PICK l \in Seq(Fd) : l = list[m]
        BY <1>t DEF TypeOK
      <4>2. Listed(m, l)
        BY <4>1, <1>t, ListedDef
      <4>3. \A f \in Fd : cli[f].owner = m =>
              /\ f \in live => f \in live'
              /\ cli'[f].tnidx = cli[f].tnidx /\ cli'[f].owner = m
        BY <2>1, <2>2, <2>4, NullAssumption
      <4>4. \A f \in Fd : cli'[f].owner = m => cli[f].owner = m
        BY <2>2, CreateFacts, NullAssumption
      <4>5. Listed(m, l)'
        BY <4>2, <4>3, <4>4, ListedFrame
      <4> QED BY <4>1, <4>5, <2>1
    <3> QED BY <3>1 DEF NodesOnLists, Listed
  <2>6. DeleteFromOwner'
    BY <1>t, <2>1, <2>2, CreateFacts DEF TypeOK, DeleteFromOwner
  <2>7. PendingHasTimer'
    BY <1>t, <2>1, <2>2, CreateFacts DEF IInv, TypeOK, PendingHasTimer
  <2>8. ConnCount'
    <3>1. IsFiniteSet(live)
      BY <1>t, FdAssumption, FS_Subset DEF TypeOK
    <3>2. Cardinality(live \cup {fd}) = Cardinality(live) + 1
      BY <3>1, <2>1, FS_AddElement
    <3> QED BY <3>2, <2>1, <1>t DEF ConnCount
  <2>9. Clients'
    <3>1. Framed(cli'[fd], peer'[fd]) /\ Timed(cli'[fd], due'[fd])
      BY <2>1, <2>2, CreateFacts DEF IInv, Clients, Timed
    <3>2. ASSUME NEW f \in live
          PROVE  Framed(cli'[f], peer'[f]) /\ Timed(cli'[f], due'[f])
      <4>1. cli'[f] = cli[f] /\ peer'[f] = peer[f] /\ due'[f] = due[f]
        BY <2>1, <2>2, <1>t DEF TypeOK
      <4> QED BY <4>1 DEF IInv, Clients
    <3> QED BY <3>1, <3>2, <2>1 DEF IInv, Clients
  <2>10. InHand'
    BY <2>1 DEF InHand
  <2> QED BY <2>3, <2>5, <2>6, <2>7, <2>8, <2>9, <2>10 DEF IInv
<1> QED BY <1>1, <1>2

LEMMA ErrorInv ==
  ASSUME IInv, NEW fd \in Fd, http_error(fd)
  PROVE  IInv'
<1>1. fd \in live /\ destroy_client(fd) /\ AtPoll /\ current' = current /\ backup' = backup
  BY DEF http_error, AtPoll
<1> QED BY <1>1, DestroyInv

\* The sizes and latencies that http_read draws are natural numbers.
LEMMA DrawFacts ==
  /\ get_ischunked \subseteq BOOLEAN
  /\ \A k \in BOOLEAN : SizeOf(k) \subseteq Nat /\ LatencyOf(k) \subseteq Nat
<1>1. get_ischunked \subseteq BOOLEAN
  BY DEF get_ischunked
<1>2. \A a, b \in Nat : a..b \subseteq Nat
  OBVIOUS
<1>3. ASSUME NEW k \in BOOLEAN
      PROVE  SizeOf(k) \subseteq Nat /\ LatencyOf(k) \subseteq Nat
  BY <1>2, ArgsAssumption DEF SizeOf, LatencyOf, gen_number_in_range
<1> QED BY <1>1, <1>3

\* What http_read comes to.
LEMMA ReadCases ==
  ASSUME IInv, NEW fd \in Fd, http_read(fd)
  PROVE  /\ fd \in live /\ AtPoll /\ current' = current /\ backup' = backup
         /\ \/ destroy_client(fd)
            \/ \E c \in Client, p \in Peer, d \in Nat : Kept(current, fd, c, p, d)
<1> DEFINE c == [cli[fd] EXCEPT !.request_complete = @ + 1]
<1>t. TypeOK /\ current \in Mgr
  BY DEF IInv, TypeOK
<1>1. fd \in live /\ AtPoll /\ current' = current /\ backup' = backup
  BY DEF http_read, AtPoll
<1>2. /\ cli[fd] \in Client /\ Framed(cli[fd], peer[fd])
  BY <1>1, <1>t DEF IInv, TypeOK, Clients
<1>3. /\ c \in Client /\ c.owner = cli[fd].owner
      /\ c.request_complete = cli[fd].request_complete + 1
      /\ c.response_complete = cli[fd].response_complete
      /\ c.chunk_block_num = cli[fd].chunk_block_num
      /\ SameChunks(c, cli[fd])
  BY <1>2 DEF Client, SameChunks
<1>4. CASE destroy_client(fd)
  BY <1>1, <1>4
<1>5. CASE ~destroy_client(fd)
  <2>1. PICK ischunked \in get_ischunked :
        \E size \in SizeOf(ischunked), latency \in LatencyOf(ischunked) :
          LET c1 == Accepted(c, ischunked, size)
              p1 == Awaiting(ischunked, size)
          IN /\ c.request_complete - 1 = c.response_complete
             /\ \/ /\ latency # 0
                   /\ Arm(fd, c1, latency)
                   /\ peer' = [peer EXCEPT ![fd] = p1]
                   /\ due' = [due EXCEPT ![fd] = latency]
                   /\ UNCHANGED <<live, current_conn>>
                \/ \E w \in Writes(c1, p1) :
                     /\ Arm(fd, w.cli, timeout)
                     /\ peer' = [peer EXCEPT ![fd] = w.peer]
                     /\ due' = [due EXCEPT ![fd] = 0]
                     /\ UNCHANGED <<live, current_conn>>
    BY <1>5 DEF http_read
  <2> HIDE DEF c
  <2>2. PICK size \in SizeOf(ischunked), latency \in LatencyOf(ischunked) :
          LET c1 == Accepted(c, ischunked, size)
              p1 == Awaiting(ischunked, size)
          IN /\ c.request_complete - 1 = c.response_complete
             /\ \/ /\ latency # 0
                   /\ Arm(fd, c1, latency)
                   /\ peer' = [peer EXCEPT ![fd] = p1]
                   /\ due' = [due EXCEPT ![fd] = latency]
                   /\ UNCHANGED <<live, current_conn>>
                \/ \E w \in Writes(c1, p1) :
                     /\ Arm(fd, w.cli, timeout)
                     /\ peer' = [peer EXCEPT ![fd] = w.peer]
                     /\ due' = [due EXCEPT ![fd] = 0]
                     /\ UNCHANGED <<live, current_conn>>
    BY <2>1
  <2>3. ischunked \in BOOLEAN /\ size \in Nat /\ latency \in Nat
    BY DrawFacts
  <2>4. c.chunk_block_num = 0
    <3>1. ~Outstanding(cli[fd])
      BY <1>2, <1>3, <2>2 DEF Outstanding, Client
    <3> QED BY <3>1, <1>2, <1>3 DEF Framed
  <2>5. PICK c1 \in Client, p1 \in Peer :
          /\ c1 = Accepted(c, ischunked, size) /\ p1 = Awaiting(ischunked, size)
          /\ Framed(c1, p1) /\ Outstanding(c1) /\ c1.owner = c.owner
    BY <1>3, <2>2, <2>3, <2>4, AcceptedFacts
  <2>d. Divided(cli[fd]) => Divided(c1)
    <3>1. Divided(cli[fd]) => Divided(c)
      BY <1>3, DividedFrame
    <3> QED BY <3>1, <1>3, <2>3, <2>4, <2>5, DividedAccepted
  <2>6. CASE /\ Arm(fd, c1, latency)
             /\ peer' = [peer EXCEPT ![fd] = p1]
             /\ due' = [due EXCEPT ![fd] = latency]
             /\ UNCHANGED <<live, current_conn>>
    <3>1. PICK r \in Client :
            /\ r = timer_node_create(c1, latency)
            /\ r.tnidx /\ r.owner = c1.owner /\ r.timeout = latency /\ Framed(r, p1)
            /\ SameChunks(r, c1)
      BY <2>3, <2>5, TimerFields
    <3>2. timer_node_push(current, fd, r)
      BY <2>6, <3>1 DEF Arm
    <3>3. Timed(r, latency)
      BY <3>1 DEF Timed
    <3>d. Divided(cli[fd]) => Divided(r)
      BY <2>d, <3>1, DividedFrame
    <3>4. Kept(current, fd, r, p1, latency)
      BY <1>3, <2>5, <2>6, <3>1, <3>2, <3>3, <3>d DEF Kept
    <3> QED BY <1>1, <2>3, <3>4
  <2>7. CASE \E w \in Writes(c1, p1) :
               /\ Arm(fd, w.cli, timeout)
               /\ peer' = [peer EXCEPT ![fd] = w.peer]
               /\ due' = [due EXCEPT ![fd] = 0]
               /\ UNCHANGED <<live, current_conn>>
    <3>1. PICK w \in Writes(c1, p1) :
               /\ Arm(fd, w.cli, timeout)
               /\ peer' = [peer EXCEPT ![fd] = w.peer]
               /\ due' = [due EXCEPT ![fd] = 0]
               /\ UNCHANGED <<live, current_conn>>
      BY <2>7
    <3>2. /\ w.cli \in Client /\ w.peer \in Peer /\ Framed(w.cli, w.peer)
          /\ w.cli.owner = c1.owner
      BY <2>5, WritesFacts
    <3>3. PICK r \in Client :
            /\ r = timer_node_create(w.cli, timeout)
            /\ r.tnidx /\ r.owner = w.cli.owner /\ Framed(r, w.peer)
            /\ SameChunks(r, w.cli)
      <4>1. timeout \in Int
        BY ArgsAssumption
      <4> QED BY <4>1, <3>2, TimerFields
    <3>4. timer_node_push(current, fd, r)
      BY <3>1, <3>3 DEF Arm
    <3>5. Timed(r, 0)
      BY DEF Timed
    <3>6. r.owner = cli[fd].owner
      BY <3>2, <3>3, <2>5, <1>3
    <3>d. Divided(cli[fd]) => Divided(r)
      <4>1. Divided(c1) => Divided(w.cli)
        BY DividedWrites
      <4> QED BY <4>1, <2>d, <3>3, DividedFrame
    <3>7. Kept(current, fd, r, w.peer, 0)
      BY <3>1, <3>3, <3>4, <3>5, <3>6, <3>d DEF Kept
    <3> QED BY <1>1, <3>2, <3>7
  <2> QED BY <2>2, <2>5, <2>6, <2>7
<1> QED BY <1>4, <1>5

LEMMA ReadInv ==
  ASSUME IInv, NEW fd \in Fd, http_read(fd)
  PROVE  IInv'
<1>1. current \in Mgr
  BY DEF IInv, TypeOK
<1> QED BY <1>1, ReadCases, DestroyInv, KeepInv

LEMMA PopInv ==
  ASSUME IInv, timer_node_pop
  PROVE  IInv'
<1>t. /\ TypeOK /\ NodesOnLists /\ ConnCount /\ DeleteFromOwner
      /\ current \in Mgr /\ cli \in [Fd -> Client] /\ list \in [Mgr -> Seq(Fd)]
  BY DEF IInv, TypeOK
<1>1. PICK m \in Mgr : m = current
  BY <1>t
<1>2. PICK l \in Seq(Fd) : l = list[m]
  BY <1>t
<1>3. l # <<>> /\ Listed(m, l)
  BY <1>1, <1>2, <1>t, ListedDef DEF timer_node_pop
<1>4. /\ Head(l) \in Fd /\ Tail(l) \in Seq(Fd) /\ Len(Tail(l)) = Len(l) - 1
      /\ \A i \in 1..Len(Tail(l)) : Tail(l)[i] = l[i + 1]
  BY <1>3, HeadTailProperties
<1>5. 1 \in 1..Len(l) /\ Head(l) = l[1]
  BY <1>3, LenProperties, EmptySeq
<1>6. PICK n \in Fd : n = l[1]
  BY <1>4, <1>5
<1>7. /\ n \in live /\ cli[n].tnidx /\ cli[n].owner = m
  BY <1>3, <1>5, <1>6 DEF Listed
<1>8. /\ node' = n /\ list' = [list EXCEPT ![m] = Tail(l)]
      /\ cli' = [cli EXCEPT ![n].owner = NULL]
      /\ pc' = "node" /\ pc \in {"poll", "pop"}
      /\ UNCHANGED <<live, current, backup, current_conn, peer, due>>
  BY <1>1, <1>2, <1>5, <1>6 DEF timer_node_pop
<1>9. PICK d \in Client : d = [cli[n] EXCEPT !.owner = NULL]
  <2>1. cli[n] \in Client
    BY <1>t
  <2> QED BY <2>1 DEF Client
<1>10. /\ cli' \in [Fd -> Client] /\ cli'[n] = d
       /\ \A f \in Fd \ {n} : cli'[f] = cli[f]
  BY <1>8, <1>9, <1>t
<1>11. /\ d.owner = NULL /\ d.tnidx /\ d.timeout = cli[n].timeout
       /\ d.request_complete = cli[n].request_complete
       /\ d.response_complete = cli[n].response_complete
       /\ d.chunk_block_num = cli[n].chunk_block_num /\ d.ischunked = cli[n].ischunked
       /\ d.last_data_size = cli[n].last_data_size /\ d.chunk_size = cli[n].chunk_size
  BY <1>7, <1>9, <1>t DEF Client
<1>12. TypeOK'
  BY <1>t, <1>4, <1>8, <1>10 DEF TypeOK
<1>13. NodesOnLists'
  <2>1. ASSUME NEW k \in Mgr, k # m
        PROVE  Listed(k, list[k])'
    <3>1. PICK q \in Seq(Fd) : q = list[k]
      BY <1>t
    <3>2. Listed(k, q)
      BY <3>1, <1>t, ListedDef
    <3>3. \A f \in Fd : cli[f].owner = k =>
            /\ f \in live => f \in live'
            /\ cli'[f].tnidx = cli[f].tnidx /\ cli'[f].owner = k
      BY <1>7, <1>8, <1>10, <2>1
    <3>4. \A f \in Fd : cli'[f].owner = k => cli[f].owner = k
      BY <1>10, <1>11, NullAssumption
    <3>5. Listed(k, q)'
      BY <3>2, <3>3, <3>4, ListedFrame
    <3>6. list'[k] = q
      BY <3>1, <2>1, <1>8, <1>t
    <3> QED BY <3>5, <3>6
  <2>2. Listed(m, list[m])'
    <3>1. PICK r \in Seq(Fd) : r = Tail(l)
      BY <1>4
    <3>k. PICK k \in 1..Len(l) : k = 1
      BY <1>5
    <3>2. Without(r, l, k)
      BY <3>1, <3>k, <1>4 DEF Without
    <3>3. cli'[l[k]].owner # m
      BY <3>k, <1>6, <1>10, <1>11, NullAssumption
    <3>4. \A f \in Fd \ {l[k]} : NodeKept(f)
      BY <3>k, <1>6, <1>8, <1>10 DEF NodeKept
    <3>5. Listed(m, r)'
      BY <1>3, <3>2, <3>3, <3>4, ListedRemove
    <3>6. list'[m] = r
      BY <1>8, <1>t, <3>1
    <3> QED BY <3>5, <3>6
  <2> QED BY <2>1, <2>2 DEF NodesOnLists, Listed
<1>14. DeleteFromOwner'
  BY <1>t, <1>7, <1>8, <1>10, <1>11 DEF DeleteFromOwner
<1>15. PendingHasTimer'
  BY <1>t, <1>8, <1>10 DEF IInv, TypeOK, PendingHasTimer
<1>16. ConnCount'
  BY <1>t, <1>8 DEF ConnCount
<1>17. Clients'
  <2>1. Framed(cli'[n], peer'[n]) /\ Timed(cli'[n], due'[n])
    <3>1. Framed(cli[n], peer[n]) /\ Timed(cli[n], due[n])
      BY <1>7 DEF IInv, Clients
    <3> QED BY <3>1, <1>8, <1>10, <1>11 DEF Framed, Timed, Outstanding
  <2>2. ASSUME NEW f \in live, f # n
        PROVE  Framed(cli'[f], peer'[f]) /\ Timed(cli'[f], due'[f])
    <3>1. cli'[f] = cli[f] /\ peer'[f] = peer[f] /\ due'[f] = due[f]
      BY <2>2, <1>8, <1>10, <1>t DEF TypeOK
    <3> QED BY <3>1 DEF IInv, Clients
  <2> QED BY <2>1, <2>2, <1>8 DEF IInv, Clients
<1>18. InHand'
  BY <1>8, <1>10, <1>11 DEF InHand
<1> QED BY <1>12, <1>13, <1>14, <1>15, <1>16, <1>17, <1>18 DEF IInv

\* What one turn of http_on_timer's loop comes to.
LEMMA NodeCases ==
  ASSUME IInv, http_on_timer_node
  PROVE  \E n \in live :
           /\ AtNode(n) /\ current' = current /\ backup' = backup
           /\ cli[n].owner = NULL
           /\ \/ destroy_client(n)
              \/ \E c \in Client, p \in Peer, d \in Nat : Kept(backup, n, c, p, d)
<1>1. PICK n \in live : /\ n = node /\ n \in Fd /\ cli[n].owner = NULL /\ cli[n].tnidx
                        /\ cli[n] \in Client /\ peer[n] \in Peer /\ due[n] \in Nat
                        /\ Framed(cli[n], peer[n]) /\ Timed(cli[n], due[n])
  BY DEF IInv, TypeOK, DeleteFromOwner, InHand, Clients, http_on_timer_node
<1>2. AtNode(n) /\ current' = current /\ backup' = backup
  BY <1>1 DEF http_on_timer_node, AtNode
<1>3. due \in [Fd -> Nat]
  BY DEF IInv, TypeOK
<1>4. ASSUME NEW c \in Client, NEW p \in Peer, KeepNode(n, c, p), Framed(c, p),
             c.owner = cli[n].owner, c.tnidx, c.timeout = cli[n].timeout,
             Divided(cli[n]) => Divided(c)
      PROVE  \E d \in Nat : Kept(backup, n, c, p, d)
  <2>1. /\ timer_node_push(backup, n, c) /\ peer' = [peer EXCEPT ![n] = p]
        /\ UNCHANGED <<live, current_conn>> /\ due' = due
    BY <1>4 DEF KeepNode
  <2>2. PICK d \in Nat : d = due[n]
    BY <1>1
  <2>3. due' = [due EXCEPT ![n] = d] /\ Timed(c, d)
    BY <1>1, <1>3, <1>4, <2>1, <2>2 DEF Timed
  <2> QED BY <1>4, <2>1, <2>3 DEF Kept
<1>5. ASSUME NEW w \in Writes(cli[n], peer[n]), Outstanding(cli[n])
      PROVE  /\ w.cli \in Client /\ w.peer \in Peer /\ Framed(w.cli, w.peer)
             /\ w.cli.owner = cli[n].owner /\ w.cli.tnidx
             /\ w.cli.timeout = cli[n].timeout
             /\ Divided(cli[n]) => Divided(w.cli)
  <2>1. Divided(cli[n]) => Divided(w.cli)
    BY <1>1, DividedWrites
  <2> QED BY <2>1, <1>1, <1>5, WritesFacts
<1>6. \/ destroy_client(n)
      \/ Outstanding(cli[n]) /\ \E w \in Writes(cli[n], peer[n]) : KeepNode(n, w.cli, w.peer)
      \/ KeepNode(n, cli[n], peer[n])
  BY <1>1 DEF http_on_timer_node
<1>7. \/ destroy_client(n)
      \/ \E c \in Client, p \in Peer, d \in Nat : Kept(backup, n, c, p, d)
  <2>1. CASE KeepNode(n, cli[n], peer[n])
    BY <1>1, <1>4, <2>1
  <2>2. CASE /\ Outstanding(cli[n])
             /\ \E w \in Writes(cli[n], peer[n]) : KeepNode(n, w.cli, w.peer)
    <3>1. PICK w \in Writes(cli[n], peer[n]) : KeepNode(n, w.cli, w.peer)
      BY <2>2
    <3>2. \E d \in Nat : Kept(backup, n, w.cli, w.peer, d)
      BY <1>4, <1>5, <2>2, <3>1
    <3> QED BY <1>5, <2>2, <3>2
  <2> QED BY <1>6, <2>1, <2>2
<1> QED BY <1>1, <1>2, <1>7

LEMMA NodeInv ==
  ASSUME IInv, http_on_timer_node
  PROVE  IInv'
<1>1. backup \in Mgr
  BY DEF IInv, TypeOK
<1> QED BY <1>1, NodeCases, DestroyInv, KeepInv

LEMMA SwapInv ==
  ASSUME IInv, http_on_timer_swap
  PROVE  IInv'
<1>t. TypeOK /\ NodesOnLists /\ ConnCount /\ DeleteFromOwner
  BY DEF IInv
<1>1. /\ pc = "pop" /\ list[current] = <<>> /\ current' = backup /\ backup' = current
      /\ pc' = "poll"
      /\ UNCHANGED <<live, cli, list, current_conn, node, peer, due>>
  BY DEF http_on_timer_swap
<1>2. TypeOK'
  BY <1>t, <1>1 DEF TypeOK
<1>3. NodesOnLists' /\ ConnCount' /\ InHand'
  BY <1>t, <1>1 DEF NodesOnLists, ConnCount, InHand
<1>4. PendingHasTimer' /\ Clients'
  BY <1>t, <1>1 DEF IInv, PendingHasTimer, Clients, Outstanding, Framed, Timed
<1>5. DeleteFromOwner'
  <2>1. \A f \in live : cli[f].owner # current
    <3>1. Len(list[current]) = 0
      BY <1>1
    <3> QED BY <3>1, <1>t DEF TypeOK, NodesOnLists
  <2>2. \A f \in live : cli[f].owner \in {NULL, backup}
    BY <2>1, <1>t DEF TypeOK, Client, Mgr, DeleteFromOwner
  <2> QED BY <2>2, <1>t, <1>1 DEF DeleteFromOwner
<1> QED BY <1>2, <1>3, <1>4, <1>5 DEF IInv

\* Time only changes the age of a client.
LEMMA AgeFacts ==
  ASSUME NEW c \in Client, NEW p, NEW d, c.age < MaxAge
  PROVE  LET r == [c EXCEPT !.age = @ + 1]
         IN /\ r \in Client /\ r.owner = c.owner /\ r.tnidx = c.tnidx
            /\ Outstanding(r) <=> Outstanding(c)
            /\ Framed(c, p) => Framed(r, p)
            /\ Timed(c, d) => Timed(r, d)
<1>1. c.age + 1 \in 0..MaxAge
  BY BoundAssumption DEF Client
<1>2. PICK a \in 0..MaxAge : a = c.age + 1
  BY <1>1
<1>3. PICK r \in Client : r = [c EXCEPT !.age = a]
  BY <1>2 DEF Client
<1>4. /\ r.owner = c.owner /\ r.tnidx = c.tnidx /\ r.timeout = c.timeout
      /\ r.request_complete = c.request_complete
      /\ r.response_complete = c.response_complete
      /\ r.chunk_block_num = c.chunk_block_num /\ r.ischunked = c.ischunked
      /\ r.last_data_size = c.last_data_size /\ r.chunk_size = c.chunk_size
  BY <1>3 DEF Client
<1>5. /\ Outstanding(r) <=> Outstanding(c)
      /\ Framed(c, p) => Framed(r, p)
      /\ Timed(c, d) => Timed(r, d)
  BY <1>4 DEF Framed, Timed, Outstanding
<1> QED BY <1>2, <1>3, <1>4, <1>5

LEMMA TickInv ==
  ASSUME IInv, Tick
  PROVE  IInv'
<1>t. TypeOK /\ NodesOnLists /\ ConnCount /\ DeleteFromOwner
  BY DEF IInv
<1>1. /\ pc = "poll"
      /\ cli' = [f \in Fd |-> IF f \in live /\ cli[f].age < MaxAge
                              THEN [cli[f] EXCEPT !.age = @ + 1] ELSE cli[f]]
      /\ UNCHANGED <<live, list, current, backup, current_conn, pc, node, peer, due>>
  BY DEF Tick
<1>2. ASSUME NEW f \in Fd
      PROVE  /\ cli'[f] \in Client /\ cli'[f].owner = cli[f].owner
             /\ cli'[f].tnidx = cli[f].tnidx
             /\ Outstanding(cli'[f]) <=> Outstanding(cli[f])
             /\ Framed(cli[f], peer[f]) => Framed(cli'[f], peer[f])
             /\ Timed(cli[f], due[f]) => Timed(cli'[f], due[f])
  <2>1. cli[f] \in Client
    BY <1>t DEF TypeOK
  <2>2. CASE f \in live /\ cli[f].age < MaxAge
    <3>1. cli'[f] = [cli[f] EXCEPT !.age = @ + 1]
      BY <1>1, <2>2
    <3> QED BY <3>1, <2>1, <2>2, AgeFacts
  <2>3. CASE ~(f \in live /\ cli[f].age < MaxAge)
    <3>1. cli'[f] = cli[f]
      BY <1>1, <2>3
    <3> QED BY <3>1, <2>1
  <2> QED BY <2>2, <2>3
<1>3. TypeOK'
  BY <1>t, <1>1, <1>2 DEF TypeOK
<1>4. NodesOnLists'
  <2>1. \A m \in Mgr : \A i \in 1..Len(list[m]) : list[m][i] \in Fd
    BY <1>t DEF TypeOK, NodesOnLists
  <2> QED BY <2>1, <1>t, <1>1, <1>2 DEF NodesOnLists
<1>5. DeleteFromOwner' /\ ConnCount' /\ InHand'
  BY <1>t, <1>1, <1>2 DEF TypeOK, DeleteFromOwner, ConnCount, InHand
<1>6. PendingHasTimer'
  BY <1>t, <1>1, <1>2 DEF IInv, TypeOK, PendingHasTimer
<1>7. Clients'
  BY <1>t, <1>1, <1>2 DEF IInv, TypeOK, Clients
<1> QED BY <1>3, <1>4, <1>5, <1>6, <1>7 DEF IInv

-----------------------------------------------------------------------------
LEMMA InitInv ==
  ASSUME Init
  PROVE  IInv
<1>1. TypeOK
  BY CreateFacts DEF Init, TypeOK, Mgr
<1>2. NodesOnLists
  BY CreateFacts, NullAssumption DEF Init, NodesOnLists
<1>3. DeleteFromOwner /\ PendingHasTimer /\ InHand
  BY DEF Init, DeleteFromOwner, PendingHasTimer, InHand
<1>4. ConnCount
  BY FS_EmptySet DEF Init, ConnCount
<1>5. Clients
  BY DEF Init, Clients
<1> QED BY <1>1, <1>2, <1>3, <1>4, <1>5 DEF IInv

LEMMA NextInv ==
  ASSUME IInv, [Next]_vars
  PROVE  IInv'
<1>1. ASSUME NEW fd \in Fd, http_accept(fd) PROVE IInv'
  BY <1>1, AcceptInv
<1>2. ASSUME NEW fd \in Fd, http_read(fd) PROVE IInv'
  BY <1>2, ReadInv
<1>3. ASSUME NEW fd \in Fd, http_error(fd) PROVE IInv'
  BY <1>3, ErrorInv
<1>4. CASE timer_node_pop
  BY <1>4, PopInv
<1>5. CASE http_on_timer_node
  BY <1>5, NodeInv
<1>6. CASE http_on_timer_swap
  BY <1>6, SwapInv
<1>7. CASE Tick
  BY <1>7, TickInv
<1>8. CASE UNCHANGED vars
  BY <1>8, StutterInv
<1> QED BY <1>1, <1>2, <1>3, <1>4, <1>5, <1>6, <1>7, <1>8 DEF Next

LEMMA AlwaysIInv == Spec => []IInv
<1>1. Init => IInv
  BY InitInv
<1>2. IInv /\ [Next]_vars => IInv'
  BY NextInv
<1> QED BY <1>1, <1>2, PTL DEF Spec

(***************************************************************************)
(* The chunks stay within their limit.                                     *)
(***************************************************************************)
LEMMA KeepDivided ==
  ASSUME IInv, AllDivided, NEW mgr \in Mgr, NEW fd \in live, NEW c \in Client,
         NEW p \in Peer, NEW d \in Nat, Kept(mgr, fd, c, p, d)
  PROVE  AllDivided'
<1>t. fd \in Fd /\ cli \in [Fd -> Client]
  BY DEF IInv, TypeOK
<1>1. Divided(c) /\ timer_node_push(mgr, fd, c)
  BY <1>t DEF Kept, AllDivided
<1>2. PICK r \in Client : cli' = [cli EXCEPT ![fd] = r] /\ SameChunks(r, c)
  <2>1. SameChunks([c EXCEPT !.owner = mgr], c) /\ [c EXCEPT !.owner = mgr] \in Client
    BY DEF SameChunks, Client
  <2>2. SameChunks(c, c)
    BY DEF SameChunks
  <2> QED BY <1>1, <2>1, <2>2 DEF timer_node_push
<1>3. Divided(r)
  BY <1>1, <1>2, DividedFrame
<1>4. \A f \in Fd : cli'[f] = IF f = fd THEN r ELSE cli[f]
  BY <1>t, <1>2
<1>5. ASSUME NEW f \in Fd PROVE Divided(cli'[f])
  BY <1>3, <1>4 DEF AllDivided
<1> QED BY <1>5 DEF AllDivided, Divided

LEMMA DestroyDivided ==
  ASSUME IInv, AllDivided, NEW fd \in Fd, destroy_client(fd)
  PROVE  AllDivided'
<1>1. cli' = [cli EXCEPT ![fd] = create_client] /\ cli \in [Fd -> Client]
  BY DEF destroy_client, IInv, TypeOK
<1>2. ASSUME NEW f \in Fd PROVE Divided(cli'[f])
  BY <1>1, DividedCreate DEF AllDivided
<1> QED BY <1>2 DEF AllDivided, Divided

\* The other actions leave the chunks of every client as they are, or make a
\* new client.
LEMMA FrameDivided ==
  ASSUME AllDivided,
         \A f \in Fd : SameChunks(cli'[f], cli[f]) \/ cli'[f] = create_client
  PROVE  AllDivided'
<1>1. ASSUME NEW f \in Fd PROVE Divided(cli'[f])
  BY DividedCreate, DividedFrame DEF AllDivided
<1> QED BY <1>1 DEF AllDivided, Divided

LEMMA NextDivided ==
  ASSUME IInv, AllDivided, [Next]_vars
  PROVE  AllDivided'
<1>t. cli \in [Fd -> Client] /\ live \subseteq Fd /\ current \in Mgr /\ backup \in Mgr
  BY DEF IInv, TypeOK
<1>1. ASSUME NEW fd \in Fd, http_accept(fd) PROVE AllDivided'
  <2>1. cli' = cli \/ cli' = [cli EXCEPT ![fd] = create_client]
    BY <1>1 DEF http_accept, vars
  <2>2. \A f \in Fd : SameChunks(cli'[f], cli[f]) \/ cli'[f] = create_client
    BY <1>t, <2>1 DEF SameChunks
  <2> QED BY <2>2, FrameDivided
<1>2. ASSUME NEW fd \in Fd, http_read(fd) PROVE AllDivided'
  BY <1>t, <1>2, ReadCases, DestroyDivided, KeepDivided
<1>3. ASSUME NEW fd \in Fd, http_error(fd) PROVE AllDivided'
  BY <1>3, DestroyDivided DEF http_error
<1>4. CASE timer_node_pop
  <2>1. PICK n : cli' = [cli EXCEPT ![n].owner = NULL]
    BY <1>4 DEF timer_node_pop
  <2>2. \A f \in Fd : SameChunks(cli'[f], cli[f])
    BY <1>t, <2>1 DEF SameChunks, Client
  <2> QED BY <2>2, FrameDivided
<1>5. CASE http_on_timer_node
  BY <1>t, <1>5, NodeCases, DestroyDivided, KeepDivided
<1>6. CASE http_on_timer_swap \/ UNCHANGED vars
  <2>1. cli' = cli
    BY <1>6 DEF http_on_timer_swap, vars
  <2>2. \A f \in Fd : SameChunks(cli'[f], cli[f])
    BY <2>1 DEF SameChunks
  <2> QED BY <2>2, FrameDivided
<1>7. CASE Tick
  <2>1. ASSUME NEW f \in Fd PROVE SameChunks(cli'[f], cli[f])
    <3>1. cli'[f] = cli[f] \/ cli'[f] = [cli[f] EXCEPT !.age = @ + 1]
      BY <1>7 DEF Tick
    <3>2. cli[f] \in Client
      BY <1>t
    <3> QED BY <3>1, <3>2 DEF SameChunks, Client
  <2> QED BY <2>1, FrameDivided
<1> QED BY <1>1, <1>2, <1>3, <1>4, <1>5, <1>6, <1>7 DEF Next

LEMMA AlwaysDivided == Spec => []AllDivided
<1>1. Init => AllDivided
  BY DividedCreate DEF Init, AllDivided
<1>2. IInv /\ AllDivided /\ [Next]_vars => AllDivided'
  BY NextDivided
<1> QED BY <1>1, <1>2, AlwaysIInv, PTL DEF Spec

(***************************************************************************)
(* The theorems.                                                           *)
(***************************************************************************)

\* Types: no counter of http_handlers.c goes below zero, in particular the
\* data left of a chunked response and the number of connections.
THEOREM TypeCorrect == Spec => []TypeOK
<1>1. IInv => TypeOK
  BY DEF IInv
<1> QED BY <1>1, AlwaysIInv, PTL

\* The timer lists hold exactly the nodes of clients that exist, each once.
THEOREM ListsHoldLiveNodes == Spec => []NodesOnLists
<1>1. IInv => NodesOnLists
  BY DEF IInv
<1> QED BY <1>1, AlwaysIInv, PTL

\* destroy_client, which passes the current list, never misses the list
\* that the node is on.
THEOREM DeletesFromOwner == Spec => []DeleteFromOwner
<1>1. IInv => DeleteFromOwner
  BY DEF IInv
<1> QED BY <1>1, AlwaysIInv, PTL

\* No client that is owed a response is without a timer.
THEOREM NoResponseForgotten == Spec => []PendingHasTimer
<1>1. IInv => PendingHasTimer
  BY DEF IInv
<1> QED BY <1>1, AlwaysIInv, PTL

\* The logged number of connections is the number of clients.
THEOREM ConnectionsCounted == Spec => []ConnCount
<1>1. IInv => ConnCount
  BY DEF IInv
<1> QED BY <1>1, AlwaysIInv, PTL

\* Every peer decodes a correct prefix of its responses.
THEOREM WholeResponses == Spec => []PeerSeesWholeResponses
<1>1. ASSUME IInv PROVE PeerSeesWholeResponses
  <2>1. ASSUME NEW f \in live
        PROVE  /\ cli[f].request_complete - cli[f].response_complete \in {0, 1}
               /\ peer[f].phase # "bad"
               /\ Outstanding(cli[f]) <=> peer[f].phase \in {"head", "body"}
               /\ peer[f].phase = "done" => peer[f].got = peer[f].want
    <3>1. Framed(cli[f], peer[f])
      BY <1>1 DEF IInv, Clients
    <3> QED BY <3>1 DEF Framed
  <2> QED BY <2>1 DEF PeerSeesWholeResponses
<1> QED BY <1>1, AlwaysIInv, PTL

\* A chunked response takes fewer than twice chunk_blocks data chunks, and a
\* buffer that holds the head with the largest chunk holds every chunk that
\* send_http_chunked_response stores in it.
THEOREM ChunksStayFew == Spec => []ChunksFewAndFitting
<1>1. IInv /\ AllDivided => ChunksFewAndFitting
  <2> SUFFICES ASSUME IInv, AllDivided, NEW f \in live
               PROVE  /\ cli[f].chunk_block_num <= 2 * chunk_blocks - 1
                      /\ FHTTP_CHUNK_RESPONSE_HEADER_SIZE
                           + create_chunk_response(LargestChunk) <= buffsize
                         => StoredBytes(cli[f]) <= buffsize
    BY DEF ChunksFewAndFitting
  <2>1. cli[f] \in Client /\ Divided(cli[f])
    BY DEF IInv, TypeOK, AllDivided
  <2>2. cli[f].chunk_block_num <= 2 * chunk_blocks - 1
    BY <2>1 DEF Divided, ChunkLimit
  <2> QED BY <2>1, <2>2, FitsInBuffer
<1> QED BY <1>1, AlwaysIInv, AlwaysDivided, PTL

\* http_on_timer writes to no client before its latency is over.
THEOREM LatencyRespected == Spec => NotBeforeLatency
<1>1. ASSUME IInv, [Next]_vars
      PROVE  [\A f \in live \cap live' :
                pc = "node" /\ peer'[f] # peer[f] => cli[f].age >= due[f]]_vars
  <2> SUFFICES ASSUME Next, NEW f \in live, f \in live', pc = "node",
                      peer'[f] # peer[f]
               PROVE  cli[f].age >= due[f]
    BY <1>1
  <2>1. http_on_timer_node
    BY DEF Next, http_accept, http_read, http_error, timer_node_pop,
           http_on_timer_swap, Tick
  <2>2. PICK n \in live : n = node /\ n \in Fd
    BY <1>1 DEF IInv, TypeOK, DeleteFromOwner
  <2>3. ~destroy_client(n)
    <3>1. CASE f = n
      BY <3>1 DEF destroy_client
    <3>2. CASE f # n
      BY <3>2, <1>1 DEF destroy_client, IInv, TypeOK
    <3> QED BY <3>1, <3>2
  <2>4. ~KeepNode(n, cli[n], peer[n])
    BY <2>2, <1>1 DEF KeepNode, IInv, TypeOK
  <2>5. /\ cli[n].age >= cli[n].timeout
        /\ \E w \in Writes(cli[n], peer[n]) : KeepNode(n, w.cli, w.peer)
    BY <2>1, <2>2, <2>3, <2>4 DEF http_on_timer_node
  <2>6. f = n
    BY <2>2, <2>5, <1>1 DEF KeepNode, IInv, TypeOK
  <2>7. Timed(cli[n], due[n]) /\ cli[n].age \in Nat
    BY <2>2, <1>1 DEF IInv, Clients, TypeOK, Client
  <2> QED BY <2>5, <2>6, <2>7 DEF Timed
<1> QED BY <1>1, AlwaysIInv, PTL DEF Spec, NotBeforeLatency

\* Once its latency is over, http_on_timer writes to a client or closes it.
THEOREM DueIsSent == Spec => DueResponsesAreSent
<1>1. ASSUME IInv, [Next]_vars
      PROVE  [(/\ pc = "node"
               /\ Outstanding(cli[node])
               /\ due[node] # 0 /\ cli[node].age >= due[node])
              => node \notin live' \/ peer'[node] # peer[node]]_vars
  <2> SUFFICES ASSUME Next, pc = "node", Outstanding(cli[node]), due[node] # 0,
                      cli[node].age >= due[node]
               PROVE  node \notin live' \/ peer'[node] # peer[node]
    BY <1>1
  <2>1. http_on_timer_node
    BY DEF Next, http_accept, http_read, http_error, timer_node_pop,
           http_on_timer_swap, Tick
  <2>2. PICK n \in live : n = node /\ n \in Fd
    BY <1>1 DEF IInv, TypeOK, DeleteFromOwner
  <2>3. /\ Timed(cli[n], due[n]) /\ Framed(cli[n], peer[n])
        /\ cli[n] \in Client /\ peer[n] \in Peer /\ peer \in [Fd -> Peer]
    BY <2>2, <1>1 DEF IInv, Clients, TypeOK
  <2>4. cli[n].age >= cli[n].timeout
    BY <2>2, <2>3 DEF Timed
  <2>5. \/ destroy_client(n)
        \/ \E w \in Writes(cli[n], peer[n]) : KeepNode(n, w.cli, w.peer)
    BY <2>1, <2>2, <2>4 DEF http_on_timer_node
  <2>6. CASE destroy_client(n)
    BY <2>2, <2>6 DEF destroy_client
  <2>7. CASE \E w \in Writes(cli[n], peer[n]) : KeepNode(n, w.cli, w.peer)
    <3>1. PICK w \in Writes(cli[n], peer[n]) : KeepNode(n, w.cli, w.peer)
      BY <2>7
    <3>2. w.peer # peer[n]
      BY <2>2, <2>3, WritesFacts
    <3>3. peer'[n] = w.peer
      BY <3>1, <2>2, <2>3 DEF KeepNode
    <3> QED BY <3>2, <3>3, <2>2
  <2> QED BY <2>5, <2>6, <2>7
<1> QED BY <1>1, AlwaysIInv, PTL DEF Spec, DueResponsesAreSent

(***************************************************************************)
(* The timer lists implement the queues of TimerQueue.                     *)
(***************************************************************************)
LEMMA PushStep ==
  ASSUME IInv, NEW mgr \in Mgr, NEW fd \in live, NEW c, c.owner = cli[fd].owner,
         timer_node_push(mgr, fd, c)
  PROVE  [Queue!Next]_list
<1>1. CASE c.owner # NULL
  BY <1>1 DEF timer_node_push
<1>2. CASE c.owner = NULL
  <2>1. fd \in Fd /\ list' = [list EXCEPT ![mgr] = Append(@, fd)]
    BY <1>2 DEF IInv, TypeOK, timer_node_push
  <2>2. \A k \in Mgr : ~Queue!Waits(fd, k)
    <3> SUFFICES ASSUME NEW k \in Mgr, NEW i \in 1..Len(list[k]), list[k][i] = fd
                 PROVE  FALSE
      BY DEF Queue!Waits
    <3>1. cli[list[k][i]].owner = k
      BY DEF IInv, NodesOnLists
    <3> QED BY <3>1, <1>2, NullAssumption
  <2>3. Queue!Push(mgr, fd)
    BY <2>1, <2>2 DEF Queue!Push
  <2> QED BY <2>1, <2>3 DEF Queue!Next
<1> QED BY <1>1, <1>2

LEMMA DestroyStep ==
  ASSUME IInv, NEW fd \in live, destroy_client(fd), cli[fd].owner \in {NULL, current}
  PROVE  [Queue!Next]_list
<1>t. /\ fd \in Fd /\ current \in Mgr /\ list \in [Mgr -> Seq(Fd)]
  BY DEF IInv, TypeOK
<1>1. CASE cli[fd].owner = NULL
  <2>1. list' = [list EXCEPT ![current] = list[current]]
    BY <1>1 DEF destroy_client
  <2>2. list' = list
    BY <2>1, <1>t
  <2> QED BY <2>2
<1>2. CASE cli[fd].owner # NULL
  <2>1. list' = [list EXCEPT ![current] = timer_node_delete(list[current], fd)]
    BY <1>2 DEF destroy_client
  <2>2. \E i \in 1..Len(list[current]) : list[current][i] = fd
    BY <1>2, <1>t DEF IInv, NodesOnLists
  <2>3. PICK i \in 1..Len(list[current]) :
          /\ list[current][i] = fd
          /\ timer_node_delete(list[current], fd)
               = SubSeq(list[current], 1, i - 1)
                   \o SubSeq(list[current], i + 1, Len(list[current]))
    BY <2>2 DEF timer_node_delete, Contains, RemoveAt
  <2>4. Queue!Delete(current, fd)
    BY <2>1, <2>3 DEF Queue!Delete
  <2> QED BY <2>4, <1>t DEF Queue!Next
<1> QED BY <1>1, <1>2

\* No callback uses the lists otherwise than as queues, and none pushes a node
\* that waits already: an instance of TimerQueue is all it needs of them.
THEOREM ListsImplementQueues == Spec => ListsAreQueues
<1>1. Init => Queue!Init
  BY DEF Init, Queue!Init
<1>2. ASSUME IInv, [Next]_vars
      PROVE  [Queue!Next]_list
  <2>t. /\ current \in Mgr /\ backup \in Mgr /\ cli \in [Fd -> Client]
        /\ peer \in [Fd -> Peer]
    BY <1>2 DEF IInv, TypeOK
  <2>1. ASSUME NEW fd \in Fd, http_accept(fd) PROVE [Queue!Next]_list
    BY <2>1 DEF http_accept, vars
  <2>2. ASSUME NEW fd \in Fd, http_error(fd) PROVE [Queue!Next]_list
    <3>1. fd \in live /\ destroy_client(fd) /\ cli[fd].owner \in {NULL, current}
      BY <1>2, <2>2 DEF http_error, IInv, DeleteFromOwner
    <3> QED BY <1>2, <3>1, DestroyStep
  <2>3. ASSUME NEW fd \in Fd, http_read(fd) PROVE [Queue!Next]_list
    <3>1. fd \in live /\ cli[fd].owner \in {NULL, current}
      BY <1>2, <2>3 DEF http_read, IInv, DeleteFromOwner
    <3>2. CASE destroy_client(fd)
      BY <1>2, <3>1, <3>2, DestroyStep
    <3>3. CASE \E c \in Client, p \in Peer, d \in Nat : Kept(current, fd, c, p, d)
      BY <1>2, <2>t, <3>1, <3>3, PushStep DEF Kept
    <3> QED BY <1>2, <2>3, <3>2, <3>3, ReadCases
  <2>4. CASE timer_node_pop
    <3>1. Queue!Pop(current)
      BY <2>4 DEF timer_node_pop, Queue!Pop
    <3> QED BY <3>1, <2>t DEF Queue!Next
  <2>5. CASE http_on_timer_node
    <3>1. PICK n \in live :
            /\ cli[n].owner = NULL
            /\ \/ destroy_client(n)
               \/ \E c \in Client, p \in Peer, d \in Nat : Kept(backup, n, c, p, d)
      BY <1>2, <2>5, NodeCases
    <3>2. CASE destroy_client(n)
      BY <1>2, <3>1, <3>2, DestroyStep
    <3>3. CASE \E c \in Client, p \in Peer, d \in Nat : Kept(backup, n, c, p, d)
      BY <1>2, <2>t, <3>3, PushStep DEF Kept
    <3> QED BY <3>1, <3>2, <3>3
  <2>6. CASE http_on_timer_swap \/ Tick \/ UNCHANGED vars
    BY <2>6 DEF http_on_timer_swap, Tick, vars
  <2> QED BY <1>2, <2>1, <2>2, <2>3, <2>4, <2>5, <2>6 DEF Next
<1> QED BY <1>1, <1>2, AlwaysIInv, PTL DEF Spec, ListsAreQueues, Queue!Spec
===============================================================================
