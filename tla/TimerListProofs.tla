--------------------------- MODULE TimerListProofs ---------------------------
(***************************************************************************)
(* The linked lists of TimerList keep their shape, for every set of nodes  *)
(* and of lists, and nothing in them dangles.                             *)
(***************************************************************************)
EXTENDS TimerList, SequenceTheorems, FiniteSetTheorems, TLAPS

\* Only allocated nodes are on lists, and those on none have no links.
Clean ==
  /\ \A n \in Node : owner[n] # NULL => n \in alloc
  /\ \A n \in alloc : owner[n] = NULL => prev[n] = NULL /\ next[n] = NULL

\* The inductive invariant.
IInv == TypeOK /\ ListShape /\ Clean

\* Represents, with the length of the chain as an argument.
Chain(m, c, s) ==
  /\ head[m] = IF c = 0 THEN NULL ELSE s[1]
  /\ tail[m] = IF c = 0 THEN NULL ELSE s[c]
  /\ \A i \in 1..c :
       /\ owner[s[i]] = m
       /\ prev[s[i]] = IF i = 1 THEN NULL ELSE s[i - 1]
       /\ next[s[i]] = IF i = c THEN NULL ELSE s[i + 1]
       /\ \A j \in 1..c : s[i] = s[j] => i = j
  /\ \A n \in Node : owner[n] = m => \E i \in 1..c : s[i] = n

IsChain(m, c, s) == count[m] = c /\ Chain(m, c, s)

\* Every list has a chain of some length.
LEMMA HasChain ==
  ASSUME IInv, NEW m \in Mgr
  PROVE  \E c \in Nat : \E s \in [1..c -> Node] : IsChain(m, c, s)
<1>1. count[m] \in Nat
  BY DEF IInv, TypeOK
<1>2. PICK s \in [1..count[m] -> Node] : Represents(m, s)
  BY DEF IInv, ListShape
<1>3. IsChain(m, count[m], s)
  BY <1>2 DEF Represents, IsChain, Chain
<1> QED BY <1>1, <1>3

\* And that is all there is to ListShape after a step.
LEMMA ShapeFromChains ==
  ASSUME \A m \in Mgr : \E c \in Nat : \E s \in [1..c -> Node] : IsChain(m, c, s)'
  PROVE  ListShape'
<1> SUFFICES ASSUME NEW m \in Mgr
             PROVE  (\E s \in [1..count[m] -> Node] : Represents(m, s))'
  BY DEF ListShape
<1>1. PICK c \in Nat : \E s \in [1..c -> Node] : IsChain(m, c, s)'
  OBVIOUS
<1>2. PICK s \in [1..c -> Node] : IsChain(m, c, s)'
  BY <1>1
<1>3. Represents(m, s)' /\ c = count'[m]
  BY <1>2 DEF Represents, IsChain, Chain
<1> QED BY <1>3

\* A step that leaves alone the nodes of a list, and whose other nodes do not
\* join it, keeps its chain.
LEMMA Frame ==
  ASSUME NEW k \in Mgr, NEW c \in Nat, NEW s \in [1..c -> Node], IsChain(k, c, s),
         head'[k] = head[k], tail'[k] = tail[k], count'[k] = count[k],
         \A n \in Node : owner[n] = k =>
            owner'[n] = k /\ prev'[n] = prev[n] /\ next'[n] = next[n],
         \A n \in Node : owner'[n] = k => owner[n] = k
  PROVE  IsChain(k, c, s)'
<1>1. \A i \in 1..c : s[i] \in Node
  OBVIOUS
<1> QED BY <1>1 DEF IsChain, Chain

Stays(k) ==
  \A c \in Nat : \A s \in [1..c -> Node] : IsChain(k, c, s) => IsChain(k, c, s)'

\* Such a list has a chain after the step.
LEMMA StaysChain ==
  ASSUME IInv, NEW k \in Mgr, Stays(k)
  PROVE  \E c \in Nat : \E s \in [1..c -> Node] : IsChain(k, c, s)'
<1>1. PICK c \in Nat : \E s \in [1..c -> Node] : IsChain(k, c, s)
  BY HasChain
<1>2. PICK s \in [1..c -> Node] : IsChain(k, c, s)
  BY <1>1
<1>3. IsChain(k, c, s)'
  BY <1>2 DEF Stays
<1> QED BY <1>3

LEMMA StutterStays ==
  ASSUME NEW k \in Mgr, UNCHANGED <<head, tail, count, prev, next, owner>>
  PROVE  Stays(k)
<1> SUFFICES ASSUME NEW c \in Nat, NEW s \in [1..c -> Node], IsChain(k, c, s)
             PROVE  IsChain(k, c, s)'
  BY DEF Stays
<1> QED BY Frame

LEMMA StutterShape ==
  ASSUME IInv, UNCHANGED <<head, tail, count, prev, next, owner>>
  PROVE  ListShape'
<1>1. ASSUME NEW m \in Mgr
      PROVE  \E c \in Nat : \E s \in [1..c -> Node] : IsChain(m, c, s)'
  BY StutterStays, StaysChain
<1> QED BY <1>1, ShapeFromChains

\* A node that is made is on no list.
LEMMA CreateStays ==
  ASSUME IInv, NEW n \in Node, timer_node_create(n), NEW k \in Mgr
  PROVE  Stays(k)
<1> USE PointersAssumption DEF timer_node_create
<1> SUFFICES ASSUME NEW c \in Nat, NEW s \in [1..c -> Node], IsChain(k, c, s)
             PROVE  IsChain(k, c, s)'
  BY DEF Stays
<1>1. owner[n] = NULL
  BY DEF IInv, Clean
<1>2. \A q \in Node : owner[q] = k =>
          owner'[q] = k /\ prev'[q] = prev[q] /\ next'[q] = next[q]
  BY <1>1 DEF IInv, TypeOK
<1>3. \A q \in Node : owner'[q] = k => owner[q] = k
  BY <1>1 DEF IInv, TypeOK
<1> QED BY <1>2, <1>3, Frame

LEMMA CreateInv ==
  ASSUME IInv, NEW n \in Node, timer_node_create(n)
  PROVE  IInv'
<1> USE PointersAssumption DEF timer_node_create
<1>1. TypeOK'
  BY DEF IInv, TypeOK
<1>2. Clean'
  BY DEF IInv, TypeOK, Clean
<1>3. ListShape'
  BY CreateStays, StaysChain, ShapeFromChains
<1> QED BY <1>1, <1>2, <1>3 DEF IInv

\* What a push does to its list, whose chain is s, and to its node.
Pushed(m, c, s, n) ==
  /\ n \in alloc /\ owner[n] = NULL /\ prev[n] = NULL /\ next[n] = NULL
  /\ \A i \in 1..c : s[i] \in Node /\ s[i] # n
  /\ c # 0 => /\ tail[m] = s[c] /\ head[m] = s[1] /\ tail[m] \in Node
              /\ tail[m] # n /\ owner[tail[m]] = m /\ head[m] # NULL
  /\ c = 0 => tail[m] = NULL /\ head[m] = NULL
  /\ c = 0 => head' = [head EXCEPT ![m] = n] /\ UNCHANGED <<prev, next>>
  /\ c # 0 => /\ prev' = [prev EXCEPT ![n] = tail[m]]
              /\ next' = [next EXCEPT ![tail[m]] = n]
              /\ head' = head
  /\ tail' = [tail EXCEPT ![m] = n] /\ owner' = [owner EXCEPT ![n] = m]
  /\ count' = [count EXCEPT ![m] = @ + 1] /\ alloc' = alloc

LEMMA PushFacts ==
  ASSUME IInv, NEW m \in Mgr, NEW n \in Node, timer_node_push(m, n),
         NEW c \in Nat, NEW s \in [1..c -> Node], IsChain(m, c, s)
  PROVE  Pushed(m, c, s, n)
<1> USE PointersAssumption
<1>1. /\ n \in alloc /\ owner[n] = NULL /\ prev[n] = NULL /\ next[n] = NULL
      /\ \A i \in 1..c : s[i] \in Node /\ s[i] # n
  BY DEF timer_node_push, IInv, Clean, IsChain, Chain
<1>2. c # 0 => tail[m] = s[c] /\ head[m] = s[1] /\ tail[m] \in Node
               /\ tail[m] # n /\ owner[tail[m]] = m /\ head[m] # NULL
  BY <1>1 DEF IsChain, Chain
<1>3. c = 0 => tail[m] = NULL /\ head[m] = NULL
  BY DEF IsChain, Chain
<1>4. c = 0 => head' = [head EXCEPT ![m] = n] /\ UNCHANGED <<prev, next>>
  BY <1>3 DEF timer_node_push
<1>5. c # 0 => /\ prev' = [prev EXCEPT ![n] = tail[m]]
               /\ next' = [next EXCEPT ![tail[m]] = n]
               /\ head' = head
  BY <1>2 DEF timer_node_push
<1>6. /\ tail' = [tail EXCEPT ![m] = n] /\ owner' = [owner EXCEPT ![n] = m]
      /\ count' = [count EXCEPT ![m] = @ + 1] /\ alloc' = alloc
  BY DEF timer_node_push
<1> QED BY <1>1, <1>2, <1>3, <1>4, <1>5, <1>6 DEF Pushed

\* The other lists stay as they are.
LEMMA PushStays ==
  ASSUME TypeOK, NEW m \in Mgr, NEW n \in Node, NEW c \in Nat,
         NEW s \in [1..c -> Node], Pushed(m, c, s, n), NEW k \in Mgr, k # m
  PROVE  Stays(k)
<1> USE PointersAssumption
<1> SUFFICES ASSUME NEW d \in Nat, NEW t \in [1..d -> Node], IsChain(k, d, t)
             PROVE  IsChain(k, d, t)'
  BY DEF Stays
<1>1. \A q \in Node : owner[q] = k =>
          owner'[q] = k /\ prev'[q] = prev[q] /\ next'[q] = next[q]
  BY DEF TypeOK, Pushed
<1>2. \A q \in Node : owner'[q] = k => owner[q] = k
  BY DEF TypeOK, Pushed
<1>3. head'[k] = head[k] /\ tail'[k] = tail[k] /\ count'[k] = count[k]
  BY DEF TypeOK, Pushed
<1> QED BY <1>1, <1>2, <1>3, Frame

\* The list of the push gets its node at the end.
LEMMA PushExtends ==
  ASSUME TypeOK, NEW m \in Mgr, NEW n \in Node, NEW c \in Nat,
         NEW s \in [1..c -> Node], IsChain(m, c, s), Pushed(m, c, s, n),
         NEW t \in [1..(c + 1) -> Node],
         t[c + 1] = n, \A i \in 1..c : t[i] = s[i]
  PROVE  IsChain(m, c + 1, t)'
<1> USE PointersAssumption
<1>t. TypeOK
  OBVIOUS
<1>1. /\ n \in alloc /\ owner[n] = NULL /\ prev[n] = NULL /\ next[n] = NULL
      /\ \A i \in 1..c : s[i] \in Node /\ s[i] # n
  BY DEF Pushed
<1>2. c # 0 => tail[m] = s[c] /\ head[m] = s[1] /\ tail[m] \in Node
               /\ tail[m] # n /\ owner[tail[m]] = m /\ head[m] # NULL
  BY DEF Pushed
<1>3. c = 0 => head' = [head EXCEPT ![m] = n] /\ UNCHANGED <<prev, next>>
  BY DEF Pushed
<1>4. c # 0 => /\ prev' = [prev EXCEPT ![n] = tail[m]]
               /\ next' = [next EXCEPT ![tail[m]] = n]
               /\ head' = head
  BY DEF Pushed
<1>5. /\ tail' = [tail EXCEPT ![m] = n] /\ owner' = [owner EXCEPT ![n] = m]
      /\ count' = [count EXCEPT ![m] = @ + 1] /\ alloc' = alloc
  BY DEF Pushed
<1>6. t[c + 1] = n /\ \A i \in 1..c : t[i] = s[i]
  OBVIOUS
<1>7. count'[m] = c + 1
  BY <1>t, <1>5 DEF TypeOK, IsChain
<1>8. head'[m] = t[1] /\ tail'[m] = t[c + 1]
  BY <1>t, <1>6, <1>2, <1>3, <1>4, <1>5 DEF TypeOK
<1>9. ASSUME NEW i \in 1..(c + 1)
      PROVE  /\ owner'[t[i]] = m
             /\ prev'[t[i]] = IF i = 1 THEN NULL ELSE t[i - 1]
             /\ next'[t[i]] = IF i = c + 1 THEN NULL ELSE t[i + 1]
             /\ \A j \in 1..(c + 1) : t[i] = t[j] => i = j
  <2>1. CASE i = c + 1
    <3>1. /\ owner'[n] = m /\ next'[n] = NULL
          /\ prev'[n] = IF c = 0 THEN NULL ELSE tail[m]
      BY <1>t, <1>1, <1>2, <1>3, <1>4, <1>5 DEF TypeOK
    <3>2. c # 0 => t[i - 1] = tail[m]
      BY <2>1, <1>6, <1>2
    <3>3. \A j \in 1..(c + 1) : t[i] = t[j] => i = j
      BY <2>1, <1>6, <1>1
    <3> QED BY <2>1, <1>6, <3>1, <3>2, <3>3
  <2>2. CASE i \in 1..c
    <3>1. /\ owner[s[i]] = m
          /\ prev[s[i]] = IF i = 1 THEN NULL ELSE s[i - 1]
          /\ next[s[i]] = IF i = c THEN NULL ELSE s[i + 1]
          /\ \A j \in 1..c : s[i] = s[j] => i = j
          /\ t[i] = s[i] /\ s[i] \in Node /\ s[i] # n
      BY <2>2, <1>1, <1>6 DEF IsChain, Chain
    <3>2. owner'[s[i]] = m /\ prev'[s[i]] = prev[s[i]]
      BY <1>t, <2>2, <3>1, <1>4, <1>5 DEF TypeOK
    <3>3. i # 1 => t[i - 1] = s[i - 1]
      BY <2>2, <1>6
    <3>4. next'[s[i]] = IF i = c THEN n ELSE next[s[i]]
      BY <1>t, <2>2, <3>1, <1>2, <1>4 DEF TypeOK
    <3>5. t[i + 1] = IF i = c THEN n ELSE s[i + 1]
      BY <2>2, <1>6
    <3>6. \A j \in 1..(c + 1) : t[i] = t[j] => i = j
      BY <3>1, <1>6
    <3> QED BY <2>2, <3>1, <3>2, <3>3, <3>4, <3>5, <3>6
  <2> QED BY <2>1, <2>2
<1>10. ASSUME NEW q \in Node, owner'[q] = m
      PROVE  \E i \in 1..(c + 1) : t[i] = q
  <2>1. CASE q = n
    BY <2>1, <1>6
  <2>2. CASE q # n
    <3>1. owner[q] = m
      BY <1>t, <2>2, <1>10, <1>5 DEF TypeOK
    <3>2. PICK i \in 1..c : s[i] = q
      BY <3>1 DEF IsChain, Chain
    <3> QED BY <3>2, <1>6
  <2> QED BY <2>1, <2>2
<1> QED BY <1>7, <1>8, <1>9, <1>10 DEF IsChain, Chain

LEMMA PushInv ==
  ASSUME IInv, NEW m \in Mgr, NEW n \in Node, timer_node_push(m, n)
  PROVE  IInv'
<1> USE PointersAssumption
<1>1. PICK c \in Nat : \E s \in [1..c -> Node] : IsChain(m, c, s)
  BY HasChain
<1>2. PICK s \in [1..c -> Node] : IsChain(m, c, s)
  BY <1>1
<1>t. TypeOK
  BY DEF IInv
<1>p. Pushed(m, c, s, n)
  BY <1>2, PushFacts
<1>3. /\ n \in alloc /\ owner[n] = NULL /\ prev[n] = NULL /\ next[n] = NULL
      /\ \A i \in 1..c : s[i] \in Node /\ s[i] # n
  BY <1>p DEF Pushed
<1>4. c # 0 => tail[m] = s[c] /\ head[m] = s[1] /\ tail[m] \in Node
               /\ tail[m] # n /\ owner[tail[m]] = m /\ head[m] # NULL
  BY <1>p DEF Pushed
<1>5. c = 0 => head' = [head EXCEPT ![m] = n] /\ UNCHANGED <<prev, next>>
  BY <1>p DEF Pushed
<1>6. c # 0 => /\ prev' = [prev EXCEPT ![n] = tail[m]]
               /\ next' = [next EXCEPT ![tail[m]] = n]
               /\ head' = head
  BY <1>p DEF Pushed
<1>7. /\ tail' = [tail EXCEPT ![m] = n] /\ owner' = [owner EXCEPT ![n] = m]
      /\ count' = [count EXCEPT ![m] = @ + 1] /\ alloc' = alloc
  BY <1>p DEF Pushed
<1>8. TypeOK'
  <2>a. prev \in [Node -> Node \cup {NULL}] /\ next \in [Node -> Node \cup {NULL}]
    BY <1>t DEF TypeOK
  <2>b. prev' \in [Node -> Node \cup {NULL}]
    <3>1. CASE c = 0
      BY <3>1, <2>a, <1>5
    <3>2. CASE c # 0
      BY <3>2, <2>a, <1>4, <1>6
    <3> QED BY <3>1, <3>2
  <2>c. next' \in [Node -> Node \cup {NULL}]
    <3>1. CASE c = 0
      BY <3>1, <2>a, <1>5
    <3>2. CASE c # 0
      BY <3>2, <2>a, <1>4, <1>6
    <3> QED BY <3>1, <3>2
  <2>1. prev' \in [Node -> Node \cup {NULL}] /\ next' \in [Node -> Node \cup {NULL}]
    BY <2>b, <2>c
  <2>2. head' \in [Mgr -> Node \cup {NULL}]
    BY <1>t, <1>5, <1>6 DEF TypeOK
  <2>3. /\ tail' \in [Mgr -> Node \cup {NULL}] /\ count' \in [Mgr -> Nat]
        /\ owner' \in [Node -> Mgr \cup {NULL}] /\ alloc' \subseteq Node
    BY <1>t, <1>7 DEF TypeOK
  <2> QED BY <2>1, <2>2, <2>3 DEF TypeOK
<1>9. Clean'
  <2>1. \A q \in Node : owner'[q] # NULL => q \in alloc'
    BY <1>t, <1>3, <1>7 DEF TypeOK, IInv, Clean
  <2>2. ASSUME NEW q \in alloc', owner'[q] = NULL
        PROVE  prev'[q] = NULL /\ next'[q] = NULL
    <3>1. q \in Node /\ q # n /\ owner[q] = NULL
      BY <1>t, <2>2, <1>7 DEF TypeOK
    <3>2. prev[q] = NULL /\ next[q] = NULL
      BY <3>1, <1>7 DEF IInv, Clean
    <3> QED BY <1>t, <3>1, <3>2, <1>4, <1>5, <1>6 DEF TypeOK
  <2> QED BY <2>1, <2>2 DEF Clean
<1>10. ASSUME NEW k \in Mgr, k # m
       PROVE  \E d \in Nat : \E t \in [1..d -> Node] : IsChain(k, d, t)'
  <2>1. Stays(k)
    BY <1>t, <1>p, <1>10, PushStays
  <2> QED BY <2>1, StaysChain
<1>11. \E d \in Nat : \E t \in [1..d -> Node] : IsChain(m, d, t)'
  <2>1. PICK t \in [1..(c + 1) -> Node] : t[c + 1] = n /\ \A i \in 1..c : t[i] = s[i]
    <3> DEFINE r == [i \in 1..(c + 1) |-> IF i = c + 1 THEN n ELSE s[i]]
    <3>1. r \in [1..(c + 1) -> Node] /\ r[c + 1] = n /\ \A i \in 1..c : r[i] = s[i]
      OBVIOUS
    <3> QED BY <3>1
  <2>2. IsChain(m, c + 1, t)'
    BY <1>2, <1>t, <1>p, <2>1, PushExtends
  <2> QED BY <2>2
<1> QED BY <1>8, <1>9, <1>10, <1>11, ShapeFromChains DEF IInv

\* Taking out the node at place p closes the gap and keeps the order.
LEMMA Remove ==
  ASSUME TypeOK, NEW m \in Mgr, NEW c \in Nat, NEW s \in [1..c -> Node],
         IsChain(m, c, s), NEW p \in 1..c, NEW n \in Node, n = s[p],
         head'[m] = (IF p = 1 THEN next[n] ELSE head[m]),
         tail'[m] = (IF p = c THEN prev[n] ELSE tail[m]),
         count'[m] = c - 1,
         owner' = [owner EXCEPT ![n] = NULL],
         \A q \in Node \ {n} :
           /\ prev'[q] = IF q = next[n] THEN prev[n] ELSE prev[q]
           /\ next'[q] = IF q = prev[n] THEN next[n] ELSE next[q],
         NEW t \in [1..(c - 1) -> Node],
         \A i \in 1..(c - 1) : t[i] = IF i < p THEN s[i] ELSE s[i + 1]
  PROVE  IsChain(m, c - 1, t)'
<1> USE PointersAssumption
<1>2. \A i \in 1..(c - 1) : t[i] = IF i < p THEN s[i] ELSE s[i + 1]
  OBVIOUS
<1>3. \A i \in 1..c : /\ s[i] \in Node
                      /\ owner[s[i]] = m
                      /\ prev[s[i]] = IF i = 1 THEN NULL ELSE s[i - 1]
                      /\ next[s[i]] = IF i = c THEN NULL ELSE s[i + 1]
                      /\ \A j \in 1..c : s[i] = s[j] => i = j
  BY DEF IsChain, Chain
<1>4. head[m] = s[1] /\ tail[m] = s[c]
  BY DEF IsChain, Chain
<1>5. /\ prev[n] = IF p = 1 THEN NULL ELSE s[p - 1]
      /\ next[n] = IF p = c THEN NULL ELSE s[p + 1]
  BY <1>3
<1>6. /\ head'[m] = IF c - 1 = 0 THEN NULL ELSE t[1]
      /\ tail'[m] = IF c - 1 = 0 THEN NULL ELSE t[c - 1]
  BY <1>2, <1>4, <1>5
<1>7. ASSUME NEW i \in 1..c, i # p
      PROVE  /\ s[i] \in Node \ {n} /\ owner'[s[i]] = m
             /\ prev'[s[i]] = IF i = p + 1 THEN prev[n] ELSE prev[s[i]]
             /\ next'[s[i]] = IF i = p - 1 THEN next[n] ELSE next[s[i]]
  <2>1. s[i] \in Node \ {n}
    BY <1>3, <1>7
  <2>2. owner'[s[i]] = m
    BY <1>3, <2>1 DEF TypeOK
  <2>3. s[i] = next[n] <=> i = p + 1
    BY <1>3, <1>5
  <2>4. s[i] = prev[n] <=> i = p - 1
    BY <1>3, <1>5
  <2> QED BY <2>1, <2>2, <2>3, <2>4
<1>8. ASSUME NEW i \in 1..(c - 1)
      PROVE  /\ owner'[t[i]] = m
             /\ prev'[t[i]] = IF i = 1 THEN NULL ELSE t[i - 1]
             /\ next'[t[i]] = IF i = c - 1 THEN NULL ELSE t[i + 1]
             /\ \A j \in 1..(c - 1) : t[i] = t[j] => i = j
  <2>1. CASE i < p
    <3>1. t[i] = s[i] /\ i # p /\ i \in 1..c /\ i # p + 1
      BY <2>1, <1>2
    <3>2. owner'[t[i]] = m
      BY <3>1, <1>7
    <3>3. prev'[t[i]] = IF i = 1 THEN NULL ELSE t[i - 1]
      BY <2>1, <3>1, <1>2, <1>3, <1>7
    <3>4. next'[t[i]] = IF i = c - 1 THEN NULL ELSE t[i + 1]
      BY <2>1, <3>1, <1>2, <1>3, <1>5, <1>7
    <3>5. \A j \in 1..(c - 1) : t[i] = t[j] => i = j
      BY <2>1, <3>1, <1>2, <1>3
    <3> QED BY <3>2, <3>3, <3>4, <3>5
  <2>2. CASE i >= p
    <3>1. t[i] = s[i + 1] /\ i + 1 # p /\ i + 1 \in 1..c /\ i + 1 # p - 1
      BY <2>2, <1>2
    <3>2. owner'[t[i]] = m
      BY <3>1, <1>7
    <3>3. prev'[t[i]] = IF i = 1 THEN NULL ELSE t[i - 1]
      BY <2>2, <3>1, <1>2, <1>3, <1>5, <1>7
    <3>4. next'[t[i]] = IF i = c - 1 THEN NULL ELSE t[i + 1]
      BY <2>2, <3>1, <1>2, <1>3, <1>7
    <3>5. \A j \in 1..(c - 1) : t[i] = t[j] => i = j
      BY <2>2, <3>1, <1>2, <1>3
    <3> QED BY <3>2, <3>3, <3>4, <3>5
  <2> QED BY <2>1, <2>2
<1>9. ASSUME NEW q \in Node, owner'[q] = m
      PROVE  \E i \in 1..(c - 1) : t[i] = q
  <2>1. owner[q] = m /\ q # n
    BY <1>9 DEF TypeOK
  <2>2. PICK i \in 1..c : s[i] = q
    BY <2>1 DEF IsChain, Chain
  <2>3. CASE i < p
    BY <2>2, <2>3, <1>2
  <2>4. CASE i > p
    <3>1. i - 1 \in 1..(c - 1) /\ t[i - 1] = q
      BY <2>2, <2>4, <1>2
    <3> QED BY <3>1
  <2>5. i < p \/ i > p
    BY <2>1, <2>2
  <2> QED BY <2>3, <2>4, <2>5
<1> QED BY <1>6, <1>8, <1>9 DEF IsChain, Chain

\* What pop and delete have in common: one node leaves list m, which had it
\* at place p, and every pointer to it is redirected.
Leaves(m, c, s, p, n) ==
  /\ IsChain(m, c, s) /\ p \in 1..c /\ n = s[p]
  /\ head' = [head EXCEPT ![m] = IF p = 1 THEN next[n] ELSE @]
  /\ tail' = [tail EXCEPT ![m] = IF p = c THEN prev[n] ELSE @]
  /\ count' = [count EXCEPT ![m] = @ - 1]
  /\ owner' = [owner EXCEPT ![n] = NULL]
  /\ prev' \in [Node -> Node \cup {NULL}] /\ next' \in [Node -> Node \cup {NULL}]
  /\ \A q \in Node \ {n} :
       /\ prev'[q] = IF q = next[n] THEN prev[n] ELSE prev[q]
       /\ next'[q] = IF q = prev[n] THEN next[n] ELSE next[q]

\* Its list is then the chain without the node.
LEMMA LeavesRemoves ==
  ASSUME TypeOK, NEW m \in Mgr, NEW c \in Nat, NEW s \in [1..c -> Node],
         NEW p \in 1..c, NEW n \in Node, Leaves(m, c, s, p, n),
         NEW t \in [1..(c - 1) -> Node],
         \A i \in 1..(c - 1) : t[i] = IF i < p THEN s[i] ELSE s[i + 1]
  PROVE  IsChain(m, c - 1, t)'
<1>1. /\ head'[m] = (IF p = 1 THEN next[n] ELSE head[m])
      /\ tail'[m] = (IF p = c THEN prev[n] ELSE tail[m])
      /\ count'[m] = c - 1
  BY DEF TypeOK, Leaves, IsChain
<1>2. /\ IsChain(m, c, s) /\ n = s[p]
      /\ owner' = [owner EXCEPT ![n] = NULL]
      /\ \A q \in Node \ {n} :
           /\ prev'[q] = IF q = next[n] THEN prev[n] ELSE prev[q]
           /\ next'[q] = IF q = prev[n] THEN next[n] ELSE next[q]
  BY DEF Leaves
<1> QED BY ZenonT(60), <1>1, <1>2, Remove

\* And the other lists stay as they are.
LEMMA LeavesStays ==
  ASSUME TypeOK, NEW m \in Mgr, NEW c \in Nat, NEW s \in [1..c -> Node],
         NEW p \in 1..c, NEW n \in Node, Leaves(m, c, s, p, n), NEW k \in Mgr, k # m
  PROVE  Stays(k)
<1> USE PointersAssumption
<1> SUFFICES ASSUME NEW d \in Nat, NEW t \in [1..d -> Node], IsChain(k, d, t)
             PROVE  IsChain(k, d, t)'
  BY DEF Stays
<1>1. /\ owner[n] = m
      /\ (prev[n] # NULL => owner[prev[n]] = m)
      /\ (next[n] # NULL => owner[next[n]] = m)
  BY DEF Leaves, IsChain, Chain, TypeOK
<1>2. ASSUME NEW q \in Node, owner[q] = k
      PROVE  owner'[q] = k /\ prev'[q] = prev[q] /\ next'[q] = next[q]
  <2>1. q # n /\ q # prev[n] /\ q # next[n]
    BY <1>1, <1>2
  <2> QED BY <1>2, <2>1 DEF TypeOK, Leaves
<1>3. \A q \in Node : owner'[q] = k => owner[q] = k
  BY DEF TypeOK, Leaves
<1>4. head'[k] = head[k] /\ tail'[k] = tail[k] /\ count'[k] = count[k]
  BY DEF TypeOK, Leaves
<1> QED BY <1>2, <1>3, <1>4, Frame

LEMMA LeavesInv ==
  ASSUME IInv, NEW m \in Mgr, NEW c \in Nat, NEW s \in [1..c -> Node],
         NEW p \in 1..c, NEW n \in Node, Leaves(m, c, s, p, n),
         \/ alloc' = alloc \ {n}
         \/ alloc' = alloc /\ prev'[n] = NULL /\ next'[n] = NULL
  PROVE  IInv'
<1> USE PointersAssumption
<1>t. TypeOK
  BY DEF IInv
<1>1. /\ owner[n] = m /\ prev[n] \in Node \cup {NULL} /\ next[n] \in Node \cup {NULL}
      /\ (prev[n] # NULL => owner[prev[n]] = m)
      /\ (next[n] # NULL => owner[next[n]] = m)
      /\ count[m] = c /\ c - 1 \in Nat
  BY <1>t DEF Leaves, IsChain, Chain, TypeOK
<1>2. TypeOK'
  <2>1. /\ head' \in [Mgr -> Node \cup {NULL}] /\ tail' \in [Mgr -> Node \cup {NULL}]
        /\ owner' \in [Node -> Mgr \cup {NULL}] /\ alloc' \subseteq Node
    BY <1>t, <1>1 DEF TypeOK, Leaves
  <2>2. count' \in [Mgr -> Nat]
    BY <1>t, <1>1 DEF TypeOK, Leaves
  <2> QED BY <2>1, <2>2 DEF TypeOK, Leaves
<1>3. Clean'
  <2>1. ASSUME NEW q \in Node, owner'[q] # NULL
        PROVE  q \in alloc'
    <3>1. q # n /\ owner[q] # NULL
      BY <1>t, <2>1 DEF TypeOK, Leaves
    <3> QED BY <3>1 DEF IInv, Clean
  <2>2. ASSUME NEW q \in alloc', owner'[q] = NULL
        PROVE  prev'[q] = NULL /\ next'[q] = NULL
    <3>1. CASE q = n
      BY <3>1
    <3>2. CASE q # n
      <4>1. q \in Node \ {n} /\ q \in alloc /\ owner[q] = NULL
        BY <1>t, <2>2, <3>2 DEF TypeOK, Leaves
      <4>2. prev[q] = NULL /\ next[q] = NULL /\ q # prev[n] /\ q # next[n]
        BY <4>1, <1>1 DEF IInv, Clean
      <4> QED BY <4>1, <4>2 DEF Leaves
    <3> QED BY <3>1, <3>2
  <2> QED BY <2>1, <2>2 DEF Clean
<1>4. ASSUME NEW k \in Mgr
      PROVE  \E d \in Nat : \E t \in [1..d -> Node] : IsChain(k, d, t)'
  <2>1. CASE k = m
    <3>1. PICK t \in [1..(c - 1) -> Node] :
            \A i \in 1..(c - 1) : t[i] = IF i < p THEN s[i] ELSE s[i + 1]
      <4>1. [i \in 1..(c - 1) |-> IF i < p THEN s[i] ELSE s[i + 1]]
              \in [1..(c - 1) -> Node]
        OBVIOUS
      <4> QED BY <4>1
    <3>2. IsChain(m, c - 1, t)'
      BY <1>t, <3>1, LeavesRemoves
    <3> QED BY <2>1, <3>2, <1>1
  <2>2. CASE k # m
    <3>1. Stays(k)
      BY <1>t, <2>2, LeavesStays
    <3> QED BY <3>1, StaysChain
  <2> QED BY <2>1, <2>2
<1> QED BY <1>2, <1>3, <1>4, ShapeFromChains DEF IInv

\* timer_node_pop takes out the first node of its list.
LEMMA PopLeaves ==
  ASSUME IInv, NEW m \in Mgr, timer_node_pop(m), NEW c \in Nat,
         NEW s \in [1..c -> Node], IsChain(m, c, s), NEW n \in Node, n = head[m]
  PROVE  1 \in 1..c /\ Leaves(m, c, s, 1, n)
<1> USE PointersAssumption
<1>t. TypeOK
  BY DEF IInv
<1>1. c # 0 /\ n = s[1] /\ tail[m] = s[c] /\ n \in Node
  BY DEF timer_node_pop, IsChain, Chain
<1>2. 1 \in 1..c /\ prev[n] = NULL /\ (next[n] = NULL <=> c = 1)
      /\ next[n] \in Node \cup {NULL} /\ next[n] # n
  <2>1. 1 \in 1..c /\ (c # 1 => 2 \in 1..c)
    BY <1>1
  <2>2. prev[s[1]] = NULL /\ next[s[1]] = IF 1 = c THEN NULL ELSE s[1 + 1]
    BY <2>1 DEF IsChain, Chain
  <2>3. c # 1 => s[2] \in Node /\ s[1] # s[2]
    BY <2>1 DEF IsChain, Chain
  <2> QED BY <1>1, <2>1, <2>2, <2>3
<1>3. tail' = [tail EXCEPT ![m] = IF 1 = c THEN prev[n] ELSE @]
  BY <1>t, <1>1, <1>2 DEF timer_node_pop, TypeOK
<1>4. head' = [head EXCEPT ![m] = next[n]] /\ count' = [count EXCEPT ![m] = @ - 1]
      /\ owner' = [owner EXCEPT ![n] = NULL]
  BY DEF timer_node_pop
<1>5. /\ prev' \in [Node -> Node \cup {NULL}] /\ next' \in [Node -> Node \cup {NULL}]
      /\ prev'[n] = NULL /\ next'[n] = NULL
  BY <1>t, <1>1, <1>2 DEF timer_node_pop, TypeOK
<1>6. ASSUME NEW q \in Node \ {n}
      PROVE  /\ prev'[q] = IF q = next[n] THEN prev[n] ELSE prev[q]
             /\ next'[q] = IF q = prev[n] THEN next[n] ELSE next[q]
  BY <1>t, <1>1, <1>2 DEF timer_node_pop, TypeOK
<1> QED BY <1>1, <1>2, <1>3, <1>4, <1>5, <1>6 DEF Leaves

LEMMA PopInv ==
  ASSUME IInv, NEW m \in Mgr, timer_node_pop(m)
  PROVE  IInv'
<1> USE PointersAssumption
<1>1. PICK c \in Nat : \E s \in [1..c -> Node] : IsChain(m, c, s)
  BY HasChain
<1>2. PICK s \in [1..c -> Node] : IsChain(m, c, s)
  BY <1>1
<1>3. PICK n \in Node : n = head[m]
  BY DEF IInv, TypeOK, timer_node_pop
<1>4. 1 \in 1..c /\ Leaves(m, c, s, 1, n)
  BY <1>2, <1>3, PopLeaves
<1>5. alloc' = alloc /\ prev'[n] = NULL /\ next'[n] = NULL
  <2>1. next[n] # n
    BY <1>4 DEF Leaves, IsChain, Chain
  <2> QED BY <1>3, <2>1 DEF timer_node_pop, IInv, TypeOK
<1> QED BY <1>4, <1>5, LeavesInv

\* timer_node_delete takes its node out of the list that it is on, at
\* whichever end or in the middle.
LEMMA DeleteLeaves ==
  ASSUME IInv, NEW m \in Mgr, NEW n \in Node, owner[n] = m, Unlink(m, n),
         NEW c \in Nat, NEW s \in [1..c -> Node], IsChain(m, c, s)
  PROVE  \E p \in 1..c : Leaves(m, c, s, p, n)
<1> USE PointersAssumption
<1>t. TypeOK
  BY DEF IInv
<1>1. PICK p \in 1..c : s[p] = n
  BY DEF IsChain, Chain
<1>2. /\ prev[n] = IF p = 1 THEN NULL ELSE s[p - 1]
      /\ next[n] = IF p = c THEN NULL ELSE s[p + 1]
      /\ head[m] = s[1] /\ tail[m] = s[c] /\ count[m] = c
      /\ \A i \in 1..c : s[i] \in Node
      /\ \A i \in 1..c : s[i] = n => i = p
  BY <1>1 DEF IsChain, Chain
<1>3. /\ prev[n] \in Node \cup {NULL} /\ (prev[n] = NULL <=> p = 1)
      /\ next[n] \in Node \cup {NULL} /\ (next[n] = NULL <=> p = c)
      /\ prev[n] # n /\ next[n] # n
  BY <1>2
<1>4. head' = [head EXCEPT ![m] = IF p = 1 THEN next[n] ELSE @]
  BY <1>t, <1>2, <1>3 DEF Unlink, UnlinkHead, UnlinkTail, UnlinkMiddle, TypeOK
<1>5. tail' = [tail EXCEPT ![m] = IF p = c THEN prev[n] ELSE @]
  BY <1>t, <1>2, <1>3 DEF Unlink, UnlinkHead, UnlinkTail, UnlinkMiddle, TypeOK
<1>6. prev' \in [Node -> Node \cup {NULL}] /\ next' \in [Node -> Node \cup {NULL}]
  BY <1>t, <1>3 DEF Unlink, UnlinkHead, UnlinkTail, UnlinkMiddle, TypeOK
<1>7. ASSUME NEW q \in Node \ {n}
      PROVE  /\ prev'[q] = IF q = next[n] THEN prev[n] ELSE prev[q]
             /\ next'[q] = IF q = prev[n] THEN next[n] ELSE next[q]
  BY <1>t, <1>3 DEF Unlink, UnlinkHead, UnlinkTail, UnlinkMiddle, TypeOK
<1>8. Leaves(m, c, s, p, n)
  BY <1>1, <1>4, <1>5, <1>6, <1>7 DEF Leaves, Unlink
<1> QED BY <1>8

LEMMA DeleteInv ==
  ASSUME IInv, NEW m \in Mgr, NEW n \in Node, timer_node_delete(m, n)
  PROVE  IInv'
<1> USE PointersAssumption
<1>1. CASE owner[n] = NULL /\ UNCHANGED <<head, tail, count, prev, next, owner>>
  <2>1. alloc' = alloc \ {n}
    BY DEF timer_node_delete
  <2>2. TypeOK' /\ Clean'
    BY <1>1, <2>1 DEF IInv, TypeOK, Clean
  <2>3. ListShape'
    BY <1>1, StutterShape
  <2> QED BY <2>2, <2>3 DEF IInv
<1>2. CASE owner[n] = m /\ Unlink(m, n)
  <2>1. PICK c \in Nat : \E s \in [1..c -> Node] : IsChain(m, c, s)
    BY HasChain
  <2>2. PICK s \in [1..c -> Node] : IsChain(m, c, s)
    BY <2>1
  <2>3. PICK p \in 1..c : Leaves(m, c, s, p, n)
    BY <1>2, <2>2, DeleteLeaves
  <2>4. alloc' = alloc \ {n}
    BY DEF timer_node_delete
  <2> QED BY <2>3, <2>4, LeavesInv
<1> QED BY <1>1, <1>2 DEF timer_node_delete

LEMMA InitInv == Init => IInv
<1> SUFFICES ASSUME Init PROVE IInv
  OBVIOUS
<1> USE PointersAssumption DEF Init
<1>1. TypeOK /\ Clean
  BY DEF TypeOK, Clean
<1>2. ASSUME NEW m \in Mgr
      PROVE  \E s \in [1..count[m] -> Node] : Represents(m, s)
  <2>1. count[m] = 0 /\ 1..count[m] = {}
    BY <1>2
  <2>2. PICK s \in [1..count[m] -> Node] : TRUE
    <3>1. [i \in 1..count[m] |-> i] \in [1..count[m] -> Node]
      BY <2>1
    <3> QED BY <3>1
  <2>3. Represents(m, s)
    BY <2>1, <1>2 DEF Represents
  <2> QED BY <2>3
<1> QED BY <1>1, <1>2 DEF IInv, ListShape

LEMMA NextInv == IInv /\ [Next]_vars => IInv'
<1> SUFFICES ASSUME IInv, [Next]_vars PROVE IInv'
  OBVIOUS
<1>1. ASSUME NEW n \in Node, timer_node_create(n) PROVE IInv'
  BY <1>1, CreateInv
<1>2. ASSUME NEW m \in Mgr, timer_node_pop(m) PROVE IInv'
  BY <1>2, PopInv
<1>3. ASSUME NEW m \in Mgr, NEW n \in Node, timer_node_push(m, n) PROVE IInv'
  BY <1>3, PushInv
<1>4. ASSUME NEW m \in Mgr, NEW n \in Node, timer_node_delete(m, n) PROVE IInv'
  BY <1>4, DeleteInv
<1>5. CASE UNCHANGED vars
  <2>1. TypeOK' /\ Clean'
    BY <1>5 DEF vars, IInv, TypeOK, Clean
  <2>2. ListShape'
    BY <1>5, StutterShape DEF vars
  <2> QED BY <2>1, <2>2 DEF IInv
<1>6. ASSUME NEW n \in Node, timer_node_push_listed(n) PROVE UNCHANGED vars
  BY <1>6 DEF timer_node_push_listed
<1> QED BY <1>1, <1>2, <1>3, <1>4, <1>5, <1>6 DEF Next

\* The links of a chain lead to nodes of the same list, which are allocated.
LEMMA NoDangling == IInv => NothingDangles
<1> SUFFICES ASSUME IInv PROVE NothingDangles
  OBVIOUS
<1> USE PointersAssumption
<1>1. ASSUME NEW m \in Mgr
      PROVE  /\ {head[m], tail[m]} \subseteq alloc \cup {NULL}
             /\ \A n \in Node : owner[n] = m =>
                  {prev[n], next[n]} \subseteq alloc \cup {NULL}
  <2>1. PICK c \in Nat : \E s \in [1..c -> Node] : IsChain(m, c, s)
    BY HasChain
  <2>2. PICK s \in [1..c -> Node] : IsChain(m, c, s)
    BY <2>1
  <2>3. \A i \in 1..c : s[i] \in alloc
    BY <2>2 DEF IInv, Clean, IsChain, Chain
  <2>4. {head[m], tail[m]} \subseteq alloc \cup {NULL}
    BY <2>2, <2>3 DEF IsChain, Chain
  <2>5. ASSUME NEW n \in Node, owner[n] = m
        PROVE  {prev[n], next[n]} \subseteq alloc \cup {NULL}
    <3>1. PICK i \in 1..c : s[i] = n
      BY <2>2, <2>5 DEF IsChain, Chain
    <3> QED BY <3>1, <2>2, <2>3 DEF IsChain, Chain
  <2> QED BY <2>4, <2>5
<1>2. \A n \in alloc : {prev[n], next[n]} \subseteq alloc \cup {NULL}
  BY <1>1 DEF IInv, Clean, TypeOK
<1> QED BY <1>1, <1>2 DEF NothingDangles, IInv, Clean, TypeOK

\* Each timer list of http_handlers.c stays a properly linked chain of all the
\* nodes it owns, whatever sequence of operations its callers make.
THEOREM ListsKeepShape == Spec => []ListShape
<1>1. IInv => ListShape
  BY DEF IInv
<1> QED BY InitInv, NextInv, <1>1, PTL DEF Spec

\* The list operations never follow a pointer to a freed node.
THEOREM NeverDangling == Spec => []NothingDangles
BY InitInv, NextInv, NoDangling, PTL DEF Spec

\* Every pointer and counter of the lists keeps its type.
THEOREM TypeCorrect == Spec => []TypeOK
<1>1. IInv => TypeOK
  BY DEF IInv
<1> QED BY InitInv, NextInv, <1>1, PTL DEF Spec

-----------------------------------------------------------------------------
(***************************************************************************)
(* The refinement.  A chain is determined by the pointers, so Nodes(m) is  *)
(* the chain of list m, and each operation changes one of them in the way  *)
(* that TimerQueue says.                                                   *)
(***************************************************************************)

\* A set of natural numbers has a least element: the intervals below its
\* elements are finite, and strict inclusion of finite sets is well founded.
LEMMA LeastOf ==
  ASSUME NEW S \in SUBSET Nat, S # {}
  PROVE  \E n \in S : \A m \in S : n <= m
<1> DEFINE T == {0..n : n \in S}
<1>1. T \subseteq FiniteSubsetsOf(Nat)
  <2> SUFFICES ASSUME NEW n \in S PROVE 0..n \in FiniteSubsetsOf(Nat)
    OBVIOUS
  <2>1. IsFiniteSet(0..n)
    BY FS_Interval
  <2> QED BY <2>1 DEF FiniteSubsetsOf
<1>2. PICK x \in T : \A y \in T : ~(<<y, x>> \in StrictSubsetOrdering(Nat))
  <2>1. T # {}
    OBVIOUS
  <2> HIDE DEF T
  <2> QED BY <1>1, <2>1, FS_StrictSubsetOrderingWellFounded, WFMin
<1>3. PICK n \in S : x = 0..n
  OBVIOUS
<1>4. ASSUME NEW m \in S, m < n
      PROVE  FALSE
  <2>1. n \in 0..n /\ n \notin 0..m /\ 0..m \subseteq 0..n
    BY <1>4
  <2>2. <<0..m, x>> \in (SUBSET Nat) \X (SUBSET Nat)
    BY <1>3
  <2>3. <<0..m, x>> \in StrictSubsetOrdering(Nat)
    BY <2>1, <2>2, <1>3 DEF StrictSubsetOrdering
  <2> QED BY <2>3, <1>2
<1> QED BY <1>4

\* Two chains of a list agree: both begin at its head, and where they agree
\* the next pointer leads both to the same node.
LEMMA ChainUnique ==
  ASSUME NEW m \in Mgr, NEW c \in Nat, NEW s \in [1..c -> Node],
         NEW t \in [1..c -> Node], Chain(m, c, s), Chain(m, c, t)
  PROVE  s = t
<1> DEFINE Apart == {i \in 1..c : s[i] # t[i]}
<1>1. CASE Apart = {}
  <2>1. \A i \in 1..c : s[i] = t[i]
    BY <1>1
  <2> QED BY <2>1
<1>2. CASE Apart # {}
  <2>1. PICK i \in Apart : \A j \in Apart : i <= j
    <3>1. Apart \in SUBSET Nat
      OBVIOUS
    <3> HIDE DEF Apart
    <3> QED BY <1>2, <3>1, LeastOf
  <2>2. i \in 1..c /\ s[i] # t[i]
    BY <2>1
  <2>3. CASE i = 1
    <3>1. head[m] = s[1] /\ head[m] = t[1]
      BY <2>2 DEF Chain
    <3> QED BY <3>1, <2>2, <2>3
  <2>4. CASE i # 1
    <3>1. i - 1 \in 1..c /\ i - 1 # c /\ (i - 1) + 1 = i
      BY <2>2, <2>4
    <3>2. s[i - 1] = t[i - 1]
      BY <3>1, <2>1
    <3>3. next[s[i - 1]] = s[i] /\ next[t[i - 1]] = t[i]
      BY <3>1 DEF Chain
    <3> QED BY <3>2, <3>3, <2>2
  <2> QED BY <2>3, <2>4
<1> QED BY <1>1, <1>2

\* The sequence that the refinement mapping chooses is the chain there is.
LEMMA NodesOfChain ==
  \A m \in Mgr : \A c \in Nat : \A s \in [1..c -> Node] :
    IsChain(m, c, s) => Nodes(m) = s
<1> SUFFICES ASSUME NEW m \in Mgr, NEW c \in Nat, NEW s \in [1..c -> Node],
                    IsChain(m, c, s)
             PROVE  Nodes(m) = s
  OBVIOUS
<1>1. count[m] = c /\ Represents(m, s)
  BY DEF IsChain, Chain, Represents
<1>2. Nodes(m) \in [1..count[m] -> Node] /\ Represents(m, Nodes(m))
  <2>1. \E t \in [1..count[m] -> Node] : Represents(m, t)
    BY <1>1
  <2> QED BY <2>1 DEF Nodes
<1>3. Chain(m, c, s) /\ Chain(m, c, Nodes(m))
  BY <1>1, <1>2 DEF Represents, Chain
<1> QED BY <1>1, <1>2, <1>3, ChainUnique

LEMMA NodesOfNextChain ==
  (\A m \in Mgr : \A c \in Nat : \A s \in [1..c -> Node] :
     IsChain(m, c, s) => Nodes(m) = s)'
BY NodesOfChain, PTL

\* A list that keeps its chain keeps its place in the queues.
LEMMA NodesStay ==
  ASSUME IInv, NEW k \in Mgr, Stays(k)
  PROVE  Nodes(k)' = Nodes(k)
<1>1. PICK c \in Nat : \E s \in [1..c -> Node] : IsChain(k, c, s)
  BY HasChain
<1>2. PICK s \in [1..c -> Node] : IsChain(k, c, s)
  BY <1>1
<1>3. IsChain(k, c, s)'
  BY <1>2 DEF Stays
<1>4. Nodes(k) = s
  BY <1>2, NodesOfChain
<1>5. Nodes(k)' = s
  BY <1>3, NodesOfNextChain
<1> QED BY <1>4, <1>5

Lists == [m \in Mgr |-> Nodes(m)]

\* One list becomes v.
LEMMA ListsStep ==
  ASSUME NEW m \in Mgr, NEW v, Nodes(m)' = v,
         \A k \in Mgr : k # m => Nodes(k)' = Nodes(k)
  PROVE  Lists' = [Lists EXCEPT ![m] = v]
BY DEF Lists

LEMMA ListsStay ==
  ASSUME \A k \in Mgr : Nodes(k)' = Nodes(k)
  PROVE  Lists' = Lists
BY DEF Lists

\* A chain is a sequence.
LEMMA ChainIsSeq ==
  ASSUME NEW c \in Nat, NEW s \in [1..c -> Node]
  PROVE  s \in Seq(Node) /\ Len(s) = c
<1>1. s \in Seq(Node)
  BY SeqDef
<1>2. Len(s) \in Nat /\ DOMAIN s = 1..Len(s) /\ DOMAIN s = 1..c
  BY <1>1, LenProperties
<1> QED BY <1>1, <1>2

LEMMA SeqIsChain ==
  ASSUME NEW t \in Seq(Node), NEW c \in Nat, Len(t) = c
  PROVE  t \in [1..c -> Node]
BY LenProperties

LEMMA PushStep ==
  ASSUME IInv, NEW m \in Mgr, NEW n \in Node, timer_node_push(m, n)
  PROVE  Queue!Push(m, n)
<1>t. TypeOK
  BY DEF IInv
<1>1. PICK c \in Nat : \E s \in [1..c -> Node] : IsChain(m, c, s)
  BY HasChain
<1>2. PICK s \in [1..c -> Node] : IsChain(m, c, s)
  BY <1>1
<1>3. Pushed(m, c, s, n)
  BY <1>2, PushFacts
<1>4. PICK t \in [1..(c + 1) -> Node] :
        t = Append(s, n) /\ t[c + 1] = n /\ \A i \in 1..c : t[i] = s[i]
  <2>1. s \in Seq(Node) /\ Len(s) = c
    BY ChainIsSeq
  <2>2. /\ Append(s, n) \in Seq(Node) /\ Len(Append(s, n)) = c + 1
        /\ \A i \in 1..c : Append(s, n)[i] = s[i]
        /\ Append(s, n)[c + 1] = n
    BY <2>1, AppendProperties
  <2>3. Append(s, n) \in [1..(c + 1) -> Node]
    <3>1. c + 1 \in Nat
      OBVIOUS
    <3> QED BY <3>1, <2>2, SeqIsChain
  <2> QED BY <2>2, <2>3
<1>5. IsChain(m, c + 1, t)'
  BY <1>t, <1>2, <1>3, <1>4, PushExtends
<1>6. Nodes(m)' = Append(Nodes(m), n)
  <2>1. Nodes(m) = s
    BY <1>2, NodesOfChain
  <2>2. Nodes(m)' = t
    <3>1. c + 1 \in Nat
      OBVIOUS
    <3> QED BY <3>1, <1>5, NodesOfNextChain
  <2> QED BY <2>1, <2>2, <1>4
<1>7. \A k \in Mgr : k # m => Nodes(k)' = Nodes(k)
  BY <1>t, <1>3, PushStays, NodesStay
<1>8. Lists' = [Lists EXCEPT ![m] = Append(Nodes(m), n)]
  BY <1>6, <1>7, ListsStep
<1>9. \A k \in Mgr : ~Queue!Waits(n, k)
  <2> SUFFICES ASSUME NEW k \in Mgr, Queue!Waits(n, k) PROVE FALSE
    OBVIOUS
  <2>1. PICK i \in 1..Len(Nodes(k)) : Nodes(k)[i] = n
    BY DEF Queue!Waits
  <2>2. PICK d \in Nat : \E q \in [1..d -> Node] : IsChain(k, d, q)
    BY HasChain
  <2>3. PICK q \in [1..d -> Node] : IsChain(k, d, q)
    BY <2>2
  <2>4. Nodes(k) = q /\ Len(q) = d
    BY <2>3, NodesOfChain, ChainIsSeq
  <2>5. owner[n] = k
    BY <2>1, <2>3, <2>4 DEF IsChain, Chain
  <2> QED BY <2>5, <1>3, PointersAssumption DEF Pushed
<1> QED BY <1>8, <1>9 DEF Queue!Push, Lists

\* The sequence s of length c without its element at place p.
Without(t, s, c, p) ==
  /\ t \in [1..(c - 1) -> Node]
  /\ \A i \in 1..(c - 1) : t[i] = IF i < p THEN s[i] ELSE s[i + 1]

LEMMA WithoutPlace ==
  ASSUME NEW c \in Nat, NEW s \in [1..c -> Node], NEW p \in 1..c, NEW t,
         t = SubSeq(s, 1, p - 1) \o SubSeq(s, p + 1, Len(s))
  PROVE  Without(t, s, c, p)
<1> DEFINE a == SubSeq(s, 1, p - 1)
           b == SubSeq(s, p + 1, c)
<1>1. s \in Seq(Node) /\ Len(s) = c
  BY ChainIsSeq
<1>2. /\ a \in Seq(Node) /\ Len(a) = p - 1 /\ \A i \in 1..(p - 1) : a[i] = s[i]
  <2>1. \A i \in 1..(p - 1) : s[i] \in Node
    OBVIOUS
  <2>2. /\ SubSeq(s, 1, p - 1) \in Seq(Node)
        /\ Len(SubSeq(s, 1, p - 1)) = IF 1 <= p - 1 THEN (p - 1) - 1 + 1 ELSE 0
        /\ \A i \in 1..((p - 1) - 1 + 1) : SubSeq(s, 1, p - 1)[i] = s[1 + i - 1]
    BY <2>1, SubSeqProperties
  <2> QED BY <2>2
<1>3. /\ b \in Seq(Node) /\ Len(b) = c - p /\ \A i \in 1..(c - p) : b[i] = s[p + i]
  <2>1. \A i \in (p + 1)..c : s[i] \in Node
    OBVIOUS
  <2>2. /\ SubSeq(s, p + 1, c) \in Seq(Node)
        /\ Len(SubSeq(s, p + 1, c)) = IF p + 1 <= c THEN c - (p + 1) + 1 ELSE 0
        /\ \A i \in 1..(c - (p + 1) + 1) : SubSeq(s, p + 1, c)[i] = s[(p + 1) + i - 1]
    BY <2>1, SubSeqProperties
  <2> QED BY <2>2
<1>4. t = a \o b
  BY <1>1
<1> HIDE DEF a, b
<1>5. /\ t \in Seq(Node) /\ Len(t) = Len(a) + Len(b)
      /\ \A i \in 1..(Len(a) + Len(b)) :
           t[i] = IF i <= Len(a) THEN a[i] ELSE b[i - Len(a)]
  <2>1. a \in Seq(Node) /\ b \in Seq(Node)
    BY <1>2, <1>3
  <2>2. /\ a \o b \in Seq(Node) /\ Len(a \o b) = Len(a) + Len(b)
        /\ \A i \in 1..(Len(a) + Len(b)) :
             (a \o b)[i] = IF i <= Len(a) THEN a[i] ELSE b[i - Len(a)]
    BY ONLY <2>1, ConcatProperties
  <2> QED BY ONLY <2>2, <1>4
<1>6. Len(a) + Len(b) = c - 1 /\ c - 1 \in Nat
  BY <1>2, <1>3
<1>7. ASSUME NEW i \in 1..(c - 1)
      PROVE  t[i] = IF i < p THEN s[i] ELSE s[i + 1]
  <2>1. t[i] = IF i <= p - 1 THEN a[i] ELSE b[i - (p - 1)]
    BY <1>2, <1>5, <1>6
  <2>2. CASE i < p
    <3>1. i \in 1..(p - 1) /\ i <= p - 1
      BY <2>2
    <3>2. a[i] = s[i]
      BY <3>1, <1>2
    <3> QED BY <2>1, <2>2, <3>1, <3>2
  <2>3. CASE ~(i < p)
    <3>1. i - (p - 1) \in 1..(c - p) /\ p + (i - (p - 1)) = i + 1 /\ ~(i <= p - 1)
      BY <2>3
    <3>2. b[i - (p - 1)] = s[i + 1]
      BY <3>1, <1>3
    <3> QED BY <2>1, <2>3, <3>1, <3>2
  <2> QED BY <2>2, <2>3
<1>8. t \in [1..(c - 1) -> Node]
  BY <1>5, <1>6, SeqIsChain
<1> QED BY <1>7, <1>8 DEF Without

\* A node that leaves a list is deleted from its queue.
LEMMA LeavesStep ==
  ASSUME IInv, NEW m \in Mgr, NEW c \in Nat, NEW s \in [1..c -> Node],
         NEW p \in 1..c, NEW n \in Node, Leaves(m, c, s, p, n),
         NEW t, Without(t, s, c, p)
  PROVE  Nodes(m) = s /\ Lists' = [Lists EXCEPT ![m] = t]
<1>t. TypeOK
  BY DEF IInv
<1>1. IsChain(m, c - 1, t)' /\ c - 1 \in Nat
  BY <1>t, LeavesRemoves DEF Without
<1>2. Nodes(m)' = t
  BY <1>1, NodesOfNextChain DEF Without
<1>3. Nodes(m) = s
  BY NodesOfChain DEF Leaves
<1>4. \A k \in Mgr : k # m => Nodes(k)' = Nodes(k)
  BY <1>t, LeavesStays, NodesStay
<1> QED BY <1>2, <1>3, <1>4, ListsStep

LEMMA PopStep ==
  ASSUME IInv, NEW m \in Mgr, timer_node_pop(m)
  PROVE  Queue!Pop(m)
<1>1. PICK c \in Nat : \E s \in [1..c -> Node] : IsChain(m, c, s)
  BY HasChain
<1>2. PICK s \in [1..c -> Node] : IsChain(m, c, s)
  BY <1>1
<1>3. PICK n \in Node : n = head[m]
  BY DEF IInv, TypeOK, timer_node_pop
<1>4. PICK p \in 1..c : p = 1 /\ Leaves(m, c, s, p, n)
  BY <1>2, <1>3, PopLeaves
<1>5. s \in Seq(Node) /\ Len(s) = c /\ s # <<>>
  <2>1. s \in Seq(Node) /\ Len(s) = c
    BY ChainIsSeq
  <2> QED BY <2>1, <1>4, EmptySeq
<1>6. PICK t : t = Tail(s)
  OBVIOUS
<1>7. Without(t, s, c, p)
  <2>1. /\ t \in Seq(Node) /\ Len(t) = c - 1
        /\ \A i \in 1..(c - 1) : t[i] = s[i + 1]
    BY <1>5, <1>6, HeadTailProperties
  <2>2. c - 1 \in Nat
    BY <1>4
  <2>3. t \in [1..(c - 1) -> Node]
    BY <2>1, <2>2, SeqIsChain
  <2>4. \A i \in 1..(c - 1) : t[i] = IF i < p THEN s[i] ELSE s[i + 1]
    BY <2>1, <1>4
  <2> QED BY <2>3, <2>4 DEF Without
<1>8. Nodes(m) = s /\ Lists' = [Lists EXCEPT ![m] = t]
  BY <1>4, <1>7, LeavesStep
<1> QED BY <1>5, <1>6, <1>8 DEF Queue!Pop, Lists

LEMMA DeleteStep ==
  ASSUME IInv, NEW m \in Mgr, NEW n \in Node, timer_node_delete(m, n)
  PROVE  Queue!Delete(m, n) \/ Lists' = Lists
<1>1. CASE UNCHANGED <<head, tail, count, prev, next, owner>>
  BY <1>1, StutterStays, NodesStay, ListsStay
<1>2. CASE owner[n] = m /\ Unlink(m, n)
  <2>1. PICK c \in Nat : \E s \in [1..c -> Node] : IsChain(m, c, s)
    BY HasChain
  <2>2. PICK s \in [1..c -> Node] : IsChain(m, c, s)
    BY <2>1
  <2>3. PICK p \in 1..c : Leaves(m, c, s, p, n)
    BY <1>2, <2>2, DeleteLeaves
  <2>4. PICK t : t = SubSeq(s, 1, p - 1) \o SubSeq(s, p + 1, Len(s))
    OBVIOUS
  <2>5. Without(t, s, c, p)
    BY <2>4, WithoutPlace
  <2>6. Nodes(m) = s /\ Lists' = [Lists EXCEPT ![m] = t]
    BY <2>3, <2>5, LeavesStep
  <2>7. p \in 1..Len(s) /\ s[p] = n
    BY <2>3, ChainIsSeq DEF Leaves
  <2>8. Queue!Delete(m, n)
    BY <2>4, <2>6, <2>7 DEF Queue!Delete, Lists
  <2> QED BY <2>8
<1> QED BY <1>1, <1>2 DEF timer_node_delete

LEMMA InitStep == Init => Queue!Init
<1> SUFFICES ASSUME Init PROVE Queue!Init
  OBVIOUS
<1>1. ASSUME NEW m \in Mgr PROVE Nodes(m) = <<>>
  <2>1. IInv /\ count[m] = 0
    BY InitInv DEF Init
  <2>2. PICK c \in Nat : \E s \in [1..c -> Node] : IsChain(m, c, s)
    BY <2>1, HasChain
  <2>3. PICK s \in [1..c -> Node] : IsChain(m, c, s)
    BY <2>2
  <2>4. c = 0
    BY <2>1, <2>3 DEF IsChain
  <2>5. s \in Seq(Node) /\ Len(s) = 0
    BY <2>4, ChainIsSeq
  <2>6. s = <<>>
    BY <2>5, EmptySeq
  <2> QED BY <2>3, <2>6, NodesOfChain
<1> QED BY <1>1 DEF Queue!Init

LEMMA NextStep ==
  ASSUME IInv, [Next]_vars
  PROVE  Queue!Next \/ Lists' = Lists
<1>1. ASSUME NEW n \in Node, timer_node_create(n) PROVE Lists' = Lists
  BY <1>1, CreateStays, NodesStay, ListsStay
<1>2. ASSUME NEW m \in Mgr, timer_node_pop(m) PROVE Queue!Next
  BY <1>2, PopStep DEF Queue!Next
<1>3. ASSUME NEW m \in Mgr, NEW n \in Node, timer_node_push(m, n) PROVE Queue!Next
  BY <1>3, PushStep DEF Queue!Next
<1>4. ASSUME NEW m \in Mgr, NEW n \in Node, timer_node_delete(m, n)
      PROVE  Queue!Next \/ Lists' = Lists
  BY <1>4, DeleteStep DEF Queue!Next
<1>5. CASE UNCHANGED vars
  <2>1. UNCHANGED <<head, tail, count, prev, next, owner>>
    BY <1>5 DEF vars
  <2> QED BY <2>1, StutterStays, NodesStay, ListsStay
<1>6. ASSUME NEW n \in Node, timer_node_push_listed(n) PROVE UNCHANGED vars
  BY <1>6 DEF timer_node_push_listed
<1> QED BY <1>1, <1>2, <1>3, <1>4, <1>5, <1>6 DEF Next

\* The pointers of http_handlers.c implement first-in first-out queues with
\* removal: create, push, pop and delete do to the sequence of nodes what
\* TimerQueue says, or leave it alone.
THEOREM ImplementsQueues == Spec => ImplementsQueue
<1>1. Init => Queue!Init
  BY InitStep
<1>2. IInv /\ [Next]_vars => [Queue!Next]_[m \in Mgr |-> Nodes(m)]
  <2> SUFFICES ASSUME IInv, [Next]_vars
               PROVE  Queue!Next \/ [m \in Mgr |-> Nodes(m)]' = [m \in Mgr |-> Nodes(m)]
    OBVIOUS
  <2> QED BY NextStep DEF Lists
<1> QED BY <1>1, <1>2, InitInv, NextInv, PTL DEF Spec, ImplementsQueue, Queue!Spec
=============================================================================
