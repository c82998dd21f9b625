--------------------------- MODULE HitCounterProofs ---------------------------
(***************************************************************************)
(* Visitors are shown distinct and growing numbers, for any set of visits, *)
(* finite or not, and any number of retries.                               *)
(***************************************************************************)
EXTENDS HitCounter, FiniteSetTheorems, WellFoundedInduction, TLAPS

-----------------------------------------------------------------------------
(***************************************************************************)
(* The largest number shown exists, although nothing says that the visits  *)
(* are finitely many: none of the numbers is above the one redis keeps.    *)
(***************************************************************************)
LEMMA LargestOf ==
  ASSUME NEW b \in Nat, NEW S \in SUBSET (0..b), S # {}
  PROVE  \E n \in S : \A m \in S : m <= n
<1> DEFINE T == {n..b : n \in S}
<1>1. T \subseteq FiniteSubsetsOf(Nat)
  <2> SUFFICES ASSUME NEW n \in S PROVE n..b \in FiniteSubsetsOf(Nat)
    OBVIOUS
  <2>1. IsFiniteSet(n..b)
    BY FS_Interval
  <2> QED BY <2>1 DEF FiniteSubsetsOf
<1>2. PICK x \in T : \A y \in T : ~(<<y, x>> \in StrictSubsetOrdering(Nat))
  <2>1. T # {}
    OBVIOUS
  <2> HIDE DEF T
  <2> QED BY <1>1, <2>1, FS_StrictSubsetOrderingWellFounded, WFMin
<1>3. PICK n \in S : x = n..b
  OBVIOUS
<1>4. ASSUME NEW m \in S, n < m
      PROVE  FALSE
  <2>1. n \in n..b /\ n \notin m..b /\ m..b \subseteq n..b
    BY <1>4
  <2>2. <<m..b, x>> \in (SUBSET Nat) \X (SUBSET Nat)
    BY <1>3
  <2>3. <<m..b, x>> \in StrictSubsetOrdering(Nat)
    BY <2>1, <2>2, <1>3 DEF StrictSubsetOrdering
  <2> QED BY <2>3, <1>2
<1> QED BY <1>4

-----------------------------------------------------------------------------
(***************************************************************************)
(* The inductive invariant.                                                *)
(***************************************************************************)
Place == {"start", "ask", "asked", "served", "sleep", "shown", "failed"}

TypeOK ==
  /\ hits \in Nat
  /\ at \in [Visit -> Place]
  /\ retries \in [Visit -> Nat]
  /\ count \in [Visit -> Nat]
  /\ late \in [Visit -> Nat]
  /\ applied \in [Visit -> Nat]
  /\ base \in [Visit -> Nat]

\* Those that have their number, whether or not their visitor sees it yet.
Answered == {v \in Visit : at[v] \in {"served", "shown"}}

\* A visit is answered with a number that redis has reached after it began,
\* and no two with the same.
Numbered ==
  /\ \A v \in Visit : base[v] <= hits
  /\ \A v \in Answered :
       /\ base[v] < count[v] /\ count[v] <= hits
       /\ \A w \in Answered : count[v] = count[w] => v = w

\* The requests a visit may still send.
Left(v) == IF at[v] \in {"start", "ask", "asked", "sleep"} THEN retries[v] + 1
           ELSE IF at[v] = "served" THEN retries[v] ELSE 0

Budget == \A v \in Visit : applied[v] + late[v] + Left(v) <= Retries + 1

IInv == TypeOK /\ Numbered /\ Budget

LEMMA LargestFacts ==
  ASSUME IInv
  PROVE  LargestShown \in Nat /\ LargestShown <= hits
<1> DEFINE S == {count[v] : v \in Shown}
<1>1. \A v \in Shown : v \in Answered /\ v \in Visit
  BY DEF Shown, Answered
<1>2. S \in SUBSET (0..hits) /\ hits \in Nat
  BY <1>1 DEF IInv, TypeOK, Numbered
<1>3. CASE Shown = {}
  BY <1>2, <1>3 DEF LargestShown
<1>4. CASE Shown # {}
  <2>1. S # {}
    BY <1>4
  <2>2. LargestShown = CHOOSE n \in S : \A v \in Shown : count[v] <= n
    BY <1>4 DEF LargestShown
  <2>3. \E n \in S : \A v \in Shown : count[v] <= n
    <3>1. \E n \in S : \A m \in S : m <= n
      <4> HIDE DEF S
      <4> QED BY <1>2, <2>1, LargestOf
    <3> QED BY <3>1
  <2>4. LargestShown \in S
    <3> HIDE DEF S
    <3> QED BY <2>2, <2>3
  <2> HIDE DEF S
  <2> QED BY <1>2, <2>4
<1> QED BY <1>3, <1>4

-----------------------------------------------------------------------------
(***************************************************************************)
(* One lemma for each kind of step.                                        *)
(***************************************************************************)
\* A step that leaves the numbers alone and answers nobody.
LEMMA MoveKeeps ==
  ASSUME IInv, NEW v \in Visit, NEW there \in Place \ {"served", "shown"},
         at' = [at EXCEPT ![v] = there],
         TypeOK',
         hits' = hits /\ count' = count,
         \A w \in Visit : base'[w] <= hits,
         \A w \in Visit \ {v} : base'[w] = base[w]
  PROVE  Numbered'
<1>1. \A w \in Answered' : w \in Answered /\ w \in Visit /\ w # v
  BY DEF Answered, IInv, TypeOK
<1> QED BY <1>1 DEF Numbered, IInv

\* A step of v that uses up at least as many requests as it sends.
LEMMA BudgetKept ==
  ASSUME IInv, TypeOK', NEW v \in Visit,
         applied'[v] + late'[v] + Left(v)' <= applied[v] + late[v] + Left(v),
         \A w \in Visit \ {v} : /\ applied'[w] = applied[w] /\ late'[w] = late[w]
                                /\ at'[w] = at[w] /\ retries'[w] = retries[w]
  PROVE  Budget'
<1>1. \A w \in Visit : /\ applied[w] \in Nat /\ late[w] \in Nat /\ Left(w) \in Nat
                       /\ applied'[w] \in Nat /\ late'[w] \in Nat /\ Left(w)' \in Nat
  BY DEF IInv, TypeOK, Left
<1>2. \A w \in Visit \ {v} : Left(w)' = Left(w)
  BY DEF Left
<1> QED BY <1>1, <1>2, RetriesAssumption DEF Budget, IInv

LEMMA StepInv ==
  ASSUME IInv, NEW v \in Visit, hello(v) \/ get_hit_count(v) \/ redis_incr_late(v)
  PROVE  IInv'
<1> USE DEF Place
<1>1. CASE hello(v)
  <2>1. TypeOK'
    BY <1>1, LargestFacts DEF hello, IInv, TypeOK
  <2>2. \A w \in Visit : base'[w] <= hits
    BY <1>1, LargestFacts DEF hello, IInv, TypeOK, Numbered
  <2>3. Numbered'
    BY <1>1, <2>1, <2>2, MoveKeeps DEF hello, IInv, TypeOK
  <2>4. Budget'
    BY <1>1 DEF hello, IInv, TypeOK, Budget, Left
  <2> QED BY <2>1, <2>3, <2>4 DEF IInv
<1>2. CASE incr(v)
  <2>1. TypeOK'
    BY <1>2 DEF incr, IInv, TypeOK
  <2>2. Numbered'
    BY <1>2, <2>1, MoveKeeps DEF incr, IInv, Numbered
  <2>3. Budget'
    BY <1>2 DEF incr, IInv, TypeOK, Budget, Left
  <2> QED BY <2>1, <2>2, <2>3 DEF IInv
<1>3. CASE redis_incr(v)
  <2>1. TypeOK'
    BY <1>3 DEF redis_incr, IInv, TypeOK
  <2>2. /\ hits \in Nat /\ hits' = hits + 1 /\ base' = base
        /\ count'[v] = hits + 1
        /\ \A w \in Visit \ {v} : count'[w] = count[w]
        /\ \A w \in Visit : base[w] \in Nat /\ base[w] <= hits
    BY <1>3 DEF redis_incr, IInv, TypeOK, Numbered
  <2>3. \A w \in Answered' : w \in Visit /\ (w = v \/ w \in Answered)
    BY <1>3 DEF redis_incr, IInv, TypeOK, Answered
  <2>4. \A w \in Answered : count[w] \in Nat /\ count[w] <= hits
    BY DEF Answered, IInv, TypeOK, Numbered
  <2>5. ASSUME NEW w \in Answered'
        PROVE  base'[w] < count'[w] /\ count'[w] <= hits'
    <3>1. CASE w = v
      BY <2>2, <3>1
    <3>2. CASE w # v
      BY <2>2, <2>3, <2>4, <3>2 DEF IInv, Numbered
    <3> QED BY <3>1, <3>2
  <2>6. ASSUME NEW w \in Answered', NEW x \in Answered', count'[w] = count'[x]
        PROVE  w = x
    <3>1. CASE w # v /\ x # v
      BY <2>2, <2>3, <2>6, <3>1 DEF IInv, Numbered
    <3>2. CASE (w = v) # (x = v)
      BY <2>2, <2>3, <2>4, <2>6, <3>2
    <3> QED BY <3>1, <3>2
  <2>7. Numbered'
    BY <2>2, <2>5, <2>6 DEF Numbered
  <2>8. Budget'
    <3>1. \A w \in Visit \ {v} : /\ applied'[w] = applied[w] /\ late'[w] = late[w]
                                 /\ at'[w] = at[w] /\ retries'[w] = retries[w]
      BY <1>3 DEF redis_incr, IInv, TypeOK
    <3>2. applied'[v] + late'[v] + Left(v)' <= applied[v] + late[v] + Left(v)
      BY <1>3 DEF redis_incr, IInv, TypeOK, Left
    <3> QED BY <2>1, <3>1, <3>2, BudgetKept
  <2> QED BY <2>1, <2>7, <2>8 DEF IInv
<1>4. CASE get_hit_count_return(v)
  <2>1. TypeOK'
    BY <1>4 DEF get_hit_count_return, IInv, TypeOK
  <2>2. Answered' = Answered
    BY <1>4 DEF get_hit_count_return, IInv, TypeOK, Answered
  <2>3. Numbered'
    BY <1>4, <2>2 DEF get_hit_count_return, IInv, Numbered
  <2>4. Budget'
    <3>1. \A w \in Visit \ {v} : /\ applied'[w] = applied[w] /\ late'[w] = late[w]
                                 /\ at'[w] = at[w] /\ retries'[w] = retries[w]
      BY <1>4 DEF get_hit_count_return, IInv, TypeOK
    <3>2. applied'[v] + late'[v] + Left(v)' <= applied[v] + late[v] + Left(v)
      BY <1>4 DEF get_hit_count_return, IInv, TypeOK, Left
    <3> QED BY <2>1, <3>1, <3>2, BudgetKept
  <2> QED BY <2>1, <2>3, <2>4 DEF IInv
<1>5. CASE ConnectionError(v)
  <2>1. TypeOK'
    BY <1>5 DEF ConnectionError, IInv, TypeOK
  <2>2. Numbered'
    BY <1>5, <2>1, MoveKeeps DEF ConnectionError, IInv, Numbered
  <2>3. Budget'
    <3>1. \A w \in Visit \ {v} : /\ applied'[w] = applied[w] /\ late'[w] = late[w]
                                 /\ at'[w] = at[w] /\ retries'[w] = retries[w]
      BY <1>5 DEF ConnectionError, IInv, TypeOK
    <3>2. applied'[v] + late'[v] + Left(v)' <= applied[v] + late[v] + Left(v)
      BY <1>5 DEF ConnectionError, IInv, TypeOK, Left
    <3> QED BY <2>1, <3>1, <3>2, BudgetKept
  <2> QED BY <2>1, <2>2, <2>3 DEF IInv
<1>6. CASE time_sleep(v)
  <2>1. TypeOK'
    BY <1>6 DEF time_sleep, IInv, TypeOK
  <2>2. Numbered'
    BY <1>6, <2>1, MoveKeeps DEF time_sleep, IInv, Numbered
  <2>3. Budget'
    BY <1>6 DEF time_sleep, IInv, TypeOK, Budget, Left
  <2> QED BY <2>1, <2>2, <2>3 DEF IInv
<1>7. CASE redis_incr_late(v)
  <2>1. TypeOK'
    BY <1>7 DEF redis_incr_late, IInv, TypeOK
  <2>2. Answered' = Answered /\ Answered \subseteq Visit
    BY <1>7 DEF redis_incr_late, Answered
  <2>3. Numbered'
    BY <1>7, <2>2 DEF redis_incr_late, IInv, TypeOK, Numbered
  <2>4. Budget'
    <3>1. \A w \in Visit \ {v} : /\ applied'[w] = applied[w] /\ late'[w] = late[w]
                                 /\ at'[w] = at[w] /\ retries'[w] = retries[w]
      BY <1>7 DEF redis_incr_late, IInv, TypeOK
    <3>2. applied'[v] + late'[v] + Left(v)' <= applied[v] + late[v] + Left(v)
      BY <1>7 DEF redis_incr_late, IInv, TypeOK, Left
    <3> QED BY <2>1, <3>1, <3>2, BudgetKept
  <2> QED BY <2>1, <2>3, <2>4 DEF IInv
<1> QED BY <1>1, <1>2, <1>3, <1>4, <1>5, <1>6, <1>7 DEF get_hit_count

LEMMA AlwaysIInv == Spec => []IInv
<1>1. Init => IInv
  BY RetriesAssumption
     DEF Init, IInv, TypeOK, Place, Numbered, Answered, Budget, Left
<1>2. IInv /\ [Next]_vars => IInv'
  <2> SUFFICES ASSUME IInv, [Next]_vars PROVE IInv'
    OBVIOUS
  <2>1. CASE Next
    BY <2>1, StepInv DEF Next
  <2>2. CASE UNCHANGED vars
    BY <2>2 DEF vars, IInv, TypeOK, Numbered, Answered, Budget, Left
  <2> QED BY <2>1, <2>2
<1> QED BY <1>1, <1>2, PTL DEF Spec

\* Whatever is lost, late or asked again: visitors are shown distinct numbers,
\* larger than any shown before they came, and a visit counts at most once for
\* each of its attempts.
THEOREM CountsAreDistinct == Spec => []CountsDistinctAndGrow
<1>1. ASSUME IInv PROVE CountsDistinctAndGrow
  <2>1. \A v \in Shown : v \in Visit /\ v \in Answered
    BY DEF Shown, Answered
  <2>2. ASSUME NEW v \in Shown
        PROVE  /\ count[v] > base[v]
               /\ \A w \in Shown : count[v] = count[w] => v = w
    BY <1>1, <2>1 DEF IInv, TypeOK, Numbered
  <2>3. ASSUME NEW v \in Visit
        PROVE  applied[v] <= Retries + 1
    <3>1. applied[v] \in Nat /\ late[v] \in Nat /\ Left(v) \in Nat
      BY <1>1 DEF IInv, TypeOK, Left
    <3>2. applied[v] + late[v] + Left(v) <= Retries + 1
      BY <1>1 DEF IInv, Budget
    <3> QED BY <3>1, <3>2, RetriesAssumption
  <2> QED BY <2>2, <2>3 DEF CountsDistinctAndGrow
<1> QED BY <1>1, AlwaysIInv, PTL

=============================================================================
