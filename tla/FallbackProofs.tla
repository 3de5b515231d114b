--------------------------- MODULE FallbackProofs ---------------------------
(***************************************************************************)
(* Proofs about Fallback for every set of instances and sessions, every    *)
(* limit and divisor, and any number of outages and lost replies.          *)
(*                                                                         *)
(* The three invariants are inductive together.  CountersWithinLimits      *)
(* needs the types: acquire.lua compares with the maximum that Redis has,  *)
(* which is the one of the bucket or absent.  SlotsCovered compares a set  *)
(* of sessions with a sum over the instances: each step moves one session  *)
(* and one entry of the sum, or none.                                      *)
(***************************************************************************)
EXTENDS Fallback, Sums

(* The entries of TotalLocal.                                              *)
Locals == [i \in Instances |-> LocalCount(i)]

(* The inductive invariant.                                                *)
Inv == TypeOK /\ CountersWithinLimits /\ SlotsCovered

-----------------------------------------------------------------------------
(* Types. *)

(* The local limit is positive, whatever the divisor is configured to.     *)
LEMMA LocalLimitType == LocalLimit \in Nat \ {0}
<1> DEFINE divisor == IF LocalLimitDivisor <= 0 THEN 3 ELSE LocalLimitDivisor
<1>1. divisor \in Int /\ divisor > 0
  BY ConstantsAssumption
<1>2. MaxConnections \div divisor \in Int
  <2> HIDE DEF divisor
  <2> QED
    BY <1>1, ConstantsAssumption
<1> HIDE DEF divisor
<1>3. LocalLimit = IF MaxConnections \div divisor < 1 THEN 1
                   ELSE MaxConnections \div divisor
  BY DEF LocalLimit, divisor
<1> QED
  BY <1>2, <1>3

(* Arithmetic on values that are not variables, which the provers type.    *)
LEMMA MoveCount ==
  ASSUME NEW c \in Nat, NEW d \in Nat, NEW t \in Nat, NEW f \in Nat,
         NEW g \in Nat, c <= d + 1, g = f + 1
  PROVE  c + t + f <= d + t + g
OBVIOUS

(* Arithmetic of a step that moves one.                                    *)
LEMMA SwapCount ==
  ASSUME NEW c \in Nat, NEW d \in Nat, NEW t \in Nat, NEW f \in Nat,
         NEW g \in Nat, NEW u \in Nat, d + g = c + f, u <= c + t + f
  PROVE  u <= d + t + g
OBVIOUS

(* Arithmetic of the bounds.                                               *)
LEMMA Transitive ==
  ASSUME NEW u \in Nat, NEW c \in Nat, NEW d \in Nat, NEW t \in Nat,
         NEW f \in Nat, NEW g \in Nat,
         u <= c + t + f, c + t + f <= d + t + g
  PROVE  u <= d + t + g
OBVIOUS

(* A session runs on an instance.                                          *)
LEMMA HomeType == \A s \in Sessions : Home[s] \in Instances
BY ConstantsAssumption

(* Types at the start.                                                     *)
LEMMA InitTypeOK == Init => TypeOK
BY ConstantsAssumption DEF Init, TypeOK, Location, NoEntry

(* Types after every step.                                                 *)
LEMMA StepTypeOK == TypeOK /\ [Next]_vars => TypeOK'
<1> SUFFICES ASSUME TypeOK, [Next]_vars PROVE TypeOK'
  OBVIOUS
<1> USE ConstantsAssumption, HomeType
    DEF TypeOK, redisVars, exitVars, history, GoTo, EnterFallback, NoEntry
<1>l. {"idle", "want", "eval", "local", "holding", "reval", "rlocal"} = Location
  BY DEF Location
<1>1. ASSUME NEW s \in Sessions,
             Connect(s) \/ GiveUp(s) \/ BeginAcquire(s) \/ BeginRelease(s)
      PROVE  TypeOK'
  BY <1>l, <1>1 DEF Connect, GiveUp, BeginAcquire, BeginRelease
<1>2. ASSUME NEW s \in Sessions,
             EvalAcquire(s) \/ EvalAcquireFails(s) \/ AcquireReplyLost(s)
      PROVE  TypeOK'
  <2>1. CASE EvalAcquire(s)
    BY <1>l, <2>1 DEF EvalAcquire, IncrCount
  <2>2. CASE EvalAcquireFails(s)
    BY <1>l, <2>2 DEF EvalAcquireFails
  <2>3. CASE AcquireReplyLost(s)
    <3>1. lost' \in 0 .. MaxLost
      BY <2>3 DEF AcquireReplyLost
    <3>2. count' \in Nat /\ conns' \in [Instances -> Nat]
      BY <2>3 DEF AcquireReplyLost, IncrCount
    <3>3. mode' \in [Instances -> BOOLEAN] /\ pc' \in [Sessions -> Location]
      BY <1>l, <2>3 DEF AcquireReplyLost
    <3> QED
      BY <2>3, <3>1, <3>2, <3>3 DEF AcquireReplyLost
  <2> QED
    BY <1>2, <2>1, <2>2, <2>3
<1>3. ASSUME NEW s \in Sessions, AcquireFallback(s) PROVE TypeOK'
  BY <1>l, <1>3 DEF AcquireFallback, LocalCount
<1>4. ASSUME NEW s \in Sessions,
             EvalRelease(s) \/ EvalReleaseFails(s) \/ ReleaseReplyLost(s)
      PROVE  TypeOK'
  <2>1. ASSUME DecrCount(Home[s])
        PROVE  count' \in Nat /\ conns' \in [Instances -> Nat]
    BY <2>1 DEF DecrCount
  <2>2. CASE EvalRelease(s)
    BY <1>l, <2>1, <2>2 DEF EvalRelease
  <2>3. CASE EvalReleaseFails(s)
    BY <1>l, <2>3 DEF EvalReleaseFails
  <2>4. CASE ReleaseReplyLost(s)
    <3>1. lost' \in 0 .. MaxLost /\ forgotten' \in Nat
      BY <2>4 DEF ReleaseReplyLost
    <3>2. count' \in Nat /\ conns' \in [Instances -> Nat]
      BY <2>1, <2>4 DEF ReleaseReplyLost
    <3>3. mode' \in [Instances -> BOOLEAN] /\ pc' \in [Sessions -> Location]
      BY <1>l, <2>4 DEF ReleaseReplyLost
    <3> QED
      BY <2>4, <3>1, <3>2, <3>3 DEF ReleaseReplyLost
  <2> QED
    BY <1>4, <2>2, <2>3, <2>4
<1>5. ASSUME NEW s \in Sessions, ReleaseFallback(s) PROVE TypeOK'
  BY <1>l, <1>5 DEF ReleaseFallback
<1>6. ASSUME NEW i \in Instances, ExitStep(i) PROVE TypeOK'
  <2>1. CASE PingAndLoadScripts(i)
    BY <2>1 DEF PingAndLoadScripts
  <2>2. CASE CopyCounts(i)
    BY <2>2 DEF CopyCounts
  <2>3. CASE WriteCounts(i)
    BY <2>3 DEF WriteCounts
  <2>4. CASE LeaveFallback(i)
    BY <2>4 DEF LeaveFallback
  <2> QED
    BY <1>6, <2>1, <2>2, <2>3, <2>4 DEF ExitStep
<1>7. ASSUME NEW i \in Instances, CancelContext(i) PROVE TypeOK'
  BY <1>7 DEF CancelContext
<1>8. CASE RedisFails
  <2>1. outages' \in 0 .. MaxOutages
    BY <1>8 DEF RedisFails
  <2> QED
    BY <1>8, <2>1 DEF RedisFails
<1>9. CASE RedisReturns
  <2>1. /\ scripts' \in BOOLEAN /\ count' \in Nat /\ forgotten' \in Nat
        /\ max' \in {0, MaxConnections} /\ conns' \in [Instances -> Nat]
    <3>1. CASE UNCHANGED <<count, max, conns, forgotten>> /\ scripts' \in BOOLEAN
      BY <3>1
    <3>2. CASE /\ scripts' = FALSE
               /\ count' = 0 /\ max' = 0
               /\ conns' = [i \in Instances |-> 0]
               /\ forgotten' = forgotten + count
      <4>1. scripts' \in BOOLEAN /\ max' \in {0, MaxConnections}
        BY <3>2
      <4>2. count' \in Nat /\ forgotten' \in Nat
        BY <3>2
      <4>3. conns' \in [Instances -> Nat]
        BY <3>2
      <4> QED
        BY <4>1, <4>2, <4>3
    <3> QED
      BY <1>9, <3>1, <3>2 DEF RedisReturns
  <2> QED
    BY <1>9, <2>1 DEF RedisReturns
<1>10. CASE UNCHANGED vars
  BY <1>10 DEF vars
<1> QED
  BY <1>1, <1>2, <1>3, <1>4, <1>5, <1>6, <1>7, <1>8, <1>9, <1>10
  DEF Next, AcquireStep, ReleaseStep

(* Every reachable state is well typed: no counter of Redis and no counter *)
(* of an instance becomes negative, whatever release runs twice.           *)
THEOREM FallbackTypeCorrect == Spec => []TypeOK
BY InitTypeOK, StepTypeOK, PTL DEF Spec

-----------------------------------------------------------------------------
(* How a step changes the sum of the local counts and the set of sessions  *)
(* that still have a slot to give back.                                    *)

(* The places of a session that has a slot or may have one.                *)
Occupying == {"holding", "reval", "rlocal"}

(* The total is a sum of natural numbers.                                  *)
LEMMA LocalsType ==
  ASSUME TypeOK
  PROVE  /\ Locals \in [Instances -> Nat]
         /\ TotalLocal = Sum(Locals, Instances) /\ TotalLocal \in Nat
<1>1. Locals \in [Instances -> Nat]
  BY DEF TypeOK, Locals, LocalCount, NoEntry
<1>2. TotalLocal = Sum(Locals, Instances)
  BY DEF TotalLocal, Sum, Locals
<1>3. \A i \in Instances : Locals[i] \in Nat
  BY <1>1
<1>4. Sum(Locals, Instances) \in Nat
  BY <1>3, ConstantsAssumption, SumNatural
<1> QED
  BY <1>1, <1>2, <1>4

(* The total depends on the local counts alone.                            *)
LEMMA LocalsKept == ASSUME local' = local PROVE TotalLocal' = TotalLocal
BY DEF TotalLocal, FoldFunctionOnSet, MapThenFoldSet, LocalCount

(* What one count changes, the total changes.                              *)
LEMMA OneLocalChanged ==
  ASSUME TypeOK, TypeOK', NEW i \in Instances, NEW n \in Nat,
         local' = [local EXCEPT ![i] = n]
  PROVE  TotalLocal' = TotalLocal - LocalCount(i) + n
<1>1. Locals \in [Instances -> Nat] /\ Locals' \in [Instances -> Nat]
  BY LocalsType DEF TypeOK, Locals, LocalCount, NoEntry
<1>2. TotalLocal = Sum(Locals, Instances) /\ TotalLocal' = Sum(Locals', Instances)
  BY DEF TotalLocal, Sum, Locals, FoldFunctionOnSet, MapThenFoldSet
<1>3. \A j \in Instances \ {i} : Locals'[j] = Locals[j]
  BY DEF TypeOK, Locals, LocalCount
<1>4. Locals[i] = LocalCount(i) /\ Locals'[i] = n
  BY DEF TypeOK, Locals, LocalCount, NoEntry
<1>5. \A j \in Instances : Locals[j] \in Int /\ Locals'[j] \in Int
  BY <1>1
<1>6. Sum(Locals', Instances) = Sum(Locals, Instances) - Locals[i] + Locals'[i]
  BY <1>3, <1>5, ConstantsAssumption, SumChanged
<1> QED
  BY <1>2, <1>4, <1>6

(* The sessions can be counted.                                            *)
LEMMA UnreleasedFinite ==
  IsFiniteSet(Unreleased) /\ Cardinality(Unreleased) \in Nat
<1>1. Unreleased \in SUBSET Sessions
  BY DEF Unreleased
<1> QED
  BY <1>1, ConstantsAssumption, FS_Subset, FS_CardinalityType

(* A session moves without taking or giving up a slot.                     *)
LEMMA UnreleasedKept ==
  ASSUME TypeOK, NEW s \in Sessions, NEW l, GoTo(s, l),
         pc[s] \in Occupying <=> l \in Occupying
  PROVE  Unreleased' = Unreleased
BY DEF TypeOK, GoTo, Unreleased, Occupying

(* A session takes a slot.                                                 *)
LEMMA UnreleasedAdded ==
  ASSUME TypeOK, NEW s \in Sessions, NEW l, GoTo(s, l),
         pc[s] \notin Occupying, l \in Occupying
  PROVE  Cardinality(Unreleased') = Cardinality(Unreleased) + 1
<1>1. Unreleased' = Unreleased \union {s} /\ s \notin Unreleased
  BY DEF TypeOK, GoTo, Unreleased, Occupying
<1> QED
  BY <1>1, UnreleasedFinite, FS_AddElement

(* A session gives its slot up.                                            *)
LEMMA UnreleasedRemoved ==
  ASSUME TypeOK, NEW s \in Sessions, NEW l, GoTo(s, l),
         pc[s] \in Occupying, l \notin Occupying
  PROVE  Cardinality(Unreleased') = Cardinality(Unreleased) - 1
<1>1. Unreleased' = Unreleased \ {s} /\ s \in Unreleased
  BY DEF TypeOK, GoTo, Unreleased, Occupying
<1> QED
  BY <1>1, UnreleasedFinite, FS_RemoveElement

-----------------------------------------------------------------------------
(* The three invariants together. *)

(* The start.                                                              *)
LEMMA InitInv == Init => Inv
<1> SUFFICES ASSUME Init PROVE Inv
  OBVIOUS
<1>1. TypeOK
  BY InitTypeOK
<1>2. CountersWithinLimits
  BY LocalLimitType, ConstantsAssumption
  DEF Init, CountersWithinLimits, LocalCount, NoEntry
<1>3. Cardinality(Unreleased) = 0
  <2>1. Unreleased = {}
    BY DEF Init, Unreleased
  <2> QED
    BY <2>1, FS_EmptySet
<1>4. TotalLocal \in Nat
  BY <1>1, LocalsType
<1>5. SlotsCovered
  BY <1>3, <1>4 DEF Init, SlotsCovered
<1> QED
  BY <1>1, <1>2, <1>5 DEF Inv

(* A step that leaves the counters and the set of sessions with a slot.    *)
LEMMA QuietStep ==
  ASSUME Inv, TypeOK', count' = count, local' = local,
         forgotten' = forgotten, Unreleased' = Unreleased
  PROVE  Inv'
<1>1. CountersWithinLimits'
  BY DEF Inv, CountersWithinLimits, LocalCount
<1>2. SlotsCovered'
  BY LocalsKept DEF Inv, SlotsCovered
<1> QED
  BY <1>1, <1>2 DEF Inv

(* The steps of Acquire.                                                   *)
LEMMA AcquireInv ==
  ASSUME Inv, TypeOK', NEW s \in Sessions,
         \/ EvalAcquire(s) \/ EvalAcquireFails(s) \/ AcquireReplyLost(s)
         \/ AcquireFallback(s)
  PROVE  Inv'
<1> USE DEF Inv
<1>t. /\ TypeOK /\ count \in Nat /\ forgotten \in Nat /\ Home[s] \in Instances
      /\ TotalLocal \in Nat /\ Cardinality(Unreleased) \in Nat
  BY LocalsType, HomeType, UnreleasedFinite DEF TypeOK
<1>1. ASSUME HasRoom, IncrCount(Home[s]), local' = local PROVE CountersWithinLimits'
  <2>1. count' <= MaxConnections
    BY <1>t, <1>1, ConstantsAssumption DEF TypeOK, HasRoom, IncrCount
  <2> QED
    BY <1>1, <2>1 DEF CountersWithinLimits, LocalCount
<1>2. CASE EvalAcquire(s)
  <2>1. CASE HasRoom /\ IncrCount(Home[s]) /\ GoTo(s, "holding")
    <3>1. Cardinality(Unreleased') = Cardinality(Unreleased) + 1
      BY <1>2, <2>1, UnreleasedAdded DEF EvalAcquire, Occupying
    <3>2. TotalLocal' = TotalLocal
      BY <1>2, LocalsKept DEF EvalAcquire
    <3>3. count' = count + 1 /\ forgotten' = forgotten
      BY <1>2, <2>1 DEF EvalAcquire, IncrCount, history
    <3>4. SlotsCovered'
      BY <1>t, <3>1, <3>2, <3>3 DEF SlotsCovered
    <3> QED
      BY <1>1, <1>2, <2>1, <3>4 DEF EvalAcquire
  <2>2. CASE ~HasRoom /\ UNCHANGED <<count, conns>> /\ GoTo(s, "want")
    <3>1. Unreleased' = Unreleased
      BY <1>2, <2>2, UnreleasedKept DEF EvalAcquire, Occupying
    <3> QED
      BY <1>2, <2>2, <3>1, QuietStep DEF EvalAcquire, history
  <2> QED
    BY <1>2, <2>1, <2>2 DEF EvalAcquire
<1>3. CASE EvalAcquireFails(s)
  <2>1. Unreleased' = Unreleased
    BY <1>3, UnreleasedKept DEF EvalAcquireFails, Occupying
  <2> QED
    BY <1>3, <2>1, QuietStep DEF EvalAcquireFails, redisVars, history
<1>4. CASE AcquireReplyLost(s)
  <2>1. Unreleased' = Unreleased
    <3>1. CASE UNCHANGED pc
      BY <3>1 DEF Unreleased
    <3>2. CASE GoTo(s, "local")
      BY <1>4, <3>2, UnreleasedKept DEF AcquireReplyLost, Occupying
    <3> QED
      BY <1>4, <3>1, <3>2 DEF AcquireReplyLost
  <2>2. TotalLocal' = TotalLocal
    BY <1>4, LocalsKept DEF AcquireReplyLost
  <2>3. count' = count + 1 /\ forgotten' = forgotten
    BY <1>4 DEF AcquireReplyLost, IncrCount
  <2>4. SlotsCovered'
    BY <1>t, <2>1, <2>2, <2>3 DEF SlotsCovered
  <2> QED
    BY <1>1, <1>4, <2>4 DEF AcquireReplyLost
<1>5. CASE AcquireFallback(s)
  <2>1. CASE LocalCount(Home[s]) >= LocalLimit
    <3>1. Unreleased' = Unreleased
      BY <1>5, <2>1, UnreleasedKept DEF AcquireFallback, Occupying
    <3> QED
      BY <1>5, <2>1, <3>1, QuietStep DEF AcquireFallback, redisVars, history
  <2>2. CASE ~ (LocalCount(Home[s]) >= LocalLimit)
    <3> DEFINE n == LocalCount(Home[s]) + 1
    <3>1. /\ GoTo(s, "holding") /\ pc[s] = "local"
          /\ local' = [local EXCEPT ![Home[s]] = n]
          /\ count' = count /\ forgotten' = forgotten
      BY <1>5, <2>2 DEF AcquireFallback, redisVars, history
    <3>2. LocalCount(Home[s]) \in Nat /\ n \in Nat /\ n <= LocalLimit
      BY <1>t, <2>2, LocalLimitType DEF TypeOK, LocalCount, NoEntry
    <3>3. Cardinality(Unreleased') = Cardinality(Unreleased) + 1
      BY <1>t, <3>1, UnreleasedAdded DEF Occupying
    <3>4. TotalLocal' = TotalLocal + 1
      <4>1. TotalLocal' = TotalLocal - LocalCount(Home[s]) + n
        BY <1>t, <3>1, <3>2, OneLocalChanged
      <4> QED
        BY <1>t, <3>2, <4>1
    <3>5. SlotsCovered'
      BY <1>t, <3>1, <3>3, <3>4 DEF SlotsCovered
    <3>6. CountersWithinLimits'
      <4>1. ASSUME NEW i \in Instances PROVE LocalCount(i)' <= LocalLimit
        <5> HIDE DEF n
        <5>1. CASE i = Home[s]
          BY <1>t, <3>1, <3>2, <5>1 DEF TypeOK, LocalCount, NoEntry
        <5>2. CASE i # Home[s]
          BY <1>t, <3>1, <5>2 DEF TypeOK, CountersWithinLimits, LocalCount
        <5> QED
          BY <5>1, <5>2
      <4> QED
        BY <3>1, <4>1 DEF CountersWithinLimits
    <3> QED
      BY <3>5, <3>6
  <2> QED
    BY <2>1, <2>2
<1> QED
  BY <1>2, <1>3, <1>4, <1>5

(* The steps of Release.                                                   *)
LEMMA ReleaseInv ==
  ASSUME Inv, TypeOK', NEW s \in Sessions,
         \/ EvalRelease(s) \/ EvalReleaseFails(s) \/ ReleaseReplyLost(s)
         \/ ReleaseFallback(s)
  PROVE  Inv'
<1> USE DEF Inv
<1>t. /\ TypeOK /\ count \in Nat /\ forgotten \in Nat /\ Home[s] \in Instances
      /\ TotalLocal \in Nat /\ Cardinality(Unreleased) \in Nat
  BY LocalsType, HomeType, UnreleasedFinite DEF TypeOK
<1>1. ASSUME DecrCount(Home[s])
      PROVE  count' \in Nat /\ count' <= count /\ count <= count' + 1
  BY <1>t, <1>1 DEF DecrCount
<1>2. ASSUME DecrCount(Home[s]), local' = local PROVE CountersWithinLimits'
  <2>1. count' <= MaxConnections
    BY <1>t, <1>1, <1>2, ConstantsAssumption DEF CountersWithinLimits
  <2> QED
    BY <1>2, <2>1 DEF CountersWithinLimits, LocalCount
<1>3. CASE EvalRelease(s)
  <2>1. Cardinality(Unreleased') = Cardinality(Unreleased) - 1
    BY <1>3, UnreleasedRemoved DEF EvalRelease, Occupying
  <2>2. TotalLocal' = TotalLocal /\ forgotten' = forgotten
    BY <1>3, LocalsKept DEF EvalRelease, history
  <2>3. CASE count > 0
    <3>1. count' = count - 1
      BY <1>t, <1>3, <2>3 DEF EvalRelease, DecrCount
    <3>2. SlotsCovered'
      BY <1>t, <2>1, <2>2, <3>1 DEF SlotsCovered
    <3> QED
      BY <1>2, <1>3, <3>2 DEF EvalRelease
  <2>4. CASE count = 0
    <3>1. count' = count
      BY <1>3, <2>4 DEF EvalRelease, DecrCount
    <3>2. SlotsCovered'
      BY <1>t, <2>1, <2>2, <3>1 DEF SlotsCovered
    <3> QED
      BY <1>2, <1>3, <3>2 DEF EvalRelease
  <2> QED
    BY <1>t, <2>3, <2>4
<1>4. CASE EvalReleaseFails(s)
  <2>1. Unreleased' = Unreleased
    BY <1>4, UnreleasedKept DEF EvalReleaseFails, Occupying
  <2> QED
    BY <1>4, <2>1, QuietStep DEF EvalReleaseFails, redisVars, history
<1>5. CASE ReleaseReplyLost(s)
  <2>1. Unreleased' = Unreleased
    <3>1. CASE UNCHANGED pc
      BY <3>1 DEF Unreleased
    <3>2. CASE GoTo(s, "rlocal")
      BY <1>5, <3>2, UnreleasedKept DEF ReleaseReplyLost, Occupying
    <3> QED
      BY <1>5, <3>1, <3>2 DEF ReleaseReplyLost
  <2>2. TotalLocal' = TotalLocal
    BY <1>5, LocalsKept DEF ReleaseReplyLost
  <2>3. /\ count' \in Nat /\ count <= count' + 1
        /\ forgotten' = forgotten + 1
    BY <1>1, <1>5 DEF ReleaseReplyLost
  <2>4. /\ Cardinality(Unreleased)' = Cardinality(Unreleased)
        /\ TotalLocal' \in Nat /\ forgotten' \in Nat
    BY <1>t, <2>1, <2>2, <2>3
  <2>5. SlotsCovered'
    <3>1. count + TotalLocal + forgotten <= count' + TotalLocal + forgotten'
      BY <1>t, <2>3, <2>4, MoveCount
    <3>2. Cardinality(Unreleased) <= count + TotalLocal + forgotten
      BY DEF SlotsCovered
    <3>3. Cardinality(Unreleased) <= count' + TotalLocal + forgotten'
      BY <1>t, <2>3, <2>4, <3>1, <3>2, Transitive
    <3> QED
      BY <2>2, <2>4, <3>3 DEF SlotsCovered
  <2> QED
    BY <1>2, <1>5, <2>5 DEF ReleaseReplyLost
<1>6. CASE ReleaseFallback(s)
  <2>1. Cardinality(Unreleased') = Cardinality(Unreleased) - 1
    BY <1>6, UnreleasedRemoved DEF ReleaseFallback, Occupying
  <2>2. count' = count /\ forgotten' = forgotten
    BY <1>6 DEF ReleaseFallback, redisVars, history
  <2>3. CASE local[Home[s]] > 0
    <3>1. /\ local' = [local EXCEPT ![Home[s]] = local[Home[s]] - 1]
          /\ LocalCount(Home[s]) = local[Home[s]]
          /\ local[Home[s]] \in Nat /\ local[Home[s]] - 1 \in Nat
      <4>1. local[Home[s]] \in Nat /\ local[Home[s]] # NoEntry
        BY <1>t, <2>3 DEF TypeOK, NoEntry
      <4>2. local' = [local EXCEPT ![Home[s]] = local[Home[s]] - 1]
        BY <1>6, <2>3 DEF ReleaseFallback
      <4> QED
        BY <2>3, <4>1, <4>2 DEF LocalCount
    <3>2. TotalLocal' = TotalLocal - 1
      <4>1. TotalLocal' = TotalLocal - LocalCount(Home[s]) + (local[Home[s]] - 1)
        BY <1>t, <3>1, OneLocalChanged
      <4> QED
        BY <1>t, <3>1, <4>1
    <3>3. SlotsCovered'
      BY <1>t, <2>1, <2>2, <3>2 DEF SlotsCovered
    <3>4. \A i \in Instances : LocalCount(i)' <= LocalLimit
      BY <1>t, <3>1, LocalLimitType
      DEF TypeOK, CountersWithinLimits, LocalCount, NoEntry
    <3> QED
      BY <2>2, <3>3, <3>4 DEF CountersWithinLimits
  <2>4. CASE ~ (local[Home[s]] > 0)
    <3>1. local' = local
      BY <1>t, <1>6, <2>4 DEF ReleaseFallback, TypeOK
    <3>2. SlotsCovered'
      BY <1>t, <2>1, <2>2, <3>1, LocalsKept DEF SlotsCovered
    <3>3. CountersWithinLimits'
      BY <2>2, <3>1 DEF CountersWithinLimits, LocalCount
    <3> QED
      BY <3>2, <3>3
  <2> QED
    BY <2>3, <2>4
<1> QED
  BY <1>3, <1>4, <1>5, <1>6

(* Every step.                                                             *)
LEMMA StepInv == Inv /\ [Next]_vars => Inv'
<1> SUFFICES ASSUME Inv, [Next]_vars PROVE Inv'
  OBVIOUS
<1>t. TypeOK /\ TypeOK'
  BY StepTypeOK DEF Inv
<1>1. ASSUME NEW s \in Sessions,
             Connect(s) \/ GiveUp(s) \/ BeginAcquire(s) \/ BeginRelease(s)
      PROVE  Inv'
  <2>1. Unreleased' = Unreleased
    BY <1>t, <1>1, UnreleasedKept
    DEF Connect, GiveUp, BeginAcquire, BeginRelease, Occupying
  <2> QED
    BY <1>t, <1>1, <2>1, QuietStep
    DEF Connect, GiveUp, BeginAcquire, BeginRelease, redisVars, history
<1>2. ASSUME NEW s \in Sessions,
             \/ EvalAcquire(s) \/ EvalAcquireFails(s) \/ AcquireReplyLost(s)
             \/ AcquireFallback(s)
      PROVE  Inv'
  BY <1>t, <1>2, AcquireInv
<1>3. ASSUME NEW s \in Sessions,
             \/ EvalRelease(s) \/ EvalReleaseFails(s) \/ ReleaseReplyLost(s)
             \/ ReleaseFallback(s)
      PROVE  Inv'
  BY <1>t, <1>3, ReleaseInv
<1>4. ASSUME NEW i \in Instances, ExitStep(i) \/ CancelContext(i) PROVE Inv'
  <2>1. /\ count' = count /\ local' = local /\ forgotten' = forgotten
        /\ pc' = pc
    BY <1>4 DEF ExitStep, PingAndLoadScripts, CopyCounts, WriteCounts,
       LeaveFallback, CancelContext, redisVars, history
  <2> QED
    BY <1>t, <2>1, QuietStep DEF Unreleased
<1>5. CASE RedisFails
  BY <1>t, <1>5, QuietStep DEF RedisFails, Unreleased
<1>6. CASE RedisReturns
  <2>1. /\ local' = local /\ pc' = pc
        /\ count' \in Nat /\ count' <= count
        /\ count' + forgotten' = count + forgotten /\ forgotten' \in Nat
    <3>1. CASE UNCHANGED <<count, forgotten>>
      BY <1>t, <1>6, <3>1 DEF RedisReturns, TypeOK
    <3>2. CASE count' = 0 /\ forgotten' = forgotten + count
      BY <1>t, <1>6, <3>2 DEF RedisReturns, TypeOK
    <3> QED
      BY <1>6, <3>1, <3>2 DEF RedisReturns
  <2>2. CountersWithinLimits'
    <3>1. count' <= MaxConnections
      BY <1>t, <2>1, ConstantsAssumption DEF Inv, CountersWithinLimits, TypeOK
    <3> QED
      BY <2>1, <3>1 DEF Inv, CountersWithinLimits, LocalCount
  <2>3. SlotsCovered'
    <3>1. /\ Unreleased' = Unreleased /\ Cardinality(Unreleased) \in Nat
          /\ TotalLocal' = TotalLocal /\ TotalLocal \in Nat
      BY <1>t, <2>1, LocalsKept, LocalsType, UnreleasedFinite DEF Unreleased
    <3>2. count \in Nat /\ forgotten \in Nat
      BY <1>t DEF TypeOK
    <3>3. /\ count' \in Nat /\ forgotten' \in Nat
          /\ count' + forgotten' = count + forgotten
      BY <2>1
    <3>4. Cardinality(Unreleased) <= count + TotalLocal + forgotten
      BY DEF Inv, SlotsCovered
    <3>5. Cardinality(Unreleased) <= count' + TotalLocal + forgotten'
      BY <3>1, <3>2, <3>3, <3>4, SwapCount
    <3> QED
      BY <3>1, <3>5 DEF SlotsCovered
  <2> QED
    BY <1>t, <2>2, <2>3 DEF Inv
<1>7. CASE UNCHANGED vars
  BY <1>t, <1>7, QuietStep DEF vars, redisVars, history, Unreleased
<1> QED
  BY <1>1, <1>2, <1>3, <1>4, <1>5, <1>6, <1>7
  DEF Next, AcquireStep, ReleaseStep

(* The invariant holds always.                                             *)
LEMMA FallbackInvariant == Spec => []Inv
BY InitInv, StepInv, PTL DEF Spec

(* Neither counter exceeds its limit, whatever is taken in one and given   *)
(* back in the other, repeated or lost.                                    *)
THEOREM LimitsPerCounter == Spec => []CountersWithinLimits
<1>1. Inv => CountersWithinLimits
  BY DEF Inv
<1> QED
  BY <1>1, FallbackInvariant, PTL

(* Every slot that is not given back yet is in some counter, except for    *)
(* the releases that ran twice and the counts that Redis lost.             *)
THEOREM SlotsAreCovered == Spec => []SlotsCovered
<1>1. Inv => SlotsCovered
  BY DEF Inv
<1> QED
  BY <1>1, FallbackInvariant, PTL

(* What the backend may see across outages: the limit of the bucket, plus  *)
(* the local limit of every instance, plus what was released twice or lost *)
(* with the data of Redis.  It is the bound the operator of a proxy can    *)
(* rely on in place of max_connections.                                    *)
BackendBounded ==
    Cardinality(Active) <=
        MaxConnections + Cardinality(Instances) * LocalLimit + forgotten

(* The bound holds: what Redis and the instances count is within their     *)
(* limits, and every session with a connection is in a count.              *)
THEOREM BackendIsBounded == Spec => []BackendBounded
<1>1. ASSUME Inv PROVE BackendBounded
  <2>1. /\ count \in Nat /\ forgotten \in Nat /\ TotalLocal \in Nat
        /\ Cardinality(Unreleased) \in Nat /\ MaxConnections \in Nat
        /\ count <= MaxConnections
        /\ Cardinality(Unreleased) <= count + TotalLocal + forgotten
    BY <1>1, LocalsType, UnreleasedFinite, ConstantsAssumption
    DEF Inv, TypeOK, CountersWithinLimits, SlotsCovered
  <2>2. TotalLocal <= Cardinality(Instances) * LocalLimit
    <3>1. \A i \in Instances : Locals[i] \in Int /\ Locals[i] <= LocalLimit
      BY <1>1, LocalsType DEF Inv, CountersWithinLimits, Locals
    <3>2. LocalLimit \in Int /\ IsFiniteSet(Instances)
      BY LocalLimitType, ConstantsAssumption
    <3> QED
      BY <1>1, <3>1, <3>2, SumBounded, LocalsType DEF Inv
  <2>3. Cardinality(Instances) * LocalLimit \in Nat
    BY LocalLimitType, ConstantsAssumption, FS_CardinalityType
  <2>4. /\ Cardinality(Active) \in Nat
        /\ Cardinality(Active) <= Cardinality(Unreleased)
    <3>1. Active \in SUBSET Unreleased
      BY DEF Active, Unreleased
    <3> QED
      BY <3>1, UnreleasedFinite, FS_Subset, FS_CardinalityType
  <2> HIDE DEF Inv
  <2>5. Cardinality(Active) <=
            MaxConnections + Cardinality(Instances) * LocalLimit + forgotten
    BY <2>1, <2>2, <2>3, <2>4
  <2> QED
    BY <2>5 DEF BackendBounded
<1> QED
  BY <1>1, FallbackInvariant, PTL
=============================================================================
