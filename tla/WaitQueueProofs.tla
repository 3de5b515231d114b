-------------------------- MODULE WaitQueueProofs --------------------------
(***************************************************************************)
(* Proofs about WaitQueue for every set of instances, every finite set of  *)
(* sessions, every limit and every queue size.                             *)
(*                                                                         *)
(* The slot invariant is TypeOK /\ SlotAccounting /\ LimitRespected: the   *)
(* limit follows from the exact accounting, because acquire.lua tests the  *)
(* counter and not the sessions, and the accounting needs the types.       *)
(***************************************************************************)
EXTENDS WaitQueue, FiniteSetTheorems, TLAPS

Holding == {"won", "holding"}

SlotInv == TypeOK /\ SlotAccounting /\ LimitRespected

-----------------------------------------------------------------------------
(* Types. *)

LEMMA InitTypeOK == Init => TypeOK
BY ConstantsAssumption DEF Init, TypeOK, Location, Ended

LEMMA AttemptTypeOK ==
  ASSUME TypeOK, NEW s \in Sessions,
         NEW success \in Location, NEW failure \in Location,
         Attempt(s, success, failure)
  PROVE  /\ count' \in Nat
         /\ conns' \in [Instances -> Nat]
         /\ pc' \in [Sessions -> Location]
<1>1. Home[s] \in Instances
  BY ConstantsAssumption
<1>2. CASE TakeSlot(s) /\ GoTo(s, success)
  BY <1>1, <1>2 DEF TypeOK, TakeSlot, GoTo
<1>3. CASE Refused(s) /\ GoTo(s, failure)
  BY <1>1, <1>3 DEF TypeOK, Refused, GoTo
<1> QED
  BY <1>2, <1>3 DEF Attempt

LEMMA StepTypeOK == TypeOK /\ [Next]_vars => TypeOK'
<1> SUFFICES ASSUME TypeOK, [Next]_vars PROVE TypeOK'
  OBVIOUS
<1> USE ConstantsAssumption DEF TypeOK
<1>a. /\ {"holding", "breaker", "rejected", "enqueue"} \subseteq Location
      /\ {"wait", "subscribe", "select", "won", "lost"} \subseteq Location
      /\ {"try", "timedout", "cancelled", "done"} \subseteq Location
  BY DEF Location, Queued, Ended
<1>1. ASSUME NEW s \in Sessions, SessionStep(s) PROVE TypeOK'
  <2>h. Home[s] \in Instances
    OBVIOUS
  <2>1. CASE Connect(s)
    BY <1>a, <2>1 DEF Connect, GoTo
  <2>2. CASE TryAcquire(s)
    BY <1>a, <2>2, AttemptTypeOK DEF TryAcquire
  <2>3. CASE CheckBreaker(s)
    BY <1>a, <2>3 DEF CheckBreaker, GoTo
  <2>4. CASE IncrementDepth(s)
    BY <1>a, <2>h, <2>4 DEF IncrementDepth, GoTo
  <2>5. CASE WaitFastPath(s)
    BY <1>a, <2>5, AttemptTypeOK DEF WaitFastPath
  <2>6. CASE Subscribe(s)
    BY <1>a, <2>6 DEF Subscribe, GoTo
  <2>7. CASE OnNotify(s)
    <3>1. notify' \in [Sessions -> 0 .. ChanCap]
      BY <2>7 DEF OnNotify
    <3> QED
      BY <1>a, <2>7, <3>1, AttemptTypeOK DEF OnNotify
  <2>8. CASE OnPoll(s)
    BY <1>a, <2>8, AttemptTypeOK DEF OnPoll
  <2>9. CASE OnTimer(s)
    BY <1>a, <2>9 DEF OnTimer, GoTo
  <2>10. CASE OnCancel(s)
    BY <1>a, <2>10 DEF OnCancel, GoTo
  <2>11. CASE LeaveQueue(s)
    BY <1>a, <2>h, <2>11 DEF LeaveQueue, GoTo
  <2>12. CASE Release(s)
    BY <1>a, <2>h, <2>12 DEF Release, GoTo, Publish
  <2>13. CASE Forward(s)
    BY <2>13 DEF Forward
  <2>14. CASE LoseMessage(s)
    BY <2>14 DEF LoseMessage
  <2> QED
    BY <1>1, <2>1, <2>2, <2>3, <2>4, <2>5, <2>6, <2>7, <2>8, <2>9, <2>10,
       <2>11, <2>12, <2>13, <2>14 DEF SessionStep, Advance
<1>2. ASSUME NEW i \in Instances, CancelContext(i) PROVE TypeOK'
  BY <1>2 DEF CancelContext
<1>3. CASE UNCHANGED vars
  BY <1>3 DEF vars
<1> QED
  BY <1>1, <1>2, <1>3 DEF Next

(* Every reachable state of the queue is well typed; in particular neither *)
(* the Redis counters nor the queue depths ever become negative.           *)
THEOREM TypeCorrect == Spec => []TypeOK
BY InitTypeOK, StepTypeOK, PTL DEF Spec

-----------------------------------------------------------------------------
(* How a move of one goroutine changes the sets the counters stand for.    *)

LEMMA SetsFinite ==
  /\ IsFiniteSet(Holders)
  /\ \A i \in Instances : IsFiniteSet(HoldersOf(i)) /\ IsFiniteSet(QueueOf(i))
<1>1. Holders \in SUBSET Sessions
  BY DEF Holders
<1>2. \A i \in Instances : HoldersOf(i) \in SUBSET Sessions
  BY DEF HoldersOf, Holders
<1>3. \A i \in Instances : QueueOf(i) \in SUBSET Sessions
  BY DEF QueueOf
<1> QED
  BY <1>1, <1>2, <1>3, SessionsAssumption, FS_Subset

LEMMA HoldersKept ==
  ASSUME TypeOK, NEW s \in Sessions, NEW l, GoTo(s, l),
         pc[s] \in Holding <=> l \in Holding
  PROVE  /\ Holders' = Holders
         /\ \A i \in Instances : HoldersOf(i)' = HoldersOf(i)
BY DEF TypeOK, GoTo, Holders, HoldersOf, Holding

LEMMA HolderAdded ==
  ASSUME TypeOK, NEW s \in Sessions, NEW l, GoTo(s, l),
         pc[s] \notin Holding, l \in Holding
  PROVE  /\ s \notin Holders
         /\ Holders' = Holders \union {s}
         /\ \A i \in Instances :
              HoldersOf(i)' = IF i = Home[s] THEN HoldersOf(i) \union {s}
                                             ELSE HoldersOf(i)
BY DEF TypeOK, GoTo, Holders, HoldersOf, Holding

LEMMA HolderRemoved ==
  ASSUME TypeOK, NEW s \in Sessions, NEW l, GoTo(s, l),
         pc[s] \in Holding, l \notin Holding
  PROVE  /\ s \in Holders
         /\ Holders' = Holders \ {s}
         /\ \A i \in Instances :
              HoldersOf(i)' = IF i = Home[s] THEN HoldersOf(i) \ {s}
                                             ELSE HoldersOf(i)
BY DEF TypeOK, GoTo, Holders, HoldersOf, Holding

-----------------------------------------------------------------------------
(* Slots. *)

LEMMA InitSlotInv == Init => SlotInv
<1> SUFFICES ASSUME Init PROVE SlotInv
  OBVIOUS
<1>1. TypeOK
  BY InitTypeOK
<1>2. Holders = {} /\ \A i \in Instances : HoldersOf(i) = {}
  BY DEF Init, Holders, HoldersOf
<1> QED
  BY <1>1, <1>2, FS_EmptySet, ConstantsAssumption
  DEF SlotInv, SlotAccounting, LimitRespected, Init

(* A step that moves no session in or out of the holders and leaves the    *)
(* counters alone.                                                         *)
LEMMA SlotInvKept ==
  ASSUME SlotInv, TypeOK', UNCHANGED <<count, conns>>,
         Holders' = Holders,
         \A i \in Instances : HoldersOf(i)' = HoldersOf(i)
  PROVE  SlotInv'
BY DEF SlotInv, SlotAccounting, LimitRespected

LEMMA AttemptSlotInv ==
  ASSUME SlotInv, TypeOK', NEW s \in Sessions, pc[s] \notin Holding,
         NEW success \in Holding, NEW failure, failure \notin Holding,
         Attempt(s, success, failure)
  PROVE  SlotInv'
<1> USE DEF SlotInv
<1>1. CASE TakeSlot(s) /\ GoTo(s, success)
  <2>1. /\ s \notin Holders
        /\ Holders' = Holders \union {s}
        /\ \A i \in Instances :
             HoldersOf(i)' = IF i = Home[s] THEN HoldersOf(i) \union {s}
                                            ELSE HoldersOf(i)
    BY <1>1, HolderAdded
  <2>2. \A i \in Instances : s \notin HoldersOf(i)
    BY <2>1 DEF HoldersOf
  <2>3. Cardinality(Holders') = Cardinality(Holders) + 1
    BY <2>1, SetsFinite, FS_AddElement
  <2>4. \A i \in Instances :
          Cardinality(HoldersOf(i)') =
            IF i = Home[s] THEN Cardinality(HoldersOf(i)) + 1
                           ELSE Cardinality(HoldersOf(i))
    BY <2>1, <2>2, SetsFinite, FS_AddElement
  <2>5. /\ count' = count + 1
        /\ \A i \in Instances :
             conns'[i] = IF i = Home[s] THEN conns[i] + 1 ELSE conns[i]
    BY <1>1 DEF TakeSlot, TypeOK
  <2>6. SlotAccounting'
    BY <2>3, <2>4, <2>5 DEF SlotAccounting
  <2>7. count + 1 <= MaxConnections
    BY <1>1, ConstantsAssumption DEF TakeSlot, TypeOK
  <2>8. LimitRespected'
    BY <2>3, <2>7 DEF SlotAccounting, LimitRespected
  <2> QED
    BY <2>6, <2>8
<1>2. CASE Refused(s) /\ GoTo(s, failure)
  BY <1>2, HoldersKept, SlotInvKept DEF Refused
<1> QED
  BY <1>1, <1>2 DEF Attempt

LEMMA ReleaseSlotInv ==
  ASSUME SlotInv, TypeOK', NEW s \in Sessions, Release(s)
  PROVE  SlotInv'
<1> USE DEF SlotInv
<1>1. /\ s \in Holders
      /\ Holders' = Holders \ {s}
      /\ \A i \in Instances :
           HoldersOf(i)' = IF i = Home[s] THEN HoldersOf(i) \ {s}
                                          ELSE HoldersOf(i)
  BY HolderRemoved DEF Release, Holding
<1>2. Home[s] \in Instances /\ s \in HoldersOf(Home[s])
  BY <1>1, ConstantsAssumption DEF HoldersOf
<1>3. Cardinality(Holders') = Cardinality(Holders) - 1
  BY <1>1, SetsFinite, FS_RemoveElement
<1>4. \A i \in Instances :
        Cardinality(HoldersOf(i)') =
          IF i = Home[s] THEN Cardinality(HoldersOf(i)) - 1
                         ELSE Cardinality(HoldersOf(i))
  BY <1>1, <1>2, SetsFinite, FS_RemoveElement
<1>5. count > 0 /\ conns[Home[s]] > 0
  <2>1. Holders # {} /\ HoldersOf(Home[s]) # {}
    BY <1>1, <1>2
  <2> QED
    BY <2>1, <1>2, SetsFinite, FS_EmptySet, FS_CardinalityType
    DEF SlotAccounting, TypeOK
<1>6. /\ count' = count - 1
      /\ \A i \in Instances :
           conns'[i] = IF i = Home[s] THEN conns[i] - 1 ELSE conns[i]
  BY <1>5 DEF Release, TypeOK
<1>7. SlotAccounting'
  BY <1>3, <1>4, <1>6 DEF SlotAccounting
<1>8. LimitRespected'
  BY <1>3, SetsFinite, FS_CardinalityType, ConstantsAssumption
  DEF LimitRespected
<1> QED
  BY <1>7, <1>8

LEMMA StepSlotInv == SlotInv /\ [Next]_vars => SlotInv'
<1> SUFFICES ASSUME SlotInv, [Next]_vars PROVE SlotInv'
  OBVIOUS
<1> USE DEF SlotInv, Holding
<1>t. TypeOK'
  BY StepTypeOK
<1>1. ASSUME NEW s \in Sessions, SessionStep(s) PROVE SlotInv'
  <2>1. CASE Connect(s)
    BY <1>t, <2>1, HoldersKept, SlotInvKept DEF Connect, Ended
  <2>2. CASE TryAcquire(s)
    BY <1>t, <2>2, AttemptSlotInv DEF TryAcquire
  <2>3. CASE CheckBreaker(s)
    BY <1>t, <2>3, HoldersKept, SlotInvKept DEF CheckBreaker
  <2>4. CASE IncrementDepth(s)
    BY <1>t, <2>4, HoldersKept, SlotInvKept DEF IncrementDepth
  <2>5. CASE WaitFastPath(s)
    BY <1>t, <2>5, AttemptSlotInv DEF WaitFastPath
  <2>6. CASE Subscribe(s)
    BY <1>t, <2>6, HoldersKept, SlotInvKept DEF Subscribe
  <2>7. CASE OnNotify(s)
    BY <1>t, <2>7, AttemptSlotInv DEF OnNotify
  <2>8. CASE OnPoll(s)
    BY <1>t, <2>8, AttemptSlotInv DEF OnPoll
  <2>9. CASE OnTimer(s)
    BY <1>t, <2>9, HoldersKept, SlotInvKept DEF OnTimer
  <2>10. CASE OnCancel(s)
    BY <1>t, <2>10, HoldersKept, SlotInvKept DEF OnCancel
  <2>11. CASE LeaveQueue(s)
    BY <1>t, <2>11, HoldersKept, SlotInvKept DEF LeaveQueue
  <2>12. CASE Release(s)
    BY <1>t, <2>12, ReleaseSlotInv
  <2>13. CASE Forward(s) \/ LoseMessage(s)
    BY <1>t, <2>13, SlotInvKept DEF Forward, LoseMessage, Holders, HoldersOf
  <2> QED
    BY <1>1, <2>1, <2>2, <2>3, <2>4, <2>5, <2>6, <2>7, <2>8, <2>9, <2>10,
       <2>11, <2>12, <2>13 DEF SessionStep, Advance
<1>2. ASSUME NEW i \in Instances, CancelContext(i) PROVE SlotInv'
  BY <1>t, <1>2, SlotInvKept DEF CancelContext, Holders, HoldersOf
<1>3. CASE UNCHANGED vars
  BY <1>t, <1>3, SlotInvKept DEF vars, Holders, HoldersOf
<1> QED
  BY <1>1, <1>2, <1>3 DEF Next

LEMMA SlotInvariant == Spec => []SlotInv
BY InitSlotInv, StepSlotInv, PTL DEF Spec

(* The global counter and the per-instance counters in Redis count exactly *)
(* the sessions that hold a slot.                                          *)
THEOREM CountersExact == Spec => []SlotAccounting
<1>1. SlotInv => SlotAccounting
  BY DEF SlotInv
<1> QED
  BY <1>1, SlotInvariant, PTL

(* No interleaving of the instances lets more sessions hold a slot than    *)
(* the bucket allows.                                                      *)
THEOREM LimitHolds == Spec => []LimitRespected
<1>1. SlotInv => LimitRespected
  BY DEF SlotInv
<1> QED
  BY <1>1, SlotInvariant, PTL

-----------------------------------------------------------------------------
(* Queue depth. *)

DepthInv == TypeOK /\ DepthAccounting

LEMMA InitDepthInv == Init => DepthInv
<1> SUFFICES ASSUME Init PROVE DepthInv
  OBVIOUS
<1>1. \A i \in Instances : QueueOf(i) = {}
  BY DEF Init, QueueOf, Queued
<1> QED
  BY <1>1, InitTypeOK, FS_EmptySet DEF DepthInv, DepthAccounting, Init

LEMMA QueueKept ==
  ASSUME TypeOK, NEW s \in Sessions, NEW l, GoTo(s, l),
         pc[s] \in Queued <=> l \in Queued
  PROVE  \A i \in Instances : QueueOf(i)' = QueueOf(i)
BY DEF TypeOK, GoTo, QueueOf

LEMMA DepthInvKept ==
  ASSUME DepthInv, TypeOK', UNCHANGED depth,
         \A i \in Instances : QueueOf(i)' = QueueOf(i)
  PROVE  DepthInv'
BY DEF DepthInv, DepthAccounting

LEMMA AttemptDepthInv ==
  ASSUME DepthInv, TypeOK', NEW s \in Sessions, NEW success, NEW failure,
         pc[s] \in Queued <=> success \in Queued,
         pc[s] \in Queued <=> failure \in Queued,
         Attempt(s, success, failure), UNCHANGED depth
  PROVE  DepthInv'
BY QueueKept, DepthInvKept DEF Attempt, DepthInv

LEMMA IncrementDepthInv ==
  ASSUME DepthInv, TypeOK', NEW s \in Sessions, IncrementDepth(s)
  PROVE  DepthInv'
<1> USE DEF DepthInv
<1>1. \A i \in Instances :
        /\ s \notin QueueOf(i)
        /\ QueueOf(i)' = IF i = Home[s] THEN QueueOf(i) \union {s}
                                        ELSE QueueOf(i)
  BY DEF IncrementDepth, GoTo, QueueOf, Queued, TypeOK
<1>2. \A i \in Instances :
        Cardinality(QueueOf(i)') =
          IF i = Home[s] THEN Cardinality(QueueOf(i)) + 1
                         ELSE Cardinality(QueueOf(i))
  BY <1>1, SetsFinite, FS_AddElement
<1>3. \A i \in Instances :
        depth'[i] = IF i = Home[s] THEN depth[i] + 1 ELSE depth[i]
  BY DEF IncrementDepth, TypeOK
<1> QED
  BY <1>2, <1>3 DEF DepthAccounting

LEMMA LeaveQueueInv ==
  ASSUME DepthInv, TypeOK', NEW s \in Sessions, LeaveQueue(s)
  PROVE  DepthInv'
<1> USE DEF DepthInv
<1>1. \A i \in Instances :
        /\ i = Home[s] => s \in QueueOf(i)
        /\ QueueOf(i)' = IF i = Home[s] THEN QueueOf(i) \ {s}
                                        ELSE QueueOf(i)
  BY DEF LeaveQueue, GoTo, QueueOf, Queued, TypeOK
<1>2. \A i \in Instances :
        Cardinality(QueueOf(i)') =
          IF i = Home[s] THEN Cardinality(QueueOf(i)) - 1
                         ELSE Cardinality(QueueOf(i))
  BY <1>1, SetsFinite, FS_RemoveElement
<1>3. Home[s] \in Instances
  BY ConstantsAssumption
<1>4. depth[Home[s]] > 0
  <2>1. QueueOf(Home[s]) # {}
    BY <1>1, <1>3
  <2> QED
    BY <2>1, <1>3, SetsFinite, FS_EmptySet, FS_CardinalityType
    DEF DepthAccounting, TypeOK
<1>5. \A i \in Instances :
        depth'[i] = IF i = Home[s] THEN depth[i] - 1 ELSE depth[i]
  BY <1>4 DEF LeaveQueue, TypeOK
<1> QED
  BY <1>2, <1>5 DEF DepthAccounting

LEMMA StepDepthInv == DepthInv /\ [Next]_vars => DepthInv'
<1> SUFFICES ASSUME DepthInv, [Next]_vars PROVE DepthInv'
  OBVIOUS
<1> USE DEF DepthInv, Queued
<1>t. TypeOK'
  BY StepTypeOK
<1>1. ASSUME NEW s \in Sessions, SessionStep(s) PROVE DepthInv'
  <2>1. CASE Connect(s)
    BY <1>t, <2>1, QueueKept, DepthInvKept DEF Connect, Ended
  <2>2. CASE TryAcquire(s)
    BY <1>t, <2>2, AttemptDepthInv DEF TryAcquire
  <2>3. CASE CheckBreaker(s)
    BY <1>t, <2>3, QueueKept, DepthInvKept DEF CheckBreaker
  <2>4. CASE IncrementDepth(s)
    BY <1>t, <2>4, IncrementDepthInv
  <2>5. CASE WaitFastPath(s)
    BY <1>t, <2>5, AttemptDepthInv DEF WaitFastPath
  <2>6. CASE Subscribe(s)
    BY <1>t, <2>6, QueueKept, DepthInvKept DEF Subscribe
  <2>7. CASE OnNotify(s)
    BY <1>t, <2>7, AttemptDepthInv DEF OnNotify
  <2>8. CASE OnPoll(s)
    BY <1>t, <2>8, AttemptDepthInv DEF OnPoll
  <2>9. CASE OnTimer(s)
    BY <1>t, <2>9, QueueKept, DepthInvKept DEF OnTimer
  <2>10. CASE OnCancel(s)
    BY <1>t, <2>10, QueueKept, DepthInvKept DEF OnCancel
  <2>11. CASE LeaveQueue(s)
    BY <1>t, <2>11, LeaveQueueInv
  <2>12. CASE Release(s)
    BY <1>t, <2>12, QueueKept, DepthInvKept DEF Release
  <2>13. CASE Forward(s) \/ LoseMessage(s)
    BY <1>t, <2>13, DepthInvKept DEF Forward, LoseMessage, QueueOf
  <2> QED
    BY <1>1, <2>1, <2>2, <2>3, <2>4, <2>5, <2>6, <2>7, <2>8, <2>9, <2>10,
       <2>11, <2>12, <2>13 DEF SessionStep, Advance
<1>2. ASSUME NEW i \in Instances, CancelContext(i) PROVE DepthInv'
  BY <1>t, <1>2, DepthInvKept DEF CancelContext, QueueOf
<1>3. CASE UNCHANGED vars
  BY <1>t, <1>3, DepthInvKept DEF vars, QueueOf
<1> QED
  BY <1>1, <1>2, <1>3 DEF Next

LEMMA DepthInvariant == Spec => []DepthInv
BY InitDepthInv, StepDepthInv, PTL DEF Spec

(* The depth of each instance is the number of its sessions in the queue,  *)
(* so the clamp at zero in decrementDepth never hides a missing increment. *)
THEOREM DepthExact == Spec => []DepthAccounting
<1>1. DepthInv => DepthAccounting
  BY DEF DepthInv
<1> QED
  BY <1>1, DepthInvariant, PTL

(* A session is turned away only while at least max_queue_size sessions of *)
(* its instance are in the queue.                                          *)
THEOREM RejectionsAreJustified == Spec => RejectionsJustified
<1>1. ASSUME DepthInv, [Next]_vars,
             NEW s \in Sessions, pc[s] # "rejected", pc'[s] = "rejected"
      PROVE  Cardinality(QueueOf(Home[s])) >= MaxQueueSize
  <2>1. CheckBreaker(s)
    BY <1>1 DEF DepthInv, TypeOK, Next, SessionStep, Advance, Attempt, GoTo,
       Connect, TryAcquire, CheckBreaker, IncrementDepth, WaitFastPath,
       Subscribe, LeaveQueue, Release, OnNotify, OnPoll, OnTimer, OnCancel,
       Forward, LoseMessage, CancelContext, vars
  <2>2. Home[s] \in Instances
    BY ConstantsAssumption
  <2>3. depth[Home[s]] >= MaxQueueSize
    BY <1>1, <2>1 DEF CheckBreaker, GoTo, DepthInv, TypeOK
  <2> QED
    BY <1>1, <2>2, <2>3 DEF DepthInv, DepthAccounting
<1>2. DepthInv /\ [Next]_vars =>
        [\A s \in Sessions :
           pc[s] # "rejected" /\ pc'[s] = "rejected"
             => Cardinality(QueueOf(Home[s])) >= MaxQueueSize]_vars
  BY <1>1
<1> QED
  BY <1>2, DepthInvariant, PTL DEF Spec, RejectionsJustified

-----------------------------------------------------------------------------
(* Refinement of the counting semaphore. *)

(* Slots has its own copy of the library's definition. *)
LEMMA SameCardinality == Semaphore!Cardinality(Holders) = Cardinality(Holders)
BY Zenon DEF Semaphore!Cardinality, Cardinality

LEMMA AttemptRefines ==
  ASSUME SlotInv, NEW s \in Sessions, pc[s] \notin Holding,
         NEW success \in Holding, NEW failure, failure \notin Holding,
         Attempt(s, success, failure)
  PROVE  [Semaphore!Next]_Holders
<1> USE DEF SlotInv
<1>1. CASE TakeSlot(s) /\ GoTo(s, success)
  <2>1. Cardinality(Holders) < MaxConnections
    BY <1>1 DEF TakeSlot, SlotAccounting
  <2>2. Semaphore!Take(s)
    BY <1>1, <2>1, HolderAdded, SameCardinality DEF Semaphore!Take
  <2> QED
    BY <2>2 DEF Semaphore!Next
<1>2. CASE Refused(s) /\ GoTo(s, failure)
  BY <1>2, HoldersKept
<1> QED
  BY <1>1, <1>2 DEF Attempt

LEMMA StepRefines == SlotInv /\ [Next]_vars => [Semaphore!Next]_Holders
<1> SUFFICES ASSUME SlotInv, [Next]_vars PROVE [Semaphore!Next]_Holders
  OBVIOUS
<1> USE DEF SlotInv, Holding
<1>1. ASSUME NEW s \in Sessions, SessionStep(s)
      PROVE  [Semaphore!Next]_Holders
  <2>1. CASE \/ Connect(s) \/ CheckBreaker(s) \/ IncrementDepth(s)
             \/ Subscribe(s) \/ OnTimer(s) \/ OnCancel(s) \/ LeaveQueue(s)
    BY <2>1, HoldersKept DEF Connect, Ended, CheckBreaker, IncrementDepth,
       Subscribe, OnTimer, OnCancel, LeaveQueue
  <2>2. CASE \/ TryAcquire(s) \/ WaitFastPath(s) \/ OnNotify(s) \/ OnPoll(s)
    BY <2>2, AttemptRefines DEF TryAcquire, WaitFastPath, OnNotify, OnPoll
  <2>3. CASE Release(s)
    <3>1. Semaphore!Give(s)
      BY <2>3, HolderRemoved DEF Release, Semaphore!Give
    <3> QED
      BY <3>1 DEF Semaphore!Next
  <2>4. CASE Forward(s) \/ LoseMessage(s)
    BY <2>4 DEF Forward, LoseMessage, Holders
  <2> QED
    BY <1>1, <2>1, <2>2, <2>3, <2>4 DEF SessionStep, Advance
<1>2. ASSUME NEW i \in Instances, CancelContext(i)
      PROVE  [Semaphore!Next]_Holders
  BY <1>2 DEF CancelContext, Holders
<1>3. CASE UNCHANGED vars
  BY <1>3 DEF vars, Holders
<1> QED
  BY <1>1, <1>2, <1>3 DEF Next

(* Seen through the set of sessions that hold a slot, the queue, the       *)
(* scripts and the notifications together are a counting semaphore.        *)
THEOREM Refinement == Spec => ImplementsSlots
<1>1. Init => Semaphore!Init
  BY DEF Init, Holders, Semaphore!Init
<1> QED
  BY <1>1, StepRefines, SlotInvariant, PTL
  DEF Spec, ImplementsSlots, Semaphore!Spec
=============================================================================
