---------------------------- MODULE ServerProofs ----------------------------
(***************************************************************************)
(* Proofs about Server for every finite set of sessions and all limits.    *)
(*                                                                         *)
(* BackendsCovered is about sockets and GracefulStopFreesSlots about a     *)
(* counter; what ties them to each other is slotAcquired, the flag of each *)
(* session, so both inductive invariants speak of the set slotted.         *)
(***************************************************************************)
EXTENDS Server, FiniteSetTheorems, TLAPS

Asking   == {"none", "accepted", "prelogin", "try", "queue", "subscribe", "select"}
Served   == {"dial", "handshake", "relay", "cleanup", "release"}
Location == Asking \union Served \union {"done"}

(* Every socket belongs to a session with a slot, and every slot a session *)
(* believes it has is in one of the two counters.                          *)
Places ==
    /\ \A s \in Sessions : pc[s] \in Asking => s \notin slotted
    /\ \A s \in Sessions : pc[s] = "dial" => s \in slotted
    /\ \A s \in backends : s \in slotted /\ pc[s] \in {"handshake", "relay", "cleanup"}

CoverInv == TypeOK /\ Places /\ Cardinality(slotted) <= count + local

-----------------------------------------------------------------------------
(* Types. *)

LEMMA SlottedFinite == TypeOK => IsFiniteSet(slotted) /\ IsFiniteSet(backends)
<1> SUFFICES ASSUME TypeOK PROVE IsFiniteSet(slotted) /\ IsFiniteSet(backends)
  OBVIOUS
<1>1. slotted \in SUBSET Sessions /\ backends \in SUBSET Sessions
  BY DEF TypeOK
<1> QED
  BY <1>1, ConstantsAssumption, FS_Subset

(* What an attempt to acquire does, whichever counter it goes to. *)
LEMMA AttemptEffect ==
  ASSUME TypeOK, NEW s \in Sessions, NEW success, NEW failure,
         Attempt(s, success, failure)
  PROVE  \/ /\ GoTo(s, success)
            /\ slotted' = slotted \union {s}
            /\ count' + local' = count + local + 1
            /\ count' \in 0 .. MaxConnections /\ local' \in 0 .. LocalLimit
            /\ mode' \in BOOLEAN
         \/ /\ GoTo(s, failure)
            /\ UNCHANGED <<slotted, count, local>>
            /\ mode' \in BOOLEAN
<1> USE ConstantsAssumption DEF TypeOK
<1>1. ASSUME AcquireLocally(s, success, failure), mode' \in BOOLEAN
      PROVE  \/ /\ GoTo(s, success)
                /\ slotted' = slotted \union {s}
                /\ count' + local' = count + local + 1
                /\ count' \in 0 .. MaxConnections /\ local' \in 0 .. LocalLimit
             \/ GoTo(s, failure) /\ UNCHANGED <<slotted, count, local>>
  BY <1>1 DEF AcquireLocally
<1>2. ASSUME AcquireFromRedis(s, success, failure)
      PROVE  \/ /\ GoTo(s, success)
                /\ slotted' = slotted \union {s}
                /\ count' + local' = count + local + 1
                /\ count' \in 0 .. MaxConnections /\ local' \in 0 .. LocalLimit
             \/ GoTo(s, failure) /\ UNCHANGED <<slotted, count, local>>
  <2>1. CASE count < MaxConnections
    <3>1. /\ count' = count + 1 /\ local' = local
          /\ slotted' = slotted \union {s} /\ GoTo(s, success)
      BY <1>2, <2>1 DEF AcquireFromRedis, HasRoom
    <3>2. count \in Nat /\ local \in Nat
      OBVIOUS
    <3>3. count' + local' = count + local + 1 /\ count' \in 0 .. MaxConnections
      BY <2>1, <3>1, <3>2
    <3> QED
      BY <3>1, <3>3
  <2>2. CASE ~(count < MaxConnections)
    BY <1>2, <2>2 DEF AcquireFromRedis, HasRoom
  <2> QED
    BY <2>1, <2>2
<1>3. CASE mode /\ AcquireLocally(s, success, failure) /\ UNCHANGED mode
  BY <1>1, <1>3
<1>4. CASE AcquireFromRedis(s, success, failure) /\ UNCHANGED mode
  BY <1>2, <1>4
<1>5. CASE AcquireLocally(s, success, failure) /\ mode' = TRUE
  BY <1>1, <1>5
<1>6. CASE GoTo(s, failure) /\ UNCHANGED <<counters, slotted>>
  BY <1>6 DEF counters
<1> QED
  BY <1>3, <1>4, <1>5, <1>6 DEF Attempt

(* A release takes at most one from the counters together. *)
LEMMA GiveBackEffect ==
  ASSUME TypeOK, GiveBack
  PROVE  /\ count' \in 0 .. MaxConnections /\ local' \in 0 .. LocalLimit
         /\ mode' \in BOOLEAN
         /\ count + local <= count' + local' + 1
<1> USE ConstantsAssumption DEF TypeOK
<1>1. CASE mode' = TRUE /\ local' = (IF local > 0 THEN local - 1 ELSE local)
           /\ UNCHANGED count
  BY <1>1
<1>2. CASE /\ count' = (IF count > 0 THEN count - 1 ELSE 0)
           /\ UNCHANGED <<mode, local>>
  BY <1>2
<1>3. CASE UNCHANGED counters
  BY <1>3 DEF counters
<1> QED
  BY <1>1, <1>2, <1>3 DEF GiveBack

LEMMA InitTypeOK == Init => TypeOK
<1> SUFFICES ASSUME Init PROVE TypeOK
  OBVIOUS
<1>1. copier \in [Sessions -> [Directions ->
                         {"off", "reading", "writing", "sending", "done"}]]
  BY DEF Init
<1>2. pc \in [Sessions -> Unstarted]
  BY DEF Init, Unstarted
<1>3. count \in 0 .. MaxConnections /\ local \in 0 .. LocalLimit
  BY ConstantsAssumption DEF Init
<1> QED
  BY <1>1, <1>2, <1>3 DEF Init, TypeOK, Accepting

LEMMA StepTypeOK == TypeOK /\ [Next]_vars => TypeOK'
<1> SUFFICES ASSUME TypeOK, [Next]_vars PROVE TypeOK'
  OBVIOUS
<1>a. pc \in [Sessions -> Location]
      /\ (pc' \in [Sessions -> Location] =>
            pc' \in [Sessions -> Unstarted \union
                 {"prelogin", "try", "queue", "subscribe", "select", "dial",
                  "handshake", "relay", "cleanup", "release", "done"}])
  BY DEF TypeOK, Location, Asking, Served, Unstarted
<1>m. ASSUME NEW s \in Sessions, NEW l \in Location, GoTo(s, l)
      PROVE  pc' \in [Sessions -> Unstarted \union
                 {"prelogin", "try", "queue", "subscribe", "select", "dial",
                  "handshake", "relay", "cleanup", "release", "done"}]
  BY <1>a, <1>m DEF GoTo
<1>l. Location = {"none", "accepted", "prelogin", "try", "queue", "subscribe",
                  "select", "dial", "handshake", "relay", "cleanup", "release",
                  "done"}
  BY DEF Location, Asking, Served
<1>t. ASSUME NEW s \in Sessions, NEW success \in Location, NEW failure \in Location,
             Attempt(s, success, failure), UNCHANGED <<mainVars, relayVars>>
      PROVE  TypeOK'
  <2>1. pc' \in [Sessions -> Unstarted \union
                 {"prelogin", "try", "queue", "subscribe", "select", "dial",
                  "handshake", "relay", "cleanup", "release", "done"}]
    BY <1>m, <1>t, AttemptEffect
  <2>2. slotted' \subseteq Sessions /\ count' \in 0 .. MaxConnections
        /\ local' \in 0 .. LocalLimit /\ mode' \in BOOLEAN
    BY <1>t, AttemptEffect DEF TypeOK
  <2> QED
    BY <1>t, <2>1, <2>2 DEF TypeOK, mainVars, relayVars
<1>1. ASSUME NEW s \in Sessions, Accept(s) \/ StartSession(s) \/ ReadPreLogin(s)
                                 \/ GiveUp(s)
      PROVE  TypeOK'
  BY <1>1, <1>m, <1>l DEF Accept, StartSession, ReadPreLogin, GiveUp, TypeOK,
                    mainVars, relayVars, counters
<1>2. ASSUME NEW s \in Sessions, TryAcquire(s) \/ Retry(s) PROVE TypeOK'
  BY <1>2, <1>t, <1>l DEF TryAcquire, Retry
<1>3. ASSUME NEW s \in Sessions, EnterQueue(s) PROVE TypeOK'
  <2>1. CASE GoTo(s, "cleanup") /\ UNCHANGED <<slotted, counters, mainVars, relayVars>>
    BY <2>1, <1>m, <1>l DEF TypeOK, mainVars, relayVars, counters
  <2>2. CASE Attempt(s, "dial", "subscribe") /\ UNCHANGED <<mainVars, relayVars>>
    BY <2>2, <1>t, <1>l
  <2> QED
    BY <1>3, <2>1, <2>2 DEF EnterQueue
<1>4. ASSUME NEW s \in Sessions, Subscribe(s) PROVE TypeOK'
  <2>1. CASE phase' = "panicked" /\ backends' = {} /\ UNCHANGED pc
    BY <1>4, <2>1 DEF Subscribe, TypeOK, counters, Dead
  <2>2. CASE GoTo(s, "select") /\ UNCHANGED <<phase, backends>>
    BY <1>4, <2>2, <1>m, <1>l DEF Subscribe, TypeOK, counters
  <2> QED
    BY <1>4, <2>1, <2>2 DEF Subscribe
<1>5. ASSUME NEW s \in Sessions, Dial(s) PROVE TypeOK'
  <2>1. backends' \subseteq Sessions
    BY <1>5 DEF Dial, TypeOK
  <2> QED
    BY <1>5, <2>1, <1>m, <1>l DEF Dial, TypeOK, mainVars, counters
<1>6. ASSUME NEW s \in Sessions, Handshake(s) PROVE TypeOK'
  <2>1. copier' \in [Sessions -> [Directions ->
                         {"off", "reading", "writing", "sending", "done"}]]
    BY <1>6 DEF Handshake, TypeOK
  <2> QED
    BY <1>6, <2>1, <1>m, <1>l DEF Handshake, TypeOK, mainVars, counters
<1>7. ASSUME NEW s \in Sessions, NEW d \in Directions, CopyStep(s, d) PROVE TypeOK'
  BY <1>7 DEF CopyStep, Fetch, Deliver, EndRead, EndWrite, Copying,
              TypeOK, mainVars, counters
<1>8. ASSUME NEW s \in Sessions, RelayDone(s) PROVE TypeOK'
  <2>1. copier' \in [Sessions -> [Directions ->
                         {"off", "reading", "writing", "sending", "done"}]]
    BY <1>8 DEF RelayDone, TypeOK
  <2> QED
    BY <1>8, <2>1, <1>m, <1>l DEF RelayDone, TypeOK, mainVars, counters
<1>9. ASSUME NEW s \in Sessions, CloseConns(s) PROVE TypeOK'
  BY <1>9, <1>m, <1>l DEF CloseConns, TypeOK, mainVars, counters
<1>10. ASSUME NEW s \in Sessions, Release(s) PROVE TypeOK'
  <2>1. count' \in 0 .. MaxConnections /\ local' \in 0 .. LocalLimit
        /\ mode' \in BOOLEAN
    <3>1. CASE GiveBack
      BY <3>1, GiveBackEffect
    <3>2. CASE UNCHANGED counters
      BY <3>2 DEF counters, TypeOK
    <3> QED
      BY <1>10, <3>1, <3>2 DEF Release
  <2> QED
    BY <1>10, <2>1, <1>m, <1>l DEF Release, TypeOK, mainVars, relayVars
<1>11. CASE ExitFallback
  BY <1>11 DEF ExitFallback, TypeOK, mainVars, relayVars
<1>12. ASSUME NEW from, NEW to \in Accepting \union Stopping \union Dead,
              Advance(from, to), outcome' \in {"none", "graceful", "timeout"},
              backends' \subseteq backends, registered' \in BOOLEAN
       PROVE  TypeOK'
  BY <1>12 DEF Advance, TypeOK, counters
<1>13. CASE Signal \/ StopStep
  <2> USE DEF Accepting, Stopping, Dead
  <2>1. CASE Signal \/ CloseListener \/ CancelSessions \/ StopHeartbeat
             \/ CloseSubscriptions
    BY <2>1, <1>12 DEF Signal, CloseListener, CancelSessions, StopHeartbeat,
                       CloseSubscriptions, TypeOK
  <2>2. CASE AwaitSessions
    BY <2>2, <1>12 DEF AwaitSessions, TypeOK
  <2>3. CASE CloseClient
    BY <2>3, <1>12 DEF CloseClient, TypeOK
  <2>4. CASE Exit
    BY <2>4, <1>12 DEF Exit, TypeOK
  <2> QED
    BY <1>13, <2>1, <2>2, <2>3, <2>4 DEF StopStep
<1>14. CASE UNCHANGED vars
  BY <1>14 DEF vars, mainVars, relayVars, counters, TypeOK
<1> QED
  BY <1>1, <1>2, <1>3, <1>4, <1>5, <1>6, <1>7, <1>8, <1>9, <1>10, <1>11, <1>13,
     <1>14 DEF Next, SessionStep

(* Every reachable state of the process is well typed; neither counter     *)
(* leaves its range whatever is taken in one and given back in the other.  *)
THEOREM ServerTypeCorrect == Spec => []TypeOK
BY InitTypeOK, StepTypeOK, PTL DEF Spec

-----------------------------------------------------------------------------
(* Covered backends. *)

(* A session that is not served and stays so keeps its flag and socket. *)
LEMMA MovePlaces ==
  ASSUME TypeOK, Places, NEW s \in Sessions, NEW l, GoTo(s, l),
         backends' \subseteq backends, slotted' = slotted,
         l \in Asking => pc[s] \in Asking, l # "dial",
         s \in backends' => l \in {"handshake", "relay", "cleanup"}
  PROVE  Places'
BY DEF TypeOK, Places, GoTo

LEMMA AttemptCover ==
  ASSUME CoverInv, NEW s \in Sessions, pc[s] \in Asking,
         NEW failure \in Asking, Attempt(s, "dial", failure),
         UNCHANGED backends
  PROVE  Places' /\ Cardinality(slotted') <= count' + local'
<1> USE DEF CoverInv
<1>1. s \notin slotted /\ s \notin backends
  BY DEF Places, Asking
<1>2. CASE /\ GoTo(s, "dial") /\ slotted' = slotted \union {s}
           /\ count' + local' = count + local + 1
  <2>1. Cardinality(slotted') = Cardinality(slotted) + 1
    BY <1>1, <1>2, SlottedFinite, FS_AddElement
  <2>2. Places'
    BY <1>1, <1>2 DEF Places, GoTo, TypeOK, Asking
  <2>3. Cardinality(slotted) \in Nat /\ count \in Nat /\ local \in Nat
    BY SlottedFinite, FS_CardinalityType, ConstantsAssumption DEF TypeOK
  <2> QED
    BY <1>2, <2>1, <2>2, <2>3
<1>3. CASE GoTo(s, failure) /\ UNCHANGED <<slotted, count, local>>
  <2>1. failure # "dial"
    BY DEF Asking
  <2> QED
    BY <1>1, <1>3, <2>1, MovePlaces
<1> QED
  BY <1>2, <1>3, AttemptEffect

(* Arithmetic of a release, with constants for the primed counters. *)
LEMMA OneLess ==
  \A n, a, b, c, d \in Nat : n <= a + b /\ a + b <= c + d + 1 => n - 1 <= c + d
OBVIOUS

LEMMA StepCover == CoverInv /\ [Next]_vars => CoverInv'
<1> SUFFICES ASSUME CoverInv, [Next]_vars
             PROVE  Places' /\ Cardinality(slotted') <= count' + local'
  BY StepTypeOK DEF CoverInv
<1> USE DEF CoverInv
<1>k. ASSUME Places', UNCHANGED <<slotted, counters>>
      PROVE  Places' /\ Cardinality(slotted') <= count' + local'
  BY <1>k DEF counters
<1>l. /\ {"none", "accepted", "prelogin", "try", "queue", "subscribe", "select"}
           = Asking
      /\ {"dial", "handshake", "relay", "cleanup", "release", "done"}
           \intersect Asking = {}
  BY DEF Asking
<1>b. ASSUME NEW s \in Sessions, pc[s] \in Asking \union {"dial", "release"}
      PROVE  s \notin backends
  BY <1>b DEF Places, Asking
<1>1. ASSUME NEW s \in Sessions, Accept(s) PROVE Places'
  BY <1>1, <1>l, <1>b, MovePlaces DEF Accept, relayVars
<1>2. ASSUME NEW s \in Sessions, StartSession(s) PROVE Places'
  BY <1>2, <1>l, <1>b, MovePlaces DEF StartSession, relayVars
<1>3. ASSUME NEW s \in Sessions, ReadPreLogin(s) PROVE Places'
  BY <1>3, <1>l, <1>b, MovePlaces DEF ReadPreLogin, relayVars
<1>4. ASSUME NEW s \in Sessions, GiveUp(s) PROVE Places'
  BY <1>4, <1>l, <1>b, MovePlaces DEF GiveUp, relayVars
<1>5. ASSUME NEW s \in Sessions, Subscribe(s) PROVE Places'
  <2>1. CASE backends' = {} /\ UNCHANGED pc
    BY <1>5, <2>1 DEF Subscribe, Places
  <2>2. CASE GoTo(s, "select") /\ UNCHANGED backends
    BY <1>5, <2>2, <1>l, <1>b, MovePlaces DEF Subscribe
  <2> QED
    BY <1>5, <2>1, <2>2 DEF Subscribe
<1>6. ASSUME NEW s \in Sessions, Dial(s) PROVE Places'
  <2>1. CASE GoTo(s, "handshake") /\ backends' = backends \union {s}
    <3>1. s \in slotted
      BY <1>6 DEF Dial, Places
    <3> QED
      BY <1>6, <2>1, <3>1 DEF Dial, Places, GoTo, TypeOK, Asking
  <2>2. CASE GoTo(s, "cleanup") /\ UNCHANGED backends
    BY <1>6, <2>2, <1>l, <1>b, MovePlaces DEF Dial
  <2> QED
    BY <1>6, <2>1, <2>2 DEF Dial
<1>7. ASSUME NEW s \in Sessions, Handshake(s) PROVE Places'
  BY <1>7, <1>l, MovePlaces DEF Handshake
<1>8. ASSUME NEW s \in Sessions, RelayDone(s) PROVE Places'
  BY <1>8, <1>l, MovePlaces DEF RelayDone
<1>9. ASSUME NEW s \in Sessions, CloseConns(s) PROVE Places'
  BY <1>9, <1>l, MovePlaces DEF CloseConns
<1>10. ASSUME NEW s \in Sessions, Release(s)
       PROVE  Places' /\ Cardinality(slotted') <= count' + local'
  <2>1. Places'
    BY <1>10, <1>b DEF Release, Places, GoTo, TypeOK, Asking, relayVars
  <2>2. Cardinality(slotted) \in Nat /\ count \in Nat /\ local \in Nat
    BY SlottedFinite, FS_CardinalityType, ConstantsAssumption DEF TypeOK
  <2>3. CASE s \in slotted
    <3>1. Cardinality(slotted') = Cardinality(slotted) - 1
      BY <1>10, <2>3, SlottedFinite, FS_RemoveElement DEF Release
    <3>2. /\ count' \in Nat /\ local' \in Nat
          /\ count + local <= count' + local' + 1
      BY <1>10, <2>3, GiveBackEffect, ConstantsAssumption DEF Release
    <3>3. Cardinality(slotted) <= count + local
      OBVIOUS
    <3>4. Cardinality(slotted) - 1 <= count' + local'
      BY <2>2, <3>2, <3>3, OneLess
    <3> QED
      BY <2>1, <3>1, <3>4
  <2>4. CASE s \notin slotted
    BY <1>10, <2>1, <2>4 DEF Release, counters
  <2> QED
    BY <2>3, <2>4
<1>11. ASSUME NEW s \in Sessions, TryAcquire(s) \/ EnterQueue(s) \/ Retry(s)
       PROVE  Places' /\ Cardinality(slotted') <= count' + local'
  <2>1. CASE TryAcquire(s)
    BY <2>1, <1>l, AttemptCover DEF TryAcquire, relayVars
  <2>2. CASE EnterQueue(s) /\ Attempt(s, "dial", "subscribe")
    BY <2>2, <1>l, AttemptCover DEF EnterQueue, relayVars
  <2>3. CASE EnterQueue(s) /\ GoTo(s, "cleanup") /\ UNCHANGED <<slotted, counters>>
    BY <2>3, <1>k, <1>l, <1>b, MovePlaces DEF EnterQueue, relayVars
  <2>4. CASE Retry(s)
    BY <2>4, <1>l, AttemptCover DEF Retry, relayVars
  <2> QED
    BY <1>11, <2>1, <2>2, <2>3, <2>4 DEF EnterQueue
<1>12. ASSUME NEW s \in Sessions, NEW d \in Directions, CopyStep(s, d) PROVE Places'
  BY <1>12 DEF CopyStep, Fetch, Deliver, EndRead, EndWrite, Copying, Places
<1>13. CASE ExitFallback
  BY <1>13 DEF ExitFallback, Places, relayVars
<1>14. CASE Signal \/ StopStep
  <2>1. UNCHANGED <<pc, slotted, counters>> /\ backends' \subseteq backends
    BY <1>14 DEF Signal, StopStep, CloseListener, CancelSessions, AwaitSessions,
                 StopHeartbeat, CloseSubscriptions, CloseClient, Exit, Advance
  <2> QED
    BY <2>1 DEF Places, counters
<1>15. CASE UNCHANGED vars
  BY <1>15 DEF vars, relayVars, counters, Places
<1>16. ASSUME NEW s \in Sessions,
              \/ Accept(s) \/ StartSession(s) \/ ReadPreLogin(s) \/ GiveUp(s)
              \/ Subscribe(s) \/ Dial(s) \/ Handshake(s) \/ RelayDone(s)
              \/ CloseConns(s)
       PROVE  Places' /\ Cardinality(slotted') <= count' + local'
  <2>1. UNCHANGED <<slotted, counters>>
    BY <1>16 DEF Accept, StartSession, ReadPreLogin, GiveUp, Subscribe, Dial,
                 Handshake, RelayDone, CloseConns
  <2> QED
    BY <1>16, <2>1, <1>k, <1>1, <1>2, <1>3, <1>4, <1>5, <1>6, <1>7, <1>8, <1>9
<1>17. ASSUME NEW s \in Sessions, NEW d \in Directions, CopyStep(s, d)
       PROVE  Places' /\ Cardinality(slotted') <= count' + local'
  BY <1>17, <1>12 DEF CopyStep, Fetch, Deliver, EndRead, EndWrite, Copying,
                     counters
<1> QED
  BY <1>10, <1>11, <1>13, <1>14, <1>15, <1>16, <1>17 DEF Next, SessionStep

(* For every number of sessions and all limits, the backend never has more *)
(* connections than the two counters account for.                          *)
THEOREM BackendsAreCovered == Spec => []BackendsCovered
<1>1. Init => CoverInv
  <2> SUFFICES ASSUME Init PROVE CoverInv
    OBVIOUS
  <2>1. Cardinality(slotted) = 0
    BY FS_EmptySet DEF Init
  <2> QED
    BY <2>1, InitTypeOK DEF Init, CoverInv, Places
<1>2. CoverInv => BackendsCovered
  <2> SUFFICES ASSUME CoverInv PROVE BackendsCovered
    OBVIOUS
  <2>1. backends \subseteq slotted
    BY DEF CoverInv, Places
  <2>2. IsFiniteSet(slotted) /\ IsFiniteSet(backends)
    BY SlottedFinite DEF CoverInv
  <2>3. Cardinality(backends) <= Cardinality(slotted)
    BY <2>1, <2>2, FS_Subset
  <2>4. /\ Cardinality(backends) \in Nat /\ Cardinality(slotted) \in Nat
        /\ count \in Nat /\ local \in Nat
    BY <2>2, FS_CardinalityType, ConstantsAssumption DEF CoverInv, TypeOK
  <2> QED
    BY <2>3, <2>4 DEF CoverInv, BackendsCovered
<1> QED
  BY <1>1, <1>2, StepCover, PTL DEF Spec

-----------------------------------------------------------------------------
(* A graceful stop.  Without the fallback the only counter is the one in   *)
(* Redis, and it is exact as long as the client to Redis is open.  When    *)
(* Stop reports success nobody is served, so the counter is zero, and the  *)
(* cancelled context keeps it there.                                       *)

Exact    == phase \notin {"closed"} \union Dead => count = Cardinality(slotted)
Serving  == \A s \in slotted : pc[s] \in Served
Reported == outcome # "none" => phase \in {"stopped", "silent", "closing", "closed"} \union Dead
Emptied  == outcome = "graceful" => slotted = {} /\ count = 0

StopInv ==
    /\ TypeOK
    /\ ~fallbackEnabled => /\ ~mode /\ local = 0
                           /\ Exact /\ Serving /\ Reported /\ Emptied

LEMMA AttemptOnRedis ==
  ASSUME NEW s \in Sessions, NEW success, NEW failure,
         ~fallbackEnabled, ~mode, Attempt(s, success, failure)
  PROVE  /\ UNCHANGED <<mode, local>>
         /\ \/ /\ phase \notin Cancellable
               /\ GoTo(s, success)
               /\ slotted' = slotted \union {s}
               /\ count' = count + 1
            \/ GoTo(s, failure) /\ UNCHANGED <<slotted, count>>
<1>1. CASE /\ Reachable(Cancelled) /\ AcquireFromRedis(s, success, failure)
           /\ UNCHANGED mode
  BY <1>1 DEF Reachable, Cancelled, AcquireFromRedis
<1>2. CASE GoTo(s, failure) /\ UNCHANGED <<counters, slotted>>
  BY <1>2 DEF counters
<1> QED
  BY <1>1, <1>2 DEF Attempt

(* Any step of a session that leaves slots and counters alone. *)
LEMMA MoveStop ==
  ASSUME TypeOK, Exact, Serving, Reported, Emptied,
         NEW s \in Sessions, NEW l, GoTo(s, l),
         UNCHANGED <<phase, outcome, slotted, counters>>,
         s \in slotted => l \in Served
  PROVE  Exact' /\ Serving' /\ Reported' /\ Emptied'
BY DEF TypeOK, Exact, Serving, Reported, Emptied, GoTo, counters

LEMMA AttemptStop ==
  ASSUME TypeOK, ~fallbackEnabled, ~mode, local = 0,
         Exact, Serving, Reported, Emptied,
         NEW s \in Sessions, pc[s] \in Asking, Alive,
         NEW failure \in Asking, Attempt(s, "dial", failure),
         UNCHANGED <<phase, outcome>>
  PROVE  /\ ~mode' /\ local' = 0
         /\ Exact' /\ Serving' /\ Reported' /\ Emptied'
<1>1. s \notin slotted
  BY DEF Serving, Asking, Served
<1>2. CASE /\ phase \notin Cancellable /\ GoTo(s, "dial")
           /\ slotted' = slotted \union {s} /\ count' = count + 1
  <2>1. Cardinality(slotted') = Cardinality(slotted) + 1
    BY <1>1, <1>2, SlottedFinite, FS_AddElement
  <2>2. outcome = "none"
    BY <1>2 DEF Reported, Cancellable, Alive
  <2>3. Exact'
    BY <1>2, <2>1 DEF Exact
  <2>4. Serving'
    BY <1>2 DEF Serving, Served, GoTo, TypeOK
  <2> QED
    BY <2>2, <2>3, <2>4, AttemptOnRedis DEF Reported, Emptied
<1>3. CASE GoTo(s, failure) /\ UNCHANGED <<slotted, count>>
  BY <1>1, <1>3, AttemptOnRedis, MoveStop DEF counters
<1> QED
  BY <1>2, <1>3, AttemptOnRedis

(* fallback.enabled is configuration: no step changes it. *)
LEMMA FallbackFixed ==
  ASSUME [Next]_vars
  PROVE  fallbackEnabled' = fallbackEnabled
<1>1. ASSUME NEW s \in Sessions,
             \/ Accept(s) \/ StartSession(s) \/ ReadPreLogin(s) \/ TryAcquire(s)
             \/ EnterQueue(s) \/ Subscribe(s)
      PROVE  fallbackEnabled' = fallbackEnabled
  BY <1>1 DEF Accept, StartSession, ReadPreLogin, TryAcquire, EnterQueue,
              Subscribe, mainVars
<1>2. ASSUME NEW s \in Sessions,
             \/ GiveUp(s) \/ Dial(s) \/ RelayDone(s) \/ CloseConns(s)
             \/ Release(s) \/ Retry(s) \/ Handshake(s)
      PROVE  fallbackEnabled' = fallbackEnabled
  BY <1>2 DEF GiveUp, Dial, RelayDone, CloseConns, Release, Retry, Handshake,
              mainVars
<1>3. ASSUME NEW s \in Sessions, NEW d \in Directions, CopyStep(s, d)
      PROVE  fallbackEnabled' = fallbackEnabled
  BY <1>3 DEF CopyStep, Fetch, Deliver, EndRead, EndWrite, Copying, mainVars
<1>4. CASE ExitFallback \/ Signal \/ StopStep
  BY <1>4 DEF ExitFallback, Signal, StopStep, CloseListener, CancelSessions,
              AwaitSessions, StopHeartbeat, CloseSubscriptions, CloseClient,
              Exit, Advance, mainVars
<1>5. CASE UNCHANGED vars
  BY <1>5 DEF vars, mainVars
<1> QED
  BY <1>1, <1>2, <1>3, <1>4, <1>5 DEF Next, SessionStep

(* Every step keeps what makes a graceful stop clean. *)
LEMMA StepStop == StopInv /\ [Next]_vars => StopInv'
<1> SUFFICES ASSUME StopInv, [Next]_vars, ~fallbackEnabled
             PROVE  /\ ~mode' /\ local' = 0
                    /\ Exact' /\ Serving' /\ Reported' /\ Emptied'
  BY FallbackFixed, StepTypeOK DEF StopInv
<1>i. /\ TypeOK /\ ~mode /\ local = 0
      /\ Exact /\ Serving /\ Reported /\ Emptied
  BY DEF StopInv
<1>u. ASSUME Exact', Serving', Reported', Emptied', UNCHANGED counters
      PROVE  /\ ~mode' /\ local' = 0
             /\ Exact' /\ Serving' /\ Reported' /\ Emptied'
  BY <1>i, <1>u DEF counters
<1>a. /\ {"try", "queue", "subscribe", "select"} \subseteq Asking
      /\ \A s \in Sessions : pc[s] \in Asking => s \notin slotted
  BY <1>i DEF Asking, Served, Serving
<1>1. ASSUME NEW s \in Sessions, Accept(s) \/ StartSession(s) \/ ReadPreLogin(s)
                                 \/ GiveUp(s)
      PROVE  Exact' /\ Serving' /\ Reported' /\ Emptied' /\ UNCHANGED counters
  <2>1. s \notin slotted
    BY <1>1, <1>a DEF Accept, StartSession, ReadPreLogin, GiveUp, Asking
  <2>2. PICK l : GoTo(s, l)
    BY <1>1 DEF Accept, StartSession, ReadPreLogin, GiveUp
  <2>3. UNCHANGED <<phase, outcome, slotted, counters>>
    BY <1>1 DEF Accept, StartSession, ReadPreLogin, GiveUp, mainVars
  <2> QED
    BY <1>i, <2>1, <2>2, <2>3, MoveStop
<1>2. ASSUME NEW s \in Sessions, TryAcquire(s) \/ Retry(s)
      PROVE  /\ ~mode' /\ local' = 0
             /\ Exact' /\ Serving' /\ Reported' /\ Emptied'
  <2>1. CASE TryAcquire(s)
    BY <1>i, <1>a, <2>1, AttemptStop DEF TryAcquire, mainVars
  <2>2. CASE Retry(s)
    BY <1>i, <1>a, <2>2, AttemptStop DEF Retry, mainVars
  <2> QED
    BY <1>2, <2>1, <2>2
<1>3. ASSUME NEW s \in Sessions, EnterQueue(s)
      PROVE  /\ ~mode' /\ local' = 0
             /\ Exact' /\ Serving' /\ Reported' /\ Emptied'
  <2>1. CASE Attempt(s, "dial", "subscribe")
    BY <1>i, <1>a, <1>3, <2>1, AttemptStop DEF EnterQueue, mainVars
  <2>2. CASE GoTo(s, "cleanup") /\ UNCHANGED <<slotted, counters>>
    BY <1>i, <1>a, <1>u, <1>3, <2>2, MoveStop DEF EnterQueue, mainVars
  <2> QED
    BY <1>3, <2>1, <2>2 DEF EnterQueue
<1>4. ASSUME NEW s \in Sessions, Subscribe(s)
      PROVE  Exact' /\ Serving' /\ Reported' /\ Emptied' /\ UNCHANGED counters
  <2>1. CASE phase' = "panicked" /\ UNCHANGED pc
    BY <1>4, <1>i, <2>1 DEF Subscribe, Exact, Serving, Reported, Emptied,
                            counters, Dead
  <2>2. CASE GoTo(s, "select") /\ UNCHANGED phase
    BY <1>4, <1>i, <1>a, <2>2, MoveStop DEF Subscribe
  <2> QED
    BY <1>4, <2>1, <2>2 DEF Subscribe
<1>5. ASSUME NEW s \in Sessions, Dial(s) \/ Handshake(s) \/ RelayDone(s)
                                 \/ CloseConns(s)
      PROVE  Exact' /\ Serving' /\ Reported' /\ Emptied' /\ UNCHANGED counters
  <2>1. PICK l \in Served : GoTo(s, l)
    BY <1>5 DEF Dial, Handshake, RelayDone, CloseConns, Served
  <2>2. UNCHANGED <<phase, outcome, slotted, counters>>
    BY <1>5 DEF Dial, Handshake, RelayDone, CloseConns, mainVars
  <2> QED
    BY <1>i, <2>1, <2>2, MoveStop
<1>6. ASSUME NEW s \in Sessions, Release(s)
      PROVE  /\ ~mode' /\ local' = 0
             /\ Exact' /\ Serving' /\ Reported' /\ Emptied'
  <2>1. Serving' /\ Reported'
    BY <1>i, <1>6 DEF Release, Serving, Reported, GoTo, TypeOK, mainVars
  <2>2. CASE s \notin slotted
    BY <1>i, <1>6, <2>1, <2>2 DEF Release, Exact, Emptied, counters, mainVars
  <2>3. CASE s \in slotted
    <3>1. GiveBack /\ slotted' = slotted \ {s} /\ UNCHANGED <<phase, outcome>>
      BY <1>6, <2>3 DEF Release, mainVars
    <3>2. Cardinality(slotted') = Cardinality(slotted) - 1
      BY <1>i, <2>3, <3>1, SlottedFinite, FS_RemoveElement
    <3>3. outcome # "graceful"
      BY <1>i, <2>3 DEF Emptied
    <3>4. CASE Reachable(FALSE) /\ count' = (IF count > 0 THEN count - 1 ELSE 0)
               /\ UNCHANGED <<mode, local>>
      <4>1. Cardinality(slotted) \in Nat /\ Cardinality(slotted) # 0
        BY <1>i, <2>3, SlottedFinite, FS_CardinalityType, FS_EmptySet
      <4>2. Exact'
        BY <1>i, <3>1, <3>2, <3>4, <4>1 DEF Exact
      <4> QED
        BY <1>i, <2>1, <3>1, <3>3, <3>4, <4>2 DEF Emptied
    <3>5. CASE ~Reachable(FALSE) /\ UNCHANGED counters
      <4>1. Exact'
        BY <1>6, <3>1, <3>5 DEF Exact, Reachable
      <4> QED
        BY <1>i, <2>1, <3>1, <3>3, <3>5, <4>1 DEF Emptied, counters
    <3> QED
      BY <1>i, <3>1, <3>4, <3>5 DEF GiveBack
  <2> QED
    BY <2>2, <2>3
<1>7. ASSUME NEW s \in Sessions, NEW d \in Directions, CopyStep(s, d)
      PROVE  Exact' /\ Serving' /\ Reported' /\ Emptied' /\ UNCHANGED counters
  BY <1>i, <1>7 DEF CopyStep, Fetch, Deliver, EndRead, EndWrite, Copying,
                    Exact, Serving, Reported, Emptied, counters, mainVars
<1>8. CASE ExitFallback
  BY <1>i, <1>8 DEF ExitFallback
<1>9. ASSUME UNCHANGED <<pc, slotted, counters, outcome>>, Reported',
             phase' \notin {"closed"} \union Dead => phase \notin {"closed"} \union Dead
      PROVE  Exact' /\ Serving' /\ Reported' /\ Emptied' /\ UNCHANGED counters
  BY <1>i, <1>9 DEF Exact, Serving, Emptied, counters
<1>10. CASE Signal \/ CloseListener \/ CancelSessions
  <2>1. outcome = "none"
    BY <1>i, <1>10 DEF Signal, CloseListener, CancelSessions, Advance, Reported, Dead
  <2> QED
    BY <1>9, <1>10, <1>u, <2>1 DEF Signal, CloseListener, CancelSessions, Advance,
                             Reported, Dead
<1>11. CASE StopHeartbeat \/ CloseSubscriptions \/ CloseClient \/ Exit
  BY <1>9, <1>11, <1>u DEF StopHeartbeat, CloseSubscriptions, CloseClient, Exit,
                           Advance, Reported, Dead
<1>12. CASE AwaitSessions
  <2>1. /\ UNCHANGED <<pc, slotted, counters>>
        /\ phase = "waiting" /\ phase' = "stopped"
    BY <1>12 DEF AwaitSessions, Advance
  <2>2. Exact' /\ Serving' /\ Reported'
    BY <1>i, <2>1 DEF Exact, Serving, Reported, counters, Dead
  <2>3. CASE Running = {}
    <3>1. slotted = {}
      BY <1>i, <2>3 DEF Running, Serving, Served, Unstarted, TypeOK
    <3>2. count = 0
      BY <1>i, <2>1, <3>1, FS_EmptySet DEF Exact, Dead
    <3> QED
      BY <1>u, <2>1, <2>2, <3>1, <3>2 DEF Emptied, counters
  <2>4. CASE outcome' = "timeout"
    BY <1>u, <2>1, <2>2, <2>4 DEF Emptied
  <2> QED
    BY <1>12, <2>3, <2>4 DEF AwaitSessions
<1>13. CASE UNCHANGED vars
  BY <1>i, <1>13 DEF vars, mainVars, counters, Exact, Serving, Reported, Emptied
<1> QED
  BY <1>1, <1>2, <1>3, <1>4, <1>5, <1>6, <1>7, <1>8, <1>10, <1>11, <1>12, <1>13,
     <1>u DEF Next, SessionStep, StopStep

(* With the fallback disabled, a stop that reports success has given every *)
(* slot back, and no connection that was still on its way takes one later. *)
THEOREM GracefulStopIsClean == Spec => []GracefulStopFreesSlots
<1>1. Init => StopInv
  <2> SUFFICES ASSUME Init PROVE StopInv
    OBVIOUS
  <2>1. Cardinality(slotted) = 0
    BY FS_EmptySet DEF Init
  <2> QED
    BY <2>1, InitTypeOK DEF Init, StopInv, Exact, Serving, Reported, Emptied
<1>2. StopInv => GracefulStopFreesSlots
  BY DEF StopInv, Emptied, GracefulStopFreesSlots
<1> QED
  BY <1>1, <1>2, StepStop, PTL DEF Spec
=============================================================================
