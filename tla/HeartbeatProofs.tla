-------------------------- MODULE HeartbeatProofs --------------------------
(***************************************************************************)
(* Proofs about Heartbeat, for every set of instances, every limit and     *)
(* every bound on the starts, crashes, stalls and shutdowns.               *)
(*                                                                         *)
(* TypeOK needs Shape (a clean-up always has the instance it cleans up),   *)
(* ClosedLeavesNoTrace needs Gone, which follows Close command by command. *)
(* That the counter covers the slots in use needs two more: Present says   *)
(* that, undisturbed, only an instance that runs no more is cleaned up,    *)
(* and Covered what the counter holds for each instance between two        *)
(* commands of a clean-up.  Covered is inductive for at most two           *)
(* instances, where one at a time cleans up; with three, two clean-ups of  *)
(* the same instance subtract twice and the property is false.  Without a  *)
(* crash nothing is ever subtracted, and the counter is exact for any      *)
(* number of instances (CrashFree).                                        *)
(***************************************************************************)
EXTENDS Heartbeat, Sums

-----------------------------------------------------------------------------
(* The inductive invariants. *)

(* The steps at which a clean-up has an instance at hand.                  *)
Cleaning == {"read", "decr", "del", "srem", "get", "fix"}

(* What a clean-up is made of. *)
Works == [Instances -> [step : Stages, todo : SUBSET Instances,
                        dead : SUBSET Instances, n : Nat \union {NoHash}]]

(* Only a running instance cleans up, and never after itself.              *)
Shape ==
    /\ work \in Works
    /\ \A i \in Instances :
          /\ i \notin work[i].todo
          /\ i \notin work[i].dead
          /\ work[i].step # "idle" => status[i] = "up"
          /\ work[i].step \in Cleaning => \E d \in Instances : work[i].dead = {d}

(* A process that ended holds nothing, only one that closes is in          *)
(* fallback, and Close takes the marks of its instance away one after the  *)
(* other.                                                                  *)
Gone ==
    \A i \in Instances :
        /\ status[i] \in {"down"} \union Vanished => held[i] = 0
        /\ i \in fallback => status[i] \in Closing
        /\ status[i] \in {"unhash", "unbeat", "down"} => i \notin instances
        /\ status[i] \in {"unbeat", "down"} => hash[i] = NoHash
        /\ status[i] = "down" => ~hbKey[i]

-----------------------------------------------------------------------------
(* Types, and what a step of a clean-up does. *)

(* The record of a clean-up by its four fields.                            *)
Work(s, t, d, m) == [step |-> s, todo |-> t, dead |-> d, n |-> m]

(* The fields of a clean-up and their types.                               *)
LEMMA WorkFields ==
  ASSUME Shape, NEW i \in Instances
  PROVE  /\ work[i] = Work(work[i].step, work[i].todo, work[i].dead, work[i].n)
         /\ work[i].step \in Stages /\ work[i].todo \in SUBSET Instances
         /\ work[i].dead \in SUBSET Instances /\ work[i].n \in Nat \union {NoHash}
<1>1. work[i] \in [step : Stages, todo : SUBSET Instances,
                   dead : SUBSET Instances, n : Nat \union {NoHash}]
  BY DEF Shape, Works
<1> QED
  BY <1>1 DEF Work

(* A step that gives one instance another record, and only that one.       *)
LEMMA OneWork ==
  ASSUME Shape, NEW i \in Instances, NEW v, v = [j \in Instances |-> v[j]],
         NEW s \in Stages, NEW t \in SUBSET Instances, NEW d \in SUBSET Instances,
         NEW m \in Nat \union {NoHash},
         v[i] = Work(s, t, d, m), \A j \in Instances \ {i} : v[j] = work[j]
  PROVE  /\ v \in Works
         /\ v[i].step = s /\ v[i].todo = t /\ v[i].dead = d /\ v[i].n = m
<1> DEFINE R == [step : Stages, todo : SUBSET Instances,
                 dead : SUBSET Instances, n : Nat \union {NoHash}]
<1>1. Work(s, t, d, m) \in R
  BY DEF Work
<1>2. v[i] \in R
  BY <1>1
<1>3. \A j \in Instances \ {i} : v[j] \in R
  BY DEF Shape, Works
<1>4. v[i].step = s /\ v[i].todo = t /\ v[i].dead = d /\ v[i].n = m
  BY DEF Work
<1> HIDE DEF R
<1>5. v \in [Instances -> R]
  BY <1>2, <1>3
<1> QED
  BY <1>4, <1>5 DEF Works, R

(* No clean-up is under way.                                               *)
LEMMA IdleFields ==
  /\ Idle \in [step : Stages, todo : SUBSET Instances,
               dead : SUBSET Instances, n : Nat \union {NoHash}]
  /\ Idle.step = "idle" /\ Idle.todo = {} /\ Idle.dead = {}
BY DEF Idle, Stages

(* A step that sets nothing of the clean-up but its step. *)
LEMMA SetStepFacts ==
  ASSUME Shape, NEW i \in Instances, NEW s \in Stages, SetStep(i, s)
  PROVE  /\ work' \in Works
         /\ \A j \in Instances \ {i} : work'[j] = work[j]
         /\ work'[i].step = s /\ work'[i].todo = work[i].todo
         /\ work'[i].dead = work[i].dead /\ work'[i].n = work[i].n
BY DEF Shape, Works, SetStep

(* SMEMBERS: all the other instances are to be looked at.                  *)
LEMMA ListFacts ==
  ASSUME TypeOK, Shape, NEW i \in Instances, ListInstances(i)
  PROVE  /\ work[i].step = "list"
         /\ UNCHANGED <<count, hash, instances, hbKey, status, held,
                        starts, crashes, stalls, closes, abandoned>>
         /\ work' \in Works /\ \A j \in Instances \ {i} : work'[j] = work[j]
         /\ work'[i].step = "check" /\ work'[i].todo = instances \ {i}
         /\ work'[i].dead = work[i].dead /\ work'[i].n = work[i].n
<1>1. /\ work' = [work EXCEPT ![i].step = "check", ![i].todo = instances \ {i}]
      /\ work[i].step = "list"
      /\ UNCHANGED <<count, hash, instances, hbKey, status, held,
                     starts, crashes, stalls, closes, abandoned>>
  BY DEF ListInstances, redisVars, bounds
<1>2. work = [j \in Instances |-> work[j]]
  BY DEF Shape, Works
<1>3. /\ work' = [j \in Instances |-> work'[j]]
      /\ \A j \in Instances \ {i} : work'[j] = work[j]
      /\ work'[i] = [work[i] EXCEPT !.step = "check", !.todo = instances \ {i}]
  BY <1>1, <1>2
<1>4. work'[i] = Work("check", instances \ {i}, work[i].dead, work[i].n)
  <2>1. work[i] = [step |-> work[i].step, todo |-> work[i].todo,
                   dead |-> work[i].dead, n |-> work[i].n]
    BY WorkFields DEF Work
  <2> QED
    BY <1>3, <2>1 DEF Work
<1>5. /\ "check" \in Stages /\ instances \ {i} \in SUBSET Instances
      /\ work[i].dead \in SUBSET Instances /\ work[i].n \in Nat \union {NoHash}
  BY WorkFields DEF Stages, TypeOK
<1>6. /\ work' \in Works /\ work'[i].step = "check" /\ work'[i].todo = instances \ {i}
      /\ work'[i].dead = work[i].dead /\ work'[i].n = work[i].n
  BY <1>3, <1>4, <1>5, OneWork
<1> QED
  BY <1>1, <1>3, <1>6

(* EXISTS: the end of the list, an instance with a heartbeat, or one       *)
(* without, which is then at hand.                                         *)
LEMMA CheckFacts ==
  ASSUME TypeOK, Shape, NEW i \in Instances, CheckInstance(i)
  PROVE  /\ work[i].step = "check"
         /\ UNCHANGED <<count, hash, instances, hbKey, status, held,
                        starts, crashes, stalls, closes, abandoned>>
         /\ work' \in Works /\ \A j \in Instances \ {i} : work'[j] = work[j]
         /\ \/ work'[i] = Idle
            \/ \E d \in work[i].todo :
                  /\ work'[i].todo = work[i].todo \ {d} /\ work'[i].n = work[i].n
                  /\ \/ /\ hbKey[d]
                        /\ work'[i].step = "check" /\ work'[i].dead = {}
                     \/ /\ ~hbKey[d]
                        /\ work'[i].step = "read" /\ work'[i].dead = {d}
<1>1. /\ work[i].step = "check"
      /\ UNCHANGED <<count, hash, instances, hbKey, status, held,
                     starts, crashes, stalls, closes, abandoned>>
  BY DEF CheckInstance, redisVars, bounds
<1>2. CASE work' = [work EXCEPT ![i] = Idle]
  <2>1. /\ work' \in Works /\ work'[i] = Idle
        /\ \A j \in Instances \ {i} : work'[j] = work[j]
    BY <1>2, IdleFields DEF Shape, Works
  <2> QED
    BY <1>1, <2>1
<1>3. CASE \E d \in work[i].todo :
             work' = [work EXCEPT
                        ![i].todo = @ \ {d},
                        ![i].step = IF hbKey[d] THEN "check" ELSE "read",
                        ![i].dead = IF hbKey[d] THEN {} ELSE {d}]
  <2>1. PICK d \in work[i].todo :
             work' = [work EXCEPT
                        ![i].todo = @ \ {d},
                        ![i].step = IF hbKey[d] THEN "check" ELSE "read",
                        ![i].dead = IF hbKey[d] THEN {} ELSE {d}]
    BY <1>3
  <2> DEFINE s == IF hbKey[d] THEN "check" ELSE "read"
             e == IF hbKey[d] THEN {} ELSE {d}
  <2>2. s \in Stages /\ e \in SUBSET Instances
    BY WorkFields DEF Stages
  <2>3. work' = [work EXCEPT ![i].todo = @ \ {d}, ![i].step = s, ![i].dead = e]
    BY <2>1
  <2> HIDE DEF s, e
  <2>4. /\ work' \in Works /\ \A j \in Instances \ {i} : work'[j] = work[j]
        /\ work'[i].todo = work[i].todo \ {d} /\ work'[i].n = work[i].n
        /\ work'[i].step = s /\ work'[i].dead = e
    <3>1. work = [j \in Instances |-> work[j]]
      BY DEF Shape, Works
    <3>2. /\ work' = [j \in Instances |-> work'[j]]
          /\ \A j \in Instances \ {i} : work'[j] = work[j]
          /\ work'[i] = [work[i] EXCEPT !.todo = @ \ {d}, !.step = s, !.dead = e]
      BY <2>3, <3>1
    <3>3. work'[i] = Work(s, work[i].todo \ {d}, e, work[i].n)
      <4>1. work[i] = [step |-> work[i].step, todo |-> work[i].todo,
                       dead |-> work[i].dead, n |-> work[i].n]
        BY WorkFields DEF Work
      <4> QED
        BY <3>2, <4>1 DEF Work
    <3>4. /\ work[i].todo \ {d} \in SUBSET Instances
          /\ work[i].n \in Nat \union {NoHash}
      BY WorkFields
    <3> QED
      BY <2>2, <3>2, <3>3, <3>4, OneWork
  <2> QED
    BY <1>1, <2>4 DEF s, e
<1>4. \/ work' = [work EXCEPT ![i] = Idle]
      \/ \E d \in work[i].todo :
             work' = [work EXCEPT
                        ![i].todo = @ \ {d},
                        ![i].step = IF hbKey[d] THEN "check" ELSE "read",
                        ![i].dead = IF hbKey[d] THEN {} ELSE {d}]
  BY Zenon DEF CheckInstance
<1> QED
  BY <1>2, <1>3, <1>4, Zenon

(* HGETALL of the instance at hand.                                        *)
LEMMA ReadFacts ==
  ASSUME TypeOK, Shape, NEW i \in Instances, ReadCounts(i)
  PROVE  /\ work[i].step = "read"
         /\ UNCHANGED <<count, hash, instances, hbKey, status, held,
                        starts, crashes, stalls, closes, abandoned>>
         /\ work' \in Works /\ \A j \in Instances \ {i} : work'[j] = work[j]
         /\ work'[i].step = "decr" /\ work'[i].todo = work[i].todo
         /\ work'[i].dead = work[i].dead
         /\ \E d \in Instances : work[i].dead = {d} /\ work'[i].n = hash[d]
<1>1. /\ work[i].step = "read"
      /\ UNCHANGED <<count, hash, instances, hbKey, status, held,
                     starts, crashes, stalls, closes, abandoned>>
  BY DEF ReadCounts, redisVars, bounds
<1>2. PICK d \in work[i].dead : work' = [work EXCEPT ![i].step = "decr", ![i].n = hash[d]]
  BY DEF ReadCounts
<1>3. d \in Instances /\ work[i].dead = {d}
  BY <1>1, <1>2, WorkFields DEF Shape, Cleaning
<1>4. hash[d] \in Nat \union {NoHash}
  BY <1>3 DEF TypeOK
<1>5. /\ work' \in Works /\ \A j \in Instances \ {i} : work'[j] = work[j]
      /\ work'[i].step = "decr" /\ work'[i].todo = work[i].todo
      /\ work'[i].dead = work[i].dead /\ work'[i].n = hash[d]
  <2>1. work = [j \in Instances |-> work[j]]
    BY DEF Shape, Works
  <2>2. /\ work' = [j \in Instances |-> work'[j]]
        /\ \A j \in Instances \ {i} : work'[j] = work[j]
        /\ work'[i] = [work[i] EXCEPT !.step = "decr", !.n = hash[d]]
    BY <1>2, <2>1
  <2>3. work'[i] = Work("decr", work[i].todo, work[i].dead, hash[d])
    <3>1. work[i] = [step |-> work[i].step, todo |-> work[i].todo,
                     dead |-> work[i].dead, n |-> work[i].n]
      BY WorkFields DEF Work
    <3> QED
      BY <2>2, <3>1 DEF Work
  <2>4. /\ "decr" \in Stages /\ work[i].todo \in SUBSET Instances
        /\ work[i].dead \in SUBSET Instances
    BY WorkFields DEF Stages
  <2> QED
    BY <1>4, <2>2, <2>3, <2>4, OneWork
<1> QED
  BY <1>1, <1>3, <1>5

(* The steps that only go on to the next one, with what they do to Redis.  *)
LEMMA ForwardFacts ==
  ASSUME TypeOK, Shape, NEW i \in Instances,
         \/ SubtractCounts(i) \/ DeleteHash(i) \/ RemoveInstance(i)
         \/ ReadCount(i) \/ CorrectCount(i)
  PROVE  /\ UNCHANGED <<hbKey, status, held, fallback,
                        starts, crashes, stalls, closes, abandoned>>
         /\ work' \in Works /\ \A j \in Instances \ {i} : work'[j] = work[j]
         /\ work'[i].todo = work[i].todo
         /\ work'[i].dead = work[i].dead /\ work'[i].n = work[i].n
         /\ \/ /\ work[i].step = "decr" /\ work'[i].step = "del"
               /\ count' = IF work[i].n > 0 THEN count - work[i].n ELSE count
               /\ UNCHANGED <<hash, instances>>
            \/ /\ work[i].step = "del" /\ work'[i].step = "srem"
               /\ hash' = [d \in Instances |-> IF d \in work[i].dead THEN NoHash ELSE hash[d]]
               /\ UNCHANGED <<count, instances>>
            \/ /\ work[i].step = "srem"
               /\ work'[i].step = IF work[i].n = NoHash THEN "check" ELSE "get"
               /\ instances' = instances \ work[i].dead
               /\ UNCHANGED <<count, hash>>
            \/ /\ work[i].step = "get"
               /\ work'[i].step = IF count < 0 THEN "fix" ELSE "check"
               /\ UNCHANGED <<count, hash, instances>>
            \/ /\ work[i].step = "fix" /\ work'[i].step = "check" /\ count' = 0
               /\ UNCHANGED <<hash, instances>>
<1>1. CASE SubtractCounts(i)
  BY <1>1, SetStepFacts DEF SubtractCounts, Stages, bounds
<1>2. CASE DeleteHash(i)
  BY <1>2, SetStepFacts DEF DeleteHash, Stages, bounds
<1>3. CASE RemoveInstance(i)
  BY <1>3, SetStepFacts DEF RemoveInstance, Stages, bounds
<1>4. CASE ReadCount(i)
  BY <1>4, SetStepFacts DEF ReadCount, Stages, bounds, redisVars
<1>5. CASE CorrectCount(i)
  BY <1>5, SetStepFacts DEF CorrectCount, Stages, bounds
<1> QED
  BY <1>1, <1>2, <1>3, <1>4, <1>5

(* A tick starts a clean-up or none.                                       *)
LEMMA TickFacts ==
  ASSUME TypeOK, Shape, NEW i \in Instances, Tick(i)
  PROVE  /\ status[i] = "up" /\ hbKey' = [hbKey EXCEPT ![i] = TRUE]
         /\ UNCHANGED <<count, hash, instances, status, held, fallback,
                        starts, crashes, stalls, closes, abandoned>>
         /\ work' \in Works /\ \A j \in Instances \ {i} : work'[j] = work[j]
         /\ work'[i].step \in {"idle", "list"} /\ work'[i].todo = {}
         /\ work'[i].dead = {} /\ work[i].step = "idle"
<1>1. work[i] = Idle /\ (work' = work \/ SetStep(i, "list"))
  BY DEF Tick
<1>2. CASE work' = work
  BY <1>1, <1>2, IdleFields DEF Tick, Shape, bounds
<1>3. CASE SetStep(i, "list")
  BY <1>1, <1>3, IdleFields, SetStepFacts DEF Tick, Stages, bounds
<1> QED
  BY <1>1, <1>2, <1>3

(* The commands of cleanupInstance after HGETALL.                          *)
Forward(i) ==
    \/ SubtractCounts(i) \/ DeleteHash(i) \/ RemoveInstance(i)
    \/ ReadCount(i) \/ CorrectCount(i)

(* A crash ends the clean-up of its instance and leaves Redis alone.       *)
LEMMA CrashFacts ==
  ASSUME Shape, NEW i \in Instances, Crash(i)
  PROVE  /\ status[i] \in Running /\ status' = [status EXCEPT ![i] = "crashed"]
         /\ held' = [held EXCEPT ![i] = 0] /\ crashes < MaxCrashes
         /\ crashes' = crashes + 1
         /\ UNCHANGED <<count, hash, instances, hbKey, starts, stalls, closes>>
         /\ work' \in Works /\ work'[i] = Idle
         /\ \A j \in Instances \ {i} : work'[j] = work[j]
         /\ abandoned' = IF status[i] \in Unlisted THEN abandoned + held[i] ELSE abandoned
         /\ fallback' = fallback \ {i}
BY IdleFields DEF Crash, Shape, Works, redisVars

(* At first nobody cleans up.                                              *)
LEMMA InitShape == Init => TypeOK /\ Shape /\ Gone
<1> SUFFICES ASSUME Init PROVE TypeOK /\ Shape /\ Gone
  OBVIOUS
<1>1. Shape
  <2>1. work \in Works
    BY IdleFields DEF Init, Works
  <2> QED
    BY <2>1, IdleFields DEF Init, Shape, Cleaning
<1>2. \A i \in Instances :
          /\ work[i].step \in Stages
          /\ work[i].todo \subseteq Instances \ {i}
          /\ work[i].dead \subseteq Instances
          /\ work[i].n \in Nat \union {NoHash}
  BY <1>1, WorkFields DEF Shape
<1>3. TypeOK
  <2>1. /\ hash \in [Instances -> Nat \union {NoHash}]
        /\ hbKey \in [Instances -> BOOLEAN]
        /\ status \in [Instances -> {"down"} \union Vanished \union Running]
        /\ held \in [Instances -> Nat]
    BY DEF Init, Running
  <2>2. /\ count \in Int /\ count <= MaxConnections /\ instances \subseteq Instances
        /\ starts \in 0 .. MaxStarts
        /\ crashes \in 0 .. MaxCrashes /\ stalls \in 0 .. MaxStalls
        /\ closes \in 0 .. MaxCloses /\ abandoned \in Nat /\ fallback \subseteq Instances
    BY ConstantsAssumption DEF Init
  <2> QED
    BY <1>2, <2>1, <2>2 DEF TypeOK
<1>4. Gone
  BY DEF Init, Gone, NoHash
<1> QED
  BY <1>1, <1>3, <1>4

(* Shape is preserved: only up instances tick, and only from up to closing *)
(* with no clean-up under way.                                             *)
LEMMA StepShape == TypeOK /\ Shape /\ [Next]_vars => Shape'
<1> SUFFICES ASSUME TypeOK, Shape, [Next]_vars PROVE Shape'
  OBVIOUS
<1>1. ASSUME NEW i \in Instances, Register(i) PROVE Shape'
  BY <1>1 DEF Register, TypeOK, Shape
<1>2. ASSUME NEW i \in Instances, Crash(i) PROVE Shape'
  BY <1>2, CrashFacts, IdleFields DEF TypeOK, Shape, Cleaning
<1>3. ASSUME NEW i \in Instances, Acquire(i) \/ Release(i) \/ Expire(i) PROVE Shape'
  BY <1>3 DEF Acquire, Release, Expire, Shape
<1>4. ASSUME NEW i \in Instances, StartClose(i) \/ FallBack(i) \/ CloseStep(i)
      PROVE  Shape'
  <2>1. /\ work' = work /\ \A j \in Instances \ {i} : status'[j] = status[j]
        /\ work[i].step = "idle" \/ status' = status
    <3>1. CASE StartClose(i)
      BY <3>1, IdleFields DEF StartClose, TypeOK
    <3>2. CASE FallBack(i)
      BY <3>2 DEF FallBack
    <3>3. CASE CloseStep(i)
      <4>1. status[i] # "up"
        BY <3>3 DEF CloseStep, CloseInFallback, CloseUnlist, CloseUnhash, CloseUnbeat
      <4>2. work[i].step = "idle"
        BY <4>1 DEF Shape
      <4> QED
        BY <3>3, <4>2
        DEF CloseStep, CloseInFallback, CloseUnlist, CloseUnhash, CloseUnbeat, TypeOK
    <3> QED
      BY <1>4, <3>1, <3>2, <3>3
  <2> QED
    BY <2>1 DEF Shape
<1>5. ASSUME NEW i \in Instances, Tick(i) PROVE Shape'
  BY <1>5, TickFacts DEF Shape, Cleaning
<1>6. ASSUME NEW i \in Instances, ListInstances(i) PROVE Shape'
  <2>1. i \notin work'[i].todo /\ i \notin work'[i].dead
    BY <1>6, ListFacts DEF Shape
  <2> QED
    BY <1>6, <2>1, ListFacts DEF Shape, Cleaning
<1>7. ASSUME NEW i \in Instances, CheckInstance(i) PROVE Shape'
  <2>1. status' = status /\ status[i] = "up" /\ work' \in Works
    BY <1>7, CheckFacts DEF Shape
  <2>2. /\ i \notin work'[i].todo /\ i \notin work'[i].dead
        /\ work'[i].step \in Cleaning => \E d \in Instances : work'[i].dead = {d}
    BY <1>7, CheckFacts, IdleFields, WorkFields DEF Shape, Cleaning
  <2> QED
    BY <1>7, <2>1, <2>2, CheckFacts DEF Shape
<1>8. ASSUME NEW i \in Instances, ReadCounts(i) PROVE Shape'
  BY <1>8, ReadFacts DEF Shape, Cleaning
<1>9. ASSUME NEW i \in Instances, Forward(i) PROVE Shape'
  <2>1. /\ status' = status /\ work' \in Works /\ status[i] = "up"
        /\ work'[i].todo = work[i].todo /\ work'[i].dead = work[i].dead
        /\ work[i].step \in Cleaning /\ \A j \in Instances \ {i} : work'[j] = work[j]
    BY <1>9, ForwardFacts DEF Forward, Shape, Cleaning
  <2> QED
    BY <2>1 DEF Shape
<1>10. ASSUME UNCHANGED vars PROVE Shape'
  BY <1>10 DEF vars, Shape
<1> QED
  BY <1>1, <1>2, <1>3, <1>4, <1>5, <1>6, <1>7, <1>8, <1>9, <1>10
  DEF Next, CleanupStep, Forward

(* The types are preserved.                                                *)
LEMMA StepTypeOK == TypeOK /\ Shape /\ [Next]_vars => TypeOK'
<1> SUFFICES ASSUME TypeOK, Shape, [Next]_vars PROVE TypeOK'
  OBVIOUS
<1>s. Shape'
  BY StepShape
<1>w. \A i \in Instances :
          /\ work'[i].step \in Stages
          /\ work'[i].todo \subseteq Instances \ {i}
          /\ work'[i].dead \subseteq Instances
          /\ work'[i].n \in Nat \union {NoHash}
  <2> TAKE i \in Instances
  <2>1. work'[i] \in [step : Stages, todo : SUBSET Instances,
                      dead : SUBSET Instances, n : Nat \union {NoHash}]
    BY <1>s DEF Shape, Works
  <2>2. i \notin work'[i].todo
    BY <1>s DEF Shape
  <2> QED
    BY <2>1, <2>2
<1>b. /\ MaxConnections \in Nat /\ MaxStarts \in Nat /\ MaxCrashes \in Nat
      /\ MaxStalls \in Nat /\ MaxCloses \in Nat
  BY ConstantsAssumption
<1>1. ASSUME NEW i \in Instances, Register(i) PROVE TypeOK'
  <2>1. /\ hash' \in [Instances -> Nat \union {NoHash}] /\ starts' \in 0 .. MaxStarts
        /\ status' \in [Instances -> {"down"} \union Vanished \union Running]
        /\ instances' \subseteq Instances
    BY <1>1, <1>b DEF Register, TypeOK, HashCount, Running, Closing, Unlisted, Vanished
  <2> QED
    BY <1>1, <1>w, <2>1 DEF Register, TypeOK
<1>2. ASSUME NEW i \in Instances, Crash(i) PROVE TypeOK'
  <2>1. /\ held' \in [Instances -> Nat] /\ crashes' \in 0 .. MaxCrashes
        /\ abandoned' \in Nat
        /\ status' \in [Instances -> {"down"} \union Vanished \union Running]
    BY <1>2, <1>b, CrashFacts DEF TypeOK, Vanished
  <2> QED
    BY <1>2, <1>w, <2>1, CrashFacts DEF TypeOK
<1>3. ASSUME NEW i \in Instances, Acquire(i) PROVE TypeOK'
  <2>1. /\ hash' \in [Instances -> Nat \union {NoHash}]
        /\ held' \in [Instances -> Nat] /\ count' \in Int /\ count' <= MaxConnections
    BY <1>3, <1>b DEF Acquire, TypeOK, HashCount
  <2> QED
    BY <1>3, <1>w, <2>1 DEF Acquire, TypeOK, bounds
<1>4. ASSUME NEW i \in Instances, Release(i) PROVE TypeOK'
  <2>1. /\ held' \in [Instances -> Nat] /\ count' \in Int /\ count' <= MaxConnections
    BY <1>4, <1>b DEF Release, TypeOK
  <2>2. hash' \in [Instances -> Nat \union {NoHash}] /\ abandoned' \in Nat
    BY <1>4 DEF Release, TypeOK, NoHash
  <2> QED
    BY <1>4, <1>w, <2>1, <2>2 DEF Release, TypeOK
<1>5. ASSUME NEW i \in Instances, StartClose(i) PROVE TypeOK'
  <2>1. /\ status' \in [Instances -> {"down"} \union Vanished \union Running]
        /\ closes' \in 0 .. MaxCloses
    BY <1>5, <1>b DEF StartClose, TypeOK, Running, Closing, Unlisted, Vanished
  <2> QED
    BY <1>5, <1>w, <2>1 DEF StartClose, TypeOK, redisVars
<1>12. ASSUME NEW i \in Instances, FallBack(i) PROVE TypeOK'
  <2>1. fallback' \subseteq Instances
    BY <1>12 DEF FallBack, TypeOK
  <2> QED
    BY <1>12, <1>w, <2>1 DEF FallBack, TypeOK, redisVars, bounds
<1>6. ASSUME NEW i \in Instances, CloseStep(i) PROVE TypeOK'
  <2>u. UNCHANGED <<count, starts, crashes, stalls, closes>>
    BY <1>6, Zenon
    DEF CloseStep, CloseInFallback, CloseUnlist, CloseUnhash, CloseUnbeat, redisVars, bounds
  <2>1. /\ status' \in [Instances -> {"down"} \union Vanished \union Running]
        /\ instances' \subseteq Instances /\ hash' \in [Instances -> Nat \union {NoHash}]
        /\ fallback' \subseteq Instances
    <3>1. /\ \E l \in {"left", "unhash", "unbeat", "down"} : status' = [status EXCEPT ![i] = l]
          /\ instances' \subseteq instances /\ fallback' \subseteq fallback
          /\ hash' = hash \/ hash' = [hash EXCEPT ![i] = NoHash]
      BY <1>6
      DEF CloseStep, CloseInFallback, CloseUnlist, CloseUnhash, CloseUnbeat, redisVars, bounds
    <3>2. {"left", "unhash", "unbeat", "down"} \subseteq {"down"} \union Vanished \union Running
      BY DEF Running, Closing, Unlisted, Vanished
    <3> QED
      BY <3>1, <3>2 DEF TypeOK
  <2>2. hbKey' \in [Instances -> BOOLEAN] /\ held' \in [Instances -> Nat]
    <3>1. /\ hbKey' = hbKey \/ hbKey' = [hbKey EXCEPT ![i] = FALSE]
          /\ held' = held \/ held' = [held EXCEPT ![i] = 0]
      BY <1>6, Zenon
      DEF CloseStep, CloseInFallback, CloseUnlist, CloseUnhash, CloseUnbeat, redisVars, bounds
    <3>2. [hbKey EXCEPT ![i] = FALSE] \in [Instances -> BOOLEAN]
      BY DEF TypeOK
    <3>3. [held EXCEPT ![i] = 0] \in [Instances -> Nat]
      BY DEF TypeOK
    <3> QED
      BY <3>1, <3>2, <3>3 DEF TypeOK
  <2>4. abandoned' \in Nat
    <3>1. abandoned' = abandoned \/ abandoned' = abandoned + held[i]
      BY <1>6, Zenon
      DEF CloseStep, CloseInFallback, CloseUnlist, CloseUnhash, CloseUnbeat, bounds
    <3>2. abandoned \in Nat /\ held[i] \in Nat
      BY DEF TypeOK
    <3> QED
      BY <3>1, <3>2
  <2> QED
    BY <1>w, <2>u, <2>1, <2>2, <2>4 DEF TypeOK
<1>7. ASSUME NEW i \in Instances, Expire(i) PROVE TypeOK'
  <2>1. hbKey' \in [Instances -> BOOLEAN] /\ stalls' \in 0 .. MaxStalls
    BY <1>7, <1>b DEF Expire, TypeOK
  <2> QED
    BY <1>7, <1>w, <2>1 DEF Expire, TypeOK
<1>8. ASSUME NEW i \in Instances, Tick(i) PROVE TypeOK'
  <2>1. hbKey' \in [Instances -> BOOLEAN]
    <3>1. hbKey' = [hbKey EXCEPT ![i] = TRUE]
      BY <1>8, TickFacts, Zenon
    <3>2. hbKey \in [Instances -> BOOLEAN]
      BY DEF TypeOK
    <3> QED
      BY ONLY <3>1, <3>2
  <2> QED
    BY <1>8, <1>w, <2>1, TickFacts DEF TypeOK
<1>9. ASSUME NEW i \in Instances,
             ListInstances(i) \/ CheckInstance(i) \/ ReadCounts(i) PROVE TypeOK'
  <2>1. UNCHANGED <<count, hash, instances, hbKey, status, held,
                    fallback, starts, crashes, stalls, closes, abandoned>>
    BY <1>9 DEF ListInstances, CheckInstance, ReadCounts, redisVars, bounds
  <2> QED
    BY <1>w, <2>1, Zenon DEF TypeOK
<1>10. ASSUME NEW i \in Instances, Forward(i) PROVE TypeOK'
  <2>1. /\ UNCHANGED <<hbKey, status, held, fallback,
                       starts, crashes, stalls, closes, abandoned>>
        /\ \/ /\ count' = IF work[i].n > 0 THEN count - work[i].n ELSE count
              /\ UNCHANGED <<hash, instances>>
           \/ /\ hash' = [d \in Instances |-> IF d \in work[i].dead THEN NoHash ELSE hash[d]]
              /\ UNCHANGED <<count, instances>>
           \/ instances' = instances \ work[i].dead /\ UNCHANGED <<count, hash>>
           \/ UNCHANGED <<count, hash, instances>>
           \/ count' = 0 /\ UNCHANGED <<hash, instances>>
    BY <1>10, ForwardFacts DEF Forward
  <2>2. work[i].n \in Nat \union {NoHash}
    BY <1>10, WorkFields
  <2>3. count' \in Int /\ count' <= MaxConnections
    <3>1. \A c, m \in Int : \A n \in Nat : c <= m => c - n \in Int /\ c - n <= m
      OBVIOUS
    <3>2. work[i].n > 0 => work[i].n \in Nat
      BY <2>2 DEF NoHash
    <3>3. count \in Int /\ MaxConnections \in Int /\ count <= MaxConnections
      BY <1>b DEF TypeOK
    <3>4. 0 \in Int /\ 0 <= MaxConnections
      BY <1>b
    <3>5. \/ count' = count - work[i].n /\ work[i].n > 0
          \/ count' = count
          \/ count' = 0
      BY <2>1
    <3> QED
      BY <3>1, <3>2, <3>3, <3>4, <3>5
  <2>4. hash' \in [Instances -> Nat \union {NoHash}] /\ instances' \subseteq Instances
    BY <2>1 DEF TypeOK
  <2> QED
    BY <1>w, <2>1, <2>3, <2>4 DEF TypeOK
<1>11. ASSUME UNCHANGED vars PROVE TypeOK'
  BY <1>11 DEF vars, redisVars, bounds, TypeOK
<1> QED
  BY <1>1, <1>2, <1>3, <1>4, <1>5, <1>6, <1>7, <1>8, <1>9, <1>10, <1>11, <1>12
  DEF Next, CleanupStep, Forward

(* The variables keep their types; in particular no clean-up takes an      *)
(* instance for dead that is its own, and the counter, which clean-ups     *)
(* drive below zero, never passes the limit.                               *)
THEOREM HeartbeatTypeCorrect == Spec => []TypeOK
<1>1. TypeOK /\ Shape /\ [Next]_vars => TypeOK' /\ Shape'
  BY StepTypeOK, StepShape
<1>2. Init => TypeOK /\ Shape
  BY InitShape
<1> QED
  BY <1>1, <1>2, PTL DEF Spec

-----------------------------------------------------------------------------
(* A graceful close. *)

(* A process ends with nothing held, and what Close took away stays away   *)
(* until the instance registers again.                                     *)
LEMMA StepGone == TypeOK /\ Shape /\ Gone /\ [Next]_vars => Gone'
<1> SUFFICES ASSUME TypeOK, Shape, Gone, [Next]_vars PROVE Gone'
  OBVIOUS
<1>1. ASSUME NEW i \in Instances, Register(i) PROVE Gone'
  BY <1>1 DEF Register, TypeOK, Gone, Closing, Unlisted, Vanished
<1>2. ASSUME NEW i \in Instances, Crash(i) PROVE Gone'
  BY <1>2, CrashFacts DEF TypeOK, Gone, Closing, Unlisted, Vanished
<1>3. ASSUME NEW i \in Instances, Acquire(i) PROVE Gone'
  BY <1>3 DEF Acquire, TypeOK, Gone, Vanished
<1>4. ASSUME NEW i \in Instances, Release(i) PROVE Gone'
  <2>1. /\ held[i] > 0 /\ status[i] \in Running /\ held' = [held EXCEPT ![i] = @ - 1]
        /\ \A j \in Instances : hash[j] = NoHash => hash'[j] = NoHash
        /\ UNCHANGED <<instances, hbKey, status, fallback>>
    BY <1>4 DEF Release, TypeOK, NoHash
  <2> QED
    BY <2>1 DEF TypeOK, Gone, Running, Closing, Unlisted, Vanished
<1>5. ASSUME NEW i \in Instances, StartClose(i) PROVE Gone'
  BY <1>5 DEF StartClose, TypeOK, Gone, redisVars, Closing, Unlisted, Vanished
<1>12. ASSUME NEW i \in Instances, FallBack(i) PROVE Gone'
  BY <1>12 DEF FallBack, Gone, redisVars
<1>6. ASSUME NEW i \in Instances, CloseStep(i) PROVE Gone'
  <2>1. CASE CloseInFallback(i)
    BY <2>1 DEF CloseInFallback, TypeOK, Gone, redisVars, Closing, Unlisted, Vanished
  <2>2. CASE CloseUnlist(i)
    BY <2>2 DEF CloseUnlist, TypeOK, Gone, Closing, Unlisted, Vanished
  <2>3. CASE CloseUnhash(i)
    BY <2>3 DEF CloseUnhash, TypeOK, Gone, Closing, Unlisted, Vanished
  <2>4. CASE CloseUnbeat(i)
    BY <2>4 DEF CloseUnbeat, TypeOK, Gone, Closing, Unlisted, Vanished
  <2> QED
    BY <1>6, <2>1, <2>2, <2>3, <2>4 DEF CloseStep
<1>7. ASSUME NEW i \in Instances, Expire(i) PROVE Gone'
  BY <1>7 DEF Expire, TypeOK, Gone
<1>8. ASSUME NEW i \in Instances, Tick(i) PROVE Gone'
  BY <1>8, TickFacts DEF TypeOK, Gone
<1>9. ASSUME NEW i \in Instances,
             ListInstances(i) \/ CheckInstance(i) \/ ReadCounts(i) PROVE Gone'
  <2>1. UNCHANGED <<count, hash, instances, hbKey, status, held, fallback>>
    BY <1>9 DEF ListInstances, CheckInstance, ReadCounts, redisVars, bounds
  <2> QED
    BY <2>1, Zenon DEF Gone
<1>10. ASSUME NEW i \in Instances, Forward(i) PROVE Gone'
  <2>1. UNCHANGED <<hbKey, status, held, fallback>> /\ instances' \subseteq instances
    BY <1>10, ForwardFacts DEF Forward
  <2>2. \A j \in Instances : hash[j] = NoHash => hash'[j] = NoHash
    BY <1>10, ForwardFacts DEF Forward
  <2> QED
    BY <2>1, <2>2 DEF Gone
<1>11. ASSUME UNCHANGED vars PROVE Gone'
  BY <1>11 DEF vars, redisVars, Gone
<1> QED
  BY <1>1, <1>2, <1>3, <1>4, <1>5, <1>6, <1>7, <1>8, <1>9, <1>10, <1>11, <1>12
  DEF Next, CleanupStep, Forward

(* A Close that was not in fallback when it looked (redis.go:459) leaves   *)
(* no mark of the instance in Redis: not the membership, not the counts,   *)
(* not the heartbeat, whatever its last sessions release, in Redis or      *)
(* locally, between the three commands and whichever clean-up of another   *)
(* instance comes between.  One in fallback does not get there: it ends in *)
(* "left".                                                                 *)
THEOREM CloseIsComplete == Spec => []ClosedLeavesNoTrace
<1>1. TypeOK /\ Shape /\ Gone /\ [Next]_vars => TypeOK' /\ Shape' /\ Gone'
  BY StepTypeOK, StepShape, StepGone
<1>2. Init => TypeOK /\ Shape /\ Gone
  BY InitShape
<1>3. Gone => ClosedLeavesNoTrace
  BY DEF Gone, ClosedLeavesNoTrace
<1> QED
  BY <1>1, <1>2, <1>3, PTL DEF Spec

-----------------------------------------------------------------------------
(* While nothing is disturbed, only the dead are cleaned up. *)

(* Every instance that runs is one that started with a heartbeat, which it *)
(* keeps, and has at least the slots of its sessions in its hash until it  *)
(* deletes it.  What a clean-up has at hand runs no more.                  *)
Present ==
    /\ instances \subseteq InitiallyUp
    /\ \A i \in Instances :
          /\ work[i].todo \subseteq InitiallyUp
          /\ status[i] \in Running => i \in InitiallyUp /\ hbKey[i]
          /\ status[i] \in {"up", "unlist", "unhash"} =>
                hash[i] # NoHash /\ held[i] <= hash[i]
          /\ work[i].step \in Cleaning =>
                \A d \in work[i].dead : d \in InitiallyUp /\ status[d] \notin Running

(* At first every instance that runs has its heartbeat and an empty hash.  *)
LEMMA InitPresent == Init => Present
<1> SUFFICES ASSUME Init PROVE Present
  OBVIOUS
<1>1. instances \subseteq InitiallyUp
  BY DEF Init
<1>2. ASSUME NEW i \in Instances
      PROVE  /\ work[i].todo = {} /\ work[i].step \notin Cleaning
             /\ status[i] \in Running =>
                   /\ i \in InitiallyUp /\ hbKey[i] /\ hash[i] = 0 /\ held[i] = 0
             /\ status[i] \in {"up", "unlist", "unhash"} => status[i] \in Running
  <2>1. work[i] = Idle
    BY DEF Init
  <2>2. status[i] \in Running => i \in InitiallyUp
    BY DEF Init, Running, Closing, Unlisted, Vanished
  <2> QED
    BY <2>1, <2>2, IdleFields DEF Init, Cleaning, Running, Closing, Unlisted, Vanished
<1>3. ASSUME NEW i \in Instances
      PROVE  /\ status[i] \in {"up", "unlist", "unhash"} =>
                   hash[i] # NoHash /\ held[i] <= hash[i]
  BY <1>2 DEF NoHash
<1> QED
  BY <1>1, <1>2, <1>3 DEF Present

(* Only Register and an expiry in front of a running process disturb, and  *)
(* what is disturbed stays so.                                             *)
LEMMA StaysDisturbed ==
  ASSUME TypeOK, Shape, [Next]_vars, Undisturbed'
  PROVE  /\ Undisturbed
         /\ \A i \in Instances : ~Register(i)
         /\ \A i \in Instances : Expire(i) => status[i] \notin Running
<1>t. starts \in Nat /\ stalls \in Nat
  BY ConstantsAssumption DEF TypeOK
<1>1. ASSUME NEW i \in Instances PROVE ~Register(i)
  BY <1>t DEF Register, Undisturbed
<1>2. ASSUME NEW i \in Instances, Expire(i) PROVE status[i] \notin Running /\ Undisturbed
  BY <1>t, <1>2 DEF Expire, Undisturbed
<1>3. ASSUME NEW i \in Instances,
             \/ Crash(i) \/ Acquire(i) \/ Release(i) \/ StartClose(i)
             \/ FallBack(i) \/ CloseStep(i) \/ Tick(i) \/ CleanupStep(i)
      PROVE  Undisturbed
  <2>1. UNCHANGED <<starts, stalls>>
    BY <1>3, Zenon
    DEF Crash, Acquire, Release, StartClose, FallBack, CloseStep, Tick, CleanupStep,
                CloseInFallback, CloseUnlist, CloseUnhash, CloseUnbeat,
                ListInstances, CheckInstance, ReadCounts, SubtractCounts, DeleteHash,
                RemoveInstance, ReadCount, CorrectCount, bounds
  <2> QED
    BY ONLY <2>1, Undisturbed' DEF Undisturbed
<1>4. ASSUME UNCHANGED vars PROVE Undisturbed
  BY <1>4 DEF vars, bounds, Undisturbed
<1> QED
  BY <1>1, <1>2, <1>3, <1>4 DEF Next

(* While nothing is disturbed, what runs keeps its heartbeat and its hash. *)
LEMMA StepPresent ==
  ASSUME TypeOK, Shape, Gone, Present, [Next]_vars, Undisturbed'
  PROVE  Present'
<1>1. ASSUME NEW i \in Instances, Crash(i) PROVE Present'
  <2>1. work'[i].todo = {} /\ work'[i].step = "idle" /\ instances' \subseteq InitiallyUp
    BY <1>1, CrashFacts, IdleFields DEF Present
  <2>2. /\ status[i] \in Running /\ status' = [status EXCEPT ![i] = "crashed"]
        /\ held' = [held EXCEPT ![i] = 0] /\ UNCHANGED <<hash, hbKey>>
        /\ \A j \in Instances \ {i} : work'[j] = work[j]
    BY <1>1, CrashFacts
  <2>3. ASSUME NEW j \in Instances
        PROVE  /\ status'[j] \in Running => j \in InitiallyUp /\ hbKey'[j]
               /\ status'[j] \in {"up", "unlist", "unhash"} =>
                     hash'[j] # NoHash /\ held'[j] <= hash'[j]
               /\ status'[j] \in Running => status[j] \in Running
    BY <2>2 DEF TypeOK, Present, Running, Closing, Unlisted, Vanished
  <2>4. ASSUME NEW j \in Instances, work'[j].step \in Cleaning, NEW d \in work'[j].dead
        PROVE  d \in InitiallyUp /\ status'[d] \notin Running
    <3>1. j # i /\ work'[j] = work[j]
      BY <2>1, <2>2, <2>4 DEF Cleaning
    <3>2. d \in Instances
      BY <2>4, <3>1, WorkFields
    <3> QED
      BY <2>3, <2>4, <3>1, <3>2 DEF Present
  <2>5. \A j \in Instances : work'[j].todo \subseteq InitiallyUp
    BY <2>1, <2>2 DEF Present
  <2> QED
    BY <2>1, <2>3, <2>4, <2>5 DEF Present
<1>2. ASSUME NEW i \in Instances, Acquire(i) PROVE Present'
  <2>1. /\ status[i] = "up" /\ hash' = [hash EXCEPT ![i] = HashCount(i) + 1]
        /\ held' = [held EXCEPT ![i] = @ + 1] /\ UNCHANGED <<instances, hbKey, status, work>>
    BY <1>2 DEF Acquire
  <2>2. HashCount(i) = hash[i] /\ hash[i] \in Nat /\ held[i] \in Nat /\ held[i] <= hash[i]
    BY <2>1 DEF TypeOK, Present, HashCount
  <2>3. hash'[i] = hash[i] + 1 /\ held'[i] = held[i] + 1
    BY <2>1, <2>2 DEF TypeOK
  <2>4. hash'[i] # NoHash /\ held'[i] <= hash'[i]
    BY <2>2, <2>3 DEF NoHash
  <2>5. \A j \in Instances \ {i} : hash'[j] = hash[j] /\ held'[j] = held[j]
    BY <2>1 DEF TypeOK
  <2> QED
    BY <2>1, <2>4, <2>5 DEF Present
<1>3. ASSUME NEW i \in Instances, Release(i) PROVE Present'
  <2>1. /\ status[i] \in Running /\ held[i] > 0 /\ held' = [held EXCEPT ![i] = @ - 1]
        /\ \/ hash' = hash
           \/ hash' = [hash EXCEPT ![i] = IF @ > 0 THEN @ - 1 ELSE @]
        /\ UNCHANGED <<instances, hbKey, status, work>>
    BY <1>3 DEF Release
  <2>2. held[i] \in Nat /\ hash[i] \in Nat \union {NoHash}
    BY DEF TypeOK
  <2>3. \A j \in Instances \ {i} : hash'[j] = hash[j] /\ held'[j] = held[j]
    BY <2>1 DEF TypeOK
  <2>4. /\ held'[i] = held[i] - 1
        /\ hash'[i] = hash[i] \/ (hash[i] > 0 /\ hash'[i] = hash[i] - 1)
    BY <2>1 DEF TypeOK
  <2>5. ASSUME status[i] \in {"up", "unlist", "unhash"}
        PROVE  hash'[i] # NoHash /\ held'[i] <= hash'[i]
    <3>1. hash[i] \in Nat /\ held[i] <= hash[i]
      BY <2>2, <2>5 DEF Present
    <3>2. \A h, l \in Nat : /\ l > 0 /\ l <= h => l - 1 <= h /\ l - 1 <= h - 1
                            /\ h > 0 => h - 1 # -1
      OBVIOUS
    <3>3. hash[i] # NoHash
      BY <2>5 DEF Present
    <3> QED
      BY <2>1, <2>2, <2>4, <3>1, <3>2, <3>3 DEF NoHash
  <2> QED
    BY <2>1, <2>3, <2>5 DEF Present
<1>13. ASSUME NEW i \in Instances, FallBack(i) PROVE Present'
  BY <1>13 DEF FallBack, redisVars, Present
<1>4. ASSUME NEW i \in Instances, StartClose(i) PROVE Present'
  <2>1. /\ status[i] = "up" /\ status' = [status EXCEPT ![i] = "unlist"]
        /\ UNCHANGED <<hash, instances, hbKey, held, work>>
    BY <1>4 DEF StartClose, redisVars
  <2>2. ASSUME NEW j \in Instances
        PROVE  /\ status'[j] \in Running <=> status[j] \in Running
               /\ status'[j] \in {"up", "unlist", "unhash"}
                     <=> status[j] \in {"up", "unlist", "unhash"}
    BY <2>1 DEF TypeOK, Running, Closing, Unlisted, Vanished
  <2>3. ASSUME NEW j \in Instances, work[j].step \in Cleaning, NEW d \in work[j].dead
        PROVE  status'[d] \notin Running
    BY <2>2, <2>3, WorkFields DEF Present
  <2> QED
    BY <2>1, <2>2, <2>3 DEF Present
<1>5. ASSUME NEW i \in Instances, CloseStep(i) PROVE Present'
  <2>1. /\ \/ /\ status[i] = "unlist" /\ status' = [status EXCEPT ![i] = "unhash"]
              /\ hash' = hash /\ hbKey' = hbKey /\ held' = held
           \/ /\ status[i] = "unlist" /\ status' = [status EXCEPT ![i] = "left"]
              /\ hash' = hash /\ hbKey' = hbKey /\ held' = [held EXCEPT ![i] = 0]
           \/ /\ status[i] = "unhash" /\ status' = [status EXCEPT ![i] = "unbeat"]
              /\ hash' = [hash EXCEPT ![i] = NoHash] /\ hbKey' = hbKey /\ held' = held
           \/ /\ status[i] = "unbeat" /\ status' = [status EXCEPT ![i] = "down"]
              /\ hash' = hash /\ hbKey' = [hbKey EXCEPT ![i] = FALSE]
              /\ held' = [held EXCEPT ![i] = 0]
        /\ instances' \subseteq instances /\ work' = work
    BY <1>5
    DEF CloseStep, CloseInFallback, CloseUnlist, CloseUnhash, CloseUnbeat, redisVars
  <2>2. ASSUME NEW j \in Instances
        PROVE  /\ status'[j] \in Running => status[j] \in Running /\ hbKey'[j] = hbKey[j]
               /\ status'[j] \in {"up", "unlist", "unhash"} =>
                     /\ status[j] \in {"up", "unlist", "unhash"}
                     /\ hash'[j] = hash[j] /\ held'[j] = held[j]
    BY <2>1 DEF TypeOK, Running, Closing, Unlisted, Vanished
  <2>3. ASSUME NEW j \in Instances, work[j].step \in Cleaning, NEW d \in work[j].dead
        PROVE  status'[d] \notin Running
    BY <2>2, <2>3, WorkFields DEF Present
  <2> QED
    BY <2>1, <2>2, <2>3 DEF Present
<1>6. ASSUME NEW i \in Instances, Expire(i) PROVE Present'
  <2>1. /\ status[i] \notin Running /\ hbKey' = [hbKey EXCEPT ![i] = FALSE]
        /\ UNCHANGED <<hash, instances, status, held, work>>
    BY <1>6, StaysDisturbed DEF Expire
  <2> QED
    BY <2>1 DEF TypeOK, Present
<1>7. ASSUME NEW i \in Instances, Tick(i) PROVE Present'
  <2>1. /\ hbKey' = [hbKey EXCEPT ![i] = TRUE] /\ UNCHANGED <<hash, instances, status, held>>
        /\ \A j \in Instances \ {i} : work'[j] = work[j]
        /\ work'[i].todo = {} /\ work'[i].step \in {"idle", "list"}
    BY <1>7, TickFacts
  <2>2. \A j \in Instances : hbKey[j] => hbKey'[j]
    BY <2>1 DEF TypeOK
  <2>3. ASSUME NEW j \in Instances, work'[j].step \in Cleaning
        PROVE  work'[j] = work[j]
    BY <2>1, <2>3 DEF Cleaning
  <2> QED
    BY <2>1, <2>2, <2>3 DEF Present
<1>8. ASSUME NEW i \in Instances, ListInstances(i) PROVE Present'
  <2>1. /\ UNCHANGED <<hash, instances, hbKey, status, held>>
        /\ \A j \in Instances \ {i} : work'[j] = work[j]
        /\ work'[i].todo = instances \ {i} /\ work'[i].step = "check"
    BY <1>8, ListFacts
  <2>2. ASSUME NEW j \in Instances, work'[j].step \in Cleaning
        PROVE  work'[j] = work[j]
    BY <2>1, <2>2 DEF Cleaning
  <2> QED
    BY <2>1, <2>2 DEF Present
<1>9. ASSUME NEW i \in Instances, CheckInstance(i) PROVE Present'
  <2>1. /\ UNCHANGED <<hash, instances, hbKey, status, held>>
        /\ \A j \in Instances \ {i} : work'[j] = work[j]
    BY <1>9, CheckFacts
  <2>2. /\ work'[i].todo \subseteq work[i].todo
        /\ work'[i].step \in Cleaning =>
              \E d \in work[i].todo : ~hbKey[d] /\ work'[i].dead = {d}
    BY <1>9, CheckFacts, IdleFields DEF Cleaning
  <2>3. work'[i].step \in Cleaning =>
           \A d \in work'[i].dead : d \in InitiallyUp /\ status[d] \notin Running
    BY <2>2, WorkFields DEF Present
  <2> QED
    BY <2>1, <2>2, <2>3 DEF Present
<1>10. ASSUME NEW i \in Instances, ReadCounts(i) PROVE Present'
  <2>1. /\ UNCHANGED <<hash, instances, hbKey, status, held>>
        /\ \A j \in Instances \ {i} : work'[j] = work[j]
        /\ work'[i].todo = work[i].todo /\ work'[i].dead = work[i].dead
        /\ work[i].step \in Cleaning
    BY <1>10, ReadFacts DEF Cleaning
  <2> QED
    BY <2>1 DEF Present
<1>11. ASSUME NEW i \in Instances, Forward(i) PROVE Present'
  <2>1. /\ UNCHANGED <<hbKey, status, held>> /\ instances' \subseteq instances
        /\ \A j \in Instances \ {i} : work'[j] = work[j]
        /\ work'[i].todo = work[i].todo /\ work'[i].dead = work[i].dead
        /\ work[i].step \in Cleaning
        /\ \/ hash' = hash
           \/ hash' = [d \in Instances |-> IF d \in work[i].dead THEN NoHash ELSE hash[d]]
    BY <1>11, ForwardFacts DEF Forward, Cleaning
  <2>2. \A j \in Instances : status[j] \in Running => hash'[j] = hash[j]
    BY <2>1 DEF Present
  <2>3. \A j \in Instances : status[j] \in {"up", "unlist", "unhash"} => status[j] \in Running
    BY DEF Running, Closing, Unlisted, Vanished
  <2> QED
    BY <2>1, <2>2, <2>3 DEF Present
<1>12. ASSUME UNCHANGED vars PROVE Present'
  BY <1>12 DEF vars, redisVars, Present
<1> QED
  BY <1>1, <1>2, <1>3, <1>4, <1>5, <1>6, <1>7, <1>8, <1>9, <1>10, <1>11, <1>12, <1>13,
     StaysDisturbed DEF Next, CleanupStep, Forward

-----------------------------------------------------------------------------
(* Without a crash. *)

(* Every close so far found the coordinator out of fallback.               *)
ClosesUnregister ==
    \A i \in Instances :
        /\ status[i] # "left"
        /\ status[i] = "unlist" => i \notin fallback

(* A clean-up finds nothing to subtract, and the counter is exact.         *)
CrashFree ==
    /\ \A i \in Instances :
          /\ status[i] \notin Vanished
          /\ work[i].step \in {"decr", "del", "srem"} => work[i].n = NoHash
          /\ work[i].step \notin {"get", "fix"}
    /\ count = TotalHeld + abandoned

(* The slots in use, and what one instance adds to them.                   *)
LEMMA HeldType ==
  ASSUME TypeOK
  PROVE  /\ TotalHeld \in Nat /\ \A i \in Instances : held[i] <= TotalHeld
         /\ TotalHeld = Sum(held, Instances)
<1>1. TotalHeld = Sum(held, Instances)
  BY DEF TotalHeld, Sum
<1>2. IsFiniteSet(Instances) /\ \A i \in Instances : held[i] \in Nat
  BY ConstantsAssumption DEF TypeOK
<1> QED
  BY <1>1, <1>2, SumNatural

(* Nobody acquires or releases.                                            *)
LEMMA HeldKept == ASSUME held' = held PROVE TotalHeld' = TotalHeld
BY DEF TotalHeld, FoldFunctionOnSet, MapThenFoldSet

(* One instance acquires, releases or ends.                                *)
LEMMA HeldChanged ==
  ASSUME TypeOK, NEW i \in Instances, NEW n \in Nat, held' = [held EXCEPT ![i] = n]
  PROVE  TotalHeld' = TotalHeld - held[i] + n
<1> DEFINE h == [held EXCEPT ![i] = n]
<1>1. TotalHeld' = Sum(h, Instances)
  BY DEF TotalHeld, Sum, FoldFunctionOnSet, MapThenFoldSet
<1>2. \A j \in Instances : held[j] \in Int /\ h[j] \in Int
  BY DEF TypeOK
<1>3. \A j \in Instances \ {i} : h[j] = held[j]
  BY DEF TypeOK
<1>4. h[i] = n /\ IsFiniteSet(Instances)
  BY ConstantsAssumption DEF TypeOK
<1>5. Sum(h, Instances) = Sum(held, Instances) - held[i] + h[i]
  <2> HIDE DEF h
  <2> QED
    BY <1>2, <1>3, <1>4, SumChanged
<1> QED
  BY <1>1, <1>4, <1>5, HeldType

(* At first nothing is counted.                                            *)
LEMMA InitCrashFree == Init => CrashFree
<1> SUFFICES ASSUME Init PROVE CrashFree
  OBVIOUS
<1>1. \A i \in Instances : work[i].step = "idle" /\ status[i] \notin Vanished
  BY IdleFields DEF Init, Vanished
<1>2. TotalHeld = 0
  <2>1. \A i \in Instances : held[i] = 0
    BY DEF Init
  <2> QED
    BY <2>1, ConstantsAssumption, SumZero DEF TotalHeld, Sum
<1>3. count = TotalHeld + abandoned
  BY <1>2 DEF Init
<1> QED
  BY <1>1, <1>3 DEF CrashFree

(* Arithmetic of one script or one ending.                                 *)
LEMMA CountMoves ==
  ASSUME NEW c \in Int, NEW t \in Nat, NEW a \in Nat, NEW h \in Nat, c = t + a
  PROVE  /\ c + 1 = (t - h + (h + 1)) + a
         /\ h > 0 /\ h <= t => c > 0 /\ c - 1 = (t - h + (h - 1)) + a /\ h - 1 \in Nat
         /\ h > 0 /\ h <= t => c = (t - h + (h - 1)) + (a + 1)
         /\ c = (t - h + 0) + (a + h)
OBVIOUS

(* Without a crash what a clean-up finds is what Close left: no counts.    *)
LEMMA StepCrashFree ==
  ASSUME TypeOK, Shape, Gone, Present, CrashFree, ClosesUnregister,
         [Next]_vars, Undisturbed', ClosesUnregister', crashes' = 0
  PROVE  CrashFree'
<1>t. count \in Int /\ abandoned \in Nat /\ crashes \in Nat
  BY ConstantsAssumption DEF TypeOK
<1>c. count = TotalHeld + abandoned
  BY DEF CrashFree
<1>1. ASSUME NEW i \in Instances, Crash(i) PROVE FALSE
  BY <1>1, <1>t, CrashFacts
<1>2. ASSUME NEW i \in Instances, Acquire(i) PROVE CrashFree'
  <2>1. /\ count' = count + 1 /\ held' = [held EXCEPT ![i] = held[i] + 1]
        /\ UNCHANGED <<status, work, abandoned>>
    BY <1>2 DEF Acquire, bounds
  <2>2. held[i] \in Nat /\ held[i] + 1 \in Nat
    BY DEF TypeOK
  <2>3. TotalHeld' = TotalHeld - held[i] + (held[i] + 1)
    BY <2>1, <2>2, HeldChanged
  <2>4. count' = TotalHeld' + abandoned'
    BY <1>t, <1>c, <2>1, <2>2, <2>3, HeldType, CountMoves
  <2> QED
    BY <2>1, <2>4 DEF CrashFree
<1>3. ASSUME NEW i \in Instances, Release(i) PROVE CrashFree'
  <2>1. /\ held[i] > 0 /\ held' = [held EXCEPT ![i] = held[i] - 1]
        /\ UNCHANGED <<status, work>>
    BY <1>3 DEF Release
  <2>2. held[i] \in Nat /\ held[i] <= TotalHeld /\ TotalHeld \in Nat
    BY HeldType DEF TypeOK
  <2>3. /\ count > 0 /\ held[i] - 1 \in Nat
        /\ count - 1 = (TotalHeld - held[i] + (held[i] - 1)) + abandoned
        /\ count = (TotalHeld - held[i] + (held[i] - 1)) + (abandoned + 1)
    BY <1>t, <1>c, <2>1, <2>2, CountMoves
  <2>4. TotalHeld' = TotalHeld - held[i] + (held[i] - 1)
    BY <2>1, <2>3, HeldChanged
  <2>5. CASE i \in fallback
    <3>1. status[i] \in Unlisted
      BY <2>5 DEF Gone, Closing, ClosesUnregister
    <3>2. count' = count /\ abandoned' = abandoned + 1
      BY <1>3, <2>5, <3>1 DEF Release
    <3> QED
      BY <2>1, <2>3, <2>4, <3>2 DEF CrashFree
  <2>6. CASE i \notin fallback
    <3>1. count' = count - 1 /\ abandoned' = abandoned
      BY <1>3, <1>t, <2>3, <2>6 DEF Release
    <3> QED
      BY <2>1, <2>3, <2>4, <3>1 DEF CrashFree
  <2> QED
    BY <2>5, <2>6
<1>4. ASSUME NEW i \in Instances, StartClose(i) PROVE CrashFree'
  <2>1. /\ status' = [status EXCEPT ![i] = "unlist"]
        /\ UNCHANGED <<count, held, work, abandoned>>
    BY <1>4 DEF StartClose, redisVars
  <2>2. count' = TotalHeld' + abandoned'
    BY <1>c, <2>1, HeldKept
  <2> QED
    BY <2>1, <2>2 DEF CrashFree, TypeOK, Vanished
<1>11. ASSUME NEW i \in Instances, FallBack(i) PROVE CrashFree'
  <2>1. UNCHANGED <<count, status, held, work, abandoned>>
    BY <1>11 DEF FallBack, redisVars, bounds
  <2> QED
    BY <2>1, HeldKept DEF CrashFree
<1>5. ASSUME NEW i \in Instances, CloseStep(i) PROVE CrashFree'
  <2>0. ~CloseInFallback(i)
    BY DEF CloseInFallback, ClosesUnregister
  <2>1. /\ \/ held' = held /\ abandoned' = abandoned
           \/ held' = [held EXCEPT ![i] = 0] /\ abandoned' = abandoned + held[i]
        /\ \E l \in {"unhash", "unbeat", "down"} : status' = [status EXCEPT ![i] = l]
        /\ UNCHANGED <<count, work>>
    BY <1>5, <2>0 DEF CloseStep, CloseUnlist, CloseUnhash, CloseUnbeat, bounds
  <2>2. CASE held' = held /\ abandoned' = abandoned
    <3>1. count' = TotalHeld' + abandoned'
      BY <1>c, <2>1, <2>2, HeldKept
    <3> QED
      BY <2>1, <3>1 DEF CrashFree, TypeOK, Vanished
  <2>3. CASE held' = [held EXCEPT ![i] = 0] /\ abandoned' = abandoned + held[i]
    <3>1. held[i] \in Nat
      BY DEF TypeOK
    <3>2. TotalHeld' = TotalHeld - held[i] + 0
      BY <2>3, HeldChanged
    <3>3. count' = TotalHeld' + abandoned'
      BY <1>t, <1>c, <2>1, <2>3, <3>1, <3>2, HeldType, CountMoves
    <3> QED
      BY <2>1, <3>3 DEF CrashFree, TypeOK, Vanished
  <2> QED
    BY <2>1, <2>2, <2>3
<1>6. ASSUME NEW i \in Instances, Expire(i) PROVE CrashFree'
  <2>1. UNCHANGED <<count, status, held, work, abandoned>>
    BY <1>6 DEF Expire
  <2> QED
    BY <2>1, HeldKept DEF CrashFree
<1>7. ASSUME NEW i \in Instances, Tick(i) \/ ListInstances(i) \/ CheckInstance(i)
      PROVE  CrashFree'
  <2>1. /\ UNCHANGED <<count, status, held, abandoned>>
        /\ \A j \in Instances \ {i} : work'[j] = work[j]
        /\ work'[i].step \in {"idle", "list", "check", "read"}
    BY <1>7, TickFacts, ListFacts, CheckFacts, IdleFields
  <2>2. count' = TotalHeld' + abandoned'
    BY <1>c, <2>1, HeldKept
  <2> QED
    BY <2>1, <2>2 DEF CrashFree
<1>8. ASSUME NEW i \in Instances, ReadCounts(i) PROVE CrashFree'
  <2>1. /\ UNCHANGED <<count, status, held, abandoned>>
        /\ \A j \in Instances \ {i} : work'[j] = work[j]
        /\ work[i].step = "read" /\ work'[i].step = "decr"
        /\ \E d \in Instances : work[i].dead = {d} /\ work'[i].n = hash[d]
    BY <1>8, ReadFacts
  <2>2. work'[i].n = NoHash
    <3>1. PICK d \in Instances : work[i].dead = {d} /\ work'[i].n = hash[d]
      BY <2>1
    <3>2. status[d] \notin Running /\ status[d] \notin Vanished
      BY <2>1, <3>1 DEF Present, CrashFree, Cleaning
    <3>3. status[d] = "down"
      BY <3>2 DEF TypeOK
    <3> QED
      BY <3>1, <3>3 DEF Gone
  <2>3. count' = TotalHeld' + abandoned'
    BY <1>c, <2>1, HeldKept
  <2> QED
    BY <2>1, <2>2, <2>3 DEF CrashFree
<1>9. ASSUME NEW i \in Instances, Forward(i) PROVE CrashFree'
  <2>1. /\ UNCHANGED <<status, held, abandoned>> /\ work'[i].n = work[i].n
        /\ \A j \in Instances \ {i} : work'[j] = work[j]
    BY <1>9, ForwardFacts DEF Forward
  <2>2. /\ work[i].n = NoHash
        /\ \/ /\ work'[i].step = "del"
              /\ count' = IF work[i].n > 0 THEN count - work[i].n ELSE count
           \/ work'[i].step = "srem" /\ count' = count
           \/ /\ work'[i].step = IF work[i].n = NoHash THEN "check" ELSE "get"
              /\ count' = count
    BY <1>9, ForwardFacts DEF Forward, CrashFree
  <2>3. count' = count
    BY <2>2 DEF NoHash
  <2>4. count' = TotalHeld' + abandoned'
    BY <1>c, <2>1, <2>3, HeldKept
  <2> QED
    BY <2>1, <2>2, <2>4 DEF CrashFree
<1>10. ASSUME UNCHANGED vars PROVE CrashFree'
  BY <1>10, HeldKept DEF vars, redisVars, bounds, CrashFree
<1> QED
  BY <1>1, <1>2, <1>3, <1>4, <1>5, <1>6, <1>7, <1>8, <1>9, <1>10, <1>11,
     StaysDisturbed DEF Next, CleanupStep, Forward

(* A crash is counted. *)
LEMMA StaysCrashed ==
  ASSUME TypeOK, Shape, [Next]_vars, crashes' = 0
  PROVE  crashes = 0
<1>t. crashes \in Nat
  BY ConstantsAssumption DEF TypeOK
<1>1. ASSUME NEW i \in Instances, Crash(i) PROVE FALSE
  <2>1. crashes' = crashes + 1
    BY <1>1 DEF Crash
  <2> QED
    BY ONLY <1>t, <2>1, crashes' = 0
<1>2. ASSUME NEW i \in Instances,
             \/ Register(i) \/ Acquire(i) \/ Release(i) \/ StartClose(i)
             \/ FallBack(i) \/ CloseStep(i) \/ Expire(i) \/ Tick(i) \/ CleanupStep(i)
      PROVE  crashes' = crashes
  BY <1>2, Zenon
  DEF Register, Acquire, Release, StartClose, FallBack, CloseStep, Expire, Tick,
              CloseInFallback, CloseUnlist, CloseUnhash, CloseUnbeat,
              CleanupStep, ListInstances, CheckInstance, ReadCounts, SubtractCounts,
              DeleteHash, RemoveInstance, ReadCount, CorrectCount, bounds
<1>3. ASSUME UNCHANGED vars PROVE crashes' = crashes
  BY <1>3 DEF vars, bounds
<1> QED
  BY <1>1, <1>2, <1>3 DEF Next

(* A close in fallback is not undone, unless the instance crashes or       *)
(* starts again.                                                           *)
LEMMA StaysInFallback ==
  ASSUME TypeOK, Shape, Gone, [Next]_vars, Undisturbed', crashes' = 0, ClosesUnregister'
  PROVE  ClosesUnregister
<1>1. ASSUME NEW i \in Instances PROVE ~Register(i) /\ ~Crash(i)
  <2>1. crashes \in Nat
    BY ConstantsAssumption DEF TypeOK
  <2>2. Crash(i) => crashes' = crashes + 1
    BY DEF Crash
  <2> QED
    BY <2>1, <2>2, StaysDisturbed
<1>2. ASSUME NEW i \in Instances, StartClose(i) PROVE ClosesUnregister
  <2>1. status[i] = "up" /\ status' = [status EXCEPT ![i] = "unlist"] /\ fallback' = fallback
    BY <1>2 DEF StartClose
  <2> QED
    BY <2>1 DEF ClosesUnregister, TypeOK
<1>3. ASSUME NEW i \in Instances, FallBack(i) PROVE ClosesUnregister
  BY <1>3 DEF FallBack, ClosesUnregister
<1>4. ASSUME NEW i \in Instances, CloseStep(i) PROVE ClosesUnregister
  <2>1. CASE CloseInFallback(i)
    BY <2>1 DEF CloseInFallback, ClosesUnregister, TypeOK
  <2>2. CASE CloseUnlist(i)
    BY <2>2 DEF CloseUnlist, ClosesUnregister, TypeOK
  <2>3. CASE CloseUnhash(i)
    BY <2>3 DEF CloseUnhash, ClosesUnregister, TypeOK
  <2>4. CASE CloseUnbeat(i)
    BY <2>4 DEF CloseUnbeat, ClosesUnregister, TypeOK
  <2> QED
    BY <1>4, <2>1, <2>2, <2>3, <2>4 DEF CloseStep
<1>5. ASSUME NEW i \in Instances,
             Acquire(i) \/ Release(i) \/ Expire(i) \/ Tick(i) \/ CleanupStep(i)
      PROVE  UNCHANGED <<status, fallback>>
  BY <1>5, Zenon
  DEF Acquire, Release, Expire, Tick, CleanupStep, ListInstances, CheckInstance, ReadCounts,
      SubtractCounts, DeleteHash, RemoveInstance, ReadCount, CorrectCount
<1>6. ASSUME UNCHANGED <<status, fallback>> PROVE ClosesUnregister
  BY <1>6 DEF ClosesUnregister
<1>7. ASSUME UNCHANGED vars PROVE ClosesUnregister
  BY <1>6, <1>7 DEF vars
<1> QED
  BY <1>1, <1>2, <1>3, <1>4, <1>5, <1>6, <1>7 DEF Next

(* The counter is what the sessions hold and what shutdowns abandoned.     *)
ExactWithoutCrash ==
    Undisturbed /\ crashes = 0 /\ ClosesUnregister => count = TotalHeld + abandoned

(* As long as no instance has crashed, restarted, stalled or been in       *)
(* fallback when it closed, the global counter is exact, for any number of *)
(* instances whose acquires, releases, shutdowns and clean-ups interleave: *)
(* no slot leaks but those a shutdown abandons, none is given back twice,  *)
(* and no correction to zero takes place.                                  *)
THEOREM CountExactWithoutCrash == Spec => []ExactWithoutCrash
<1> DEFINE I == /\ TypeOK /\ Shape /\ Gone
                /\ Undisturbed => Present
                /\ Undisturbed /\ crashes = 0 /\ ClosesUnregister => CrashFree
<1>1. Init => I
  BY InitShape, InitPresent, InitCrashFree
<1>2. I /\ [Next]_vars => I'
  <2> SUFFICES ASSUME I, [Next]_vars PROVE I'
    OBVIOUS
  <2>1. TypeOK' /\ Shape' /\ Gone'
    BY StepTypeOK, StepShape, StepGone
  <2>2. ASSUME Undisturbed' PROVE Present'
    BY <2>2, StaysDisturbed, StepPresent
  <2>3. ASSUME Undisturbed', crashes' = 0, ClosesUnregister' PROVE CrashFree'
    <3>1. Undisturbed /\ crashes = 0 /\ ClosesUnregister
      BY <2>3, StaysDisturbed, StaysCrashed, StaysInFallback
    <3> QED
      BY <2>3, <3>1, StepCrashFree
  <2> QED
    BY <2>1, <2>2, <2>3
<1>3. I => ExactWithoutCrash
  BY DEF CrashFree, ExactWithoutCrash
<1> QED
  BY <1>1, <1>2, <1>3, PTL DEF Spec

-----------------------------------------------------------------------------
(* With at most two instances. *)

(* A clean-up has subtracted the hash of the instance and not yet deleted it. *)
Subtracted(d) == \E i \in Instances : work[i].step = "del" /\ d \in work[i].dead

(* What the counter has to hold for an instance. *)
DueOf(i) ==
    IF hash[i] = NoHash THEN held[i] ELSE IF Subtracted(i) THEN 0 ELSE hash[i]

(* What the counter has to hold in all.                                    *)
TotalDue == Sum([i \in Instances |-> DueOf(i)], Instances)

(* Somebody still runs.                                                    *)
Alive == \E i \in Instances : status[i] \in Running

(* What a clean-up read is still what it is about to subtract, no count is *)
(* negative, and as long as an instance runs the counter holds what is     *)
(* due.                                                                    *)
Covered ==
    /\ \A i \in Instances :
          /\ work[i].step \in {"decr", "del"} =>
                \A d \in work[i].dead : work[i].n = hash[d]
          /\ work[i].step # "fix"
    /\ 0 <= count
    /\ Alive => TotalDue <= count

(* What is due for an instance is a number of slots.                       *)
LEMMA DueType == TypeOK => \A i \in Instances : DueOf(i) \in Nat
BY DEF TypeOK, DueOf

(* The same after a step.                                                  *)
LEMMA DueTypeNext == TypeOK' => \A i \in Instances : DueOf(i)' \in Nat
BY DEF TypeOK, DueOf

(* The total, and each part of it.                                         *)
LEMMA DueTotals ==
  ASSUME TypeOK
  PROVE  /\ TotalDue \in Nat
         /\ \A i \in Instances : DueOf(i) <= TotalDue
<1> DEFINE f == [i \in Instances |-> DueOf(i)]
<1>1. \A i \in Instances : f[i] \in Nat /\ f[i] = DueOf(i)
  BY DueType
<1>2. Sum(f, Instances) \in Nat /\ \A i \in Instances : f[i] <= Sum(f, Instances)
  <2> HIDE DEF f
  <2> QED
    BY <1>1, ConstantsAssumption, SumNatural
<1> QED
  BY <1>1, <1>2 DEF TotalDue

(* Nothing more becomes due for any instance.                              *)
LEMMA DueFalls ==
  ASSUME TypeOK, TypeOK', \A i \in Instances : DueOf(i)' <= DueOf(i)
  PROVE  TotalDue' <= TotalDue
<1> DEFINE f == [i \in Instances |-> DueOf(i)]
           g == [i \in Instances |-> DueOf(i)']
<1>1. \A i \in Instances : g[i] \in Int /\ f[i] \in Int /\ g[i] <= f[i]
  BY DueType, DueTypeNext
<1>2. TotalDue = Sum(f, Instances)
  BY DEF TotalDue
<1>3. TotalDue' = Sum(g, Instances)
  BY DEF TotalDue, Sum, FoldFunctionOnSet, MapThenFoldSet
<1> HIDE DEF f, g
<1> QED
  BY <1>1, <1>2, <1>3, ConstantsAssumption, SumMonotone

(* What is due changes for one instance.                                   *)
LEMMA DueChanges ==
  ASSUME TypeOK, TypeOK', NEW i \in Instances,
         \A j \in Instances \ {i} : DueOf(j)' = DueOf(j)
  PROVE  TotalDue' = TotalDue - DueOf(i) + DueOf(i)'
<1> DEFINE f == [j \in Instances |-> DueOf(j)]
           g == [j \in Instances |-> DueOf(j)']
<1>1. \A j \in Instances : f[j] \in Int /\ g[j] \in Int
  BY DueType, DueTypeNext
<1>2. \A j \in Instances \ {i} : g[j] = f[j]
  OBVIOUS
<1>3. TotalDue = Sum(f, Instances)
  BY DEF TotalDue
<1>4. TotalDue' = Sum(g, Instances)
  BY DEF TotalDue, Sum, FoldFunctionOnSet, MapThenFoldSet
<1>5. f[i] = DueOf(i) /\ g[i] = DueOf(i)'
  OBVIOUS
<1>6. Sum(g, Instances) = Sum(f, Instances) - f[i] + g[i]
  <2> HIDE DEF f, g
  <2> QED
    BY <1>1, <1>2, ConstantsAssumption, SumChanged
<1> QED
  BY <1>3, <1>4, <1>5, <1>6

(* Of three members of a set of two, two are the same.                     *)
LEMMA AmongTwo ==
  ASSUME NEW S, IsFiniteSet(S), Cardinality(S) <= 2, NEW a \in S, NEW b \in S, NEW c \in S
  PROVE  a = b \/ b = c \/ a = c
<1> SUFFICES ASSUME a # b, b # c, a # c PROVE FALSE
  OBVIOUS
<1>1. IsFiniteSet({a, b}) /\ Cardinality({a, b}) = 2
  <2>1. IsFiniteSet({a}) /\ Cardinality({a}) = 1
    BY FS_Singleton
  <2>2. {a, b} = {a} \union {b} /\ b \notin {a}
    OBVIOUS
  <2>3. /\ IsFiniteSet({a} \union {b})
        /\ b \notin {a} => Cardinality({a} \union {b}) = Cardinality({a}) + 1
    BY ONLY <2>1, FS_AddElement, Zenon
  <2> QED
    BY ONLY <2>1, <2>2, <2>3
<1>2. IsFiniteSet({a, b, c}) /\ Cardinality({a, b, c}) = 3
  <2>1. {a, b, c} = {a, b} \union {c} /\ c \notin {a, b}
    OBVIOUS
  <2>2. /\ IsFiniteSet({a, b} \union {c})
        /\ c \notin {a, b} => Cardinality({a, b} \union {c}) = Cardinality({a, b}) + 1
    <3> DEFINE T == {a, b}
    <3>1. IsFiniteSet(T)
      BY <1>1
    <3> HIDE DEF T
    <3>2. /\ IsFiniteSet(T \union {c})
          /\ c \notin T => Cardinality(T \union {c}) = Cardinality(T) + 1
      BY ONLY <3>1, FS_AddElement, Zenon
    <3> QED
      BY ONLY <3>2 DEF T
  <2> QED
    BY ONLY <1>1, <2>1, <2>2
<1>3. Cardinality({a, b, c}) <= Cardinality(S)
  <2>1. {a, b, c} \in SUBSET S
    OBVIOUS
  <2> QED
    BY <2>1, FS_Subset
<1>4. Cardinality(S) \in Nat
  BY FS_CardinalityType
<1> QED
  BY <1>2, <1>3, <1>4

(* With at most two instances the one that cleans up is the only one that  *)
(* runs: the other is the one it cleans up.                                *)
LEMMA CleansAlone ==
  ASSUME TypeOK, Shape, Present, Cardinality(InitiallyUp) <= 2,
         NEW i \in Instances, work[i].step \in Cleaning
  PROVE  \A j \in Instances \ {i} : status[j] \notin Running /\ work[j].step = "idle"
<1>1. PICK d \in Instances : work[i].dead = {d}
  BY DEF Shape
<1>2. /\ d \in InitiallyUp /\ status[d] \notin Running /\ d # i
      /\ i \in InitiallyUp /\ status[i] \in Running
  <2>1. status[i] = "up"
    BY DEF Shape, Cleaning
  <2> QED
    BY <1>1, <2>1 DEF Present, Shape, Running
<1>3. IsFiniteSet(InitiallyUp)
  BY ConstantsAssumption, FS_Subset
<1>4. ASSUME NEW j \in Instances \ {i} PROVE status[j] \notin Running
  <2> SUFFICES ASSUME status[j] \in Running PROVE FALSE
    OBVIOUS
  <2>1. j \in InitiallyUp /\ j # d /\ j # i
    BY <1>2 DEF Present
  <2> QED
    BY <1>2, <1>3, <2>1, AmongTwo
<1>5. ASSUME NEW j \in Instances, status[j] \notin Running PROVE work[j].step = "idle"
  BY <1>5 DEF Shape, Running
<1> QED
  BY <1>4, <1>5

(* For an instance that runs its hash is due, which is at least what its   *)
(* sessions hold.                                                          *)
LEMMA RunningDue ==
  ASSUME TypeOK, Shape, Gone, Present, NEW i \in Instances
  PROVE  /\ held[i] <= DueOf(i)
         /\ status[i] \in Running =>
               /\ ~Subtracted(i)
               /\ DueOf(i) = IF hash[i] = NoHash THEN held[i] ELSE hash[i]
               /\ held[i] > 0 /\ hash[i] # NoHash => hash[i] > 0
         /\ status[i] \notin Running => held[i] = 0
<1>1. held[i] \in Nat /\ hash[i] \in Nat \union {NoHash}
  BY DEF TypeOK
<1>2. status[i] \notin Running => held[i] = 0
  BY DEF TypeOK, Gone
<1>3. status[i] \in Running => ~Subtracted(i)
  BY DEF Present, Subtracted, Cleaning
<1>4. status[i] \in Running /\ hash[i] # NoHash => held[i] <= hash[i]
  BY DEF Present, Gone, Running, Closing, Unlisted, Vanished
<1>5. status[i] \in Running => DueOf(i) = IF hash[i] = NoHash THEN held[i] ELSE hash[i]
  BY <1>3 DEF DueOf
<1>6. DueOf(i) \in Nat
  BY DueType
<1>7. \A h, n \in Nat : n > 0 /\ n <= h => h > 0
  OBVIOUS
<1>8. status[i] \in Running /\ held[i] > 0 /\ hash[i] # NoHash => hash[i] > 0
  BY <1>1, <1>4, <1>7
<1>9. held[i] <= DueOf(i)
  <2>1. CASE status[i] \in Running
    BY <1>1, <1>4, <1>5, <2>1
  <2>2. CASE status[i] \notin Running
    BY <1>2, <1>6, <2>2
  <2> QED
    BY <2>1, <2>2
<1> QED
  BY <1>2, <1>3, <1>5, <1>8, <1>9

(* Covered is what the property needs.                                     *)
LEMMA CoversHeld ==
  ASSUME TypeOK, Shape, Gone, Present, Covered
  PROVE  TotalHeld <= count
<1> DEFINE f == [i \in Instances |-> DueOf(i)]
<1>1. \A i \in Instances : held[i] \in Nat /\ f[i] \in Nat /\ held[i] <= f[i]
  BY RunningDue, DueType DEF TypeOK
<1>2. Sum(held, Instances) <= Sum(f, Instances)
  <2> HIDE DEF f
  <2> QED
    BY <1>1, ConstantsAssumption, SumMonotone
<1>3. TotalHeld <= TotalDue
  BY <1>2, HeldType DEF TotalDue
<1>4. CASE Alive
  <2>1. TotalDue <= count /\ TotalDue \in Nat /\ TotalHeld \in Nat /\ count \in Int
    BY <1>4, DueTotals, HeldType DEF Covered, TypeOK
  <2> QED
    BY <1>3, <2>1
<1>5. CASE ~Alive
  <2>1. \A i \in Instances : held[i] = 0
    BY <1>5, RunningDue DEF Alive
  <2>2. TotalHeld = 0
    BY <2>1, ConstantsAssumption, SumZero, HeldType
  <2> QED
    BY <2>2 DEF Covered
<1> QED
  BY <1>4, <1>5

(* At first nothing is due.                                                *)
LEMMA InitCovered == Init => Covered
<1> SUFFICES ASSUME Init PROVE Covered
  OBVIOUS
<1>1. \A i \in Instances : work[i].step = "idle" /\ held[i] = 0 /\ hash[i] \in {0, NoHash}
  BY IdleFields DEF Init
<1>2. \A i \in Instances : DueOf(i) = 0
  BY <1>1 DEF DueOf
<1>3. TotalDue = 0
  BY <1>2, ConstantsAssumption, SumZero DEF TotalDue
<1> QED
  BY <1>1, <1>3 DEF Init, Covered

(* The total is a number after a step, too.                                *)
LEMMA DueTotalNext == TypeOK' => (TotalDue \in Nat)'
<1>1. TypeOK => TotalDue \in Nat
  BY DueTotals
<1> QED
  BY <1>1, PTL

(* The steps that leave the counter alone and make nothing more due.       *)
LEMMA KeepsCover ==
  ASSUME TypeOK, TypeOK', Covered, count' = count, Alive' => Alive,
         \A j \in Instances : DueOf(j)' <= DueOf(j)
  PROVE  0 <= count' /\ (Alive' => TotalDue' <= count')
<1>1. TotalDue' <= TotalDue
  BY DueFalls
<1>2. TotalDue \in Nat /\ TotalDue' \in Nat /\ count \in Int
  <2>1. TotalDue \in Nat /\ count \in Int
    BY DueTotals DEF TypeOK
  <2> QED
    BY <2>1, DueTotalNext
<1>3. 0 <= count /\ (Alive => TotalDue <= count)
  BY DEF Covered
<1> QED
  BY <1>1, <1>2, <1>3

(* Arithmetic of the steps that change the counter.                        *)
LEMMA CoverMoves ==
  ASSUME NEW c \in Int, NEW t \in Nat, NEW e \in Nat, t <= c, e <= t
  PROVE  /\ 0 <= c /\ 0 <= c + 1 /\ t - e + (e + 1) <= c + 1
         /\ e > 0 => c > 0 /\ 0 <= c - 1 /\ t - e + (e - 1) <= c - 1
         /\ 0 <= c - e /\ t - e + 0 <= c - e
OBVIOUS

(* The scripts, the shutdown and the crash of a process.                   *)
LEMMA ProcessStepCovered ==
  ASSUME TypeOK, TypeOK', Shape, Gone, Present, Covered, Cardinality(InitiallyUp) <= 2,
         NEW i \in Instances,
         \/ Crash(i) \/ Acquire(i) \/ Release(i)
         \/ StartClose(i) \/ FallBack(i) \/ CloseStep(i)
  PROVE  Covered'
<1>t. /\ count \in Int /\ TotalDue \in Nat
      /\ \A j \in Instances : /\ DueOf(j) \in Nat /\ DueOf(j) <= TotalDue
                              /\ held[j] \in Nat /\ hash[j] \in Nat \union {NoHash}
  BY DueTotals, DueType DEF TypeOK
<1>c. /\ 0 <= count
      /\ \A j \in Instances :
            /\ work[j].step \in {"decr", "del"} =>
                  \A d \in work[j].dead : d \in Instances /\ work[j].n = hash[d]
            /\ work[j].step # "fix"
  BY WorkFields DEF Covered
<1>1. CASE Crash(i)
  <2>1. /\ status[i] \in Running /\ status' = [status EXCEPT ![i] = "crashed"]
        /\ held' = [held EXCEPT ![i] = 0] /\ UNCHANGED <<count, hash>>
        /\ work'[i].step = "idle" /\ \A j \in Instances \ {i} : work'[j] = work[j]
    BY <1>1, CrashFacts, IdleFields
  <2>2. \A j \in Instances : /\ work'[j].step \in {"decr", "del"} =>
                                   \A d \in work'[j].dead : work'[j].n = hash'[d]
                             /\ work'[j].step # "fix"
    BY <1>c, <2>1
  <2>3. Alive' => Alive
    BY <2>1 DEF Alive
  <2>4. ASSUME Alive', NEW j \in Instances PROVE DueOf(j)' <= DueOf(j)
    <3>1. work[i].step # "del"
      <4>1. PICK k \in Instances : status'[k] \in Running
        BY <2>4 DEF Alive
      <4>2. k # i /\ status[k] \in Running
        BY <2>1, <4>1 DEF TypeOK, Running, Closing, Unlisted, Vanished
      <4> QED
        BY <4>2, CleansAlone DEF Cleaning
    <3>2. Subtracted(j)' <=> Subtracted(j)
      BY <2>1, <3>1 DEF Subtracted
    <3>3. hash'[j] = hash[j] /\ held'[j] <= held[j]
      BY <1>t, <2>1 DEF TypeOK
    <3> QED
      BY <1>t, <3>2, <3>3 DEF DueOf
  <2>5. 0 <= count' /\ (Alive' => TotalDue' <= count')
    BY <1>c, <2>1, <2>3, <2>4, KeepsCover
  <2> QED
    BY <2>2, <2>5 DEF Covered
<1>2. CASE Acquire(i)
  <2>1. /\ status[i] = "up" /\ count' = count + 1
        /\ hash' = [hash EXCEPT ![i] = HashCount(i) + 1]
        /\ held' = [held EXCEPT ![i] = held[i] + 1] /\ UNCHANGED <<status, work>>
    BY <1>2 DEF Acquire
  <2>2. /\ status[i] \in Running /\ ~Subtracted(i) /\ hash[i] # NoHash
        /\ HashCount(i) = hash[i] /\ hash[i] \in Nat
    BY <1>t, <2>1, RunningDue DEF Present, HashCount, Running
  <2>3. hash'[i] = hash[i] + 1 /\ \A j \in Instances \ {i} : hash'[j] = hash[j] /\ held'[j] = held[j]
    BY <2>1, <2>2 DEF TypeOK
  <2>4. \A j \in Instances : /\ work'[j].step \in {"decr", "del"} =>
                                   \A d \in work'[j].dead : work'[j].n = hash'[d]
                             /\ work'[j].step # "fix"
    <3>1. \A j \in Instances : work[j].step \in {"decr", "del"} => i \notin work[j].dead
      BY <2>2 DEF Present, Cleaning
    <3> QED
      BY <1>c, <2>1, <2>3, <3>1
  <2>5. \A j \in Instances : Subtracted(j)' <=> Subtracted(j)
    BY <2>1 DEF Subtracted
  <2>6. DueOf(i) = hash[i] /\ DueOf(i)' = hash[i] + 1
    <3>1. hash[i] + 1 # NoHash
      BY <2>2 DEF NoHash
    <3> QED
      BY <2>2, <2>3, <2>5, <3>1 DEF DueOf
  <2>7. TotalDue' = TotalDue - hash[i] + (hash[i] + 1)
    <3>1. \A j \in Instances \ {i} : DueOf(j)' = DueOf(j)
      BY <2>3, <2>5 DEF DueOf
    <3> QED
      BY <2>6, <3>1, DueChanges
  <2>8. Alive /\ TotalDue <= count
    BY <2>2 DEF Alive, Covered
  <2>9. 0 <= count' /\ TotalDue' <= count'
    BY <1>t, <2>1, <2>2, <2>6, <2>7, <2>8, CoverMoves
  <2> QED
    BY <2>4, <2>9 DEF Covered
<1>6. CASE Release(i) /\ i \in fallback
  <2>1. /\ held[i] > 0 /\ held' = [held EXCEPT ![i] = held[i] - 1]
        /\ UNCHANGED <<count, hash, status, work>>
    BY <1>6 DEF Release
  <2>2. Alive' => Alive
    BY <2>1 DEF Alive
  <2>3. \A j \in Instances : held'[j] <= held[j]
    BY <1>t, <2>1 DEF TypeOK
  <2>4. \A j \in Instances : DueOf(j)' <= DueOf(j)
    BY <1>t, <2>1, <2>3 DEF DueOf, Subtracted
  <2>5. 0 <= count' /\ (Alive' => TotalDue' <= count')
    BY <2>1, <2>2, <2>4, KeepsCover
  <2> QED
    BY <1>c, <2>1, <2>5 DEF Covered
<1>3. CASE Release(i) /\ i \notin fallback
  <2>1. /\ status[i] \in Running /\ held[i] > 0 /\ held' = [held EXCEPT ![i] = held[i] - 1]
        /\ count > 0 => /\ count' = count - 1
                        /\ hash' = [hash EXCEPT ![i] = IF @ > 0 THEN @ - 1 ELSE @]
        /\ UNCHANGED <<status, work>>
    BY <1>t, <1>3 DEF Release
  <2>2. /\ ~Subtracted(i)
        /\ hash[i] # NoHash => hash[i] > 0
        /\ DueOf(i) = IF hash[i] = NoHash THEN held[i] ELSE hash[i]
    BY <2>1, RunningDue
  <2>3. DueOf(i) > 0
    BY <2>1, <2>2
  <2>4. Alive /\ TotalDue <= count
    BY <2>1 DEF Alive, Covered
  <2>5. count > 0 /\ 0 <= count - 1 /\ TotalDue - DueOf(i) + (DueOf(i) - 1) <= count - 1
    BY <1>t, <2>3, <2>4, CoverMoves
  <2>6. \A j \in Instances \ {i} : hash'[j] = hash[j] /\ held'[j] = held[j]
    BY <2>1, <2>5 DEF TypeOK
  <2>7. \A j \in Instances : /\ work'[j].step \in {"decr", "del"} =>
                                   \A d \in work'[j].dead : work'[j].n = hash'[d]
                             /\ work'[j].step # "fix"
    <3>1. \A j \in Instances : work[j].step \in {"decr", "del"} => i \notin work[j].dead
      BY <2>1 DEF Present, Cleaning
    <3> QED
      BY <1>c, <2>1, <2>6, <3>1
  <2>8. \A j \in Instances : Subtracted(j)' <=> Subtracted(j)
    BY <2>1 DEF Subtracted
  <2>9. DueOf(i)' = DueOf(i) - 1
    <3>1. held'[i] = held[i] - 1
      BY <2>1 DEF TypeOK
    <3>2. CASE hash[i] = NoHash
      <4>1. hash'[i] = NoHash
        BY <2>1, <2>5, <3>2 DEF TypeOK, NoHash
      <4> QED
        BY <2>2, <3>1, <3>2, <4>1 DEF DueOf
    <3>3. CASE hash[i] # NoHash
      <4>1. hash[i] \in Nat /\ hash[i] > 0
        BY <1>t, <2>2, <3>3
      <4>2. hash'[i] = hash[i] - 1
        BY <2>1, <2>5, <4>1 DEF TypeOK
      <4>3. hash'[i] # NoHash
        BY <4>1, <4>2 DEF NoHash
      <4> QED
        BY <2>2, <2>8, <3>3, <4>2, <4>3 DEF DueOf
    <3> QED
      BY <3>2, <3>3
  <2>10. TotalDue' = TotalDue - DueOf(i) + (DueOf(i) - 1)
    <3>1. \A j \in Instances \ {i} : DueOf(j)' = DueOf(j)
      BY <2>6, <2>8 DEF DueOf
    <3> QED
      BY <2>9, <3>1, DueChanges
  <2>11. count' = count - 1
    BY <2>1, <2>5
  <2>12. 0 <= count' /\ TotalDue' <= count'
    BY <2>5, <2>10, <2>11
  <2> QED
    BY <2>7, <2>12 DEF Covered
<1>4. CASE StartClose(i)
  <2>1. /\ status[i] = "up" /\ status' = [status EXCEPT ![i] = "unlist"]
        /\ UNCHANGED <<count, hash, held, work>>
    BY <1>4 DEF StartClose, redisVars
  <2>2. Alive' => Alive
    BY <2>1 DEF Alive, Running
  <2>3. \A j \in Instances : DueOf(j)' = DueOf(j)
    BY <2>1 DEF DueOf, Subtracted
  <2>4. 0 <= count' /\ (Alive' => TotalDue' <= count')
    BY <1>t, <2>1, <2>2, <2>3, KeepsCover
  <2> QED
    BY <1>c, <2>1, <2>4 DEF Covered
<1>7. CASE FallBack(i)
  <2>1. UNCHANGED <<count, hash, status, held, work>>
    BY <1>7 DEF FallBack, redisVars
  <2>2. Alive' => Alive
    BY <2>1 DEF Alive
  <2>3. \A j \in Instances : DueOf(j)' = DueOf(j)
    BY <2>1 DEF DueOf, Subtracted
  <2>4. 0 <= count' /\ (Alive' => TotalDue' <= count')
    BY <1>t, <2>1, <2>2, <2>3, KeepsCover
  <2> QED
    BY <1>c, <2>1, <2>4 DEF Covered
<1>5. CASE CloseStep(i)
  <2>1. /\ status[i] \in Closing /\ UNCHANGED <<count, work>>
        /\ \A j \in Instances \ {i} : status'[j] = status[j]
        /\ \/ hash' = hash /\ held' = held
           \/ /\ status[i] = "unhash"
              /\ hash' = [hash EXCEPT ![i] = NoHash] /\ held' = held
           \/ /\ status[i] \in {"unlist", "unbeat"} /\ hash' = hash
              /\ held' = [held EXCEPT ![i] = 0]
    BY <1>5
    DEF CloseStep, CloseInFallback, CloseUnlist, CloseUnhash, CloseUnbeat,
        redisVars, Closing, Unlisted, TypeOK
  <2>2. status[i] \in Running /\ ~Subtracted(i)
    BY <2>1, RunningDue DEF Running
  <2>3. Alive' => Alive
    BY <2>2 DEF Alive
  <2>4. \A j \in Instances \ {i} : hash'[j] = hash[j] /\ held'[j] = held[j]
    BY <2>1 DEF TypeOK
  <2>5. \A j \in Instances : Subtracted(j)' <=> Subtracted(j)
    BY <2>1 DEF Subtracted
  <2>6. DueOf(i)' <= DueOf(i)
    <3>1. CASE hash' = hash /\ held' = held
      BY <1>t, <2>5, <3>1 DEF DueOf
    <3>2. CASE /\ status[i] = "unhash"
               /\ hash' = [hash EXCEPT ![i] = NoHash] /\ held' = held
      <4>1. DueOf(i)' = held[i]
        BY <3>2 DEF DueOf, TypeOK
      <4> QED
        BY <4>1, RunningDue
    <3>3. CASE hash' = hash /\ held' = [held EXCEPT ![i] = 0]
      <4>1. held'[i] = 0 /\ hash'[i] = hash[i]
        BY <3>3 DEF TypeOK
      <4> QED
        BY <1>t, <2>5, <4>1 DEF DueOf
    <3> QED
      BY <2>1, <3>1, <3>2, <3>3
  <2>7. \A j \in Instances \ {i} : DueOf(j)' <= DueOf(j)
    BY <1>t, <2>4, <2>5 DEF DueOf
  <2>8. 0 <= count' /\ (Alive' => TotalDue' <= count')
    <3>1. \A j \in Instances : DueOf(j)' <= DueOf(j)
      BY <2>6, <2>7
    <3> QED
      BY <2>1, <2>3, <3>1, KeepsCover
  <2>9. \A j \in Instances : /\ work'[j].step \in {"decr", "del"} =>
                                   \A d \in work'[j].dead : work'[j].n = hash'[d]
                             /\ work'[j].step # "fix"
    <3>1. \A j \in Instances : work[j].step \in {"decr", "del"} => i \notin work[j].dead
      BY <2>2 DEF Present, Cleaning
    <3> QED
      BY <1>c, <2>1, <2>4, <3>1
  <2> QED
    BY <2>8, <2>9 DEF Covered
<1> QED
  BY <1>1, <1>2, <1>3, <1>4, <1>5, <1>6, <1>7

(* The heartbeat goroutine: DECRBY takes what is due for the dead          *)
(* instance, and DEL comes when nothing is due for it any more.            *)
LEMMA WorkerStepCovered ==
  ASSUME TypeOK, TypeOK', Shape, Gone, Present, Covered, Cardinality(InitiallyUp) <= 2,
         NEW i \in Instances, Tick(i) \/ CleanupStep(i)
  PROVE  Covered'
<1>t. /\ count \in Int /\ TotalDue \in Nat
      /\ \A j \in Instances : /\ DueOf(j) \in Nat /\ DueOf(j) <= TotalDue
                              /\ held[j] \in Nat /\ hash[j] \in Nat \union {NoHash}
  BY DueTotals, DueType DEF TypeOK
<1>c. /\ 0 <= count
      /\ \A j \in Instances :
            /\ work[j].step \in {"decr", "del"} =>
                  \A d \in work[j].dead : d \in Instances /\ work[j].n = hash[d]
            /\ work[j].step # "fix"
  BY WorkFields DEF Covered
<1>1. ASSUME UNCHANGED <<count, hash, status, held>>,
             \A j \in Instances \ {i} : work'[j] = work[j],
             work[i].step # "del", work'[i].step \notin {"del", "fix"},
             work'[i].step = "decr" => \A d \in work'[i].dead : work'[i].n = hash[d]
      PROVE  Covered'
  <2>1. Alive' => Alive
    BY <1>1 DEF Alive
  <2>2. \A j \in Instances : Subtracted(j)' <=> Subtracted(j)
    BY <1>1 DEF Subtracted
  <2>3. \A j \in Instances : DueOf(j)' <= DueOf(j)
    BY <1>t, <1>1, <2>2 DEF DueOf
  <2>4. 0 <= count' /\ (Alive' => TotalDue' <= count')
    BY <1>1, <2>1, <2>3, KeepsCover
  <2>5. \A j \in Instances : /\ work'[j].step \in {"decr", "del"} =>
                                   \A d \in work'[j].dead : work'[j].n = hash'[d]
                             /\ work'[j].step # "fix"
    BY <1>c, <1>1
  <2> QED
    BY <2>4, <2>5 DEF Covered
<1>2. CASE Tick(i)
  BY <1>1, <1>2, TickFacts
<1>3. CASE ListInstances(i)
  BY <1>1, <1>3, ListFacts
<1>4. CASE CheckInstance(i)
  BY <1>1, <1>4, CheckFacts, IdleFields
<1>5. CASE ReadCounts(i)
  BY <1>1, <1>5, ReadFacts
<1>6. CASE Forward(i)
  <2>1. /\ UNCHANGED <<status, held>> /\ \A j \in Instances \ {i} : work'[j] = work[j]
        /\ work'[i].dead = work[i].dead /\ work'[i].n = work[i].n
        /\ work[i].step \in Cleaning
    BY <1>6, ForwardFacts DEF Forward, Cleaning
  <2>2. PICK d \in Instances : work[i].dead = {d}
    BY <2>1 DEF Shape
  <2>3. /\ status[i] \in Running /\ status[d] \notin Running /\ held[d] = 0
        /\ \A j \in Instances \ {i} : work[j].step = "idle"
    <3>1. status[i] = "up"
      BY <2>1 DEF Shape, Cleaning
    <3>2. status[d] \notin Running
      BY <2>1, <2>2 DEF Present
    <3> QED
      BY <2>1, <3>1, <3>2, CleansAlone, RunningDue DEF Running
  <2>4. Alive /\ TotalDue <= count
    BY <2>3 DEF Alive, Covered
  <2>5. CASE SubtractCounts(i)
    <3>1. /\ work[i].step = "decr" /\ work'[i].step = "del" /\ hash' = hash
          /\ count' = IF work[i].n > 0 THEN count - work[i].n ELSE count
      BY <2>5, ForwardFacts DEF SubtractCounts
    <3>2. work[i].n = hash[d] /\ ~Subtracted(d)
      BY <1>c, <2>2, <2>3, <3>1 DEF Subtracted
    <3>3. Subtracted(d)'
      BY <2>1, <2>2, <3>1 DEF Subtracted
    <3>4. \A j \in Instances \ {d} : Subtracted(j)' <=> Subtracted(j)
      BY <2>1, <2>2, <3>1 DEF Subtracted
    <3>5. DueOf(d)' = 0 /\ count' = count - DueOf(d)
      <4>1. CASE hash[d] = NoHash
        BY <1>t, <2>1, <2>3, <3>1, <3>2, <4>1 DEF DueOf, NoHash
      <4>2. CASE hash[d] # NoHash
        <5>1. hash[d] \in Nat /\ DueOf(d) = hash[d] /\ DueOf(d)' = 0
          BY <1>t, <3>1, <3>2, <3>3, <4>2 DEF DueOf
        <5> QED
          BY <1>t, <3>1, <3>2, <5>1
      <4> QED
        BY <4>1, <4>2
    <3>6. TotalDue' = TotalDue - DueOf(d) + 0
      <4>1. \A j \in Instances \ {d} : DueOf(j)' = DueOf(j)
        BY <2>1, <3>1, <3>4 DEF DueOf
      <4> QED
        BY <3>5, <4>1, DueChanges
    <3>7. 0 <= count' /\ TotalDue' <= count'
      BY <1>t, <2>4, <3>5, <3>6, CoverMoves
    <3>8. \A j \in Instances : /\ work'[j].step \in {"decr", "del"} =>
                                     \A e \in work'[j].dead : work'[j].n = hash'[e]
                               /\ work'[j].step # "fix"
      BY <2>1, <2>2, <2>3, <3>1, <3>2
    <3> QED
      BY <3>7, <3>8 DEF Covered
  <2>6. CASE DeleteHash(i)
    <3>1. /\ work[i].step = "del" /\ work'[i].step = "srem" /\ count' = count
          /\ hash' = [e \in Instances |-> IF e \in work[i].dead THEN NoHash ELSE hash[e]]
      BY <2>6, ForwardFacts DEF DeleteHash
    <3>2. \A j \in Instances \ {d} : Subtracted(j)' <=> Subtracted(j)
      BY <2>1, <2>2, <3>1 DEF Subtracted
    <3>3. DueOf(d)' = 0
      BY <2>1, <2>2, <2>3, <3>1 DEF DueOf
    <3>4. \A j \in Instances : DueOf(j)' <= DueOf(j)
      <4>1. \A j \in Instances \ {d} : DueOf(j)' = DueOf(j)
        BY <2>1, <2>2, <3>1, <3>2 DEF DueOf
      <4> QED
        BY <1>t, <3>3, <4>1
    <3>5. 0 <= count' /\ (Alive' => TotalDue' <= count')
      BY <2>4, <3>1, <3>4, KeepsCover
    <3>6. \A j \in Instances : work'[j].step \in {"idle", "srem"}
      BY <2>1, <2>3, <3>1
    <3> QED
      BY <3>5, <3>6 DEF Covered
  <2>7. CASE RemoveInstance(i)
    <3>1. /\ work[i].step = "srem" /\ UNCHANGED <<count, hash>>
          /\ work'[i].step = IF work[i].n = NoHash THEN "check" ELSE "get"
      BY <2>7, ForwardFacts DEF RemoveInstance
    <3> QED
      BY <1>1, <2>1, <3>1
  <2>8. CASE ReadCount(i)
    <3>1. /\ work[i].step = "get" /\ UNCHANGED <<count, hash>>
          /\ work'[i].step = IF count < 0 THEN "fix" ELSE "check"
      BY <2>8, ForwardFacts DEF ReadCount
    <3>2. work'[i].step = "check"
      BY <1>t, <1>c, <3>1
    <3> QED
      BY <1>1, <2>1, <3>1, <3>2
  <2>9. CASE CorrectCount(i)
    BY <1>c, <2>9 DEF CorrectCount
  <2> QED
    BY <1>6, <2>5, <2>6, <2>7, <2>8, <2>9 DEF Forward
<1> QED
  BY <1>2, <1>3, <1>4, <1>5, <1>6 DEF CleanupStep, Forward

(* Every step of an undisturbed system.                                    *)
LEMMA StepCovered ==
  ASSUME TypeOK, TypeOK', Shape, Gone, Present, Covered, Cardinality(InitiallyUp) <= 2,
         [Next]_vars, Undisturbed'
  PROVE  Covered'
<1>1. ASSUME NEW i \in Instances, Expire(i) PROVE UNCHANGED <<count, hash, status, held, work>>
  BY <1>1 DEF Expire
<1>2. ASSUME UNCHANGED <<count, hash, status, held, work>> PROVE Covered'
  <2>1. Alive' => Alive
    BY <1>2 DEF Alive
  <2>2. \A j \in Instances : DueOf(j)' <= DueOf(j)
    BY <1>2, DueType DEF DueOf, Subtracted
  <2>3. 0 <= count' /\ (Alive' => TotalDue' <= count')
    BY <1>2, <2>1, <2>2, KeepsCover
  <2> QED
    BY <1>2, <2>3 DEF Covered
<1>3. ASSUME UNCHANGED vars PROVE Covered'
  BY <1>2, <1>3 DEF vars, redisVars
<1> QED
  BY <1>1, <1>2, <1>3, ProcessStepCovered, WorkerStepCovered, StaysDisturbed DEF Next

(* With at most two instances the counter is never below the slots in use, *)
(* so no session is let in beyond the limit, however a clean-up of         *)
(* cleanupInstance interleaves with the acquires and releases of the       *)
(* living instance and with a shutdown or crash of either.                 *)
THEOREM CountCovers ==
  ASSUME Cardinality(InitiallyUp) <= 2
  PROVE  Spec => []CountCoversHeld
<1> DEFINE I == /\ TypeOK /\ Shape /\ Gone
                /\ Undisturbed => Present /\ Covered
<1>1. Init => I
  BY InitShape, InitPresent, InitCovered
<1>2. I /\ [Next]_vars => I'
  <2> SUFFICES ASSUME I, [Next]_vars PROVE I'
    OBVIOUS
  <2>1. TypeOK' /\ Shape' /\ Gone'
    BY StepTypeOK, StepShape, StepGone
  <2>2. ASSUME Undisturbed' PROVE Present' /\ Covered'
    BY <2>1, <2>2, StaysDisturbed, StepPresent, StepCovered
  <2> QED
    BY <2>1, <2>2
<1>3. I => CountCoversHeld
  BY CoversHeld DEF CountCoversHeld
<1> QED
  BY <1>1, <1>2, <1>3, PTL DEF Spec
=============================================================================
