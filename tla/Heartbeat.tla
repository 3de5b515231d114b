----------------------------- MODULE Heartbeat -----------------------------
(***************************************************************************)
(* Presence of the proxy instances in Redis and the recovery of the slots  *)
(* of an instance that died (internal/coordinator/heartbeat.go), with the  *)
(* registration and the closing of the coordinator (redis.go) and the two  *)
(* Lua scripts.                                                            *)
(*                                                                         *)
(* Redis answers every request, so an instance falls back to local limits  *)
(* only when it stops: an acquire whose context Server.Stop cancelled is   *)
(* taken for a failure of Redis.  The commands of a clean-up are separate  *)
(* steps: its pipeline is not a transaction, and the clean-ups of several  *)
(* instances, the scripts and a restart of the dead instance interleave.   *)
(* Sessions are counted, not named: held[i] is the number of slots taken   *)
(* in Redis that the sessions of the process really hold; the local slots  *)
(* of the fallback, and leaving it, are the subject of module Fallback.    *)
(***************************************************************************)
EXTENDS Integers, FiniteSets, Functions

CONSTANTS
    Instances,
    InitiallyUp,     \* instances that run and have sent a heartbeat
    MaxConnections,
    MaxStarts,       \* bound on the starts of an instance
    MaxCrashes,      \* bound on the crashes
    MaxStalls,       \* bound on the expiries of a live instance's heartbeat
    MaxCloses        \* bound on the graceful shutdowns

ASSUME ConstantsAssumption ==
    /\ IsFiniteSet(Instances)
    /\ InitiallyUp \subseteq Instances
    /\ MaxConnections \in Nat \ {0}
    /\ {MaxStarts, MaxCrashes, MaxStalls, MaxCloses} \subseteq Nat

VARIABLES
    count,       \* proxy:bucket:{id}:count
    hash,        \* proxy:instance:{id}:conns of the bucket, NoHash if absent
    instances,   \* proxy:instances
    hbKey,       \* proxy:instance:{id}:heartbeat exists
    status,      \* of the process of each instance
    held,        \* slots its sessions hold
    work,        \* the clean-up under way in each heartbeat goroutine
    fallback,    \* processes with fallbackMode set while they stop
    starts, crashes, stalls, closes,  \* used so far of the bounds
    abandoned    \* history: slots an instance left counted but not listed

redisVars == <<count, hash, instances, hbKey>>
bounds    == <<starts, crashes, stalls, closes, abandoned>>
vars == <<redisVars, status, held, work, fallback, bounds>>

-----------------------------------------------------------------------------
NoHash == -1
HashCount(i) == IF hash[i] = NoHash THEN 0 ELSE hash[i]

(* A step of a clean-up, the instances still to look at, the one being     *)
(* cleaned up and the count that was read for it.                          *)
Idle == [step |-> "idle", todo |-> {}, dead |-> {}, n |-> NoHash]

Stages  == {"idle", "list", "check", "read", "decr", "del", "srem", "get", "fix"}
Unlisted == {"unhash", "unbeat"}
Closing  == {"unlist"} \union Unlisted
Running  == {"up"} \union Closing
Vanished == {"crashed", "left"}    \* ended without unregistering

Init ==
    /\ count = 0
    /\ hash = [i \in Instances |-> IF i \in InitiallyUp THEN 0 ELSE NoHash]
    /\ instances = InitiallyUp
    /\ hbKey = [i \in Instances |-> i \in InitiallyUp]
    /\ status = [i \in Instances |-> IF i \in InitiallyUp THEN "up" ELSE "down"]
    /\ held = [i \in Instances |-> 0]
    /\ work = [i \in Instances |-> Idle]
    /\ fallback = {}
    /\ starts = 0 /\ crashes = 0 /\ stalls = 0 /\ closes = 0
    /\ abandoned = 0

-----------------------------------------------------------------------------
(* Life of a process. *)

(* registerInstance: SADD, and HSETNX keeps a count that is already there. *)
(* The sessions may start before the first heartbeat has been sent.        *)
Register(i) ==
    /\ status[i] \in {"down"} \union Vanished
    /\ starts < MaxStarts
    /\ starts' = starts + 1
    /\ status' = [status EXCEPT ![i] = "up"]
    /\ instances' = instances \union {i}
    /\ hash' = [hash EXCEPT ![i] = HashCount(i)]
    /\ UNCHANGED <<count, hbKey, held, work, fallback,
                   crashes, stalls, closes, abandoned>>

(* The process dies.  A clean-up by another instance finds what it held,   *)
(* unless its Close had already taken it off the list.                     *)
Crash(i) ==
    /\ status[i] \in Running
    /\ crashes < MaxCrashes
    /\ crashes' = crashes + 1
    /\ status' = [status EXCEPT ![i] = "crashed"]
    /\ held' = [held EXCEPT ![i] = 0]
    /\ work' = [work EXCEPT ![i] = Idle]
    /\ abandoned' = IF status[i] \in Unlisted THEN abandoned + held[i]
                                               ELSE abandoned
    /\ fallback' = fallback \ {i}
    /\ UNCHANGED <<redisVars, starts, stalls, closes>>

(* Mutant of Acquire: the limit is compared one too late. *)
AcquireLate(i) ==
    /\ status[i] = "up"
    /\ count <= MaxConnections
    /\ count' = count + 1
    /\ hash' = [hash EXCEPT ![i] = HashCount(i) + 1]
    /\ held' = [held EXCEPT ![i] = @ + 1]
    /\ UNCHANGED <<instances, hbKey, status, work, fallback, bounds>>

(* acquire.lua and release.lua, run for a session of the instance. *)
Acquire(i) ==
    /\ status[i] = "up"
    /\ count < MaxConnections
    /\ count' = count + 1
    /\ hash' = [hash EXCEPT ![i] = HashCount(i) + 1]
    /\ held' = [held EXCEPT ![i] = @ + 1]
    /\ UNCHANGED <<instances, hbKey, status, work, fallback, bounds>>

(* In fallback the release is local and Redis goes on counting the slot.   *)
Release(i) ==
    /\ status[i] \in Running
    /\ held[i] > 0
    /\ held' = [held EXCEPT ![i] = @ - 1]
    /\ \/ /\ i \in fallback
          /\ abandoned' = IF status[i] \in Unlisted THEN abandoned + 1
                                                     ELSE abandoned
          /\ UNCHANGED <<count, hash>>
       \/ /\ i \notin fallback /\ count <= 0
          /\ count' = 0
          /\ UNCHANGED <<hash, abandoned>>
       \/ /\ i \notin fallback /\ count > 0
          /\ count' = count - 1
          /\ hash' = [hash EXCEPT ![i] = IF @ > 0 THEN @ - 1 ELSE @]
          /\ UNCHANGED abandoned
    /\ UNCHANGED <<instances, hbKey, status, work, fallback,
                   starts, crashes, stalls, closes>>

(* hb.Stop and rc.Close, after Server.Stop returned: when the sessions are *)
(* over, or when waiting for them took too long.  rc.wg.Wait lets the      *)
(* heartbeat goroutine end before the commands of Close.                   *)
StartClose(i) ==
    /\ status[i] = "up" /\ work[i] = Idle
    /\ closes < MaxCloses
    /\ closes' = closes + 1
    /\ status' = [status EXCEPT ![i] = "unlist"]
    /\ UNCHANGED <<redisVars, held, work, fallback,
                   starts, crashes, stalls, abandoned>>

(* A session tries to acquire with the context that Server.Stop cancelled. *)
FallBack(i) ==
    /\ status[i] \in Closing
    /\ fallback' = fallback \union {i}
    /\ UNCHANGED <<redisVars, status, held, work, bounds>>

(* Close looks at fallbackMode once.  In fallback it sends nothing: the    *)
(* registration, the counts and the heartbeat stay as if it had crashed.   *)
CloseInFallback(i) ==
    /\ status[i] = "unlist"
    /\ i \in fallback
    /\ status' = [status EXCEPT ![i] = "left"]
    /\ held' = [held EXCEPT ![i] = 0]
    /\ fallback' = fallback \ {i}
    /\ UNCHANGED <<redisVars, work, bounds>>

CloseUnlist(i) ==
    /\ status[i] = "unlist"
    /\ i \notin fallback
    /\ instances' = instances \ {i}
    /\ status' = [status EXCEPT ![i] = "unhash"]
    /\ UNCHANGED <<count, hash, hbKey, held, work, fallback, bounds>>

(* Mutant of CloseUnhash: the counts of the instance are not deleted. *)
CloseKeepHash(i) ==
    /\ status[i] = "unhash"
    /\ status' = [status EXCEPT ![i] = "unbeat"]
    /\ UNCHANGED <<redisVars, held, work, fallback, bounds>>

CloseUnhash(i) ==
    /\ status[i] = "unhash"
    /\ hash' = [hash EXCEPT ![i] = NoHash]
    /\ status' = [status EXCEPT ![i] = "unbeat"]
    /\ UNCHANGED <<count, instances, hbKey, held, work, fallback, bounds>>

CloseUnbeat(i) ==
    /\ status[i] = "unbeat"
    /\ hbKey' = [hbKey EXCEPT ![i] = FALSE]
    /\ status' = [status EXCEPT ![i] = "down"]
    /\ abandoned' = abandoned + held[i]
    /\ held' = [held EXCEPT ![i] = 0]
    /\ fallback' = fallback \ {i}
    /\ UNCHANGED <<count, hash, instances, work,
                   starts, crashes, stalls, closes>>

CloseStep(i) ==
    \/ CloseInFallback(i) \/ CloseUnlist(i) \/ CloseUnhash(i) \/ CloseUnbeat(i)

(* The TTL runs out: after three intervals without a heartbeat, so never   *)
(* while the process runs unless its heartbeats stall.                     *)
Expire(i) ==
    /\ hbKey[i]
    /\ hbKey' = [hbKey EXCEPT ![i] = FALSE]
    /\ IF status[i] \in Running
       THEN stalls < MaxStalls /\ stalls' = stalls + 1
       ELSE UNCHANGED stalls
    /\ UNCHANGED <<count, hash, instances, status, held, work, fallback,
                   starts, crashes, closes, abandoned>>

-----------------------------------------------------------------------------
(* The heartbeat goroutine. *)

SetStep(i, s) == work' = [work EXCEPT ![i].step = s]

(* A tick sends the heartbeat; every third one goes on to the clean-up. *)
Tick(i) ==
    /\ status[i] = "up" /\ work[i] = Idle
    /\ hbKey' = [hbKey EXCEPT ![i] = TRUE]
    /\ \/ UNCHANGED work
       \/ SetStep(i, "list")
    /\ UNCHANGED <<count, hash, instances, status, held, fallback, bounds>>

ListInstances(i) ==
    /\ work[i].step = "list"
    /\ work' = [work EXCEPT ![i].step = "check", ![i].todo = instances \ {i}]
    /\ UNCHANGED <<redisVars, status, held, fallback, bounds>>

(* Mutant of CheckInstance: every other instance is taken for dead. *)
CheckInstanceBlind(i) ==
    /\ work[i].step = "check"
    /\ \/ work[i].todo = {} /\ work' = [work EXCEPT ![i] = Idle]
       \/ \E d \in work[i].todo :
             work' = [work EXCEPT ![i].todo = @ \ {d},
                                  ![i].step = "read",
                                  ![i].dead = {d}]
    /\ UNCHANGED <<redisVars, status, held, fallback, bounds>>

(* EXISTS on the next heartbeat of the list, or the end of the list. *)
CheckInstance(i) ==
    /\ work[i].step = "check"
    /\ \/ work[i].todo = {} /\ work' = [work EXCEPT ![i] = Idle]
       \/ \E d \in work[i].todo :
             work' = [work EXCEPT
                        ![i].todo = @ \ {d},
                        ![i].step = IF hbKey[d] THEN "check" ELSE "read",
                        ![i].dead = IF hbKey[d] THEN {} ELSE {d}]
    /\ UNCHANGED <<redisVars, status, held, fallback, bounds>>

(* cleanupInstance: HGETALL, DECRBY, DEL, SREM, GET and SET. *)
ReadCounts(i) ==
    /\ work[i].step = "read"
    /\ \E d \in work[i].dead :
          work' = [work EXCEPT ![i].step = "decr", ![i].n = hash[d]]
    /\ UNCHANGED <<redisVars, status, held, fallback, bounds>>

(* Mutant of SubtractCounts: a count of one is skipped. *)
SubtractCountsAboveOne(i) ==
    /\ work[i].step = "decr"
    /\ count' = IF work[i].n > 1 THEN count - work[i].n ELSE count
    /\ SetStep(i, "del")
    /\ UNCHANGED <<hash, instances, hbKey, status, held, fallback, bounds>>

SubtractCounts(i) ==
    /\ work[i].step = "decr"
    /\ count' = IF work[i].n > 0 THEN count - work[i].n ELSE count
    /\ SetStep(i, "del")
    /\ UNCHANGED <<hash, instances, hbKey, status, held, fallback, bounds>>

DeleteHash(i) ==
    /\ work[i].step = "del"
    /\ hash' = [d \in Instances |-> IF d \in work[i].dead THEN NoHash ELSE hash[d]]
    /\ SetStep(i, "srem")
    /\ UNCHANGED <<count, instances, hbKey, status, held, fallback, bounds>>

RemoveInstance(i) ==
    /\ work[i].step = "srem"
    /\ instances' = instances \ work[i].dead
    /\ SetStep(i, IF work[i].n = NoHash THEN "check" ELSE "get")
    /\ UNCHANGED <<count, hash, hbKey, status, held, fallback, bounds>>

(* Mutant of ReadCount: a count of minus one is let pass. *)
ReadCountLate(i) ==
    /\ work[i].step = "get"
    /\ SetStep(i, IF count < -1 THEN "fix" ELSE "check")
    /\ UNCHANGED <<redisVars, status, held, fallback, bounds>>

ReadCount(i) ==
    /\ work[i].step = "get"
    /\ SetStep(i, IF count < 0 THEN "fix" ELSE "check")
    /\ UNCHANGED <<redisVars, status, held, fallback, bounds>>

CorrectCount(i) ==
    /\ work[i].step = "fix"
    /\ count' = 0
    /\ SetStep(i, "check")
    /\ UNCHANGED <<hash, instances, hbKey, status, held, fallback, bounds>>

CleanupStep(i) ==
    \/ ListInstances(i) \/ CheckInstance(i) \/ ReadCounts(i)
    \/ SubtractCounts(i) \/ DeleteHash(i) \/ RemoveInstance(i)
    \/ ReadCount(i) \/ CorrectCount(i)

-----------------------------------------------------------------------------
Next ==
    \E i \in Instances :
        \/ Register(i) \/ Crash(i) \/ Acquire(i) \/ Release(i)
        \/ StartClose(i) \/ FallBack(i) \/ CloseStep(i) \/ Expire(i)
        \/ Tick(i) \/ CleanupStep(i)

Spec == Init /\ [][Next]_vars

(* The ticker of a running instance ticks and every third tick cleans up,  *)
(* a clean-up goes on, and the key of a dead instance expires.             *)
FairSpec ==
    /\ Spec
    /\ \A i \in Instances :
          /\ WF_vars(Tick(i) /\ work'[i] # Idle)
          /\ WF_vars(CleanupStep(i))
          /\ WF_vars(Expire(i) /\ status[i] \notin Running)

-----------------------------------------------------------------------------
TotalHeld ==
    FoldFunctionOnSet(+, 0, held, Instances)

TypeOK ==
    /\ count \in Int /\ count <= MaxConnections
    /\ hash \in [Instances -> Nat \union {NoHash}]
    /\ instances \subseteq Instances
    /\ hbKey \in [Instances -> BOOLEAN]
    /\ status \in [Instances -> {"down"} \union Vanished \union Running]
    /\ held \in [Instances -> Nat]
    /\ \A i \in Instances :
          /\ work[i].step \in Stages
          /\ work[i].todo \subseteq Instances \ {i}
          /\ work[i].dead \subseteq Instances
          /\ work[i].n \in Nat \union {NoHash}
    /\ fallback \subseteq Instances
    /\ starts \in 0 .. MaxStarts
    /\ crashes \in 0 .. MaxCrashes /\ stalls \in 0 .. MaxStalls
    /\ closes \in 0 .. MaxCloses /\ abandoned \in Nat

(* No instance was taken for dead while it runs, or runs under the name of *)
(* one that died: what the documents take for granted.                     *)
Undisturbed == starts = 0 /\ stalls = 0

(* While one instance at a time cleans up, the counter never falls behind  *)
(* the slots in use: the clean-up of a dead instance takes nothing from    *)
(* the living ones, whatever they acquire and release between its steps.   *)
CountCoversHeld == Undisturbed => TotalHeld <= count

(* The slots of an instance that ended without unregistering, because it   *)
(* crashed or because it closed in fallback, and that stays down are given *)
(* back by an instance that stays up; what a shutdown abandons after it    *)
(* left the list stays counted.                                            *)
OrphansRecovered ==
    \A i, j \in Instances :
        <>[](status[i] \in Vanished /\ status[j] = "up" /\ Undisturbed)
            => []<>(count <= TotalHeld + abandoned)

(* A close that found the coordinator out of fallback leaves nothing of    *)
(* the instance in Redis that a later clean-up could subtract, though its  *)
(* last sessions may still release, there or locally, between the three    *)
(* commands.  A close in fallback ends in "left" instead and leaves all of *)
(* it: OrphansRecovered says what becomes of that.                         *)
ClosedLeavesNoTrace ==
    \A i \in Instances :
        status[i] = "down" =>
            i \notin instances /\ hash[i] = NoHash /\ ~hbKey[i]

(* The instance has subtracted a count and not yet checked the result.     *)
Unchecked(i) == work[i].n > 0 /\ work[i].step \in {"del", "srem", "get", "fix"}

(* A counter that a clean-up drove below zero does not stay there, where   *)
(* it would grant more slots than the limit: the same clean-up corrects    *)
(* it, unless the very instance that cleans up crashes on the way.         *)
NegativeCountCorrected ==
    \A i \in Instances :
        (count < 0 /\ Unchecked(i)) ~> (count >= 0 \/ status[i] = "crashed")

-----------------------------------------------------------------------------
(* Statements of the repository's documents that the code does not keep. *)

(* ADR-006: a double clean-up is harmless, because DECRBY with the         *)
(* correction of negative counts is idempotent: the limit still holds.     *)
LimitHoldsAcrossCleanups == TotalHeld <= MaxConnections

(* redis.go: proxy:instances is the set of the active instances.           *)
ActiveInstancesListed ==
    \A i \in Instances : status[i] = "up" => i \in instances

(* ADR-006: the slots of an instance that died are recovered automatically.*)
DeadSlotsRecovered ==
    (count > TotalHeld + abandoned) ~> (count <= TotalHeld + abandoned)
=============================================================================
