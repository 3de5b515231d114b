------------------------------ MODULE Fallback ------------------------------
(***************************************************************************)
(* The two ways an instance can account for a slot, and the switching      *)
(* between them (internal/coordinator/redis.go): the shared counter in     *)
(* Redis, and fallbackCounts, a counter of its own used while Redis does   *)
(* not answer.  A slot remembers nothing of where it was counted, so it    *)
(* can be taken in one counter and given back in the other.                *)
(*                                                                         *)
(* fallback.enabled is true, one bucket.  A session retries while it waits *)
(* and may give up at any retry, which is what the wait of module          *)
(* WaitQueue and waitPolling amount to here.                               *)
(***************************************************************************)
EXTENDS Integers, FiniteSets, Functions

CONSTANTS
    Instances, Sessions, Home,
    MaxConnections,      \* max_connections of the bucket
    LocalLimitDivisor,   \* fallback.local_limit_divisor
    MaxOutages,          \* bound on the failures of Redis
    MaxLost,             \* bound on the replies lost on the way back
    Stopping             \* the instances that may be told to stop

ASSUME ConstantsAssumption ==
    /\ IsFiniteSet(Instances) /\ IsFiniteSet(Sessions)
    /\ Home \in [Sessions -> Instances]
    /\ MaxConnections \in Nat \ {0}
    /\ LocalLimitDivisor \in Int
    /\ MaxOutages \in Nat /\ MaxLost \in Nat
    /\ Stopping \subseteq Instances

VARIABLES
    up,         \* Redis answers
    scripts,    \* Redis has the two Lua scripts in its script cache
    count,      \* proxy:bucket:{id}:count
    max,        \* proxy:bucket:{id}:max, 0 when the key is missing
    conns,      \* proxy:instance:{id}:conns
    mode,       \* rc.fallbackMode
    local,      \* rc.fallbackCounts[bucket], NoEntry before its first use
    cancelled,  \* the context of the sessions of the instance is done
    hb,         \* how far ExitFallback is, in the heartbeat goroutine
    snap,       \* the counts that reconcileCounts copied
    pc,         \* where the goroutine of each session is
    outages, lost,  \* used so far of the two bounds
    forgotten   \* history: releases applied twice, counts lost with the data

redisVars == <<up, scripts, count, max, conns>>
exitVars  == <<hb, snap>>
history   == <<outages, lost, forgotten>>
vars == <<redisVars, mode, local, cancelled, exitVars, pc, history>>

-----------------------------------------------------------------------------
NoEntry == -1

(* localLimit: integer division, a missing divisor is 3, at least one. *)
LocalLimit ==
    LET divisor == IF LocalLimitDivisor <= 0 THEN 3 ELSE LocalLimitDivisor
        limit   == MaxConnections \div divisor
    IN  IF limit < 1 THEN 1 ELSE limit

LocalCount(i) == IF local[i] = NoEntry THEN 0 ELSE local[i]

Location == {"idle", "want", "eval", "local", "holding", "reval", "rlocal"}

(* Sessions with a connection to the backend, and those whose slot has not *)
(* been given back yet: the clean-up closes the connection first.          *)
Active    == {s \in Sessions : pc[s] = "holding"}
Unreleased == {s \in Sessions : pc[s] \in {"holding", "reval", "rlocal"}}

GoTo(s, l) == pc' = [pc EXCEPT ![s] = l]
EnterFallback(i) == mode' = [mode EXCEPT ![i] = TRUE]

-----------------------------------------------------------------------------
(* NewRedisCoordinator: an instance that finds Redis down starts in        *)
(* fallback and skips the scripts, the bucket limits and the registration. *)
Init ==
    /\ up \in BOOLEAN
    /\ scripts = up
    /\ count = 0
    /\ max \in IF up THEN {MaxConnections} ELSE {0, MaxConnections}
    /\ conns = [i \in Instances |-> 0]
    /\ mode = [i \in Instances |-> ~up]
    /\ local = [i \in Instances |-> NoEntry]
    /\ cancelled = [i \in Instances |-> FALSE]
    /\ hb = [i \in Instances |-> "idle"]
    /\ snap = [i \in Instances |-> NoEntry]
    /\ pc = [s \in Sessions |-> "idle"]
    /\ outages = 0 /\ lost = 0 /\ forgotten = 0

-----------------------------------------------------------------------------
(* RedisCoordinator.Acquire. *)

Connect(s) ==
    /\ pc[s] = "idle"
    /\ ~cancelled[Home[s]]
    /\ GoTo(s, "want")
    /\ UNCHANGED <<redisVars, mode, local, cancelled, exitVars, history>>

(* The timer, the context or the circuit breaker ends the wait. *)
GiveUp(s) ==
    /\ pc[s] = "want"
    /\ GoTo(s, "idle")
    /\ UNCHANGED <<redisVars, mode, local, cancelled, exitVars, history>>

(* The flag is read once, before the call. *)
BeginAcquire(s) ==
    /\ pc[s] = "want"
    /\ GoTo(s, IF mode[Home[s]] THEN "local" ELSE "eval")
    /\ UNCHANGED <<redisVars, mode, local, cancelled, exitVars, history>>

Reachable(s) == up /\ scripts /\ ~cancelled[Home[s]]

(* acquire.lua: -2 without a maximum, -1 at the maximum. *)
HasRoom == max # 0 /\ count < max

IncrCount(i) ==
    /\ count' = count + 1
    /\ conns' = [conns EXCEPT ![i] = @ + 1]

EvalAcquire(s) ==
    /\ pc[s] = "eval"
    /\ Reachable(s)
    /\ \/ HasRoom /\ IncrCount(Home[s]) /\ GoTo(s, "holding")
       \/ ~HasRoom /\ UNCHANGED <<count, conns>> /\ GoTo(s, "want")
    /\ UNCHANGED <<up, scripts, max, mode, local, cancelled, exitVars, history>>

(* Connection refused, NOSCRIPT or a context that is already done. *)
EvalAcquireFails(s) ==
    /\ pc[s] = "eval"
    /\ ~Reachable(s)
    /\ EnterFallback(Home[s])
    /\ GoTo(s, "local")
    /\ UNCHANGED <<redisVars, local, cancelled, exitVars, history>>

(* The script ran and its reply did not come back: the client repeats the  *)
(* request or, out of retries, reports an error.                           *)
AcquireReplyLost(s) ==
    /\ pc[s] = "eval"
    /\ Reachable(s) /\ HasRoom
    /\ lost < MaxLost
    /\ lost' = lost + 1
    /\ IncrCount(Home[s])
    /\ \/ UNCHANGED <<mode, pc>>
       \/ EnterFallback(Home[s]) /\ GoTo(s, "local")
    /\ UNCHANGED <<up, scripts, max, local, cancelled, exitVars,
                   outages, forgotten>>

(* Mutant of AcquireFallback: the comparison is one too late. *)
AcquireFallbackLate(s) ==
    /\ pc[s] = "local"
    /\ IF LocalCount(Home[s]) > LocalLimit
       THEN GoTo(s, "want") /\ UNCHANGED local
       ELSE /\ GoTo(s, "holding")
            /\ local' = [local EXCEPT ![Home[s]] = LocalCount(Home[s]) + 1]
    /\ UNCHANGED <<redisVars, mode, cancelled, exitVars, history>>

AcquireFallback(s) ==
    /\ pc[s] = "local"
    /\ IF LocalCount(Home[s]) >= LocalLimit
       THEN GoTo(s, "want") /\ UNCHANGED local
       ELSE /\ GoTo(s, "holding")
            /\ local' = [local EXCEPT ![Home[s]] = LocalCount(Home[s]) + 1]
    /\ UNCHANGED <<redisVars, mode, cancelled, exitVars, history>>

-----------------------------------------------------------------------------
(* RedisCoordinator.Release, called with a context of its own. *)

BeginRelease(s) ==
    /\ pc[s] = "holding"
    /\ GoTo(s, IF mode[Home[s]] THEN "rlocal" ELSE "reval")
    /\ UNCHANGED <<redisVars, mode, local, cancelled, exitVars, history>>

(* Mutant of DecrCount: without the protection against underflow. *)
DecrCountBlind(i) ==
    /\ count' = count - 1
    /\ conns' = [conns EXCEPT ![i] = IF @ > 0 THEN @ - 1 ELSE @]

(* release.lua: nothing to do at zero. *)
DecrCount(i) ==
    IF count <= 0
    THEN count' = 0 /\ UNCHANGED conns
    ELSE /\ count' = count - 1
         /\ conns' = [conns EXCEPT ![i] = IF @ > 0 THEN @ - 1 ELSE @]

EvalRelease(s) ==
    /\ pc[s] = "reval"
    /\ up /\ scripts
    /\ DecrCount(Home[s])
    /\ GoTo(s, "idle")
    /\ UNCHANGED <<up, scripts, max, mode, local, cancelled, exitVars, history>>

EvalReleaseFails(s) ==
    /\ pc[s] = "reval"
    /\ ~(up /\ scripts)
    /\ EnterFallback(Home[s])
    /\ GoTo(s, "rlocal")
    /\ UNCHANGED <<redisVars, local, cancelled, exitVars, history>>

ReleaseReplyLost(s) ==
    /\ pc[s] = "reval"
    /\ up /\ scripts
    /\ lost < MaxLost
    /\ lost' = lost + 1
    /\ DecrCount(Home[s])
    /\ forgotten' = forgotten + 1
    /\ \/ UNCHANGED <<mode, pc>>
       \/ EnterFallback(Home[s]) /\ GoTo(s, "rlocal")
    /\ UNCHANGED <<up, scripts, max, local, cancelled, exitVars, outages>>

ReleaseFallback(s) ==
    /\ pc[s] = "rlocal"
    /\ GoTo(s, "idle")
    /\ local' = [local EXCEPT ![Home[s]] = IF @ > 0 THEN @ - 1 ELSE @]
    /\ UNCHANGED <<redisVars, mode, cancelled, exitVars, history>>

-----------------------------------------------------------------------------
(* ExitFallback, on a tick of the heartbeat goroutine; an error at any     *)
(* step leaves the instance in fallback until the next tick.               *)

(* Mutant of PingAndLoadScripts: the scripts are not loaded again. *)
PingOnly(i) ==
    /\ hb[i] = "idle" /\ mode[i]
    /\ up
    /\ hb' = [hb EXCEPT ![i] = "loaded"]
    /\ UNCHANGED <<redisVars, mode, local, cancelled, snap, pc, history>>

PingAndLoadScripts(i) ==
    /\ hb[i] = "idle" /\ mode[i]
    /\ up
    /\ scripts' = TRUE
    /\ hb' = [hb EXCEPT ![i] = "loaded"]
    /\ UNCHANGED <<up, count, max, conns, mode, local, cancelled, snap, pc,
                   history>>

CopyCounts(i) ==
    /\ hb[i] = "loaded"
    /\ snap' = [snap EXCEPT ![i] = local[i]]
    /\ hb' = [hb EXCEPT ![i] = "copied"]
    /\ UNCHANGED <<redisVars, mode, local, cancelled, pc, history>>

(* An empty map makes an empty pipeline, which succeeds without a request. *)
WriteCounts(i) ==
    /\ hb[i] = "copied"
    /\ \/ /\ snap[i] = NoEntry
          /\ hb' = [hb EXCEPT ![i] = "written"]
          /\ UNCHANGED conns
       \/ /\ snap[i] # NoEntry /\ up
          /\ hb' = [hb EXCEPT ![i] = "written"]
          /\ conns' = [conns EXCEPT ![i] = snap[i]]
       \/ /\ snap[i] # NoEntry /\ ~up
          /\ hb' = [hb EXCEPT ![i] = "idle"]
          /\ UNCHANGED conns
    /\ snap' = [snap EXCEPT ![i] = NoEntry]
    /\ UNCHANGED <<up, scripts, count, max, mode, local, cancelled, pc, history>>

(* Mutant of LeaveFallback: the local counts are forgotten. *)
LeaveFallbackAndForget(i) ==
    /\ hb[i] = "written"
    /\ mode' = [mode EXCEPT ![i] = FALSE]
    /\ local' = [local EXCEPT ![i] = NoEntry]
    /\ hb' = [hb EXCEPT ![i] = "idle"]
    /\ UNCHANGED <<redisVars, cancelled, snap, pc, history>>

LeaveFallback(i) ==
    /\ hb[i] = "written"
    /\ mode' = [mode EXCEPT ![i] = FALSE]
    /\ hb' = [hb EXCEPT ![i] = "idle"]
    /\ UNCHANGED <<redisVars, local, cancelled, snap, pc, history>>

-----------------------------------------------------------------------------
(* The environment. *)

RedisFails ==
    /\ up
    /\ outages < MaxOutages
    /\ up' = FALSE
    /\ outages' = outages + 1
    /\ UNCHANGED <<scripts, count, max, conns, mode, local, cancelled,
                   exitVars, pc, lost, forgotten>>

(* The end of a partition, a restart that reloads the data set, a restart  *)
(* from an empty one.  The script cache does not survive a restart.        *)
RedisReturns ==
    /\ ~up
    /\ up' = TRUE
    /\ \/ UNCHANGED <<scripts, count, max, conns, forgotten>>
       \/ scripts' = FALSE /\ UNCHANGED <<count, max, conns, forgotten>>
       \/ /\ scripts' = FALSE
          /\ count' = 0 /\ max' = 0
          /\ conns' = [i \in Instances |-> 0]
          /\ forgotten' = forgotten + count
    /\ UNCHANGED <<mode, local, cancelled, exitVars, pc, outages, lost>>

(* Server.Stop. *)
CancelContext(i) ==
    /\ i \in Stopping /\ ~cancelled[i]
    /\ cancelled' = [cancelled EXCEPT ![i] = TRUE]
    /\ UNCHANGED <<redisVars, mode, local, exitVars, pc, history>>

-----------------------------------------------------------------------------
AcquireStep(s) ==
    \/ BeginAcquire(s) \/ EvalAcquire(s) \/ EvalAcquireFails(s)
    \/ AcquireFallback(s)

ReleaseStep(s) ==
    \/ BeginRelease(s) \/ EvalRelease(s) \/ EvalReleaseFails(s)
    \/ ReleaseFallback(s)

ExitStep(i) ==
    \/ PingAndLoadScripts(i) \/ CopyCounts(i) \/ WriteCounts(i)
    \/ LeaveFallback(i)

Next ==
    \/ \E s \in Sessions :
          \/ Connect(s) \/ GiveUp(s) \/ AcquireStep(s) \/ ReleaseStep(s)
          \/ AcquireReplyLost(s) \/ ReleaseReplyLost(s)
    \/ \E i \in Instances : ExitStep(i) \/ CancelContext(i)
    \/ RedisFails \/ RedisReturns

Spec == Init /\ [][Next]_vars

(* Goroutines run and the heartbeat ticks; nothing makes Redis come back.  *)
FairSpec ==
    /\ Spec
    /\ \A s \in Sessions : WF_vars(AcquireStep(s)) /\ WF_vars(ReleaseStep(s))
    /\ \A i \in Instances : WF_vars(ExitStep(i))

-----------------------------------------------------------------------------
TypeOK ==
    /\ up \in BOOLEAN /\ scripts \in BOOLEAN
    /\ count \in Nat
    /\ max \in {0, MaxConnections}
    /\ conns \in [Instances -> Nat]
    /\ mode \in [Instances -> BOOLEAN]
    /\ local \in [Instances -> Nat \union {NoEntry}]
    /\ cancelled \in [Instances -> BOOLEAN]
    /\ hb \in [Instances -> {"idle", "loaded", "copied", "written"}]
    /\ snap \in [Instances -> Nat \union {NoEntry}]
    /\ pc \in [Sessions -> Location]
    /\ outages \in 0 .. MaxOutages /\ lost \in 0 .. MaxLost
    /\ forgotten \in Nat

(* Each counter stays within its own limit whatever is taken in one and    *)
(* given back in the other, and whatever is repeated or lost.              *)
CountersWithinLimits ==
    /\ count <= MaxConnections
    /\ \A i \in Instances : LocalCount(i) <= LocalLimit

TotalLocal ==
    FoldFunctionOnSet(+, 0, [i \in Instances |-> LocalCount(i)], Instances)

(* What is left of the guarantee across outages: every slot that is not    *)
(* given back is in some counter, except for releases that ran twice and   *)
(* counts that Redis lost.  With CountersWithinLimits, the backend never   *)
(* sees more than the limit plus the local limits of all instances.        *)
SlotsCovered == Cardinality(Unreleased) <= count + TotalLocal + forgotten

(* Once Redis stays up, an instance that is not shutting down goes back to *)
(* the shared counter and remains there.                                   *)
FallbackEnds ==
    \A i \in Instances :
        <>[](up /\ ~cancelled[i]) => <>[](~mode[i])

-----------------------------------------------------------------------------
(* Statements of the repository's documents that the code does not keep. *)

(* ADR-005: with every proxy in fallback the total stays below the limit.  *)
AllInFallbackWithinLimit ==
    (\A i \in Instances : mode[i])
        => Cardinality(Active) <= MaxConnections

(* ADR-005: reconcileCounts brings the counters of the instance in Redis   *)
(* up to date when it leaves fallback.                                     *)
ReconcileSynchronises ==
    [][\A i \in Instances :
          mode[i] /\ ~mode'[i] =>
            conns'[i] = Cardinality({s \in Unreleased : Home[s] = i})]_vars

(* ADR-005: the proxy keeps serving without Redis: an instance in fallback *)
(* none of whose sessions has a slot can give one out.                     *)
FallbackServes ==
    \A i \in Instances :
        mode[i] /\ (\A s \in Unreleased : Home[s] # i)
            => LocalCount(i) < LocalLimit

(* acquire.lua: the maximum of the bucket is always set when it runs. *)
MaximumConfigured ==
    [][\A s \in Sessions : EvalAcquire(s) => max # 0]_vars

(* redis.go: an instance falls back because Redis failed. *)
FallbackMeansRedisFailed ==
    [][\A i \in Instances :
          ~mode[i] /\ mode'[i] => ~up \/ ~scripts \/ lost' > lost]_vars
=============================================================================
