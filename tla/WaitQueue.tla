----------------------------- MODULE WaitQueue -----------------------------
(***************************************************************************)
(* The path of a client session through the distributed queue of a bucket: *)
(* DistributedQueue.Acquire (internal/queue/distributed.go), the semaphore *)
(* it waits on (internal/coordinator/semaphore.go), the two Lua scripts    *)
(* that count the slots in Redis (internal/coordinator/lua), the Pub/Sub   *)
(* channel that announces a release (internal/coordinator/redis.go) and    *)
(* the release in the clean-up of the session (internal/proxy/handler.go). *)
(*                                                                         *)
(* One bucket: every Redis key, map entry and channel is per bucket.       *)
(* Redis answers every request here and fallback.enabled is false, so a    *)
(* request fails only when its context is cancelled; outages and the local *)
(* mode are the subject of module Fallback.                                *)
(***************************************************************************)
EXTENDS Integers, FiniteSets

CONSTANTS
    Instances,       \* proxy instances sharing the Redis server
    Sessions,        \* client connections; an entry is reused after it ended
    Home,            \* the instance that accepted each connection
    MaxConnections,  \* proxy:bucket:{id}:max
    MaxQueueSize,    \* max_queue_size, 0 for no limit
    ChanCap          \* capacity of a notification channel (16 in the code)

ASSUME ConstantsAssumption ==
    /\ Home \in [Sessions -> Instances]
    /\ MaxConnections \in Nat \ {0}
    /\ MaxQueueSize \in Nat
    /\ ChanCap \in Nat \ {0}

ASSUME SessionsAssumption == IsFiniteSet(Sessions)

VARIABLES
    count,      \* proxy:bucket:{id}:count in Redis
    conns,      \* proxy:instance:{id}:conns in Redis
    depth,      \* dq.depths[bucket] of each instance
    pc,         \* where the goroutine of each session is
    inbox,      \* messages a subscription received and has not yet forwarded
    notify,     \* messages buffered in the notifyCh of a waiter
    cancelled   \* the context the server passes to its sessions is done

vars == <<count, conns, depth, pc, inbox, notify, cancelled>>

-----------------------------------------------------------------------------
(* Where a session can be. *)

Queued   == {"wait", "subscribe", "select", "won", "lost"}
Ended    == {"idle", "rejected", "timedout", "cancelled", "done"}
Location == {"try", "breaker", "enqueue", "holding"} \union Queued \union Ended

Holders    == {s \in Sessions : pc[s] \in {"won", "holding"}}
HoldersOf(i) == {s \in Holders : Home[s] = i}
QueueOf(i) == {s \in Sessions : Home[s] = i /\ pc[s] \in Queued}

GoTo(s, l) == pc' = [pc EXCEPT ![s] = l]

-----------------------------------------------------------------------------
Init ==
    /\ count = 0
    /\ conns = [i \in Instances |-> 0]
    /\ depth = [i \in Instances |-> 0]
    /\ pc = [s \in Sessions |-> "idle"]
    /\ inbox = [s \in Sessions |-> 0]
    /\ notify = [s \in Sessions |-> 0]
    /\ cancelled = [i \in Instances |-> FALSE]

(* Mutant of TakeSlot: the limit is compared one too late. *)
TakeSlotLate(s) ==
    /\ ~cancelled[Home[s]]
    /\ count <= MaxConnections
    /\ count' = count + 1
    /\ conns' = [conns EXCEPT ![Home[s]] = @ + 1]

(* RedisCoordinator.Acquire: the EVALSHA of acquire.lua, one atomic step.  *)
(* The client refuses to send it once the context of the session is done.  *)
TakeSlot(s) ==
    /\ ~cancelled[Home[s]]
    /\ count < MaxConnections
    /\ count' = count + 1
    /\ conns' = [conns EXCEPT ![Home[s]] = @ + 1]

Refused(s) ==
    /\ cancelled[Home[s]] \/ count >= MaxConnections
    /\ UNCHANGED <<count, conns>>

Attempt(s, success, failure) ==
    \/ TakeSlot(s) /\ GoTo(s, success)
    \/ Refused(s) /\ GoTo(s, failure)

(* The listener accepts a connection and its session reaches dq.Acquire.   *)
(* The listener is closed before the context is cancelled.                 *)
Connect(s) ==
    /\ pc[s] \in Ended
    /\ ~cancelled[Home[s]]
    /\ GoTo(s, "try")
    /\ UNCHANGED <<count, conns, depth, inbox, notify, cancelled>>

TryAcquire(s) ==
    /\ pc[s] = "try"
    /\ Attempt(s, "holding", "breaker")
    /\ UNCHANGED <<depth, inbox, notify, cancelled>>

(* Mutant of CheckBreaker: it turns away one session too early. *)
CheckBreakerEarly(s) ==
    /\ pc[s] = "breaker"
    /\ IF MaxQueueSize > 0 /\ depth[Home[s]] + 1 >= MaxQueueSize
       THEN GoTo(s, "rejected")
       ELSE GoTo(s, "enqueue")
    /\ UNCHANGED <<count, conns, depth, inbox, notify, cancelled>>

(* The circuit breaker reads the depth under dq.mu and lets go of it ...   *)
CheckBreaker(s) ==
    /\ pc[s] = "breaker"
    /\ IF MaxQueueSize > 0 /\ depth[Home[s]] >= MaxQueueSize
       THEN GoTo(s, "rejected")
       ELSE GoTo(s, "enqueue")
    /\ UNCHANGED <<count, conns, depth, inbox, notify, cancelled>>

(* ... and the increment takes it again. *)
IncrementDepth(s) ==
    /\ pc[s] = "enqueue"
    /\ depth' = [depth EXCEPT ![Home[s]] = @ + 1]
    /\ GoTo(s, "wait")
    /\ UNCHANGED <<count, conns, inbox, notify, cancelled>>

WaitFastPath(s) ==
    /\ pc[s] = "wait"
    /\ Attempt(s, "won", "subscribe")
    /\ UNCHANGED <<depth, inbox, notify, cancelled>>

Subscribe(s) ==
    /\ pc[s] = "subscribe"
    /\ GoTo(s, "select")
    /\ inbox' = [inbox EXCEPT ![s] = 0]
    /\ notify' = [notify EXCEPT ![s] = 0]
    /\ UNCHANGED <<count, conns, depth, cancelled>>

-----------------------------------------------------------------------------
(* The select of Semaphore.Wait: one action per case. *)

OnNotify(s) ==
    /\ pc[s] = "select"
    /\ notify[s] > 0
    /\ notify' = [notify EXCEPT ![s] = @ - 1]
    /\ Attempt(s, "won", "select")
    /\ UNCHANGED <<depth, inbox, cancelled>>

(* Mutant of OnPoll: the tick does not try to acquire. *)
OnPollIdle(s) ==
    /\ pc[s] = "select"
    /\ UNCHANGED vars

OnPoll(s) ==
    /\ pc[s] = "select"
    /\ Attempt(s, "won", "select")
    /\ UNCHANGED <<depth, inbox, notify, cancelled>>

(* Mutant of OnTimer: after the timeout the session waits again. *)
OnTimerRestart(s) ==
    /\ pc[s] = "select"
    /\ GoTo(s, "subscribe")
    /\ UNCHANGED <<count, conns, depth, inbox, notify, cancelled>>

OnTimer(s) ==
    /\ pc[s] = "select"
    /\ GoTo(s, "lost")
    /\ UNCHANGED <<count, conns, depth, inbox, notify, cancelled>>

(* Mutant of OnCancel: a done context is handled as a failed attempt. *)
OnCancelRetry(s) ==
    /\ pc[s] = "select"
    /\ cancelled[Home[s]]
    /\ Attempt(s, "won", "select")
    /\ UNCHANGED <<depth, inbox, notify, cancelled>>

OnCancel(s) ==
    /\ pc[s] = "select"
    /\ cancelled[Home[s]]
    /\ GoTo(s, "lost")
    /\ UNCHANGED <<count, conns, depth, inbox, notify, cancelled>>

(* Mutant of LeaveQueue: only the successful path decrements the depth. *)
LeaveQueueOnSuccess(s) ==
    /\ pc[s] \in {"won", "lost"}
    /\ GoTo(s, IF pc[s] = "won" THEN "holding"
               ELSE IF cancelled[Home[s]] THEN "cancelled" ELSE "timedout")
    /\ depth' = [depth EXCEPT ![Home[s]] = IF pc[s] = "won" THEN @ - 1 ELSE @]
    /\ inbox' = [inbox EXCEPT ![s] = 0]
    /\ notify' = [notify EXCEPT ![s] = 0]
    /\ UNCHANGED <<count, conns, cancelled>>

(* The rest of dq.Acquire: classify the error and run the deferred         *)
(* decrementDepth.  Nothing reads the subscription of the wait any more.   *)
LeaveQueue(s) ==
    /\ pc[s] \in {"won", "lost"}
    /\ GoTo(s, IF pc[s] = "won" THEN "holding"
               ELSE IF cancelled[Home[s]] THEN "cancelled" ELSE "timedout")
    /\ depth' = [depth EXCEPT ![Home[s]] = IF @ > 0 THEN @ - 1 ELSE 0]
    /\ inbox' = [inbox EXCEPT ![s] = 0]
    /\ notify' = [notify EXCEPT ![s] = 0]
    /\ UNCHANGED <<count, conns, cancelled>>

-----------------------------------------------------------------------------
(* PUBLISH reaches every live subscription, on every instance. *)
Publish ==
    inbox' = [s \in Sessions |->
                IF pc[s] = "select" /\ inbox[s] < ChanCap
                THEN inbox[s] + 1 ELSE inbox[s]]

(* Mutant of Release: it uses the context of the session and is refused   *)
(* once that is cancelled.                                                 *)
ReleaseWithSessionContext(s) ==
    /\ pc[s] = "holding"
    /\ GoTo(s, "done")
    /\ IF cancelled[Home[s]]
       THEN UNCHANGED <<count, conns, inbox>>
       ELSE /\ count' = count - 1
            /\ conns' = [conns EXCEPT ![Home[s]] = @ - 1]
            /\ Publish
    /\ UNCHANGED <<depth, notify, cancelled>>

(* Session.cleanup -> dq.Release -> release.lua, with a context of its own.*)
Release(s) ==
    /\ pc[s] = "holding"
    /\ GoTo(s, "done")
    /\ \/ /\ count <= 0
          /\ count' = 0
          /\ UNCHANGED <<conns, inbox>>
       \/ /\ count > 0
          /\ count' = count - 1
          /\ conns' = [conns EXCEPT ![Home[s]] = IF @ > 0 THEN @ - 1 ELSE @]
          /\ Publish
    /\ UNCHANGED <<depth, notify, cancelled>>

(* Mutant of Forward: it does not drop what exceeds the capacity. *)
ForwardUnbounded(s) ==
    /\ inbox[s] > 0
    /\ inbox' = [inbox EXCEPT ![s] = @ - 1]
    /\ notify' = [notify EXCEPT ![s] = @ + 1]
    /\ UNCHANGED <<count, conns, depth, pc, cancelled>>

(* The forwarding goroutine of Subscribe: it drops what does not fit. *)
Forward(s) ==
    /\ inbox[s] > 0
    /\ inbox' = [inbox EXCEPT ![s] = @ - 1]
    /\ notify' = [notify EXCEPT ![s] = IF @ < ChanCap THEN @ + 1 ELSE @]
    /\ UNCHANGED <<count, conns, depth, pc, cancelled>>

(* Pub/Sub delivers at most once: a message in flight can vanish. *)
LoseMessage(s) ==
    /\ inbox[s] > 0
    /\ inbox' = [inbox EXCEPT ![s] = @ - 1]
    /\ UNCHANGED <<count, conns, depth, pc, notify, cancelled>>

(* Server.Stop cancels the context of every session of the instance. *)
CancelContext(i) ==
    /\ ~cancelled[i]
    /\ cancelled' = [cancelled EXCEPT ![i] = TRUE]
    /\ UNCHANGED <<count, conns, depth, pc, inbox, notify>>

-----------------------------------------------------------------------------
Advance(s) ==
    \/ TryAcquire(s) \/ CheckBreaker(s) \/ IncrementDepth(s)
    \/ WaitFastPath(s) \/ Subscribe(s) \/ LeaveQueue(s)

SessionStep(s) ==
    \/ Connect(s) \/ Advance(s) \/ Release(s)
    \/ OnNotify(s) \/ OnPoll(s) \/ OnTimer(s) \/ OnCancel(s)
    \/ Forward(s) \/ LoseMessage(s)

Next ==
    \/ \E s \in Sessions : SessionStep(s)
    \/ \E i \in Instances : CancelContext(i)

Spec == Init /\ [][Next]_vars

(* What the Go scheduler and the tickers guarantee: a runnable goroutine   *)
(* runs, a poll ticker ticks and a done context is seen.  Nothing is       *)
(* assumed of Release: a relay does not watch the context, its end is up   *)
(* to the client, the backend and the deadline (see module Server), and    *)
(* main may exit before it.                                                *)
Progress ==
    \A s \in Sessions :
        /\ WF_vars(Advance(s))
        /\ WF_vars(OnPoll(s))
        /\ WF_vars(OnCancel(s))

FairSpec == Spec /\ Progress

(* The timer of Semaphore.Wait fires. *)
Timers == \A s \in Sessions : WF_vars(OnTimer(s))

-----------------------------------------------------------------------------
TypeOK ==
    /\ count \in Nat
    /\ conns \in [Instances -> Nat]
    /\ depth \in [Instances -> Nat]
    /\ pc \in [Sessions -> Location]
    /\ inbox \in [Sessions -> 0 .. ChanCap]
    /\ notify \in [Sessions -> 0 .. ChanCap]
    /\ cancelled \in [Instances -> BOOLEAN]

(* The counters in Redis are exactly the slots the sessions hold: the      *)
(* global one, and the one of each instance that a clean-up after a crash  *)
(* would give back.  The Lua scripts keep both in step whatever the paths  *)
(* by which sessions acquired.                                             *)
SlotAccounting ==
    /\ count = Cardinality(Holders)
    /\ \A i \in Instances : conns[i] = Cardinality(HoldersOf(i))

(* Never more sessions with a slot, over all instances, than the bucket    *)
(* allows: the check and the increment of acquire.lua are one step.        *)
LimitRespected == Cardinality(Holders) <= MaxConnections

(* The depth the circuit breaker looks at is the number of sessions that   *)
(* really are between incrementDepth and the deferred decrementDepth: no   *)
(* way out of the wait leaves a phantom waiter behind.                     *)
DepthAccounting ==
    \A i \in Instances : depth[i] = Cardinality(QueueOf(i))

(* The circuit breaker turns a session away only while the bucket is short *)
(* of room for it: at least max_queue_size sessions of the same instance   *)
(* are waiting at that moment.                                             *)
RejectionsJustified ==
    [][\A s \in Sessions :
          pc[s] # "rejected" /\ pc'[s] = "rejected"
              => Cardinality(QueueOf(Home[s])) >= MaxQueueSize]_vars

(* The callers see a counting semaphore: Slots, with the sessions whose    *)
(* acquire script succeeded and whose release script has not run yet.      *)
Semaphore == INSTANCE Slots WITH holders <- Holders
ImplementsSlots == Semaphore!Spec

(* A slot that is free while a session waits is not left idle: the session *)
(* or another one takes it, even when every notification is lost and no    *)
(* timer ever fires, because of the polling of Semaphore.Wait.             *)
SlotNotStranded ==
    \A s \in Sessions :
        (pc[s] = "select" /\ count < MaxConnections)
            ~> (pc[s] # "select" \/ count = MaxConnections)

(* Where the timers fire, every session that asks for a slot gets one or   *)
(* is told why not.                                                        *)
SessionResolves ==
    Timers => \A s \in Sessions :
                  pc[s] = "try" ~> pc[s] \in Ended \union {"holding"}

(* Once the context of an instance is cancelled its queue empties, without *)
(* the help of any timer, and stays empty: what is left are sessions that  *)
(* have a slot.  When those give it back this module does not say; a       *)
(* process that exits first leaves it counted (see module Heartbeat).      *)
ShutdownDrains ==
    \A i \in Instances :
        cancelled[i] ~> [](/\ depth[i] = 0
                           /\ \A s \in Sessions : Home[s] = i =>
                                  pc[s] \in Ended \union {"holding"})

-----------------------------------------------------------------------------
(* Statements of the repository's documents that the code does not keep. *)

(* distributed.go:35: maxQueueSize is the maximum depth of the queue.      *)
BreakerBoundsQueue ==
    \A i \in Instances :
        MaxQueueSize > 0 /\ ~cancelled[i] => depth[i] <= MaxQueueSize

(* The waiting line is FIFO: a session that just arrived does not obtain a *)
(* slot while another one is waiting in the queue.                         *)
NoOvertaking ==
    [][\A s \in Sessions :
          pc[s] = "try" /\ pc'[s] = "holding"
              => ~ \E t \in Sessions :
                        pc[t] = "select" /\ ~cancelled[Home[t]]]_vars

(* Against the thundering herd, one waiter is notified per release. *)
OneWaiterNotified ==
    [][\A s, t \in Sessions :
          inbox'[s] > inbox[s] /\ inbox'[t] > inbox[t] => s = t]_vars
=============================================================================
