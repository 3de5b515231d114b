------------------------------- MODULE Server -------------------------------
(***************************************************************************)
(* The life of one proxy process and of the sessions in it: the accept     *)
(* loop and Server.Stop (internal/proxy/listener.go), Session.Handle, the  *)
(* relay and the clean-up (internal/proxy/handler.go), and the deferred    *)
(* shutdown of cmd/proxy/main.go with RedisCoordinator.Close.              *)
(*                                                                         *)
(* The instance is alone with its Redis, which answers all the time.  The  *)
(* wait for a slot is reduced to its outcomes, which modules WaitQueue and *)
(* Fallback refine: an attempt is one step here, whichever counter it uses.*)
(***************************************************************************)
EXTENDS Integers, FiniteSets

CONSTANTS
    Sessions,        \* client connections, each used once
    MaxConnections,  \* max_connections of the bucket
    LocalLimit       \* what localLimit returns for the bucket

ASSUME ConstantsAssumption ==
    /\ IsFiniteSet(Sessions)
    /\ MaxConnections \in Nat \ {0}
    /\ LocalLimit \in Nat \ {0}

VARIABLES
    fallbackEnabled,  \* fallback.enabled, read once
    phase,       \* where the goroutine of main is
    outcome,     \* what Server.Stop reported
    pc,          \* where the goroutine of each session is
    slotted,     \* sessions whose slotAcquired is set
    backends,    \* sessions whose backendConn is open
    copier,      \* the two goroutines of each tcpRelay
    count,       \* proxy:bucket:{id}:count
    mode,        \* rc.fallbackMode
    local,       \* rc.fallbackCounts[bucket]
    registered   \* the instance is in proxy:instances

counters == <<count, mode, local>>
relayVars == <<backends, copier>>
mainVars == <<fallbackEnabled, phase, outcome, registered>>
vars == <<mainVars, pc, slotted, relayVars, counters>>

-----------------------------------------------------------------------------
Directions == {"up", "down"}   \* client to backend, backend to client

Accepting == {"serving", "signalled"}
Stopping  == {"unlistened", "waiting", "stopped", "silent", "closing", "closed"}
Dead      == {"exited", "panicked"}
Alive     == phase \notin Dead

Cancellable == {"waiting", "stopped", "silent", "closing", "closed"}

(* Mutant of Cancelled: Stop does not cancel the context of the sessions. *)
NeverCancelled == FALSE

(* The context that the accept loop gives to every session. *)
Cancelled == phase \in Cancellable

Unstarted == {"none", "accepted"}
Running == {s \in Sessions : pc[s] \notin Unstarted \union {"done"}}

GoTo(s, l) == pc' = [pc EXCEPT ![s] = l]

Init ==
    /\ fallbackEnabled \in BOOLEAN
    /\ phase = "serving" /\ outcome = "none"
    /\ pc = [s \in Sessions |-> "none"]
    /\ slotted = {} /\ backends = {}
    /\ copier = [s \in Sessions |-> [d \in Directions |-> "off"]]
    /\ count = 0 /\ mode = FALSE /\ local = 0
    /\ registered = TRUE

-----------------------------------------------------------------------------
(* RedisCoordinator.Acquire and Release, seen from a session. *)

(* Redis is asked only with a live context and through an open client. *)
Reachable(cancelled) == ~cancelled /\ phase # "closed"

AcquireLocally(s, success, failure) ==
    /\ IF local < LocalLimit
       THEN local' = local + 1 /\ slotted' = slotted \union {s} /\ GoTo(s, success)
       ELSE GoTo(s, failure) /\ UNCHANGED <<local, slotted>>
    /\ UNCHANGED count

(* Mutant of HasRoom: the limit is compared one too late. *)
HasRoomLate == count <= MaxConnections

HasRoom == count < MaxConnections

AcquireFromRedis(s, success, failure) ==
    /\ IF HasRoom
       THEN count' = count + 1 /\ slotted' = slotted \union {s} /\ GoTo(s, success)
       ELSE GoTo(s, failure) /\ UNCHANGED <<count, slotted>>
    /\ UNCHANGED local

Attempt(s, success, failure) ==
    \/ /\ mode
       /\ AcquireLocally(s, success, failure)
       /\ UNCHANGED mode
    \/ /\ ~mode /\ Reachable(Cancelled)
       /\ AcquireFromRedis(s, success, failure)
       /\ UNCHANGED mode
    \/ /\ ~mode /\ ~Reachable(Cancelled) /\ fallbackEnabled
       /\ AcquireLocally(s, success, failure)
       /\ mode' = TRUE
    \/ /\ ~mode /\ ~Reachable(Cancelled) /\ ~fallbackEnabled
       /\ GoTo(s, failure)
       /\ UNCHANGED <<counters, slotted>>

(* The clean-up has a context of its own. *)
GiveBack ==
    \/ /\ mode \/ (~Reachable(FALSE) /\ fallbackEnabled)
       /\ mode' = TRUE
       /\ local' = IF local > 0 THEN local - 1 ELSE local
       /\ UNCHANGED count
    \/ /\ ~mode /\ Reachable(FALSE)
       /\ count' = IF count > 0 THEN count - 1 ELSE 0
       /\ UNCHANGED <<mode, local>>
    \/ /\ ~mode /\ ~Reachable(FALSE) /\ ~fallbackEnabled
       /\ UNCHANGED counters

(* A tick of the heartbeat finds Redis answering and leaves fallback. *)
ExitFallback ==
    /\ mode
    /\ phase \in Accepting \union {"unlistened", "waiting", "stopped"}
    /\ mode' = FALSE
    /\ UNCHANGED <<mainVars, pc, slotted, relayVars, count, local>>

-----------------------------------------------------------------------------
(* The accept loop. *)

Accept(s) ==
    /\ phase \in Accepting
    /\ pc[s] = "none"
    /\ \A t \in Sessions : pc[t] # "accepted"
    /\ GoTo(s, "accepted")
    /\ UNCHANGED <<mainVars, slotted, relayVars, counters>>

(* wg.Add and the goroutine, whatever Stop has done since. *)
StartSession(s) ==
    /\ Alive
    /\ pc[s] = "accepted"
    /\ GoTo(s, "prelogin")
    /\ UNCHANGED <<mainVars, slotted, relayVars, counters>>

-----------------------------------------------------------------------------
(* Session.Handle. *)

(* The deadline of the client ends the read at the latest. *)
ReadPreLogin(s) ==
    /\ Alive
    /\ pc[s] = "prelogin"
    /\ \E l \in {"try", "cleanup"} : GoTo(s, l)
    /\ UNCHANGED <<mainVars, slotted, relayVars, counters>>

TryAcquire(s) ==
    /\ Alive
    /\ pc[s] = "try"
    /\ Attempt(s, "dial", "queue")
    /\ UNCHANGED <<mainVars, relayVars>>

(* The circuit breaker, or the first attempt of the wait. *)
EnterQueue(s) ==
    /\ Alive
    /\ pc[s] = "queue"
    /\ \/ GoTo(s, "cleanup") /\ UNCHANGED <<slotted, counters>>
       \/ Attempt(s, "dial", "subscribe")
    /\ UNCHANGED <<mainVars, relayVars>>

(* Close has set the map of subscriptions to nil: an assignment panics. *)
Subscribe(s) ==
    /\ Alive
    /\ pc[s] = "subscribe"
    /\ IF ~mode /\ phase \in {"closing", "closed"}
       THEN phase' = "panicked" /\ backends' = {} /\ UNCHANGED pc
       ELSE GoTo(s, "select") /\ UNCHANGED <<phase, backends>>
    /\ UNCHANGED <<fallbackEnabled, outcome, registered, slotted, copier, counters>>

(* A notification or a tick. *)
Retry(s) ==
    /\ Alive
    /\ pc[s] = "select"
    /\ Attempt(s, "dial", "select")
    /\ UNCHANGED <<mainVars, relayVars>>

(* queue_timeout, or the context is done. *)
GiveUp(s) ==
    /\ Alive
    /\ pc[s] = "select"
    /\ GoTo(s, "cleanup")
    /\ UNCHANGED <<mainVars, slotted, relayVars, counters>>

(* DialTimeout does not look at the context. *)
Dial(s) ==
    /\ Alive
    /\ pc[s] = "dial"
    /\ \/ GoTo(s, "handshake") /\ backends' = backends \union {s}
       \/ GoTo(s, "cleanup") /\ UNCHANGED backends
    /\ UNCHANGED <<mainVars, slotted, copier, counters>>

(* The Pre-Login goes to the backend and the answer to the client; then    *)
(* the relay starts its two goroutines.                                    *)
Handshake(s) ==
    /\ Alive
    /\ pc[s] = "handshake"
    /\ \/ GoTo(s, "cleanup") /\ UNCHANGED copier
       \/ /\ GoTo(s, "relay")
          /\ copier' = [copier EXCEPT ![s] = [d \in Directions |-> "reading"]]
    /\ UNCHANGED <<mainVars, slotted, backends, counters>>

(* io.Copy, from the client to the backend and back, as long as cleanup    *)
(* has not closed the connections.                                         *)
Copying(s, d, from, to) ==
    /\ Alive
    /\ copier[s][d] = from
    /\ copier' = [copier EXCEPT ![s][d] = to]
    /\ UNCHANGED <<mainVars, pc, slotted, backends, counters>>

Connected(s) == pc[s] \in {"relay", "cleanup"}

(* A read returns bytes, which are written to the other side. *)
Fetch(s, d) == Connected(s) /\ Copying(s, d, "reading", "writing")

Deliver(s, d) == Connected(s) /\ Copying(s, d, "writing", "reading")

(* A read or a write fails, because the peer left, cleanup closed the      *)
(* connection or, on the client's side, the deadline passed; or the source *)
(* ended.  Then CloseWrite tells the other side.                           *)
EndRead(s, d) == Copying(s, d, "reading", "sending")

EndWrite(s, d) == Copying(s, d, "writing", "sending")

CopyStep(s, d) ==
    Fetch(s, d) \/ Deliver(s, d) \/ EndRead(s, d) \/ EndWrite(s, d)

(* Mutant of RelayDone: the relay waits for both directions. *)
RelayDoneTwice(s) ==
    /\ Alive
    /\ pc[s] = "relay"
    /\ \A d \in Directions : copier[s][d] = "sending"
    /\ copier' = [copier EXCEPT ![s] = [d \in Directions |-> "done"]]
    /\ GoTo(s, "cleanup")
    /\ UNCHANGED <<mainVars, slotted, backends, counters>>

(* One receive from the unbuffered channel done. *)
RelayDone(s) ==
    /\ Alive
    /\ pc[s] = "relay"
    /\ \E d \in Directions :
          /\ copier[s][d] = "sending"
          /\ copier' = [copier EXCEPT ![s][d] = "done"]
    /\ GoTo(s, "cleanup")
    /\ UNCHANGED <<mainVars, slotted, backends, counters>>

(* Mutant of CloseConns: the connection to the backend stays open. *)
CloseClientOnly(s) ==
    /\ Alive
    /\ pc[s] = "cleanup"
    /\ GoTo(s, "release")
    /\ UNCHANGED <<mainVars, slotted, relayVars, counters>>

(* cleanup: both connections are closed before the slot is given back. *)
CloseConns(s) ==
    /\ Alive
    /\ pc[s] = "cleanup"
    /\ backends' = backends \ {s}
    /\ GoTo(s, "release")
    /\ UNCHANGED <<mainVars, slotted, copier, counters>>

(* The release, and the deferred wg.Done. *)
Release(s) ==
    /\ Alive
    /\ pc[s] = "release"
    /\ IF s \in slotted THEN GiveBack ELSE UNCHANGED counters
    /\ slotted' = slotted \ {s}
    /\ GoTo(s, "done")
    /\ UNCHANGED <<mainVars, relayVars>>

-----------------------------------------------------------------------------
(* The shutdown of the process, in the order of main's deferred calls. *)

Advance(from, to) ==
    /\ phase = from
    /\ phase' = to
    /\ UNCHANGED <<fallbackEnabled, pc, slotted, copier, counters>>

(* The HTTP servers are shut down while the listener still accepts. *)
Signal ==
    Advance("serving", "signalled") /\ UNCHANGED <<outcome, registered, backends>>

CloseListener ==
    Advance("signalled", "unlistened") /\ UNCHANGED <<outcome, registered, backends>>

CancelSessions ==
    Advance("unlistened", "waiting") /\ UNCHANGED <<outcome, registered, backends>>

(* Mutant of AwaitSessions: the wait has no timeout. *)
AwaitSessionsForever ==
    /\ Advance("waiting", "stopped")
    /\ Running = {} /\ outcome' = "graceful"
    /\ UNCHANGED <<registered, backends>>

(* wg.Wait, or ten seconds. *)
AwaitSessions ==
    /\ Advance("waiting", "stopped")
    /\ \/ Running = {} /\ outcome' = "graceful"
       \/ outcome' = "timeout"
    /\ UNCHANGED <<registered, backends>>

StopHeartbeat ==
    Advance("stopped", "silent") /\ UNCHANGED <<outcome, registered, backends>>

CloseSubscriptions ==
    Advance("silent", "closing") /\ UNCHANGED <<outcome, registered, backends>>

(* In fallback the instance is not unregistered. *)
CloseClient ==
    /\ Advance("closing", "closed")
    /\ registered' = (registered /\ mode)
    /\ UNCHANGED <<outcome, backends>>

(* poolMgr.Close and the end of main, which ends every goroutine. *)
Exit ==
    /\ Advance("closed", "exited")
    /\ backends' = {}
    /\ UNCHANGED <<outcome, registered>>

-----------------------------------------------------------------------------
StopStep ==
    \/ CloseListener \/ CancelSessions \/ AwaitSessions \/ StopHeartbeat
    \/ CloseSubscriptions \/ CloseClient \/ Exit

SessionStep(s) ==
    \/ StartSession(s) \/ ReadPreLogin(s) \/ TryAcquire(s) \/ EnterQueue(s)
    \/ Subscribe(s) \/ GiveUp(s) \/ Dial(s) \/ RelayDone(s)
    \/ CloseConns(s) \/ Release(s)

Next ==
    \/ \E s \in Sessions :
          \/ Accept(s) \/ SessionStep(s) \/ Retry(s) \/ Handshake(s)
          \/ \E d \in Directions : CopyStep(s, d)
    \/ ExitFallback \/ Signal \/ StopStep

Spec == Init /\ [][Next]_vars

(* What bounds each wait of a session: the deadline session_timeout puts   *)
(* on the client (never zero: the configuration replaces zero by five      *)
(* minutes), queue_timeout, the timeouts of dial and release, and, for     *)
(* what is left of a relay, the connections closed under it.  The deadline *)
(* ends a copier that keeps coming back to read from the client, however   *)
(* often it got something before, which is strong fairness.  The backend   *)
(* has no deadline: the handshake, a read from it and a write to it may    *)
(* last for ever.                                                          *)
FairSpec ==
    /\ Spec
    /\ WF_vars(StopStep)
    /\ \A s \in Sessions :
          /\ WF_vars(SessionStep(s))
          /\ SF_vars(EndRead(s, "up"))

(* What the code takes for granted of the backends: that they answer the   *)
(* Pre-Login, and that they take, or refuse, what is written to them.      *)
BackendsAnswer == \A s \in Sessions : WF_vars(Handshake(s))

BackendsRead ==
    \A s \in Sessions : WF_vars(Deliver(s, "up") \/ EndWrite(s, "up"))

-----------------------------------------------------------------------------
TypeOK ==
    /\ fallbackEnabled \in BOOLEAN
    /\ phase \in Accepting \union Stopping \union Dead
    /\ outcome \in {"none", "graceful", "timeout"}
    /\ pc \in [Sessions -> Unstarted \union
                 {"prelogin", "try", "queue", "subscribe", "select", "dial",
                  "handshake", "relay", "cleanup", "release", "done"}]
    /\ slotted \subseteq Sessions /\ backends \subseteq Sessions
    /\ copier \in [Sessions ->
                     [Directions ->
                       {"off", "reading", "writing", "sending", "done"}]]
    /\ count \in 0 .. MaxConnections
    /\ mode \in BOOLEAN
    /\ local \in 0 .. LocalLimit
    /\ registered \in BOOLEAN

(* What the slots are for: SQL Server sees no more connections than are    *)
(* counted, however sessions end, fall back or are caught by a shutdown,   *)
(* because cleanup closes the backend before it gives the slot back.       *)
BackendsCovered == Cardinality(backends) <= count + local

(* Without the fallback, a Stop that reports success leaves no slot taken, *)
(* then or later: a connection that the accept loop hands over behind its  *)
(* back finds its context done and gets no slot.                           *)
GracefulStopFreesSlots ==
    outcome = "graceful" /\ ~fallbackEnabled => count = 0

(* A session that started ends, if its backend answers the Pre-Login and   *)
(* keeps reading: the deadline of the client then ends one direction of    *)
(* the relay, and that is enough, even when the backend never says another *)
(* word.  A backend that stops reading holds its session, and the slot,    *)
(* for as long as it likes: tcpRelay gives it no deadline.                 *)
SessionsEnd ==
    BackendsAnswer /\ BackendsRead =>
        \A s \in Sessions : pc[s] = "prelogin" ~> (pc[s] = "done" \/ ~Alive)

(* After a signal the process ends, whatever the backends and the sessions *)
(* do: nothing in the chain of deferred calls waits without a bound.       *)
ProcessExits == phase = "signalled" ~> ~Alive

-----------------------------------------------------------------------------
(* Statements of the repository's comments and documents that the code     *)
(* does not keep.                                                          *)

(* redis.go: Close unregisters the instance. *)
ExitUnregisters == phase = "exited" => ~registered

(* listener.go: Stop waits for the active sessions, and says so. *)
GracefulStopEndsSessions == outcome = "graceful" => Running = {}

(* handler.go: an acquire that fails is answered with an error; it does    *)
(* not end the process.                                                    *)
NoPanic == phase # "panicked"
=============================================================================
