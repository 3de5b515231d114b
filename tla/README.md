# Verification of the connection-pooling proxy

The repository is a proxy for SQL Server written in Go. Several instances run
side by side; each accepts TDS connections, and together they keep the number of
connections to a backend ("bucket") below a limit, with a counter in Redis. This
directory holds TLA+ modules that model the program, the configurations with
which TLC checks them on small instances, and proofs that TLAPS checks for every
value of the constants.

    tlc -workers 2 -config WaitQueue.cfg MCWaitQueue.tla
    tlapm WaitQueueProofs.tla

`PROJECT.json` lists the runs, the source lines each definition stands for, a
mutant for each property, the hazards of the code and the disagreements found.
Paths below are relative to `src/`.

## 1. The system

| Part | State | Operations | Talks to |
|---|---|---|---|
| Server (`internal/proxy/listener.go`) | listener, wait group, cancellable context | `Start`, `acceptLoop`, `Stop` | starts a goroutine per session |
| Session (`internal/proxy/handler.go`) | client and backend sockets, `slotAcquired`, pinning | `Handle`, `tcpRelay`, `cleanup` | queue, backend |
| Wait queue (`internal/queue/distributed.go`) | depth per bucket, under a mutex | `Acquire`, `Release`, `Depth` | semaphore, coordinator |
| Semaphore (`internal/coordinator/semaphore.go`) | none of its own; a timer, a ticker and a channel per wait | `Wait`, `waitPolling`, `TryAcquire` | coordinator |
| Coordinator (`internal/coordinator/redis.go`, `lua/*.lua`) | in Redis: count and max per bucket, count per instance, set of instances; in memory: mode, local counts, subscriptions | `Acquire`, `Release`, `Subscribe`, `ExitFallback`, `Close` | Redis |
| Heartbeat (`internal/coordinator/heartbeat.go`) | a key with a TTL | a tick: heartbeat, leaving fallback, clean-up of dead instances | Redis |
| Bucket pool (`internal/pool/pool.go`, `connection.go`) | idle list, active set, waiters | `Acquire`, `Release`, `Discard`, `Close`, maintenance | SQL Server |
| Pool manager, pool health check (`internal/pool/manager.go`, `health.go`) | map of pools | `NewManager`, dispatch; `HealthCheck`, which nothing calls | bucket pools |
| TDS messages (`internal/tds/packet.go`, `relay.go`, `prelogin.go`, `login7.go`) | none; two goroutines per `Relay` | `ReadMessage`, `WritePackets`, `BuildPackets`, `ForwardPreLogin`, `ForwardLogin7`, `RelayMessage`, `RelayUntilEOM`, `DrainResponse`, `Relay` | client and backend sockets |
| TDS errors (`internal/tds/error.go`) | none | `BuildErrorResponse` | written by the session |
| Pinning (`internal/tds/pinning.go`, `applyPinResult`) | `pinned` and `pinReason` of a session | `InspectPacket`, `InspectResponse` | callback of `Relay` |
| Router (`internal/proxy/router.go`) | three maps, built once | `NewRouter`, `Route` | configuration |
| Configuration (`internal/config/config.go`, `pkg/bucket/bucket.go`) | read once | `Load`, `validate`, `applyDefaults`, `DSN` | everybody |
| Health endpoint (`internal/health/health.go`) | none; a goroutine per service and check | `Check` | Redis, SQL Server |
| Process (`cmd/proxy/main.go`) | - | start, wait for a signal, deferred shutdown | all |
| Metrics | gauges and counters | - | - |

How a session goes: the accept loop starts a goroutine with the server's
context; it reads the Pre-Login, takes the first bucket, asks the wait queue for
a slot, dials the backend, relays the Pre-Login and its answer and copies bytes
both ways until one direction ends; then it closes both sockets and gives the
slot back. The wait queue tries once, refuses when it is too long, otherwise
waits on notifications published by `release.lua`, on a ticker, on a timeout and
on the context. When Redis fails, the coordinator counts in memory until a
heartbeat finds Redis again. The session does not use the bucket pool
(DECISIONS.md, ADR-003): of the pool the binary runs only the constructor, the
maintenance and `Close`, while `Acquire`, `Release` and `Discard` are its API.
In the same way the binary reads one Pre-Login and then copies bytes, so that
`Relay`, `ForwardLogin7`, `Route` and the pinning detection have no caller yet;
they are modelled as what they are for.

What is hard here, and what makes each part correct:

* **Wait queue, semaphore, scripts.** Sessions of many instances race for a
  slot, in an order nobody controls, with notifications that can be lost and
  four ways out of a `select`. Correct: the counters equal the slots in use, the
  limit holds, the depth has no phantoms, a free slot is not left idle, every
  wait ends, and an instance that stops sends everybody away from its queue.
* **Fallback.** A slot does not remember which counter it was taken in, and the
  mode changes between acquire and release; replies get lost. Correct: every
  slot stays covered by some counter, each counter keeps its own limit, and the
  fallback ends.
* **Heartbeat.** A clean-up is a sequence of commands that interleaves with the
  scripts, with other clean-ups, with restarts and with `Close`. Correct: it
  takes nothing from the living and recovers what the dead held.
* **Bucket pool.** The lock is given up to open and to reset a connection, and
  connections travel through channels. Correct: one user per connection, no
  connection outside the books, a bounded overshoot, `Close` wakes everybody.
* **Server and session.** A signal arrives at any point of any session; the
  backend has no deadline, neither for what is read from it nor for what is
  written to it; the accept loop races the wait group. Correct: backend
  connections stay covered by slots, a graceful stop leaves none taken, sessions
  end as far as the backends let them, and the process exits.
* **TDS session.** Messages are cut into packets in both directions at once; a
  peer leaves in the middle of one; two goroutines decide together whether the
  session is pinned. Correct: messages arrive whole and in order, the session is
  pinned while the backend holds state for it and not after (the code keeps this
  up to the first end only), errors can be decoded, no goroutine stays behind.
* **Start.** Services stop and come back between any two steps, replies are
  lost, requests are repeated, Redis comes back empty, and other instances work
  on the same keys and clean up. Correct: a report speaks of every service, a
  proxy that listens has sent all its keys and lacks none but what was taken
  away since, no slot of another instance is forgotten, logins are routed to the
  bucket they name, every start ends.

## 2. The modules

| Module | Models | Built on |
|---|---|---|
| `Slots` | what the distributed queue promises: a counting semaphore | - |
| `WaitQueue` | the path of a session through the queue, semaphore, scripts and Pub/Sub | implements `Slots` |
| `WaitQueueProofs` | theorems about `WaitQueue` | `WaitQueue`, `Slots` |
| `Sums` | lemmas: sums of a function over a finite set | - |
| `Fallback` | the two counters and the switching between them | - |
| `FallbackProofs` | theorems about `Fallback` | `Fallback`, `Sums` |
| `Heartbeat` | registration, heartbeat, clean-up, `Close` | - |
| `HeartbeatProofs` | theorems about `Heartbeat` | `Heartbeat`, `Sums` |
| `BucketPool` | the pool of one bucket | - |
| `BucketPoolProofs` | theorems about `BucketPool` | `BucketPool` |
| `Server` | accept loop, sessions, relay, shutdown of the process | the outcomes of `WaitQueue` and `Fallback` |
| `ServerProofs` | theorems about `Server` | `Server` |
| `Packets` | headers, cutting and assembly of messages; Pre-Login, Login7 and ERROR layouts | - |
| `Pinning` | what requests and responses do to the pin of a session | - |
| `Courier` | what the message functions promise: messages travel whole, once and in order | - |
| `TdsSession` | client, proxy and backend through the message functions and `Relay` | `Packets`, `Pinning`; implements `Courier` |
| `TdsProofs` | theorems about `TdsSession` and `Packets` | `TdsSession`, `Courier` |
| `Routing` | validation, defaults and the choice of a bucket | - |
| `Startup` | the start of the process, with Redis and the SQL Servers failing | `Routing` |
| `StartupProofs` | theorems about `Startup` and `Routing` | `Startup` |
| `MC...` | the finite instances for TLC | |

### WaitQueue

One bucket, all instances. `count` and `conns` are the Redis keys, `depth` the
map of the queue, `pc` the place of each session's goroutine, `inbox` and
`notify` what the subscription has received and what the notification channel
holds, `cancelled` the context of each server. A Lua script is one action
(`TakeSlot`, `Release`). The check of the depth and its increment are two
critical sections and so two actions, `CheckBreaker` and `IncrementDepth`. Each
case of the `select` is an action: `OnNotify`, `OnPoll`, `OnTimer`, `OnCancel`.
`LeaveQueue` is the end of `Acquire` with its deferred decrement. `Forward`
drops what does not fit into the channel, `LoseMessage` is what Pub/Sub may do.
A session starts again after it ended, so behaviours are not bounded. Nobody has
to give a slot back: `tcpRelay` does not watch the context, and `main` exits
while sessions still hold theirs (module `Server`).

Assumed: Redis answers and `fallback.enabled` is false (module `Fallback` is
about the rest); the client library does not send a command with a context that
is done. A subscription that becomes live late is covered by `LoseMessage`.

### Fallback

`up` and `scripts` are the Redis server, `count`, `max`, `conns` its keys,
`mode` and `local` the coordinator's `fallbackMode` and `fallbackCounts`. The
flag is read before the call (`BeginAcquire`, `BeginRelease`), the script
answers, fails or loses its reply, then the local counter is used: separate
actions, as the goroutines interleave there. `ExitFallback` is four actions,
since `reconcileCounts` copies the counters under the lock and writes them
later. Redis fails at most `MaxOutages` times, replies get lost at most
`MaxLost` times; it returns with everything, without the script cache, or empty.
`forgotten` counts what was released twice or lost with the data: without it the
invariant could not be stated.

### Heartbeat

`count`, `hash`, `instances` and `hbKey` are keys in Redis, `status` the
process, `held` the slots its sessions hold, `work` the clean-up under way.
Every command of the clean-up is an action: its pipeline is not a transaction.
`Expire` is the TTL; on a living instance it needs a stall. Sessions are
counted, not named. `CloseStep` is `Close`: it looks at `fallbackMode` once and
then sends three commands (`CloseUnlist`, `CloseUnhash`, `CloseUnbeat`) or none
(`CloseInFallback`), after which the process is gone but registered ("left").
`fallback` holds the instances that are in fallback while they close: `FallBack`
is a session that tries to acquire with the cancelled context. Sessions may
release between the commands, in fallback only locally. `abandoned` counts what
a shutdown leaves counted in Redis after it unregistered. How an instance leaves
the fallback again, and what `reconcileCounts` writes, is module `Fallback`.

### BucketPool

A section under the lock is an action, and so is the receive from the queue of
waiters with the send on the channel. Opening and resetting are outside the lock
and so steps of their own. A client calls `Acquire`, then `Release` or `Discard`
once. `closed`, `idle`, `active`, `waiters` are the fields; `box` is the channel
of each waiter; `open` are the connections SQL Server sees. The loop of
`evictStale` is the recursive function `Remaining`.

### Server

One process. `phase` is the goroutine of `main`: the signal, `Stop` in its three
steps, the heartbeat, the two halves of `Close`, the end. `Cancelled` is the
context it implies. `pc` is each session, `backends` the open backend sockets.
`copier` are the two goroutines of each relay: `io.Copy` reads (`Fetch`), writes
(`Deliver`), and either can block or fail (`EndRead`, `EndWrite`). An attempt to
acquire is one step here with the outcomes that `WaitQueue` and `Fallback` give
it. The accept loop has a connection in hand between `Accept` and
`StartSession`, which is where `Stop` can overtake it. `fallbackEnabled` is
chosen at the start, so each run covers both settings.

### TdsSession, Packets and Pinning

`Packets` and `Pinning` hold the pure functions. A packet keeps its length
field, number and EOM with their widths and says which part of which message it
carries; its bytes are left out. `TdsSession` puts a client and a backend around
them. `wire` are the bytes a peer has sent, packet by packet, `held` what the
running function has read and not disposed of, `left` what `WritePackets` still
has to write, `copier` the two goroutines of `Relay`. Reading and writing a
packet are separate steps, and so is the callback in between. Before `Relay` a
caller may call any function in any order: the protocol of the login is not
assumed, and a wrong message type or a broken option table ends the session as
in the code. A client sends a message when the last is answered (no MARS; no
Attention). The backend has `@@TRANCOUNT` and a number of prepared statements,
and answers with the tokens `InspectResponse` looks for. `opened` is the message
that opened the first of what is open, for the property about pinning.

### Startup and Routing

`phase` and `step` are the place of `main`, `checks` the health checks of `main`
and of one request to the endpoint, with a goroutine per service in any order.
`redis` holds the keys the start touches; its pipelines are executed command by
command, the reply of a command may be lost, and the client library may repeat a
request from its beginning. `others` are slots other instances take and return
with the two scripts meanwhile; `cleanup` is the place of another instance in
its clean-up of this one, which finds it in the set without a heartbeat, deletes
the hash and unregisters it. `undone` are the requests whose effects may have
been taken away since they were last sent, by that clean-up or by a Redis that
comes back without its data (`DataLost`). The hash of an earlier process under
the same instance ID is not modelled here (`Heartbeat` has restarts). A service
is up, refuses connections, or accepts them and is silent, which matters where a
call has no time limit of its own. `Routing` has the rules of `validate`,
`applyDefaults` and `Route` as operators. A configuration is any value of
`ConfigType`, the struct with any numbers in it: only a negative
`max_connections` is excluded, with which `NewBucketPool` panics.

## 3. What the runs check

| Run | Instance | Question |
|---|---|---|
| `WaitQueue` | 2 instances, 2 + 1 sessions, 1 slot, queue of 1, fairness | exact counters, limit, depth, justified rejections, refinement of `Slots`; slot not stranded, sessions resolve, a shutdown empties the queue |
| `Fallback` | 2 instances, 1 + 1 sessions, limit 1, 1 outage, 1 lost reply, 1 stop, fairness | counters in their limits, slots covered, the fallback ends |
| `Heartbeat` | 2 instances, limit 2, one crash, one restart, one close, in fallback or not, fairness | clean-up takes and recovers the right slots, close outside fallback leaves no trace |
| `BucketPool` | 3 clients, maximum 1, min_idle 1, fairness | exclusive use, complete books, bounded overshoot, Close |
| `Server` | 2 sessions, limit 1, local limit 1, fairness | covered backends, graceful stop, sessions end, process exits |
| `Tds` | 2 messages of which at most 1 before `Relay`, answers of two packets, one failure, fairness | pinning follows the backend's state, messages whole and in order, errors decodable, relay ends |
| `Startup` | 4 configurations of one or two buckets, 1 failure, lost reply or loss of data, 1 slot per bucket and clean-ups of others, fairness | reports, registration, counters kept, routing, every start decides |

Bounds. Two instances are enough for every race between instances except the
double clean-up, which needs a victim besides (three in `HeartbeatDouble`). In
`WaitQueue` three sessions for one slot leave one that queues and one at the
limit of the queue, on the same instance or on the other. A limit of one or two
makes "full" reachable at once; the properties compare counts with a limit and
do not depend on its size. A channel capacity of one makes `Forward` drop. One
outage lets a slot be taken before, during or after it and be returned in
another part; the invariants of `Fallback` are proved for any number of outages.
Three clients on a pool of one let two wait while one releases; six connection
numbers exceed what can be open at once, so `Fresh` always exists. Two sessions
in `Server` let one be late while the other relays. In `Tds` two messages are a
state opened and closed, or a login and a statement; 4089 bytes are one more
than a packet holds, so an answer has a last packet of one byte, and the
requests have sizes that fill packets exactly. In `Startup` one change is enough
to lose any one reply, or all data, or to stop any one service between any two
steps; the clean-ups of others are not bounded. The four files differ in what
they leave out, and their buckets share a database, a host, or a name but for
its case.

Fairness. A goroutine that can run runs; tickers tick. `OnPoll` is fair,
`OnNotify` and `Forward` are not: notifications are not relied on. `OnTimer` is
fair only in `SessionResolves`, which names the assumption (`Timers`); the
properties about stranded slots and about shutdown do without it. `Release` is
not fair: a session keeps its slot as long as its peers let it, so
`SessionResolves` ends with the slot and `ShutdownDrains` is about the queue. In
`Fallback` nothing makes Redis come back: `FallbackEnds` has that as its
premise. In `Heartbeat` the key of a dead instance expires, but no session has
to act. In `BucketPool` no timer fires and nobody has to release. In `Server` a
session moves because of the client's deadline (`session_timeout`, five minutes
when unset), `queue_timeout` and the timeouts of dial and release. The deadline
ends a copier that reads from the client however often it got bytes before, so
`EndRead(s, "up")` is strongly fair. Nothing bounds the silence of a backend,
nor a write to one that has stopped reading: neither `Handshake` nor any other
step of the copiers is fair, and `SessionsEnd` names the two assumptions it
needs (`BackendsAnswer`, `BackendsRead`) and fails without either;
`ProcessExits` needs none. In `Tds` the goroutines of the relay run and the
deadline of the client passes; no peer has to do anything. In `Startup` `main`
and the goroutines it waits for run, and a call that has a time limit ends; a
connection timeout below a second becomes none in the DSN, and `StartDecides`
leaves that file out by name.

Deadlock is not checked: every program here may stop for good when the clients
stay away or the process has ended.

### Disagreements

Each is a run that TLC refutes, with one property that quotes the repository.

| Run | The repository says | The code does |
|---|---|---|
| `WaitQueueBreaker` | the queue has a maximum depth | check and increment are apart; sessions pass together |
| `HeartbeatDouble` | a double clean-up is harmless | both subtract; more slots than the limit are given out |
| `BucketPoolTimeout` | `active` tracks the connections in use | a connection sent to a waiter that times out stays there |
| `ServerExit` | `Close` unregisters the instance | the cancelled context of a session switches to fallback, and `Close` skips it |
| `TdsPinning` | a transaction is pinned up to its COMMIT or ROLLBACK, a prepared statement up to its `sp_unprepare` | one boolean stands for both, and the end of either clears it |

The modules also keep, under the heading "Statements ... that the code does not
keep", statements no run lists; adding one to a configuration shows the
counterexample: `NoOvertaking` and `OneWaiterNotified` (WaitQueue);
`ReconcileSynchronises`, `FallbackServes`, `MaximumConfigured`,
`FallbackMeansRedisFailed` and `AllInFallbackWithinLimit` (Fallback; the last is
DECISIONS.md:157, the total in fallback never exceeds the limit, while slots
held through Redis are not counted); `ActiveInstancesListed` and
`DeadSlotsRecovered` (Heartbeat); `PoolWithinMaximum`, `ClosedPoolHoldsNothing`,
`BlockedOnlyAtCapacity` and `NoPanic` (BucketPool); `GracefulStopEndsSessions`
and `NoPanic` (Server); `ErrorAlwaysReadable` (TdsSession; error.go:51,
MsgTextLength is in characters, and the code writes the bytes of the Go string);
`EveryStartDecides`, `FatalLeavesNoTrace`, `WarmWithinMax` and, for a file with
two buckets of one ID, `WarmConnectionsOwned` (Startup); and four more in
Startup:

* `ReadyIsRegistered`: who listens and coordinates is registered. Another
  instance that looks between the SADD of `registerInstance` and the first
  heartbeat, which a goroutine sends, takes the instance for dead and removes it
  (heartbeat.go:123-185), and nothing registers it again. `ReadyIsCoordinated`
  says what does hold.
* `DatabaseFirst`: router.go:17-20 lists the strategies with the database first;
  `Route` asks for the server name first, and says so (router.go:91, "mais
  explícito").
* `FirstMatchWins`: of two buckets with one database the first is taken
  (router.go:29, "primeiro match vence", and `BucketByDatabase` in
  config.go:216); `NewRouter` leaves such databases out of its map.
* `EveryIDReached`: every bucket is reached by its own ID (router.go:63, "Mapear
  ID do bucket como alias"); IDs and hosts share one map without case, where a
  later bucket replaces an earlier one.

`NamedBucketReached` is what `Route` keeps: a server name before a database, and
no bucket guessed for a shared one.

`TdsPinning` has three messages: begin, prepare, and the end of one of the two.
`OpenStatePinned` of the run `Tds` is what the code keeps: the pin lasts from
the message that opens something up to the first that ends something or is taken
for an end, if pinning.go could see it open: a begin in the request or the
answer, a preparation in the request (`Shown`).

## 4. What is proved

`WaitQueueProofs`, for any number of instances and sessions and any limits, from
`ConstantsAssumption` and `SessionsAssumption` (finitely many sessions):

* `TypeCorrect`: the type invariant.
* `CountersExact`: the counters are the slots in use (`SlotAccounting`).
* `LimitHolds`: the limit (`LimitRespected`).
* `DepthExact`: the depth is the number of waiting sessions (`DepthAccounting`).
* `RejectionsAreJustified`: the breaker has a reason (`RejectionsJustified`).
* `Refinement`: `WaitQueue` implements `Slots`.

Two inductive invariants carry these. `SlotInv` is `TypeOK`, `SlotAccounting`
and `LimitRespected`: the limit follows from the comparison in the script only
because the count is exact, and `Release` drops neither counter below zero
because a holder is counted. `DepthInv` is `TypeOK` and `DepthAccounting`. The
step lemmas say how `Holders`, `HoldersOf` and `QueueOf` change when a session
moves from one place to another; each action then is one of a few kinds of move.
A rejection is justified because the depth it reads is exact. The refinement
maps `holders` to the sessions past their acquire script and before their
release script.

`ServerProofs`, for any finite set of sessions and any positive limits
(`ConstantsAssumption`):

* `ServerTypeCorrect`: the type invariant; both counters stay in their ranges.
* `BackendsAreCovered`: open backend connections are counted
  (`BackendsCovered`).
* `GracefulStopIsClean`: a graceful stop frees the slots
  (`GracefulStopFreesSlots`).

`BackendsCovered` is about sockets, while the counters follow `slotAcquired`,
and with the fallback a slot taken in one counter may come back to the other.
`CoverInv` therefore says that every open socket belongs to a session whose flag
is set (`Places`), and that the set of flags is no larger than the sum of the
counters: a release lowers the sum by at most one, and the flag of its session
with it. `StopInv` is about the fallback being disabled: the local counter is
unused, the shared one is exact while the client to Redis is open (`Exact`), and
who has a slot is past the queue and not yet done (`Serving`). So when the wait
group is empty no slot is taken; afterwards the context of every session is
cancelled, and no attempt succeeds (`Reported`, `Emptied`).

`FallbackProofs`, for any finite sets of instances and sessions, any divisor and
any number of outages and lost replies (`ConstantsAssumption`):

* `FallbackTypeCorrect`: the type invariant.
* `LimitsPerCounter`: each counter keeps its limit (`CountersWithinLimits`).
* `SlotsAreCovered`: every slot is in some counter (`SlotsCovered`).
* `BackendIsBounded`: hence no more connections than all limits together, plus
  `forgotten`; the run does not list this one.

The three invariants are inductive together. `SlotsCovered` compares the size of
a set of sessions with a sum over the instances, and each step moves one session
and one entry of the sum. The sum is a fold of the community modules; what a
change of one entry does to it is proved in `Sums` (below).

`BucketPoolProofs`, for any finite set of clients, any maximum and any
`min_idle`. The model-checked instance has few names for connections; the
theorems assume `Enough`, that there are as many as numbers, since the driver
never runs out of them.

* `PoolTypeCorrect`: the type invariant; `Fresh` always finds a connection.
* `PoolExclusiveUse`: one user per connection (`ExclusiveUse`).
* `PoolBooksComplete`: no connection outside the books (`BooksComplete`).
* `PoolOvershootBounded`: the bound on what exceeds the maximum
  (`OvershootBounded`).

None of these is inductive. `Inv` adds what a client can hold at each place
(`Places`), that the owners of a connection exclude each other and the books
(`Owners`, `Books`), and the bound that is kept at every moment (`Room`):
connections that are idle or active, with a client that opens or resets one, and
those the maintenance has yet to open, together.

`HeartbeatProofs`, for any finite set of instances and any numbers of starts,
crashes, stalls and shutdowns (`ConstantsAssumption`):

* `HeartbeatTypeCorrect`: the type invariant; nobody cleans up after itself.
* `CloseIsComplete`: a `Close` that was not in fallback when it looked leaves
  nothing (`ClosedLeavesNoTrace`), although sessions release between its
  commands and may switch to fallback there. One that was leaves everything, as
  a crash does; the clean-up then finds it (`OrphansRecovered`, model-checked).
* `CountExactWithoutCrash`: as long as nobody crashed, restarted, stalled or
  closed in fallback the counter is exact, for any number of instances (not
  listed by the run).
* `CountCovers`: the counter never is below the slots in use
  (`CountCoversHeld`), for at most two instances.

The hypothesis of the last is not for the prover's sake: with three instances
the statement is false, as the run `HeartbeatDouble` shows. Its invariant
`Covered` says, for each place a clean-up has reached between its commands, how
much of what it read is still to be subtracted; with two instances only one can
be cleaning up, and what it read of a dead instance cannot change any more
(`Present`).

`StartupProofs`, for any set of configurations and logins and any number of
failures and lost replies (`StartupAssumption`, `NamesAssumption`):

* `StartupTypeCorrect`: the type invariant; no bucket is warmed beyond
  `min_idle`.
* `ReportsAreComplete`: a report speaks of every service once
  (`ReportComplete`).
* `ReadyMeansCoordinated`: who listens outside the fallback has every key but
  what was taken away after it was sent (`ReadyIsCoordinated`): by a loss of
  Redis' data, or, the registration only, by the clean-up of another instance.
* `CountIsKept`: a start changes no counter (`CountSurvivesStart`).
* `NamedBucketIsReached`: routing (`NamedBucketReached`).

`Inv` follows `main` from request to request. `Sent` says that the commands of
the request at hand that are done have left their effect, and those of the
requests before it all of theirs (`Facts`), but for the requests in `undone`.
`Keeps` says of a step that it takes no other effect away; what the environment
does to the keys is collected in `DisturbanceFacts`; and a request that begins
anew leaves `undone` when it has nothing to excuse yet (`FactsAnew`). So a proxy
that comes to listen has all of the rest. `Checked` says that a target is
pending or has one result, whoever probes first. `Configured` keeps what was
validated. The warm connections are counted against their places in `Openings`,
which is a concatenation of one sequence per bucket. Routing is proved of the
operator for every list of buckets: `ReachedByID`, `ReachedByDatabase`.

`TdsProofs`, for any messages, packet sizes, answers, bucket names and bounds
(`ConstantsAssumption`: sizes are numbers, the login messages have their types
and no effect but a login):

* `TdsTypeCorrect`: the type invariant.
* `RefusalsAreReadable`: a refused client can decode the error
  (`ErrorReadable`), if the token fits its length field of 16 bits. That is a
  hypothesis of the theorem (`Fitting`): the configuration does not bound a
  bucket's ID, and error.go cuts the length.
* `MessagesTravelWhole`: `TdsSession` implements `Courier`
  (`ImplementsCourier`).
* `OpenStateIsPinned`: what is open is pinned up to the first end
  (`OpenStatePinned`).
* `EndsUnpin`: the last end unpins (`EndUnpins`).

`Courier` moves a message in one step; here it is cut into packets that lie on
the wire, in the hands of a function, in what is still to be written and in what
the receiver has, at once. `Inv` says where packets can be while each function
runs (`Places`), that those of one direction put in a row are the packets of one
message and end with it (`OneMessage`), and that requests, answers and refusals
balance (`Books`), without which a second message could enter the row. `Effect`
lists the few things a step can do to these rows; each action has one of them,
and `CourierStep` and `BooksStep` conclude from the effect alone. Of `Packets`
it is proved that what `BuildPackets` cuts has its only EOM at the end and
assembles to the message again (`Built`, `Closing`), and what one more packet
does to a stream (`UnfinishedAppend`, `MessagesAppend`).

`OpenStateIsPinned` has no hypothesis on the client: the state may be a
transaction, a prepared statement or both, and nested. What the code does not
keep is in the formula: after the first message that ends either, or that
pinning.go takes for an end, nothing is claimed (`Unpins`), since the one
boolean cannot tell two reasons apart (run `TdsPinning`); and a preparation is
claimed if its request shows it, as no token of the answer tells. `EndsUnpin` is
about every client whose ends pinning.go sees in the request (`EndsRecognised`):
with no transaction open, nothing in the answer to a COMMIT or to sp_unprepare
unpins. TLC evaluates this for the statements of `MCTdsSession` and finds it
true. What the backend answers to a statement is `Outcomes`, as in the run.

The pin agrees with the backend only between exchanges, so the invariant speaks
of what it will be. `PinAfter(p)` is the pin once the first packet under way
from `p` is inspected, and the pin itself if that was done. `Plan` says that
until the backend has executed the request, `PinAfter("client")` suits what the
request will do, and afterwards `PinAfter("backend")` agrees with what the
session has become. Reading the first packet makes `PinAfter` the pin; the other
packets of a message change nothing, or pin for a bulk load (`Showing`, from
what `BuildPackets` puts into each packet). By `Books` the two directions never
have a message under way at once, so no result of one goroutine can come late
for the other. `Numbered` says that the request the backend executes is the last
one asked, `Marked` that what is open has a message that opened it, and `Calm`
that nothing is open before `Relay`, where no packet is inspected. `PinInv` is
inductive without the hypothesis: its parts that need it say so.

Data that grow. The provers have no induction over data, because its theorems
take an operator as a parameter. Where a fact needs one all the same it is
proved by a minimal counterexample: the set of the arguments for which it fails
has, if it is not empty, a minimal element (`WellFoundedInduction`), and that
one is refuted. In this way `Sums` proves what a fold over a finite set gives,
`BucketPoolProofs` what the loop of `evictStale` keeps, `StartupProofs` what a
concatenation contains and how often (`FlattenedFacts`, `BlockSize`), and
`TdsProofs` the equations of the recursive functions on streams (`Upward`,
`RecursiveExists`).

Only model-checked: every property that needs fairness (`SlotNotStranded`,
`SessionResolves`, `ShutdownDrains`, `FallbackEnds`, `OrphansRecovered`,
`NegativeCountCorrected`, `CloseWakesWaiters`, `SessionsEnd`, `ProcessExits`,
`RelayEnds`, `StartDecides`), out of the prover's reach. Every invariant and
every refinement that a run checks is also proved, within the hypotheses named
above.

## 5. What is not modelled

* The other methods of the pool manager, the lookups of the configuration that
  nothing calls, metrics, load generator, scripts: no state that interacts.
* The bytes of packets, SQL text beyond its leading words, the YAML syntax, and
  the content of Login7 fields in `TdsSession` (`Routing` gets their values).
* `Marshal` of a Pre-Login, `SetEncryption`, `BuildPreLoginResponse`,
  `BuildAttention` and `ContainsAttentionAck`, which nothing calls; Attention
  and MARS.
* Subscriptions that a wait leaves open, the errors of single commands in a
  clean-up, eviction of keys by Redis (the deployment uses `allkeys-lru`).
* `HealthCheck` of the pool, which no code calls.

## 6. Plan

Done: `Slots`, `WaitQueue`, `Fallback`, `Heartbeat`, `BucketPool`, `Server`,
`Courier`, `Packets`, `Pinning`, `TdsSession`, `Routing`, `Startup`, their runs,
and the proofs above. Left, in this order:

1. `Fallback` and `Heartbeat` composed: what a clean-up does with the hash that
   `reconcileCounts` wrote, and with an instance that leaves the fallback again.
2. `Subscribe` and `Close` of the coordinator; the gauges with two writers.
3. Attention and MARS in `TdsSession`, when a caller of `Relay` exists.
4. A batch that returns rows before it begins a transaction, and sp_prepexec.
5. A start under the instance ID of a process whose hash is still in Redis.
