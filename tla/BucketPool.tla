----------------------------- MODULE BucketPool -----------------------------
(***************************************************************************)
(* The pool of SQL Server connections of one bucket on one instance        *)
(* (internal/pool/pool.go): Acquire, Release and Discard called by         *)
(* concurrent goroutines, the maintenance goroutine, and Close.            *)
(*                                                                         *)
(* A section under bp.mu is one action.  Opening a connection and resetting*)
(* one happen outside the lock, so they are steps of their own.  Receiving *)
(* a waiter's channel from the queue and sending on it are one action: the *)
(* channel has room for the one value that is ever sent on it.             *)
(*                                                                         *)
(* A connection is a number; the number of a closed connection that nobody *)
(* refers to is used again.                                                *)
(***************************************************************************)
EXTENDS Integers, Sequences, FiniteSets, SequencesExt

CONSTANTS
    Clients,          \* goroutines that use the pool
    MaxConnections,   \* max_connections of the bucket
    MinIdle,          \* min_idle of the bucket
    Conns             \* numbers for the connections open at the same time

ASSUME ConstantsAssumption ==
    /\ IsFiniteSet(Clients)
    /\ MaxConnections \in Nat \ {0}
    /\ MinIdle \in Nat
    /\ Conns \subseteq Nat \ {0}

VARIABLES
    idle,      \* bp.idle, the most recently used one last
    active,    \* bp.active
    waiters,   \* bp.waiters, each channel named by the client that made it
    closed,    \* bp.closed
    open,      \* connections not closed yet
    stale,     \* idle connections that exceeded max_idle_time
    box,       \* the channel of each waiter
    mine,      \* the connection each client works with, or None
    pc,        \* where each client is
    maint,     \* where the maintenance goroutine is
    deficit    \* connections ensureMinIdle still has to open

poolVars  == <<idle, active, waiters, closed>>
connVars  == <<open, stale>>
maintVars == <<maint, deficit>>
vars == <<poolVars, connVars, box, mine, pc, maintVars>>

-----------------------------------------------------------------------------
None   == 0     \* no connection, an empty channel
Hangup == -1    \* a channel closed by Close

IdleSet == ToSet(idle)
Live    == {n \in DOMAIN idle : idle[n] \notin stale}

GoTo(k, l)  == pc' = [pc EXCEPT ![k] = l]
Hold(k, c)  == mine' = [mine EXCEPT ![k] = c]

(* The connection that createConn returns. *)
Fresh ==
    Min(Conns \ (open \union active \union IdleSet
                    \union {mine[k] : k \in Clients} \union {box[k] : k \in Clients}))

(* Assigning to bp.active after Close set it to nil ends the process. *)
Panicked == \E k \in Clients : pc[k] = "panicked"

(* NewBucketPool: each warm connection may fail to open. *)
Init ==
    /\ \E n \in 0 .. MinIdle : idle = [m \in 1 .. n |-> m]
    /\ active = {} /\ waiters = <<>> /\ closed = FALSE
    /\ open = IdleSet /\ stale = {}
    /\ box = [k \in Clients |-> None]
    /\ mine = [k \in Clients |-> None]
    /\ pc = [k \in Clients |-> "out"]
    /\ maint = "select" /\ deficit = 0

-----------------------------------------------------------------------------
(* Acquire: popIdle closes the stale connections it finds on its way; the  *)
(* rest depends on what it returns.  A closed pool answers with an error.  *)

TakeIdle(k) ==
    /\ pc[k] = "out" /\ ~closed
    /\ Live # {}
    /\ LET n == Max(Live) IN
          /\ idle' = SubSeq(idle, 1, n - 1)
          /\ open' = open \ {idle[m] : m \in n + 1 .. Len(idle)}
          /\ stale' = stale \ {idle[m] : m \in n + 1 .. Len(idle)}
          /\ active' = active \union {idle[n]}
          /\ Hold(k, idle[n])
    /\ GoTo(k, "using")
    /\ UNCHANGED <<waiters, closed, box, maintVars>>

PopNothing ==
    /\ Live = {}
    /\ idle' = <<>> /\ open' = open \ IdleSet /\ stale' = {}

(* Mutant of StartCreate: the maximum is compared one too late. *)
StartCreateLate(k) ==
    /\ pc[k] = "out" /\ ~closed
    /\ PopNothing
    /\ Cardinality(active) <= MaxConnections
    /\ GoTo(k, "creating")
    /\ UNCHANGED <<active, waiters, closed, box, mine, maintVars>>

StartCreate(k) ==
    /\ pc[k] = "out" /\ ~closed
    /\ PopNothing
    /\ Cardinality(active) < MaxConnections
    /\ GoTo(k, "creating")
    /\ UNCHANGED <<active, waiters, closed, box, mine, maintVars>>

JoinWaiters(k) ==
    /\ pc[k] = "out" /\ ~closed
    /\ PopNothing
    /\ Cardinality(active) >= MaxConnections
    /\ waiters' = Append(waiters, k)
    /\ GoTo(k, "waiting")
    /\ UNCHANGED <<active, closed, box, mine, maintVars>>

(* createConn, and the second section, which looks at nothing again. *)
FinishCreate(k) ==
    /\ pc[k] = "creating"
    /\ \/ GoTo(k, "out") /\ UNCHANGED <<active, open, mine>>
       \/ /\ closed
          /\ GoTo(k, "panicked")
          /\ open' = open \union {Fresh}
          /\ Hold(k, Fresh)
          /\ UNCHANGED active
       \/ /\ ~closed
          /\ GoTo(k, "using")
          /\ open' = open \union {Fresh}
          /\ active' = active \union {Fresh}
          /\ Hold(k, Fresh)
    /\ UNCHANGED <<idle, waiters, closed, stale, box, maintVars>>

(* The select of a waiter.  A closed channel is an error. *)
Receive(k) ==
    /\ pc[k] = "waiting"
    /\ box[k] # None
    /\ box' = [box EXCEPT ![k] = None]
    /\ IF box[k] = Hangup
       THEN GoTo(k, "out") /\ UNCHANGED mine
       ELSE GoTo(k, "using") /\ Hold(k, box[k])
    /\ UNCHANGED <<poolVars, connVars, maintVars>>

(* queue_timeout or the end of the context, whatever the channel holds ... *)
Expire(k) ==
    /\ pc[k] = "waiting"
    /\ GoTo(k, "removing")
    /\ UNCHANGED <<poolVars, connVars, box, mine, maintVars>>

(* ... and removeWaiter.  What is in the channel is lost with it. *)
RemoveWaiter(k) ==
    /\ pc[k] = "removing"
    /\ waiters' = RemoveFirst(waiters, k)
    /\ box' = [box EXCEPT ![k] = None]
    /\ GoTo(k, "out")
    /\ UNCHANGED <<idle, active, closed, connVars, mine, maintVars>>

-----------------------------------------------------------------------------
(* Release, in two sections with sp_reset_connection between them. *)

BeginRelease(k) ==
    /\ pc[k] = "using"
    /\ \/ /\ closed
          /\ open' = open \ {mine[k]}
          /\ Hold(k, None)
          /\ GoTo(k, "out")
          /\ UNCHANGED active
       \/ /\ ~closed
          /\ active' = active \ {mine[k]}
          /\ GoTo(k, "resetting")
          /\ UNCHANGED <<open, mine>>
    /\ UNCHANGED <<idle, waiters, closed, stale, box, maintVars>>

(* Mutant of ResetFails: the connection is not closed. *)
ResetFailsOpen(k) ==
    /\ pc[k] = "resetting"
    /\ Hold(k, None)
    /\ GoTo(k, "out")
    /\ UNCHANGED <<poolVars, connVars, box, maintVars>>

ResetFails(k) ==
    /\ pc[k] = "resetting"
    /\ open' = open \ {mine[k]}
    /\ Hold(k, None)
    /\ GoTo(k, "out")
    /\ UNCHANGED <<poolVars, stale, box, maintVars>>

(* Mutant of HandOver: the connection also goes back to the idle list. *)
HandOverAndPutBack(k) ==
    /\ pc[k] = "resetting"
    /\ mine[k] \in open
    /\ waiters # <<>>
    /\ box' = [box EXCEPT ![Head(waiters)] = mine[k]]
    /\ waiters' = Tail(waiters)
    /\ active' = active \union {mine[k]}
    /\ idle' = Append(idle, mine[k])
    /\ Hold(k, None)
    /\ GoTo(k, "out")
    /\ UNCHANGED <<closed, connVars, maintVars>>

HandOver(k) ==
    /\ pc[k] = "resetting"
    /\ mine[k] \in open
    /\ waiters # <<>>
    /\ box' = [box EXCEPT ![Head(waiters)] = mine[k]]
    /\ waiters' = Tail(waiters)
    /\ active' = active \union {mine[k]}
    /\ Hold(k, None)
    /\ GoTo(k, "out")
    /\ UNCHANGED <<idle, closed, connVars, maintVars>>

PutBack(k) ==
    /\ pc[k] = "resetting"
    /\ mine[k] \in open
    /\ waiters = <<>>
    /\ idle' = Append(idle, mine[k])
    /\ Hold(k, None)
    /\ GoTo(k, "out")
    /\ UNCHANGED <<active, waiters, closed, connVars, box, maintVars>>

Discard(k) ==
    /\ pc[k] = "using"
    /\ active' = active \ {mine[k]}
    /\ open' = open \ {mine[k]}
    /\ Hold(k, None)
    /\ GoTo(k, "out")
    /\ UNCHANGED <<idle, waiters, closed, stale, box, maintVars>>

(* Mutant of Close: the channels of the waiters stay open. *)
CloseSilently ==
    /\ ~closed
    /\ closed' = TRUE
    /\ waiters' = <<>> /\ idle' = <<>> /\ active' = {} /\ stale' = {}
    /\ open' = open \ (IdleSet \union active)
    /\ UNCHANGED <<box, mine, pc, maintVars>>

Close ==
    /\ ~closed
    /\ closed' = TRUE
    /\ box' = [k \in Clients |-> IF k \in ToSet(waiters) THEN Hangup ELSE box[k]]
    /\ waiters' = <<>> /\ idle' = <<>> /\ active' = {} /\ stale' = {}
    /\ open' = open \ (IdleSet \union active)
    /\ UNCHANGED <<mine, pc, maintVars>>

-----------------------------------------------------------------------------
(* Time passes for an idle connection; max_idle_time is not zero. *)
Age(c) ==
    /\ c \in IdleSet \ stale
    /\ stale' = stale \union {c}
    /\ UNCHANGED <<poolVars, open, box, mine, pc, maintVars>>

(* The idle connections that are not stale, in their order: kept[n] is what*)
(* the loop of evictStale has appended after the first n connections.      *)
Remaining ==
    LET kept[n \in 0 .. Len(idle)] ==
          IF n = 0 THEN <<>>
          ELSE IF idle[n] \in stale THEN kept[n - 1]
               ELSE Append(kept[n - 1], idle[n])
    IN  kept[Len(idle)]

(* A tick of maintenanceLoop.  The ticker and the stop signal may both be  *)
(* ready, and the select takes either.                                     *)
EvictStale ==
    /\ maint = "select"
    /\ idle' = Remaining
    /\ open' = open \ stale
    /\ stale' = {}
    /\ maint' = "evicted"
    /\ UNCHANGED <<active, waiters, closed, box, mine, pc, deficit>>

(* Mutant of MeasureDeficit: a negative deficit is not an end. *)
MeasureDeficitUnclamped ==
    /\ maint = "evicted"
    /\ LET missing  == MinIdle - Len(idle)
           headroom == MaxConnections - (Len(idle) + Cardinality(active))
       IN  deficit' = Min({missing, headroom})
    /\ maint' = IF deficit' = 0 THEN "select" ELSE "opening"
    /\ UNCHANGED <<poolVars, connVars, box, mine, pc>>

(* ensureMinIdle computes how much to open and lets go of the lock ... *)
MeasureDeficit ==
    /\ maint = "evicted"
    /\ LET missing  == MinIdle - Len(idle)
           headroom == MaxConnections - (Len(idle) + Cardinality(active))
       IN  deficit' = Max({0, Min({missing, headroom})})
    /\ maint' = IF deficit' = 0 THEN "select" ELSE "opening"
    /\ UNCHANGED <<poolVars, connVars, box, mine, pc>>

(* ... then opens that many, whatever has happened since. *)
OpenMinIdle ==
    /\ maint = "opening"
    /\ \/ /\ maint' = "select" /\ deficit' = 0
          /\ UNCHANGED <<idle, open>>
       \/ /\ idle' = Append(idle, Fresh)
          /\ open' = open \union {Fresh}
          /\ deficit' = deficit - 1
          /\ maint' = IF deficit = 1 THEN "select" ELSE "opening"
    /\ UNCHANGED <<active, waiters, closed, stale, box, mine, pc>>

StopMaintenance ==
    /\ maint = "select" /\ closed
    /\ maint' = "stopped"
    /\ UNCHANGED <<poolVars, connVars, box, mine, pc, deficit>>

-----------------------------------------------------------------------------
ClientStep(k) ==
    \/ TakeIdle(k) \/ StartCreate(k) \/ FinishCreate(k)
    \/ JoinWaiters(k) \/ Receive(k) \/ Expire(k) \/ RemoveWaiter(k)
    \/ BeginRelease(k) \/ ResetFails(k) \/ HandOver(k) \/ PutBack(k)
    \/ Discard(k)

Maintenance ==
    \/ EvictStale \/ MeasureDeficit \/ OpenMinIdle \/ StopMaintenance

Next ==
    /\ ~Panicked
    /\ \/ \E k \in Clients : ClientStep(k)
       \/ Maintenance \/ Close
       \/ \E c \in Conns : Age(c)

Spec == Init /\ [][Next]_vars

(* A goroutine whose channel has something in it is scheduled, and one     *)
(* that is opening or resetting a connection finishes (both have a         *)
(* deadline).  No timer is assumed to fire, and nobody has to release.     *)
FairSpec ==
    /\ Spec
    /\ \A k \in Clients :
          /\ WF_vars(~Panicked /\ Receive(k))
          /\ WF_vars(~Panicked /\ RemoveWaiter(k))
          /\ WF_vars(~Panicked /\ FinishCreate(k))

-----------------------------------------------------------------------------
Location == {"out", "creating", "waiting", "removing", "using", "resetting",
             "panicked"}

TypeOK ==
    /\ idle \in Seq(Conns)
    /\ active \subseteq Conns
    /\ waiters \in Seq(Clients)
    /\ closed \in BOOLEAN
    /\ open \subseteq Conns
    /\ stale \subseteq IdleSet
    /\ box \in [Clients -> Conns \union {None, Hangup}]
    /\ mine \in [Clients -> Conns \union {None}]
    /\ pc \in [Clients -> Location]
    /\ maint \in {"select", "evicted", "opening", "stopped"}
    /\ deficit \in 0 .. MinIdle

Resetting == {mine[k] : k \in {j \in Clients : pc[j] = "resetting"}}

(* A physical connection has one user: it is in one place of the idle list,*)
(* or with one client, or on its way to one waiter, and never idle and     *)
(* counted as active together.                                             *)
ExclusiveUse ==
    /\ IdleSet \intersect active = {}
    /\ \A c \in Conns :
          Cardinality({k \in Clients : mine[k] = c})
            + Cardinality({k \in Clients : box[k] = c})
            + Cardinality({n \in DOMAIN idle : idle[n] = c}) <= 1

(* While the pool is open, no connection escapes its books: the open       *)
(* connections are the idle ones, the active ones and those being reset,   *)
(* and no closed connection is offered to a caller.                        *)
BooksComplete ==
    ~closed =>
        /\ open \subseteq IdleSet \union active \union Resetting
        /\ IdleSet \union active \subseteq open

(* max_connections is checked before the lock is given up, so it can be    *)
(* exceeded, but by no more than the callers and the maintenance that were *)
(* between their check and their connection.                               *)
OvershootBounded ==
    Cardinality(open) <= MaxConnections + Cardinality(Clients) - 1 + MinIdle

(* Close sends every waiter away, whatever their timers do. *)
CloseWakesWaiters ==
    closed ~> (Panicked \/ \A k \in Clients : pc[k] \notin {"waiting", "removing"})

-----------------------------------------------------------------------------
(* Statements of the repository's comments and documents that the code     *)
(* does not keep.                                                          *)

(* ADR-003: max_connections controls the connections of the pool. *)
PoolWithinMaximum == Cardinality(IdleSet \union active) <= MaxConnections

(* pool.go: active tracks the connections in use. *)
ActiveInUse ==
    \A c \in active : \E k \in Clients :
        mine[k] = c \/ (box[k] = c /\ pc[k] \in {"waiting", "removing"})

(* pool.go: Close closes all the connections. *)
ClosedPoolHoldsNothing ==
    closed => idle = <<>>

(* pool.go: a caller blocks when the pool is at its maximum and has no     *)
(* connection available.                                                   *)
BlockedOnlyAtCapacity ==
    waiters # <<>> => IdleSet = {} /\ Cardinality(active \union Resetting) >= MaxConnections

(* pool.go: a call to a pool that is closed returns an error. *)
NoPanic == ~Panicked
=============================================================================
