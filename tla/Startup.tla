------------------------------ MODULE Startup ------------------------------
(***************************************************************************)
(* The start of a proxy (cmd/proxy/main.go), from the configuration to the *)
(* open listener: Load, the health check (internal/health/health.go), the  *)
(* pools with their warm connections (internal/pool/manager.go, pool.go)   *)
(* and NewRedisCoordinator (internal/coordinator/redis.go), then the       *)
(* router (no session asks it yet: Handle takes the first bucket).         *)
(*                                                                         *)
(* Redis and the SQL Servers may stop answering, or answer again, at any   *)
(* moment: each is "up", "refuses" connections or accepts them and stays   *)
(* "silent"; Redis may come back without its data.  Other instances take   *)
(* and return slots meanwhile, and one may take this instance for dead and *)
(* clean up after it.  Somebody may ask the health endpoint while main     *)
(* goes on.                                                                *)
(***************************************************************************)
EXTENDS Routing, SequencesExt

CONSTANTS
    Files,        \* the configurations the proxy may be started with
    Logins,       \* logins [server, database, user] that clients send
    MaxChanges,   \* services that stop or come back, data and replies lost
    MaxOthers     \* slots the other instances hold of one bucket

ASSUME StartupAssumption ==
    /\ Files \subseteq ConfigType
    /\ Logins \subseteq [server : Names, database : Names, user : Names]
    /\ MaxChanges \in Nat /\ MaxOthers \in Nat

VARIABLES
    file,       \* the two YAML files
    cfg,        \* the configuration, once it is loaded
    phase,      \* where main is
    step,       \* how many steps of the phase are done
    checks,     \* the health checks of main and of the endpoint
    warm,       \* connections opened for the pool of each bucket
    fallback,   \* rc.fallbackMode
    redis,      \* the keys this start is about
    others,     \* slots other instances hold, by bucket ID
    cleanup,    \* where another instance's clean-up of this one is
    undone,     \* the requests of this start, and "slots" for those of the
                \* others, that had an effect taken away after they were sent
    state,      \* of Redis and of each SQL Server
    changes     \* changes of the environment so far

mainVars == <<cfg, phase, step, warm, fallback>>
envVars  == <<file, others, cleanup, state, changes>>
vars == <<mainVars, checks, redis, undone, envVars>>

-----------------------------------------------------------------------------
Callers == {"main", "endpoint"}
Scripts == {"acquire", "release"}
Requests == {"acquire.lua", "release.lua", "limits", "register"}

(* Position 0 is Redis, the others are the SQL Servers of the buckets. *)
Targets == 0 .. Len(file.buckets)

(* Every call to Redis has a read timeout: its silence is a refusal. *)
States(t) == {"up", "refuses"} \union (IF t = 0 THEN {} ELSE {"silent"})

IDs == {file.buckets[i].id : i \in DOMAIN file.buckets}

Absent == -1   \* the value of a key that does not exist

NoCheck == [pending |-> {}, components |-> {}, report |-> "none"]

Empty ==
    [scripts |-> {}, max |-> [id \in IDs |-> Absent], count |-> [id \in IDs |-> Absent],
     registered |-> FALSE, counted |-> {}]

Shared(slots) ==
    [Empty EXCEPT !.scripts = Scripts, !.max = [id \in IDs |-> MaxOthers], !.count = slots]

(* Redis is empty, or other instances are at work with their limits. *)
Init ==
    /\ file \in Files /\ cfg = file
    /\ phase = "load" /\ step = 0
    /\ checks = [c \in Callers |-> NoCheck]
    /\ warm = [i \in DOMAIN file.buckets |-> 0]
    /\ fallback = FALSE
    /\ state \in {s \in [Targets -> States(1)] : s[0] \in States(0)} /\ changes = 0
    /\ others \in [IDs -> 0 .. MaxOthers]
    /\ cleanup = "none" /\ undone = {}
    /\ redis \in {Shared(others)} \union
                 (IF others = [id \in IDs |-> 0] THEN {Empty} ELSE {})

-----------------------------------------------------------------------------
(* The environment. *)

Change(t) ==
    /\ changes < MaxChanges
    /\ \E s \in States(t) \ {state[t]} : state' = [state EXCEPT ![t] = s]
    /\ changes' = changes + 1
    /\ UNCHANGED <<mainVars, checks, redis, undone, file, others, cleanup>>

(* Redis comes back without its data. *)
DataLost ==
    /\ changes < MaxChanges
    /\ redis' = Empty /\ undone' = Requests \union {"slots"}
    /\ changes' = changes + 1
    /\ UNCHANGED <<mainVars, checks, file, others, cleanup, state>>

Value(n) == IF n = Absent THEN 0 ELSE n

Runs(script) == state[0] = "up" /\ script \in redis.scripts

(* acquire.lua and release.lua, run by another instance. *)
OtherAcquires(id) ==
    /\ Runs("acquire") /\ others[id] < MaxOthers
    /\ redis.max[id] # Absent /\ Value(redis.count[id]) < redis.max[id]
    /\ others' = [others EXCEPT ![id] = @ + 1]
    /\ redis' = [redis EXCEPT !.count[id] = Value(@) + 1]
    /\ UNCHANGED <<mainVars, checks, undone, file, cleanup, state, changes>>

OtherReleases(id) ==
    /\ Runs("release") /\ others[id] > 0
    /\ others' = [others EXCEPT ![id] = @ - 1]
    /\ redis' = [redis EXCEPT !.count[id] = IF Value(@) = 0 THEN 0 ELSE @ - 1]
    /\ UNCHANGED <<mainVars, checks, undone, file, cleanup, state, changes>>

(* cleanupDeadInstances of another instance finds this one in the set and no *)
(* heartbeat of it: none is sent before the goroutine of hb.Start runs, and  *)
(* one that was sent expires.  The hash has no slots yet.  The clean-up may  *)
(* stop for good after any of its commands.                                  *)
OtherFindsNoHeartbeat ==
    /\ state[0] = "up" /\ redis.registered /\ cleanup = "none"
    /\ cleanup' = "found"
    /\ UNCHANGED <<mainVars, checks, redis, undone, file, others, state, changes>>

(* cleanupInstance: DEL of the hash, then SREM. *)
OtherDeletesHash ==
    /\ state[0] = "up" /\ cleanup = "found" /\ cleanup' = "deleted"
    /\ redis' = [redis EXCEPT !.counted = {}] /\ undone' = undone \union {"register"}
    /\ UNCHANGED <<mainVars, checks, file, others, state, changes>>

OtherUnregisters ==
    /\ state[0] = "up" /\ cleanup = "deleted" /\ cleanup' = "none"
    /\ redis' = [redis EXCEPT !.registered = FALSE] /\ undone' = undone \union {"register"}
    /\ UNCHANGED <<mainVars, checks, file, others, state, changes>>

-----------------------------------------------------------------------------
(* Load, and the first health check with a goroutine for each service. *)

Goto(next) == phase' = next /\ step' = 0

StartedCheck == [NoCheck EXCEPT !.pending = Targets]

Load ==
    /\ phase = "load"
    /\ IF Validate(file)
       THEN /\ cfg' = ApplyDefaults(file) /\ Goto("check")
            /\ checks' = [checks EXCEPT !["main"] = StartedCheck]
       ELSE Goto("fatal") /\ UNCHANGED <<cfg, checks>>
    /\ UNCHANGED <<warm, fallback, redis, undone, envVars>>

(* GET /health or /health/ready; once. *)
AskEndpoint ==
    /\ phase \notin {"load", "fatal"} /\ checks["endpoint"] = NoCheck
    /\ checks' = [checks EXCEPT !["endpoint"] = StartedCheck]
    /\ UNCHANGED <<mainVars, redis, undone, envVars>>

(* A probe of a service that is not up ends with an error, by its time limit *)
(* if need be.                                                              *)
Probe(c, t) ==
    /\ phase # "fatal" /\ t \in checks[c].pending
    /\ LET result == IF state[t] = "up" THEN "healthy" ELSE "unhealthy"
       IN  checks' = [checks EXCEPT ![c].pending = @ \ {t},
                                    ![c].components = @ \union {<<t, result>>}]
    /\ UNCHANGED <<mainVars, redis, undone, envVars>>

(* Mutant of AllProbed: the report is made of what has come in. *)
SomeProbed(check) == check.components # {}

(* wg.Wait returns. *)
AllProbed(check) == check.components # {} /\ check.pending = {}

Overall(components) ==
    IF \E component \in components : component[2] = "unhealthy"
    THEN "unhealthy" ELSE "healthy"

(* main goes on whatever the report says. *)
Report(c) ==
    /\ phase # "fatal" /\ checks[c].report = "none" /\ AllProbed(checks[c])
    /\ checks' = [checks EXCEPT ![c].report = Overall(checks[c].components)]
    /\ IF c = "main" THEN Goto("pools") ELSE UNCHANGED <<phase, step>>
    /\ UNCHANGED <<cfg, warm, fallback, redis, undone, envVars>>

-----------------------------------------------------------------------------
(* NewManager. *)

(* Mutant of WarmUp: one connection too many. *)
WarmUpInclusive(i) == [k \in 1 .. cfg.buckets[i].minIdle + 1 |-> i]

(* The connections NewBucketPool opens for bucket i. *)
WarmUp(i) == [k \in 1 .. cfg.buckets[i].minIdle |-> i]

Openings == FlattenSeq([i \in DOMAIN cfg.buckets |-> WarmUp(i)])

(* createConn with the context of main: only the DSN limits its time.  A    *)
(* connection that fails is logged and left out.                            *)
OpenWarm ==
    /\ phase = "pools" /\ step < Len(Openings)
    /\ LET i == Openings[step + 1] IN
       /\ state[i] = "silent" => ConnectionSeconds(cfg.buckets[i]) > 0
       /\ warm' = IF state[i] = "up" THEN [warm EXCEPT ![i] = @ + 1] ELSE warm
    /\ step' = step + 1
    /\ UNCHANGED <<cfg, phase, fallback, checks, redis, undone, envVars>>

PoolsReady ==
    /\ phase = "pools" /\ step = Len(Openings)
    /\ Goto("ping")
    /\ UNCHANGED <<cfg, warm, fallback, checks, redis, undone, envVars>>

(* Manager.pools: of two buckets with one ID the later one stays. *)
PoolOf(id) == Latest({i \in DOMAIN cfg.buckets : cfg.buckets[i].id = id})

-----------------------------------------------------------------------------
(* NewRedisCoordinator. *)

Ping ==
    /\ phase = "ping"
    /\ IF state[0] = "up" THEN Goto("acquire.lua") /\ UNCHANGED fallback
       ELSE IF cfg.fallback THEN Goto("listen") /\ fallback' = TRUE
       ELSE Goto("fatal") /\ UNCHANGED fallback
    /\ UNCHANGED <<cfg, warm, checks, redis, undone, envVars>>

After(request) ==
    CASE request = "acquire.lua" -> "release.lua"
      [] request = "release.lua" -> "limits"
      [] request = "limits"      -> "register"
      [] request = "register"    -> "listen"

(* loadScripts, initBucketLimits and registerInstance: what they send. *)
Commands ==
    CASE phase = "acquire.lua" -> << <<"SCRIPT LOAD", "acquire">> >>
      [] phase = "release.lua" -> << <<"SCRIPT LOAD", "release">> >>
      [] phase = "limits" ->
            FlattenSeq([i \in DOMAIN cfg.buckets |-> << <<"SET max", i>>, <<"SETNX count", i>> >>])
      [] phase = "register" ->
            << <<"SADD", 0>> >> \o [i \in DOMAIN cfg.buckets |-> <<"HSETNX", i>>]

(* Mutant of SetNX: the key is set although it exists. *)
SetAlways(old, new) == new

SetNX(old, new) == IF old = Absent THEN new ELSE old

Executed(command) ==
    LET b == cfg.buckets[command[2]] IN
    CASE command[1] = "SCRIPT LOAD" -> [redis EXCEPT !.scripts = @ \union {command[2]}]
      [] command[1] = "SET max"     -> [redis EXCEPT !.max[b.id] = b.max]
      [] command[1] = "SETNX count" -> [redis EXCEPT !.count[b.id] = SetNX(@, 0)]
      [] command[1] = "SADD"        -> [redis EXCEPT !.registered = TRUE]
      [] command[1] = "HSETNX"      -> [redis EXCEPT !.counted = @ \union {b.id}]

(* The next command of the request at hand; the first begins it anew. *)
Execute ==
    /\ phase \in Requests /\ state[0] = "up"
    /\ redis' = Executed(Commands[step + 1])
    /\ undone' = IF step = 0 THEN undone \ {phase} ELSE undone

(* Redis runs the next command of a request; the last reply ends it. *)
RedisRuns ==
    /\ Execute
    /\ IF step + 1 = Len(Commands) THEN Goto(After(phase))
       ELSE step' = step + 1 /\ UNCHANGED phase
    /\ UNCHANGED <<cfg, warm, fallback, checks, envVars>>

(* Mutant of AfterError: the error is dropped and the start goes on. *)
ErrorDropped == "listen"

(* Any error after the ping ends the start; no deferred call is made. *)
AfterError == "fatal"

(* The connection breaks after a command was executed: the client gives up, *)
(* or sends the whole request again.                                        *)
ReplyLost ==
    /\ Execute /\ changes < MaxChanges
    /\ \E next \in {phase, AfterError} : Goto(next)
    /\ changes' = changes + 1
    /\ UNCHANGED <<cfg, warm, fallback, checks, file, others, cleanup, state>>

RequestFails ==
    /\ phase \in Requests /\ state[0] # "up"
    /\ Goto(AfterError)
    /\ UNCHANGED <<cfg, warm, fallback, checks, redis, undone, envVars>>

RequestAgain ==
    /\ phase \in Requests /\ state[0] # "up" /\ step > 0
    /\ step' = 0
    /\ UNCHANGED <<cfg, phase, warm, fallback, checks, redis, undone, envVars>>

(* Server.Start: the port may be taken. *)
Listen ==
    /\ phase = "listen"
    /\ \E next \in {"ready", "fatal"} : Goto(next)
    /\ UNCHANGED <<cfg, warm, fallback, checks, redis, undone, envVars>>

-----------------------------------------------------------------------------
MainStep ==
    \/ Load \/ Report("main")
    \/ \E t \in Targets : Probe("main", t)
    \/ OpenWarm \/ PoolsReady \/ Ping \/ RedisRuns \/ RequestFails \/ Listen

Next ==
    \/ MainStep \/ ReplyLost \/ RequestAgain
    \/ AskEndpoint \/ Report("endpoint")
    \/ \E t \in Targets : Probe("endpoint", t) \/ Change(t)
    \/ DataLost
    \/ \E id \in IDs : OtherAcquires(id) \/ OtherReleases(id)
    \/ OtherFindsNoHeartbeat \/ OtherDeletesHash \/ OtherUnregisters

Spec == Init /\ [][Next]_vars

(* main and its goroutines run, and every call with a time limit ends. *)
FairSpec == Spec /\ WF_vars(MainStep)

-----------------------------------------------------------------------------
(* Properties. *)

(* The type invariant. *)
TypeOK ==
    /\ file \in Files
    /\ phase \in Requests \union
            {"load", "check", "pools", "ping", "listen", "ready", "fatal"}
    /\ step \in Nat
    /\ \A c \in Callers :
          /\ checks[c].pending \subseteq Targets
          /\ checks[c].components \subseteq Targets \X {"healthy", "unhealthy"}
          /\ checks[c].report \in {"none", "healthy", "unhealthy"}
    /\ \A i \in DOMAIN file.buckets : warm[i] \in {0} \union 1 .. cfg.buckets[i].minIdle
    /\ fallback \in BOOLEAN
    /\ redis.scripts \subseteq Scripts /\ redis.counted \subseteq IDs
    /\ redis.registered \in BOOLEAN
    /\ \A id \in IDs : {redis.max[id], redis.count[id]} \subseteq {Absent} \union Nat
    /\ others \in [IDs -> 0 .. MaxOthers]
    /\ cleanup \in {"none", "found", "deleted"} /\ undone \subseteq Requests \union {"slots"}
    /\ \A t \in Targets : state[t] \in States(t)
    /\ changes \in 0 .. MaxChanges

(* A health report speaks of every service, once, and is unhealthy exactly  *)
(* when one of them is, although the probes of two checks end in any order  *)
(* (Check).                                                                 *)
ReportComplete ==
    \A c \in Callers : checks[c].report # "none" =>
        /\ \A t \in Targets : \E result \in {"healthy", "unhealthy"} :
              {component \in checks[c].components : component[1] = t} = {<<t, result>>}
        /\ checks[c].report = "unhealthy" <=>
              \E component \in checks[c].components : component[2] = "unhealthy"

(* What a request is for is in Redis. *)
InPlace(request) ==
    CASE request = "acquire.lua" -> "acquire" \in redis.scripts
      [] request = "release.lua" -> "release" \in redis.scripts
      [] request = "limits"      -> \A id \in IDs : redis.max[id] # Absent /\ redis.count[id] # Absent
      [] request = "register"    -> redis.registered /\ redis.counted = IDs

(* A proxy that listens and coordinates has in Redis what each request put   *)
(* there, whatever failed or was repeated on the way (NewRedisCoordinator),  *)
(* unless it was taken away after the request was last sent, and that only   *)
(* a Redis that loses its data does, and to the registration a clean-up too. *)
ReadyIsCoordinated ==
    phase = "ready" /\ ~fallback =>
        /\ \A request \in Requests \ undone : InPlace(request)
        /\ "slots" \notin undone => undone \subseteq {"register"}

(* The slots that other instances hold stay counted while one starts, also  *)
(* when it repeats a request or dies on the way (initBucketLimits).  Where  *)
(* Redis lost its data no more are counted than there are.                  *)
CountSurvivesStart ==
    \A id \in IDs : /\ Value(redis.count[id]) <= others[id]
                    /\ "slots" \notin undone => Value(redis.count[id]) = others[id]

(* A login names its bucket by a server name or by a database.  A server    *)
(* name that is the ID of a bucket, in any case, leads to it, unless another *)
(* bucket answers to the name too (router.go: "mais explícito").            *)
ByIDReached(login) ==
    \A i \in DOMAIN cfg.buckets :
        /\ Lower[login.server] = Lower[cfg.buckets[i].id]
        /\ \A j \in DOMAIN cfg.buckets \ {i} :
              Lower[login.server] \notin {Lower[cfg.buckets[j].id], Lower[cfg.buckets[j].host]}
        => Route(cfg.buckets, login) = i

(* A database alone leads to the one bucket that has it, and if several have *)
(* it none is guessed (router.go: "se único").                              *)
DatabaseNotGuessed(login) ==
    LET same == {i \in DOMAIN cfg.buckets :
                    Lower[cfg.buckets[i].database] = Lower[login.database]}
    IN  /\ login.server = "" /\ login.user = "" /\ login.database # ""
        /\ \A i, j \in same : cfg.buckets[i].database = cfg.buckets[j].database
        => IF Cardinality(same) = 1 THEN Route(cfg.buckets, login) \in same
           ELSE Route(cfg.buckets, login) = DefaultBucket(cfg.buckets)

(* What the strategies of Route promise, in the order of Route: the server   *)
(* name ("mais explícito") before the database ("se único").  A login that   *)
(* names one bucket by its ID is routed to it whatever else it says, although *)
(* IDs and hosts share one table without case, and a shared database leads   *)
(* nowhere by itself.  Left out are names two buckets answer to and databases *)
(* that differ in case only; EveryIDReached, DatabaseFirst and FirstMatchWins *)
(* below say what does not hold.                                             *)
NamedBucketReached ==
    phase = "ready" => \A login \in Logins : ByIDReached(login) /\ DatabaseNotGuessed(login)

(* Every start comes to a decision, to listen or to give up, although Redis *)
(* or a SQL Server may accept connections and say nothing.  A connection    *)
(* timeout below a second is none in the DSN, and then it may not.          *)
StartDecides ==
    <>(\/ phase \in {"ready", "fatal"}
       \/ \E i \in DOMAIN file.buckets : file.buckets[i].connectionTimeout \in 1 .. 999)

-----------------------------------------------------------------------------
(* Statements one may expect and the code does not keep. *)

(* A connection timeout of less than a second limits the start too. *)
EveryStartDecides == <>(phase \in {"ready", "fatal"})

(* A proxy that listens and coordinates is one the clean-ups know.  Another  *)
(* instance that looks between the SADD and the first heartbeat removes it   *)
(* (heartbeat.go), and nothing registers it again.                           *)
ReadyIsRegistered == phase = "ready" /\ ~fallback /\ "slots" \notin undone => redis.registered

(* Every bucket is reached by its own ID (router.go, "Mapear ID do bucket    *)
(* como alias").  The host of a later bucket, or its ID in another case,     *)
(* takes the entry.                                                          *)
EveryIDReached ==
    phase = "ready" =>
        \A i \in DOMAIN cfg.buckets :
            Route(cfg.buckets, [server |-> cfg.buckets[i].id, database |-> "", user |-> ""]) = i

(* The database comes before the server name (router.go, the list of         *)
(* strategies: "1. Por nome do banco").  Route asks for the server first.    *)
DatabaseFirst ==
    phase = "ready" =>
        \A login \in Logins :
            LET i == IF login.database = "" THEN 0 ELSE ByDatabase(cfg.buckets, login.database)
            IN  i # 0 => Route(cfg.buckets, login) = i

(* Of the buckets with one database the first is taken (router.go,           *)
(* "primeiro match vence"; config.go, BucketByDatabase, which nothing        *)
(* calls).  NewRouter leaves such databases out.                             *)
FirstMatchWins ==
    phase = "ready" =>
        \A login \in Logins : login.server = "" /\ login.database # "" =>
            LET first == Earliest({i \in DOMAIN cfg.buckets :
                                     cfg.buckets[i].database = login.database})
            IN  first # 0 => Route(cfg.buckets, login) = first

(* A start that gives up leaves no registration behind. *)
FatalLeavesNoTrace == phase = "fatal" => ~redis.registered

(* No warm connection is lost: the pools of the manager have them all. *)
WarmConnectionsOwned ==
    \A i \in DOMAIN file.buckets : warm[i] > 0 => PoolOf(file.buckets[i].id) = i

(* The warm connections of a bucket fit into its limit. *)
WarmWithinMax == \A i \in DOMAIN file.buckets : warm[i] <= cfg.buckets[i].max
=============================================================================
