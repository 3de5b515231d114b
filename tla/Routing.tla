------------------------------ MODULE Routing ------------------------------
(***************************************************************************)
(* The configuration after Load (internal/config/config.go) and the choice *)
(* of a bucket for a Login7 (internal/proxy/router.go), as operators.      *)
(*                                                                         *)
(* A configuration is [port, fallback, settings, buckets]: settings holds  *)
(* the numbers of proxy.yaml by name, 0 where the file says nothing, times *)
(* in milliseconds; buckets is the sequence of buckets.yaml.  Texts are    *)
(* names, "" where the file says nothing.                                  *)
(***************************************************************************)
EXTENDS Integers, Sequences, FiniteSets

CONSTANTS
    Names,   \* the texts that occur
    Lower    \* strings.ToLower on them; EqualFold compares by it

ASSUME NamesAssumption ==
    /\ "" \in Names
    /\ Lower \in [Names -> Names]
    /\ \A n \in Names : Lower[Lower[n]] = Lower[n] /\ (Lower[n] = "" <=> n = "")

-----------------------------------------------------------------------------
(* Load *)

Settings ==
    {"sessionTimeout", "idleTimeout", "queueTimeout", "maxQueueSize",
     "healthCheckInterval", "healthCheckPort", "metricsPort", "poolSize", "dialTimeout",
     "readTimeout", "writeTimeout", "heartbeatInterval", "heartbeatTTL",
     "localLimitDivisor"}

(* Of the numbers in a file only a negative limit is left out: with it      *)
(* NewBucketPool panics (make with a negative capacity).                    *)
BucketType ==
    [id : Names, host : Names, port : Int, database : Names, username : Names,
     max : Nat, minIdle : Int, maxIdleTime : Int, connectionTimeout : Int,
     queueTimeout : Int]

ConfigType ==
    [port : Int, fallback : BOOLEAN, settings : [Settings -> Int],
     buckets : Seq(BucketType)]

Validate(file) ==
    /\ file.port # 0
    /\ file.buckets # <<>>
    /\ \A i \in 1 .. Len(file.buckets) :
           LET b == file.buckets[i]
           IN  b.id # "" /\ b.host # "" /\ b.port # 0 /\ b.max # 0

Defaults ==
    [sessionTimeout |-> 300000, idleTimeout |-> 60000, queueTimeout |-> 30000,
     maxQueueSize |-> 1000, healthCheckInterval |-> 15000, healthCheckPort |-> 8080,
     metricsPort |-> 9090, poolSize |-> 20, dialTimeout |-> 5000,
     readTimeout |-> 3000, writeTimeout |-> 3000, heartbeatInterval |-> 10000,
     heartbeatTTL |-> 30000, localLimitDivisor |-> 3]

OrElse(n, default) == IF n = 0 THEN default ELSE n

BucketDefaults == [minIdle |-> 2, maxIdleTime |-> 300000, connectionTimeout |-> 30000]

BucketWithDefaults(b, settings) ==
    [b EXCEPT !.minIdle = OrElse(b.minIdle, BucketDefaults.minIdle),
              !.maxIdleTime = OrElse(b.maxIdleTime, BucketDefaults.maxIdleTime),
              !.connectionTimeout =
                  OrElse(b.connectionTimeout, BucketDefaults.connectionTimeout),
              !.queueTimeout = OrElse(b.queueTimeout, settings.queueTimeout)]

ProxyWithDefaults(settings) ==
    [name \in Settings |-> OrElse(settings[name], Defaults[name])]

BucketsWithDefaults(buckets, settings) ==
    [i \in DOMAIN buckets |-> BucketWithDefaults(buckets[i], settings)]

(* A bucket without a queue timeout inherits that of the proxy, which has   *)
(* its own default by then.                                                 *)
ApplyDefaults(file) ==
    [file EXCEPT !.settings = ProxyWithDefaults(@),
                 !.buckets = BucketsWithDefaults(@, ProxyWithDefaults(file.settings))]

(* Mutant of ConnectionSeconds: minutes. *)
ConnectionMinutes(b) == b.connectionTimeout \div 60000

(* The connection timeout in the DSN, in whole seconds; 0 is none. *)
ConnectionSeconds(b) == b.connectionTimeout \div 1000

-----------------------------------------------------------------------------
(* NewRouter and Route.  A bucket is its position; 0 is no bucket. *)

(* A later bucket overwrites the entry of an earlier one. *)
Latest(positions) ==
    IF positions = {} THEN 0
    ELSE CHOOSE i \in positions : \A j \in positions : j <= i

Earliest(positions) ==
    IF positions = {} THEN 0
    ELSE CHOOSE i \in positions : \A j \in positions : i <= j

(* Mutant of ServerKey: the name is looked up as it was written. *)
ServerKeyAsWritten(name) == name

ServerKey(name) == Lower[name]

(* The ID and the host are both aliases. *)
ByServerName(buckets, key) ==
    Latest({i \in DOMAIN buckets : key \in {Lower[buckets[i].id], Lower[buckets[i].host]}})

ByID(buckets, name) == Latest({i \in DOMAIN buckets : buckets[i].id = name})

(* seenDBs counts the names as they are written. *)
OnlyDatabase(buckets, i) ==
    Cardinality({j \in DOMAIN buckets : buckets[j].database = buckets[i].database}) = 1

ByDatabase(buckets, name) ==
    Latest({i \in DOMAIN buckets :
               OnlyDatabase(buckets, i) /\ Lower[buckets[i].database] = Lower[name]})

ByUserName(buckets, name) ==
    Earliest({i \in DOMAIN buckets : Lower[buckets[i].username] = Lower[name]})

DefaultBucket(buckets) == IF Len(buckets) = 1 THEN 1 ELSE 0

(* Server name, database, user name, the only bucket: the first that is known. *)
Route(buckets, login) ==
    LET server   == IF login.server = "" THEN 0
                    ELSE ByServerName(buckets, ServerKey(login.server))
        id       == IF login.server = "" THEN 0 ELSE ByID(buckets, login.server)
        database == IF login.database = "" THEN 0 ELSE ByDatabase(buckets, login.database)
        user     == IF login.user = "" THEN 0 ELSE ByUserName(buckets, login.user)
        routes   == <<server, id, database, user, DefaultBucket(buckets)>>
        known    == {k \in DOMAIN routes : routes[k] # 0}
    IN  IF known = {} THEN 0 ELSE routes[Earliest(known)]
=============================================================================
