--------------------------- MODULE StartupProofs ---------------------------
(***************************************************************************)
(* Proofs about Startup, for every set of configurations and logins and    *)
(* every bound on the changes of the environment.                          *)
(*                                                                         *)
(* The invariant Inv has six parts.  Types; Configured, what main has      *)
(* loaded and validated when it goes on; Warm, the connections opened so   *)
(* far against the places of the bucket in Openings; Checked, each health  *)
(* check has one result for each target it no longer waits for; the        *)
(* property CountSurvivesStart itself; and Sent, which effect each of the  *)
(* requests NewRedisCoordinator has made left in Redis, unless it is among *)
(* those undone.  Openings and Commands are concatenations of one sequence *)
(* per bucket, so what they contain is proved of FlattenSeq first, by a    *)
(* minimal counterexample.                                                 *)
(***************************************************************************)
EXTENDS Startup, FiniteSetTheorems, SequenceTheorems, WellFoundedInduction, TLAPS

-----------------------------------------------------------------------------
(* Routing. *)

(* The logins of StartupAssumption.                                        *)
LoginType == [server : Names, database : Names, user : Names]

(* The least element of a set of numbers is its earliest.                  *)
LEMMA EarliestIs ==
  ASSUME NEW S, S \subseteq Int, NEW n \in S, \A m \in S : n <= m
  PROVE  Earliest(S) = n
<1> DEFINE e == CHOOSE x \in S : \A m \in S : x <= m
<1>1. e \in S /\ e <= n /\ n <= e
  OBVIOUS
<1>2. e = n
  <2> HIDE DEF e
  <2>1. e \in Int /\ n \in Int
    BY <1>1
  <2> QED
    BY <1>1, <2>1
<1> QED
  BY <1>2 DEF Earliest

(* The later of the buckets that overwrite each other in a map: the only   *)
(* one.                                                                    *)
LEMMA LatestOnly == ASSUME NEW n \in Int PROVE Latest({n}) = n
BY DEF Latest

(* No bucket has the key.                                                  *)
LEMMA LatestNone == Latest({}) = 0
BY DEF Latest

(* The first of the lookups of Route that finds a bucket.                  *)
FirstKnown(routes) ==
    LET known == {k \in DOMAIN routes : routes[k] # 0}
    IN  IF known = {} THEN 0 ELSE routes[Earliest(known)]

(* The first lookup, the third after two misses, the default after four.   *)
LEMMA FirstKnownIs ==
  ASSUME NEW a, NEW b, NEW c, NEW d, NEW e
  PROVE  /\ a # 0 => FirstKnown(<<a, b, c, d, e>>) = a
         /\ a = 0 /\ b = 0 /\ c # 0 => FirstKnown(<<a, b, c, d, e>>) = c
         /\ a = 0 /\ b = 0 /\ c = 0 /\ d = 0 => FirstKnown(<<a, b, c, d, e>>) = e
<1> DEFINE routes == <<a, b, c, d, e>>
           known == {k \in DOMAIN routes : routes[k] # 0}
<1>1. FirstKnown(routes) = IF known = {} THEN 0 ELSE routes[Earliest(known)]
  BY DEF FirstKnown
<1>2. /\ DOMAIN routes = 1 .. 5
      /\ routes[1] = a /\ routes[2] = b /\ routes[3] = c /\ routes[4] = d /\ routes[5] = e
  OBVIOUS
<1> HIDE DEF routes
<1>3. known \subseteq 1 .. 5 /\ known \subseteq Int
  BY <1>2
<1>4. CASE a # 0
  <2>1. 1 \in known /\ \A k \in known : 1 <= k
    BY <1>2, <1>3, <1>4
  <2>2. Earliest(known) = 1
    <3> HIDE DEF known
    <3> QED
      BY <1>3, <2>1, EarliestIs
  <2> QED
    BY <1>1, <1>2, <1>4, <2>1, <2>2 DEF routes
<1>5. CASE a = 0 /\ b = 0 /\ c # 0
  <2>1. 3 \in known /\ \A k \in known : 3 <= k
    <3>1. \A k \in known : k \in 1 .. 5 /\ k # 1 /\ k # 2
      BY <1>2, <1>3, <1>5
    <3>2. \A k \in 1 .. 5 : k # 1 /\ k # 2 => 3 <= k
      OBVIOUS
    <3> QED
      BY <1>2, <1>5, <3>1, <3>2
  <2>2. Earliest(known) = 3
    <3> HIDE DEF known
    <3> QED
      BY <1>3, <2>1, EarliestIs
  <2> QED
    BY <1>1, <1>2, <1>5, <2>1, <2>2 DEF routes
<1>6. CASE a = 0 /\ b = 0 /\ c = 0 /\ d = 0
  <2>1. \A k \in known : k = 5
    <3>1. \A k \in known : k \in 1 .. 5 /\ k # 1 /\ k # 2 /\ k # 3 /\ k # 4
      BY <1>2, <1>3, <1>6
    <3>2. \A k \in 1 .. 5 : k # 1 /\ k # 2 /\ k # 3 /\ k # 4 => k = 5
      OBVIOUS
    <3> QED
      BY <3>1, <3>2
  <2>2. CASE e = 0
    <3>1. known = {}
      BY <1>2, <2>1, <2>2
    <3> QED
      BY <1>1, <1>2, <1>6, <2>2, <3>1 DEF routes
  <2>3. CASE e # 0
    <3>1. 5 \in known /\ \A k \in known : 5 <= k
      BY <1>2, <2>1, <2>3
    <3>2. Earliest(known) = 5
      <4> HIDE DEF known
      <4> QED
        BY <1>3, <3>1, EarliestIs
    <3> QED
      BY <1>1, <1>2, <3>1, <3>2 DEF routes
  <2> QED
    BY <2>2, <2>3
<1> QED
  BY <1>4, <1>5, <1>6 DEF routes

(* The position of a bucket of a sequence.                                 *)
LEMMA Positions ==
  ASSUME NEW S, NEW s \in Seq(S), NEW i \in DOMAIN s
  PROVE  i \in Nat /\ i # 0 /\ i \in 1 .. Len(s) /\ s[i] \in S
<1>1. DOMAIN s = 1 .. Len(s) /\ Len(s) \in Nat
  BY LenProperties
<1>2. i \in 1 .. Len(s)
  BY <1>1
<1> QED
  BY <1>1, <1>2, ElementOfSeq

(* The premise of ByIDReached: the server name is the ID of bucket i and   *)
(* neither the ID nor the host of another.                                 *)
NamesBucket(buckets, login, i) ==
    /\ buckets[i].id # ""
    /\ Lower[login.server] = Lower[buckets[i].id]
    /\ \A j \in DOMAIN buckets \ {i} :
          Lower[login.server] \notin {Lower[buckets[j].id], Lower[buckets[j].host]}

(* Such a login is routed to bucket i (router.go, the servers map).        *)
LEMMA ReachedByID ==
  ASSUME NEW buckets \in Seq(BucketType), NEW login \in LoginType,
         NEW i \in DOMAIN buckets, NamesBucket(buckets, login, i)
  PROVE  Route(buckets, login) = i
<1>1. i \in Int /\ i # 0 /\ buckets[i] \in BucketType
  BY Positions
<1>2. login.server # ""
  <2>1. login.server \in Names /\ buckets[i].id \in Names
    BY <1>1 DEF LoginType, BucketType
  <2> QED
    BY <2>1, NamesAssumption DEF NamesBucket
<1>3. ByServerName(buckets, ServerKey(login.server)) = Latest({i})
  <2>1. {j \in DOMAIN buckets :
            Lower[login.server] \in {Lower[buckets[j].id], Lower[buckets[j].host]}} = {i}
    BY DEF NamesBucket
  <2> QED
    BY <2>1, Zenon DEF ByServerName, ServerKey
<1> DEFINE b == IF login.server = "" THEN 0 ELSE ByID(buckets, login.server)
           c == IF login.database = "" THEN 0 ELSE ByDatabase(buckets, login.database)
           d == IF login.user = "" THEN 0 ELSE ByUserName(buckets, login.user)
<1>4. Route(buckets, login) = FirstKnown(<<Latest({i}), b, c, d, DefaultBucket(buckets)>>)
  BY <1>2, <1>3 DEF Route, FirstKnown
<1> HIDE DEF b, c, d
<1>5. Latest({i}) = i
  BY <1>1, LatestOnly
<1>6. \A e : FirstKnown(<<i, b, c, d, e>>) = i
  BY <1>1, FirstKnownIs
<1> QED
  BY <1>4, <1>5, <1>6

(* The buckets of the database the login asks for, in any case.            *)
SameDatabase(buckets, login) ==
    {i \in DOMAIN buckets : Lower[buckets[i].database] = Lower[login.database]}

(* The premise of DatabaseNotGuessed: the login has only a database, and   *)
(* the buckets that have it write it the same way.                         *)
NamesDatabase(buckets, login) ==
    /\ login.server = "" /\ login.user = "" /\ login.database # ""
    /\ \A i, j \in SameDatabase(buckets, login) : buckets[i].database = buckets[j].database

(* A database of one bucket leads to it, one of several to the default     *)
(* (router.go counts the buckets of a database as it is written and keys   *)
(* the map by the lower case).                                             *)
LEMMA ReachedByDatabase ==
  ASSUME NEW buckets \in Seq(BucketType), NEW login \in LoginType,
         NamesDatabase(buckets, login)
  PROVE  IF Cardinality(SameDatabase(buckets, login)) = 1
         THEN Route(buckets, login) \in SameDatabase(buckets, login)
         ELSE Route(buckets, login) = DefaultBucket(buckets)
<1> DEFINE same == SameDatabase(buckets, login)
<1>1. same \subseteq DOMAIN buckets
  BY DEF SameDatabase
<1>2. IsFiniteSet(same)
  <2>1. DOMAIN buckets = 1 .. Len(buckets) /\ Len(buckets) \in Int /\ 1 \in Int
    BY LenProperties
  <2>2. IsFiniteSet(1 .. Len(buckets)) /\ same \in SUBSET (1 .. Len(buckets))
    BY <1>1, <2>1, FS_Interval
  <2> QED
    BY <2>2, FS_Subset
<1> DEFINE only == {i \in DOMAIN buckets :
                      OnlyDatabase(buckets, i)
                        /\ Lower[buckets[i].database] = Lower[login.database]}
<1>3. only = IF Cardinality(same) = 1 THEN same ELSE {}
  <2>1. \A i \in same : {j \in DOMAIN buckets : buckets[j].database = buckets[i].database} = same
    BY DEF SameDatabase, NamesDatabase
  <2>2. \A i \in same : OnlyDatabase(buckets, i) <=> Cardinality(same) = 1
    BY <2>1 DEF OnlyDatabase
  <2>3. only = {i \in same : OnlyDatabase(buckets, i)}
    BY DEF SameDatabase
  <2> HIDE DEF same, only
  <2> QED
    BY <2>2, <2>3
<1>4. Route(buckets, login) = FirstKnown(<<0, 0, Latest(only), 0, DefaultBucket(buckets)>>)
  <2>1. ByDatabase(buckets, login.database) = Latest(only)
    BY DEF ByDatabase
  <2> HIDE DEF only
  <2> QED
    BY <2>1 DEF Route, FirstKnown, NamesDatabase
<1> HIDE DEF only, same
<1>5. CASE Cardinality(same) = 1
  <2>1. PICK i : same = {i}
    BY <1>2, <1>5, FS_Singleton
  <2>2. i \in Int /\ i # 0
    BY <1>1, <2>1, Positions
  <2>3. Latest(only) = i
    BY <1>3, <1>5, <2>1, <2>2, LatestOnly
  <2>4. Route(buckets, login) \in same
    <3>1. \A e : FirstKnown(<<0, 0, i, 0, e>>) = i
      BY <2>2, FirstKnownIs
    <3> QED
      BY <1>4, <2>1, <2>3, <3>1
  <2> QED
    BY <1>5, <2>4 DEF same
<1>6. CASE Cardinality(same) # 1
  <2>1. Latest(only) = 0
    BY <1>3, <1>6, LatestNone
  <2>2. Route(buckets, login) = DefaultBucket(buckets)
    <3>1. \A e : FirstKnown(<<0, 0, 0, 0, e>>) = e
      BY FirstKnownIs
    <3> QED
      BY <1>4, <2>1, <3>1
  <2> QED
    BY <1>6, <2>2 DEF same
<1> QED
  BY <1>5, <1>6

-----------------------------------------------------------------------------
(* FlattenSeq. *)

(* A set of numbers that is not empty has a least element: in a proof by   *)
(* contradiction, the minimal counterexample that takes the place of       *)
(* induction.                                                              *)
LEMMA LeastNumber ==
  ASSUME NEW D, D \subseteq Nat, D # {}
  PROVE  \E n \in D : \A m \in D : n <= m
<1>1. PICK n \in D : \A m \in D : ~ (<<m, n>> \in OpToRel(<, Nat))
  BY NatLessThanWellFounded, WFMin
<1>2. \A m \in D : n <= m
  <2> TAKE m \in D
  <2>1. <<m, n>> \in Nat \X Nat
    OBVIOUS
  <2>2. ~ (m < n)
    BY <1>1, <2>1 DEF OpToRel
  <2> QED
    BY <2>2
<1> QED
  BY <1>2

(* f is the recursive function inside FlattenSeq, up to n.                 *)
Flat(s, n, f) == f = [i \in 1 .. n |-> IF i = 1 THEN s[i] ELSE f[i - 1] \o s[i]]

(* There is such a function, so the CHOOSE of FlattenSeq finds one.        *)
LEMMA FlatExists ==
  ASSUME NEW s, NEW len \in Nat
  PROVE  \E f : Flat(s, len, f)
<1> DEFINE D == {n \in Nat : ~ \E f : Flat(s, n, f)}
<1> SUFFICES ASSUME D # {} PROVE FALSE
  OBVIOUS
<1>1. PICK n \in D : \A m \in D : n <= m
  <2>1. D \subseteq Nat
    OBVIOUS
  <2> HIDE DEF D
  <2> QED
    BY <2>1, LeastNumber
<1>2. n \in Nat /\ ~ \E f : Flat(s, n, f)
  BY <1>1
<1>3. \A m \in Nat : m < n => \E f : Flat(s, m, f)
  BY <1>1
<1> HIDE DEF D
<1>4. CASE n = 0
  <2> DEFINE h == [i \in 1 .. 0 |-> s[i]]
  <2>1. h = [i \in 1 .. 0 |-> IF i = 1 THEN s[i] ELSE h[i - 1] \o s[i]]
    OBVIOUS
  <2> HIDE DEF h
  <2> QED
    BY <1>2, <1>4, <2>1 DEF Flat
<1>5. CASE n # 0
  <2>1. n - 1 \in Nat /\ n - 1 < n
    BY <1>2, <1>5
  <2>2. PICK g : Flat(s, n - 1, g)
    BY <1>3, <2>1
  <2> DEFINE last == IF n = 1 THEN s[n] ELSE g[n - 1] \o s[n]
             h == [i \in 1 .. n |-> IF i = n THEN last ELSE g[i]]
  <2>3. ASSUME NEW i \in 1 .. n
        PROVE  h[i] = IF i = 1 THEN s[i] ELSE h[i - 1] \o s[i]
    <3>1. i # 1 => i - 1 \in 1 .. n - 1 /\ i - 1 \in 1 .. n /\ i - 1 # n
      BY <1>2
    <3>2. i # 1 => h[i - 1] = g[i - 1]
      BY <3>1
    <3>3. CASE i = n
      <4>1. h[i] = last
        BY <3>3
      <4> HIDE DEF h
      <4> QED
        BY <3>2, <3>3, <4>1
    <3>4. CASE i # n
      <4>1. i \in 1 .. n - 1 /\ h[i] = g[i]
        BY <1>2, <3>4
      <4>2. g[i] = IF i = 1 THEN s[i] ELSE g[i - 1] \o s[i]
        BY <2>2, <4>1 DEF Flat
      <4> HIDE DEF h
      <4> QED
        BY <3>2, <4>1, <4>2
    <3> QED
      BY <3>3, <3>4
  <2>4. Flat(s, n, h)
    <3>1. h = [i \in 1 .. n |-> h[i]]
      OBVIOUS
    <3> HIDE DEF h
    <3>2. h = [i \in 1 .. n |-> IF i = 1 THEN s[i] ELSE h[i - 1] \o s[i]]
      BY <2>3, <3>1, Zenon
    <3> QED
      BY <3>2 DEF Flat
  <2> HIDE DEF h
  <2> QED
    BY <1>2, <2>4
<1> QED
  BY <1>4, <1>5

(* What the n-th sequence adds to the concatenation of those before it.    *)
Extended(S, s, f, n) ==
    /\ f[n] \in Seq(S) /\ Len(f[n]) \in Nat
    /\ \A k \in 1 .. Len(f[n]) :
          \/ \E m \in 1 .. Len(s[n]) : f[n][k] = s[n][m]
          \/ n # 1 /\ k <= Len(f[n - 1]) /\ f[n][k] = f[n - 1][k]
    /\ \A m \in 1 .. Len(s[n]) : \E k \in 1 .. Len(f[n]) : f[n][k] = s[n][m]
    /\ n # 1 => /\ Len(f[n]) = Len(f[n - 1]) + Len(s[n])
                /\ Len(f[n - 1]) \in Nat
                /\ \A k \in 1 .. Len(f[n - 1]) : f[n][k] = f[n - 1][k]
    /\ n = 1 => f[n] = s[n]

(* One step of the recursion.                                              *)
LEMMA FlatStep ==
  ASSUME NEW S, NEW s, NEW len \in Nat, NEW f, Flat(s, len, f),
         \A i \in 1 .. len : s[i] \in Seq(S),
         NEW n \in 1 .. len, n # 1 => f[n - 1] \in Seq(S)
  PROVE  Extended(S, s, f, n)
<1>1. f[n] = IF n = 1 THEN s[n] ELSE f[n - 1] \o s[n]
  BY DEF Flat
<1>2. s[n] \in Seq(S) /\ Len(s[n]) \in Nat
  <2>1. s[n] \in Seq(S)
    OBVIOUS
  <2> QED
    BY <2>1, LenProperties
<1>3. CASE n = 1
  BY <1>1, <1>2, <1>3 DEF Extended
<1>4. CASE n # 1
  <2> DEFINE s1 == f[n - 1]
             s2 == s[n]
             t == s1 \o s2
  <2>1. s1 \in Seq(S) /\ s2 \in Seq(S) /\ f[n] = t
    BY <1>1, <1>2, <1>4
  <2> HIDE DEF s1, s2
  <2>2. /\ t \in Seq(S) /\ Len(t) = Len(s1) + Len(s2)
        /\ \A k \in 1 .. Len(s1) + Len(s2) :
              t[k] = IF k <= Len(s1) THEN s1[k] ELSE s2[k - Len(s1)]
    BY <2>1, ConcatProperties
  <2>3. Len(s1) \in Nat /\ Len(s2) \in Nat
    BY <2>1, LenProperties
  <2> HIDE DEF t
  <2>4. ASSUME NEW k \in 1 .. Len(t)
        PROVE  \/ \E m \in 1 .. Len(s2) : t[k] = s2[m]
               \/ k <= Len(s1) /\ t[k] = s1[k]
    <3>1. CASE k <= Len(s1)
      BY <2>2, <2>3, <3>1
    <3>2. CASE ~ (k <= Len(s1))
      <4>1. k - Len(s1) \in 1 .. Len(s2) /\ t[k] = s2[k - Len(s1)]
        BY <2>2, <2>3, <3>2
      <4> QED
        BY <4>1
    <3> QED
      BY <3>1, <3>2
  <2>5. ASSUME NEW m \in 1 .. Len(s2) PROVE \E k \in 1 .. Len(t) : t[k] = s2[m]
    <3>1. /\ Len(s1) + m \in 1 .. Len(t) /\ Len(s1) + m \in 1 .. Len(s1) + Len(s2)
          /\ ~ (Len(s1) + m <= Len(s1)) /\ (Len(s1) + m) - Len(s1) = m
      BY <2>2, <2>3
    <3>2. t[Len(s1) + m] = s2[m]
      BY <2>2, <3>1
    <3> QED
      BY <3>1, <3>2
  <2>6. \A k \in 1 .. Len(s1) : t[k] = s1[k]
    BY <2>2, <2>3
  <2>7. Len(t) \in Nat
    BY <2>2, <2>3
  <2> QED
    BY <1>4, <2>1, <2>2, <2>3, <2>4, <2>5, <2>6, <2>7 DEF s1, s2, Extended
<1> QED
  BY <1>3, <1>4

(* t has the elements of the first n sequences and no others.              *)
Collected(S, s, t, n) ==
    /\ t \in Seq(S) /\ Len(t) \in Nat
    /\ \A k \in 1 .. Len(t) : \E i \in 1 .. n : \E m \in 1 .. Len(s[i]) : t[k] = s[i][m]
    /\ \A i \in 1 .. n : \A m \in 1 .. Len(s[i]) : \E k \in 1 .. Len(t) : t[k] = s[i][m]

(* The concatenation of the first n sequences collects them, for every n.  *)
LEMMA FlatFacts ==
  ASSUME NEW S, NEW s, NEW len \in Nat, NEW f, Flat(s, len, f),
         \A i \in 1 .. len : s[i] \in Seq(S)
  PROVE  \A n \in 1 .. len : Collected(S, s, f[n], n)
<1> DEFINE Good(n) ==
             /\ f[n] \in Seq(S) /\ Len(f[n]) \in Nat
             /\ \A k \in 1 .. Len(f[n]) :
                   \E i \in 1 .. n : \E m \in 1 .. Len(s[i]) : f[n][k] = s[i][m]
             /\ \A i \in 1 .. n : \A m \in 1 .. Len(s[i]) :
                   \E k \in 1 .. Len(f[n]) : f[n][k] = s[i][m]
           D == {n \in 1 .. len : ~ Good(n)}
<1> SUFFICES ASSUME D # {} PROVE FALSE
  BY DEF Collected
<1>1. PICK n \in D : \A m \in D : n <= m
  <2>1. D \subseteq Nat
    OBVIOUS
  <2> HIDE DEF D
  <2> QED
    BY <2>1, LeastNumber
<1>2. n \in 1 .. len /\ ~ Good(n)
  BY <1>1
<1>3. \A m \in 1 .. len : m < n => Good(m)
  <2> SUFFICES ASSUME NEW m \in 1 .. len, m < n, ~ Good(m) PROVE FALSE
    OBVIOUS
  <2> HIDE DEF Good
  <2>1. m \in D
    OBVIOUS
  <2> QED
    BY <1>1, <1>2, <2>1
<1> HIDE DEF D
<1>4. n # 1 => n - 1 \in 1 .. len /\ n - 1 < n
  BY <1>2
<1>5. n # 1 => Good(n - 1)
  BY <1>3, <1>4
<1>6. /\ f[n] \in Seq(S) /\ Len(f[n]) \in Nat
      /\ \A k \in 1 .. Len(f[n]) :
            \/ \E m \in 1 .. Len(s[n]) : f[n][k] = s[n][m]
            \/ n # 1 /\ k <= Len(f[n - 1]) /\ f[n][k] = f[n - 1][k]
      /\ \A m \in 1 .. Len(s[n]) : \E k \in 1 .. Len(f[n]) : f[n][k] = s[n][m]
      /\ n # 1 => /\ Len(f[n]) = Len(f[n - 1]) + Len(s[n])
                  /\ Len(f[n - 1]) \in Nat
                  /\ \A k \in 1 .. Len(f[n - 1]) : f[n][k] = f[n - 1][k]
  <2>1. n # 1 => f[n - 1] \in Seq(S)
    BY <1>5
  <2>2. n \in 1 .. len
    BY <1>2
  <2>3. Extended(S, s, f, n)
    BY <2>1, <2>2, FlatStep
  <2> QED
    BY <2>3 DEF Extended
<1>7. ASSUME NEW k \in 1 .. Len(f[n])
      PROVE  \E i \in 1 .. n : \E m \in 1 .. Len(s[i]) : f[n][k] = s[i][m]
  <2>1. CASE \E m \in 1 .. Len(s[n]) : f[n][k] = s[n][m]
    BY <1>2, <2>1
  <2>2. CASE n # 1 /\ k <= Len(f[n - 1]) /\ f[n][k] = f[n - 1][k]
    <3>1. k \in 1 .. Len(f[n - 1])
      BY <1>6, <2>2
    <3>2. PICK i \in 1 .. n - 1 : \E m \in 1 .. Len(s[i]) : f[n - 1][k] = s[i][m]
      BY <1>5, <2>2, <3>1
    <3>3. i \in 1 .. n
      BY <1>2
    <3> QED
      BY <2>2, <3>2, <3>3
  <2> QED
    BY <1>6, <2>1, <2>2
<1>8. ASSUME NEW i \in 1 .. n, NEW m \in 1 .. Len(s[i])
      PROVE  \E k \in 1 .. Len(f[n]) : f[n][k] = s[i][m]
  <2>1. CASE i = n
    BY <1>6, <2>1
  <2>2. CASE i # n
    <3>1. n # 1 /\ i \in 1 .. n - 1
      BY <1>2, <2>2
    <3>2. PICK k \in 1 .. Len(f[n - 1]) : f[n - 1][k] = s[i][m]
      BY <1>5, <3>1
    <3>3. k \in 1 .. Len(f[n]) /\ f[n][k] = f[n - 1][k]
      <4>1. s[n] \in Seq(S)
        BY <1>2
      <4>2. Len(s[n]) \in Nat
        BY <4>1, LenProperties
      <4>3. \A a, b \in Nat : \A j \in 1 .. a : j \in 1 .. a + b
        OBVIOUS
      <4>4. /\ Len(f[n - 1]) \in Nat /\ Len(f[n]) = Len(f[n - 1]) + Len(s[n])
            /\ \A j \in 1 .. Len(f[n - 1]) : f[n][j] = f[n - 1][j]
        BY <1>6, <3>1
      <4> HIDE DEF Good
      <4> QED
        BY <4>2, <4>3, <4>4
    <3> QED
      BY <3>2, <3>3
  <2> QED
    BY <2>1, <2>2
<1> QED
  BY <1>2, <1>6, <1>7, <1>8

(* FlattenSeq is the last value of the recursive function.                 *)
LEMMA Flattened ==
  ASSUME NEW s, NEW len \in Nat, len # 0, Len(s) = len
  PROVE  \E f : Flat(s, len, f) /\ FlattenSeq(s) = f[len]
<1> DEFINE g == CHOOSE f : f = [i \in 1 .. Len(s) |-> IF i = 1 THEN s[i] ELSE f[i - 1] \o s[i]]
<1>1. FlattenSeq(s) = g[Len(s)]
  BY DEF FlattenSeq
<1>2. \E f : f = [i \in 1 .. Len(s) |-> IF i = 1 THEN s[i] ELSE f[i - 1] \o s[i]]
  BY FlatExists, Zenon DEF Flat
<1>3. g = [i \in 1 .. Len(s) |-> IF i = 1 THEN s[i] ELSE g[i - 1] \o s[i]]
  BY <1>2, Zenon
<1> HIDE DEF g
<1>4. Flat(s, len, g)
  BY <1>3 DEF Flat
<1> QED
  BY <1>1, <1>4

(* FlattenSeq collects all the sequences.                                  *)
LEMMA FlattenedFacts ==
  ASSUME NEW S, NEW s, NEW len \in Nat, Len(s) = len, len # 0,
         \A i \in 1 .. len : s[i] \in Seq(S)
  PROVE  Collected(S, s, FlattenSeq(s), len)
<1>1. PICK f : Flat(s, len, f) /\ FlattenSeq(s) = f[len]
  BY Flattened
<1>2. len \in 1 .. len
  OBVIOUS
<1>3. \A n \in 1 .. len : Collected(S, s, f[n], n)
  BY <1>1, FlatFacts
<1> QED
  BY <1>1, <1>2, <1>3

(* The connections of each bucket are connections of the buckets.          *)
LEMMA Widened ==
  ASSUME NEW s, NEW len \in Nat, \A i \in 1 .. len : s[i] \in Seq({i})
  PROVE  \A i \in 1 .. len : s[i] \in Seq(1 .. len)
<1> TAKE i \in 1 .. len
<1>1. s[i] \in Seq({i}) /\ {i} \subseteq 1 .. len
  OBVIOUS
<1> QED
  BY <1>1, SeqMonotonic

(* The places of i in t are within a block as long as s[i].                *)
Block(s, t, i) ==
    \E a \in Nat : \A k \in 1 .. Len(t) : t[k] = i => a < k /\ k <= a + Len(s[i])

(* Block i of a concatenation of constant sequences.                       *)
LEMMA Blocks ==
  ASSUME NEW s, NEW len \in Nat, NEW f, Flat(s, len, f),
         \A i \in 1 .. len : s[i] \in Seq({i})
  PROVE  \A n \in 1 .. len : \A i \in 1 .. n : Block(s, f[n], i)
<1> DEFINE Good(n) ==
             \A i \in 1 .. n : \E a \in Nat :
                \A k \in 1 .. Len(f[n]) : f[n][k] = i => a < k /\ k <= a + Len(s[i])
           D == {n \in 1 .. len : ~ Good(n)}
<1> SUFFICES ASSUME D # {} PROVE FALSE
  BY DEF Block
<1>1. PICK n \in D : \A m \in D : n <= m
  <2>1. D \subseteq Nat
    OBVIOUS
  <2> HIDE DEF D
  <2> QED
    BY <2>1, LeastNumber
<1>2. n \in 1 .. len /\ ~ Good(n)
  BY <1>1
<1>3. \A m \in 1 .. len : m < n => Good(m)
  <2> SUFFICES ASSUME NEW m \in 1 .. len, m < n, ~ Good(m) PROVE FALSE
    OBVIOUS
  <2> HIDE DEF Good
  <2>1. m \in D
    OBVIOUS
  <2> QED
    BY <1>1, <1>2, <2>1
<1> HIDE DEF D
<1>4. n # 1 => n - 1 \in 1 .. len /\ n - 1 < n
  BY <1>2
<1>5. n # 1 => Good(n - 1)
  BY <1>3, <1>4
<1>6. \A i \in 1 .. len : s[i] \in Seq(1 .. len) /\ Len(s[i]) \in Nat
                           /\ \A m \in 1 .. Len(s[i]) : s[i][m] = i
  <2> TAKE i \in 1 .. len
  <2>1. s[i] \in Seq({i}) /\ {i} \subseteq 1 .. len
    OBVIOUS
  <2> QED
    BY <2>1, SeqMonotonic, LenProperties, ElementOfSeq
<1>7. \A m \in 1 .. len : /\ f[m] \in Seq(1 .. len) /\ Len(f[m]) \in Nat
                           /\ \A k \in 1 .. Len(f[m]) : f[m][k] \in 1 .. m
  <2>1. \A m \in 1 .. len :
            Collected(1 .. len, s, f[m], m)
    BY <1>6, FlatFacts
  <2>2. \A m \in 1 .. len : \A i \in 1 .. m : i \in 1 .. len
    OBVIOUS
  <2> TAKE m \in 1 .. len
  <2>3. \A k \in 1 .. Len(f[m]) :
            \E i \in 1 .. m : \E j \in 1 .. Len(s[i]) : f[m][k] = s[i][j]
    BY <2>1 DEF Collected
  <2>4. ASSUME NEW k \in 1 .. Len(f[m]) PROVE f[m][k] \in 1 .. m
    <3>1. PICK i \in 1 .. m : \E j \in 1 .. Len(s[i]) : f[m][k] = s[i][j]
      BY <2>3
    <3> QED
      BY <1>6, <2>2, <3>1
  <2>5. f[m] \in Seq(1 .. len) /\ Len(f[m]) \in Nat
    BY <2>1 DEF Collected
  <2> QED
    BY <2>4, <2>5
<1>8. Extended(1 .. len, s, f, n)
  <2>1. n # 1 => f[n - 1] \in Seq(1 .. len)
    BY <1>4, <1>7
  <2> QED
    BY <1>2, <1>6, <2>1, FlatStep
<1>9. CASE n = 1
  <2>1. f[n] = s[n] /\ \A k \in 1 .. Len(f[n]) : 0 < k /\ k <= 0 + Len(s[n])
    BY <1>2, <1>6, <1>8, <1>9 DEF Extended
  <2>2. \A i \in 1 .. n : i = n
    BY <1>9
  <2> QED
    BY <1>2, <2>1, <2>2
<1>10. CASE n # 1
  <2>1. /\ Len(f[n]) = Len(f[n - 1]) + Len(s[n]) /\ Len(f[n - 1]) \in Nat /\ Len(s[n]) \in Nat
        /\ \A k \in 1 .. Len(f[n - 1]) : f[n][k] = f[n - 1][k]
        /\ \A k \in 1 .. Len(f[n]) :
              \/ \E m \in 1 .. Len(s[n]) : f[n][k] = s[n][m]
              \/ k <= Len(f[n - 1]) /\ f[n][k] = f[n - 1][k]
    BY <1>2, <1>6, <1>8, <1>10 DEF Extended
  <2>2. ASSUME NEW k \in 1 .. Len(f[n]), f[n][k] = n
        PROVE  Len(f[n - 1]) < k /\ k <= Len(f[n - 1]) + Len(s[n])
    <3>1. ~ (k <= Len(f[n - 1]))
      <4> SUFFICES ASSUME k <= Len(f[n - 1]) PROVE FALSE
        OBVIOUS
      <4>0. k \in 1 .. Len(f[n - 1])
        BY <2>1
      <4>1. f[n - 1][k] \in 1 .. n - 1 /\ f[n - 1][k] = n
        BY <1>4, <1>7, <1>10, <2>1, <2>2, <4>0
      <4> QED
        BY <1>2, <4>1
    <3>2. \A a, b \in Nat : \A j \in 1 .. a + b : ~ (j <= a) => a < j /\ j <= a + b
      OBVIOUS
    <3>3. k \in 1 .. Len(f[n - 1]) + Len(s[n])
      BY <2>1
    <3> QED
      BY <2>1, <3>1, <3>2, <3>3
  <2>3. ASSUME NEW i \in 1 .. n - 1
        PROVE  \E a \in Nat :
                  \A k \in 1 .. Len(f[n]) : f[n][k] = i => a < k /\ k <= a + Len(s[i])
    <3>1. PICK a \in Nat : \A k \in 1 .. Len(f[n - 1]) :
                              f[n - 1][k] = i => a < k /\ k <= a + Len(s[i])
      BY <1>5, <1>10
    <3>2. ASSUME NEW k \in 1 .. Len(f[n]), f[n][k] = i
          PROVE  k \in 1 .. Len(f[n - 1]) /\ f[n - 1][k] = i
      <4>1. i # n
        BY <1>2
      <4>2. k <= Len(f[n - 1]) /\ f[n][k] = f[n - 1][k]
        BY <1>2, <1>6, <2>1, <3>2, <4>1
      <4> QED
        BY <2>1, <3>2, <4>2
    <3> QED
      BY <3>1, <3>2
  <2>4. \A i \in 1 .. n : i = n \/ i \in 1 .. n - 1
    BY <1>2
  <2> QED
    BY <1>2, <2>1, <2>2, <2>3, <2>4
<1> QED
  BY <1>9, <1>10

(* The places of i among the first n of F.                                 *)
Places(F, i, n) == {k \in 1 .. n : k <= Len(F) /\ F[k] = i}

(* A finite set of at most m elements.                                     *)
AtMost(K, m) == IsFiniteSet(K) /\ Cardinality(K) <= m

(* A value has at most the places its own sequence gives it.               *)
LEMMA BlockSize ==
  ASSUME NEW s, NEW len \in Nat, DOMAIN s = 1 .. len, Len(s) = len, len # 0,
         \A i \in 1 .. len : s[i] \in Seq({i}),
         NEW i \in 1 .. len, NEW n \in Nat
  PROVE  AtMost(Places(FlattenSeq(s), i, n), Len(s[i]))
<1> DEFINE F == FlattenSeq(s)
           K == {k \in 1 .. n : k <= Len(F) /\ F[k] = i}
<1>1. PICK f : Flat(s, len, f) /\ F = f[len]
  BY Flattened
<1>2. len \in 1 .. len
  OBVIOUS
<1>3. PICK a \in Nat : \A k \in 1 .. Len(f[len]) : f[len][k] = i => a < k /\ k <= a + Len(s[i])
  <2>1. \A m \in 1 .. len : \A j \in 1 .. m : Block(s, f[m], j)
    BY <1>1, Blocks, Zenon
  <2> QED
    BY <1>2, <2>1, Zenon DEF Block
<1>4. Len(s[i]) \in Nat
  <2>1. s[i] \in Seq({i})
    OBVIOUS
  <2> QED
    BY <2>1, LenProperties
<1>5. Len(F) \in Nat
  <2>1. \A j \in 1 .. len : s[j] \in Seq(1 .. len)
    BY Widened
  <2> QED
    BY <2>1, FlattenedFacts DEF Collected
<1>6. K \in SUBSET (a + 1 .. a + Len(s[i]))
  <2> HIDE DEF F
  <2>1. \A k \in K : k \in 1 .. Len(f[len]) /\ f[len][k] = i
    BY <1>1, <1>5
  <2>2. \A k \in K : k \in Nat /\ a < k /\ k <= a + Len(s[i])
    BY <1>3, <2>1
  <2> QED
    BY <1>4, <2>2
<1>7. /\ IsFiniteSet(a + 1 .. a + Len(s[i]))
      /\ Cardinality(a + 1 .. a + Len(s[i])) = Len(s[i])
  <2>1. /\ a + 1 \in Int /\ a + Len(s[i]) \in Int
        /\ (IF a + 1 > a + Len(s[i]) THEN 0 ELSE (a + Len(s[i])) - (a + 1) + 1) = Len(s[i])
    BY <1>4
  <2> HIDE DEF F, K
  <2> QED
    BY <2>1, FS_Interval
<1> HIDE DEF F, K
<1>8. IsFiniteSet(K) /\ Cardinality(K) <= Cardinality(a + 1 .. a + Len(s[i]))
  BY <1>6, <1>7, FS_Subset
<1> QED
  BY <1>7, <1>8 DEF F, K, Places, AtMost

-----------------------------------------------------------------------------
(* The inductive invariant. *)

(* The types of the keys, of a check and of the phase, and of all          *)
(* variables. They are weaker than TypeOK for warm, which TypeOK bounds by *)
(* minIdle.                                                                *)
RedisType ==
    [scripts : SUBSET Scripts, max : [IDs -> {Absent} \union Nat],
     count : [IDs -> {Absent} \union Nat], registered : BOOLEAN, counted : SUBSET IDs]

Results == {"healthy", "unhealthy"}

CheckType ==
    [pending : SUBSET Targets, components : SUBSET (Targets \X Results),
     report : {"none"} \union Results]

PhaseType ==
    Requests \union {"load", "check", "pools", "ping", "listen", "ready", "fatal"}

CleanUps == {"none", "found", "deleted"}

(* What was taken away: by a clean-up no more than the registration.       *)
Undone(u) ==
    /\ u \subseteq Requests \union {"slots"}
    /\ "slots" \notin u => u \subseteq {"register"}

Types ==
    /\ phase \in PhaseType /\ step \in Nat
    /\ checks \in [Callers -> CheckType]
    /\ warm \in [DOMAIN file.buckets -> Nat]
    /\ fallback \in BOOLEAN
    /\ redis \in RedisType
    /\ others \in [IDs -> 0 .. MaxOthers]
    /\ cleanup \in CleanUps /\ Undone(undone)
    /\ state \in [Targets -> States(1)] /\ state[0] \in States(0)
    /\ changes \in 0 .. MaxChanges

(* cfg is the file, or the file with its defaults; after the load it is    *)
(* the latter and valid.                                                   *)
Configured ==
    /\ file \in Files
    /\ cfg = file \/ cfg = ApplyDefaults(file)
    /\ phase \notin {"load", "fatal"} => cfg = ApplyDefaults(file) /\ Validate(file)

(* The places of bucket i among the first n openings.                      *)
Opened(i, n) == {k \in 1 .. n : k <= Len(Openings) /\ Openings[k] = i}

(* No connection before the pools; while they are filled no more than      *)
(* openings done; never more than minIdle.                                 *)
Warm ==
    /\ phase \in {"load", "check"} => \A i \in DOMAIN file.buckets : warm[i] = 0
    /\ phase = "pools" =>
          \A i \in DOMAIN file.buckets : warm[i] <= Cardinality(Opened(i, step))
    /\ \A i \in DOMAIN file.buckets : warm[i] \in {0} \union 1 .. cfg.buckets[i].minIdle

(* The components a check has for a target.                                *)
Of(check, t) == {component \in check.components : component[1] = t}

(* A target is pending or has one component, and a report means that none  *)
(* is pending and says what the components say.                            *)
Probed(check) ==
    /\ \A t \in Targets :
          IF t \in check.pending THEN Of(check, t) = {}
          ELSE \E result \in Results : Of(check, t) = {<<t, result>>}
    /\ check.report # "none" =>
          check.pending = {} /\ check.report = Overall(check.components)

(* Both callers; main goes on only with a report.                          *)
Checked ==
    /\ \A c \in Callers : checks[c] = NoCheck \/ Probed(checks[c])
    /\ phase = "load" => checks["main"] = NoCheck
    /\ phase \notin {"load", "check", "fatal"} => checks["main"].report # "none"

(* The commands of the four requests.                                      *)
CommandType ==
    {"SCRIPT LOAD"} \X Scripts \union {"SADD"} \X {0}
        \union {"SET max", "SETNX count", "HSETNX"} \X DOMAIN cfg.buckets

(* What a command leaves in Redis, unless the request it belongs to was    *)
(* undone.                                                                 *)
Effect(r, u, command) ==
    /\ command[1] = "SCRIPT LOAD" /\ command[2] = "acquire" /\ "acquire.lua" \notin u =>
          "acquire" \in r.scripts
    /\ command[1] = "SCRIPT LOAD" /\ command[2] = "release" /\ "release.lua" \notin u =>
          "release" \in r.scripts
    /\ command[1] = "SET max" /\ "limits" \notin u =>
          r.max[cfg.buckets[command[2]].id] # Absent
    /\ command[1] = "SETNX count" /\ "limits" \notin u =>
          r.count[cfg.buckets[command[2]].id] # Absent
    /\ command[1] = "SADD" /\ "register" \notin u => r.registered
    /\ command[1] = "HSETNX" /\ "register" \notin u =>
          cfg.buckets[command[2]].id \in r.counted

(* Every bucket has its limit and its counter.                             *)
Limited(r) == \A id \in IDs : r.max[id] # Absent /\ r.count[id] # Absent

(* The proxy listens and coordinates through Redis.                        *)
Coordinates == phase \in {"listen", "ready"} /\ ~fallback

(* The requests before the one at hand, and for a coordinating proxy all   *)
(* four, have their effects in Redis but for those in u.                   *)
Facts(r, u) ==
    /\ (phase \in {"release.lua", "limits", "register"} \/ Coordinates) /\ "acquire.lua" \notin u
          => "acquire" \in r.scripts
    /\ (phase \in {"limits", "register"} \/ Coordinates) /\ "release.lua" \notin u
          => "release" \in r.scripts
    /\ (phase = "register" \/ Coordinates) /\ "limits" \notin u => Limited(r)
    /\ Coordinates /\ "register" \notin u => r.registered /\ r.counted = IDs

(* So have the commands done of the request at hand.                       *)
Sent ==
    /\ phase \in Requests =>
          step < Len(Commands) /\ \A k \in 1 .. step : Effect(redis, undone, Commands[k])
    /\ Facts(redis, undone)

(* The inductive invariant.                                                *)
Inv == Types /\ Configured /\ Warm /\ Checked /\ CountSurvivesStart /\ Sent

-----------------------------------------------------------------------------
(* The configuration. *)

(* The numbers applyDefaults compares with zero.                           *)
LEMMA NumbersOf ==
  ASSUME NEW b \in BucketType
  PROVE  /\ b.minIdle \in Int /\ b.maxIdleTime \in Int
         /\ b.connectionTimeout \in Int /\ b.queueTimeout \in Int
BY Zenon DEF BucketType

(* The defaults of a bucket keep its type and its ID.                      *)
LEMMA BucketDefaultsFacts ==
  ASSUME NEW b \in BucketType, NEW p, p.queueTimeout \in Int
  PROVE  BucketWithDefaults(b, p) \in BucketType /\ BucketWithDefaults(b, p).id = b.id
<1>1. /\ OrElse(b.minIdle, BucketDefaults.minIdle) \in Int
      /\ OrElse(b.maxIdleTime, BucketDefaults.maxIdleTime) \in Int
      /\ OrElse(b.connectionTimeout, BucketDefaults.connectionTimeout) \in Int
      /\ OrElse(b.queueTimeout, p.queueTimeout) \in Int
  <2>1. /\ BucketDefaults.minIdle \in Int /\ BucketDefaults.maxIdleTime \in Int
        /\ BucketDefaults.connectionTimeout \in Int
    BY DEF BucketDefaults
  <2> QED
    BY <2>1, NumbersOf DEF OrElse
<1>2. BucketWithDefaults(b, p) \in BucketType
  BY <1>1, Zenon DEF BucketWithDefaults, BucketType
<1>3. BucketWithDefaults(b, p).id = b.id
  BY Zenon DEF BucketWithDefaults, BucketType
<1> QED
  BY <1>2, <1>3

(* applyDefaults keeps the type, the buckets and their IDs.                *)
LEMMA DefaultsFacts ==
  ASSUME NEW f \in ConfigType
  PROVE  /\ ApplyDefaults(f) \in ConfigType
         /\ Len(ApplyDefaults(f).buckets) = Len(f.buckets)
         /\ \A i \in 1 .. Len(f.buckets) : ApplyDefaults(f).buckets[i].id = f.buckets[i].id
<1> DEFINE p == ProxyWithDefaults(f.settings)
           q == BucketsWithDefaults(f.buckets, p)
<1>1. p \in [Settings -> Int] /\ p.queueTimeout \in Int
  <2>1. f.settings \in [Settings -> Int]
    BY DEF ConfigType
  <2>2. Defaults \in [Settings -> Int]
    BY DEF Defaults, Settings
  <2>3. p \in [Settings -> Int]
    BY <2>1, <2>2 DEF ProxyWithDefaults, OrElse
  <2>4. "queueTimeout" \in Settings
    BY DEF Settings
  <2> HIDE DEF p
  <2> QED
    BY <2>3, <2>4
<1> HIDE DEF p
<1>2. /\ f.buckets \in Seq(BucketType) /\ Len(f.buckets) \in Nat
      /\ DOMAIN f.buckets = 1 .. Len(f.buckets)
      /\ \A i \in 1 .. Len(f.buckets) : f.buckets[i] \in BucketType
  <2>1. f.buckets \in Seq(BucketType)
    BY DEF ConfigType
  <2> QED
    BY <2>1, LenProperties, ElementOfSeq
<1>3. \A b \in BucketType : /\ BucketWithDefaults(b, p) \in BucketType
                            /\ BucketWithDefaults(b, p).id = b.id
  BY <1>1, BucketDefaultsFacts
<1>4. /\ q \in Seq(BucketType) /\ Len(q) = Len(f.buckets)
      /\ \A i \in 1 .. Len(f.buckets) : q[i].id = f.buckets[i].id
  <2>1. q = [i \in 1 .. Len(f.buckets) |-> BucketWithDefaults(f.buckets[i], p)]
    BY <1>2 DEF BucketsWithDefaults
  <2> HIDE DEF q
  <2>2. \A i \in 1 .. Len(f.buckets) : q[i] \in BucketType /\ q[i].id = f.buckets[i].id
    BY <1>2, <1>3, <2>1
  <2>3. q \in [1 .. Len(f.buckets) -> BucketType]
    BY <2>1, <2>2
  <2> QED
    BY <1>2, <2>2, <2>3
<1>5. ApplyDefaults(f) = [f EXCEPT !.settings = p, !.buckets = q]
  BY DEF ApplyDefaults, p
<1> HIDE DEF q
<1> QED
  BY <1>1, <1>4, <1>5 DEF ConfigType

(* What the other lemmas need to know of the configuration.                *)
Known ==
    /\ Len(cfg.buckets) \in Nat /\ cfg.buckets \in Seq(BucketType)
    /\ DOMAIN cfg.buckets = 1 .. Len(cfg.buckets)
    /\ DOMAIN file.buckets = DOMAIN cfg.buckets /\ Len(file.buckets) = Len(cfg.buckets)
    /\ \A i \in DOMAIN cfg.buckets : cfg.buckets[i] \in BucketType /\ cfg.buckets[i].id \in IDs
    /\ \A id \in IDs : \E i \in DOMAIN cfg.buckets : cfg.buckets[i].id = id
    /\ phase \notin {"load", "fatal"} => Len(cfg.buckets) # 0

(* It follows from Configured: Load takes file or its defaults, and        *)
(* Validate refuses a file with no bucket.                                 *)
LEMMA ConfigFacts ==
  ASSUME Configured
  PROVE  Known
<1>1. file \in ConfigType
  BY StartupAssumption DEF Configured
<1>2. /\ file.buckets \in Seq(BucketType) /\ Len(file.buckets) \in Nat
      /\ DOMAIN file.buckets = 1 .. Len(file.buckets)
  <2>1. file.buckets \in Seq(BucketType)
    BY <1>1 DEF ConfigType
  <2> QED
    BY <2>1, LenProperties
<1>3. /\ cfg \in ConfigType /\ Len(cfg.buckets) = Len(file.buckets)
      /\ \A i \in 1 .. Len(file.buckets) : cfg.buckets[i].id = file.buckets[i].id
  BY <1>1, DefaultsFacts DEF Configured
<1>4. /\ cfg.buckets \in Seq(BucketType) /\ DOMAIN cfg.buckets = 1 .. Len(cfg.buckets)
      /\ \A i \in 1 .. Len(cfg.buckets) : cfg.buckets[i] \in BucketType
  <2>1. cfg.buckets \in Seq(BucketType)
    BY <1>3 DEF ConfigType
  <2> QED
    BY <2>1, LenProperties, ElementOfSeq
<1>5. phase \notin {"load", "fatal"} => Len(cfg.buckets) # 0
  <2> SUFFICES ASSUME phase \notin {"load", "fatal"} PROVE Len(cfg.buckets) # 0
    OBVIOUS
  <2>1. Validate(file)
    BY DEF Configured
  <2>2. file.buckets # <<>>
    BY ONLY <2>1, Zenon DEF Validate
  <2> QED
    BY <1>2, <1>3, <2>2, EmptySeq
<1> QED
  BY <1>2, <1>3, <1>4, <1>5 DEF Known, IDs

(* w is m times i, or empty.                                               *)
Repeats(w, i, m) ==
    w \in Seq({i}) /\ Len(w) \in Nat /\ (Len(w) = 0 \/ Len(w) = m)

(* A sequence of m times the same value: empty when m is not positive.     *)
LEMMA Constant ==
  ASSUME NEW i, NEW m \in Int
  PROVE  Repeats([k \in 1 .. m |-> i], i, m)
<1>1. CASE m \in Nat
  <2> DEFINE w == [k \in 1 .. m |-> i]
  <2>1. w \in [1 .. m -> {i}]
    OBVIOUS
  <2> HIDE DEF w
  <2>2. w \in Seq({i}) /\ Len(w) = m
    BY <1>1, <2>1
  <2>3. Repeats(w, i, m)
    BY <1>1, <2>2 DEF Repeats
  <2> QED
    BY <2>3 DEF w
<1>2. CASE m \notin Nat
  <2> DEFINE w == [k \in 1 .. m |-> i]
  <2>1. 1 .. m = 1 .. 0
    BY <1>2
  <2>2. w \in [1 .. 0 -> {i}]
    BY <2>1
  <2> HIDE DEF w
  <2>3. w \in Seq({i}) /\ Len(w) = 0
    BY <2>2
  <2>4. Repeats(w, i, m)
    BY <2>3 DEF Repeats
  <2> QED
    BY <2>4 DEF w
<1> QED
  BY <1>1, <1>2

(* K is finite and empty or at most m.                                     *)
FitsIn(K, m) ==
    /\ IsFiniteSet(K) /\ Cardinality(K) \in Nat
    /\ Cardinality(K) = 0 \/ Cardinality(K) <= m

(* The same, with quantifiers, for many sequences.                         *)
LEMMA Constants ==
  \A i, m, w : m \in Int /\ w = [k \in 1 .. m |-> i] => Repeats(w, i, m)
<1> TAKE i, m, w
<1> SUFFICES ASSUME m \in Int, w = [k \in 1 .. m |-> i] PROVE Repeats(w, i, m)
  OBVIOUS
<1>1. Repeats([k \in 1 .. m |-> i], i, m)
  BY Constant
<1> QED
  BY <1>1, Zenon

(* The concatenation of one constant sequence per bucket.                  *)
LEMMA WarmUps ==
  ASSUME NEW len \in Nat, len # 0, NEW idle, NEW s,
         DOMAIN s = 1 .. len, Len(s) = len, \A i \in 1 .. len : Repeats(s[i], i, idle[i])
  PROVE  /\ Collected(1 .. len, s, FlattenSeq(s), len)
         /\ \A i \in 1 .. len : \A n \in Nat : FitsIn(Places(FlattenSeq(s), i, n), idle[i])
<1>3. \A i \in 1 .. len : s[i] \in Seq({i})
  BY DEF Repeats
<1>4. Collected(1 .. len, s, FlattenSeq(s), len)
  <2>1. \A i \in 1 .. len : s[i] \in Seq(1 .. len)
    BY ONLY <1>3, Widened, len \in Nat
  <2> QED
    BY <2>1, FlattenedFacts
<1>5. ASSUME NEW i \in 1 .. len, NEW n \in Nat
      PROVE  FitsIn(Places(FlattenSeq(s), i, n), idle[i])
  <2> DEFINE K == Places(FlattenSeq(s), i, n)
             size == Cardinality(K)
             room == Len(s[i])
  <2>0. AtMost(Places(FlattenSeq(s), i, n), Len(s[i]))
    BY <1>3, BlockSize
  <2>1. IsFiniteSet(K) /\ size <= room
    BY ONLY <2>0 DEF AtMost
  <2>2. size \in Nat
    BY <2>1, FS_CardinalityType
  <2>3. room \in Nat /\ (room = 0 \/ room = idle[i])
    BY DEF Repeats
  <2> HIDE DEF size, room, K
  <2>4. size = 0 \/ size <= idle[i]
    BY <2>1, <2>2, <2>3
  <2> QED
    BY ONLY <2>1, <2>2, <2>4, Zenon DEF FitsIn, size, K
<1> QED
  BY ONLY <1>4, <1>5, Zenon

(* Openings is such a concatenation (pool.go, NewBucketPool opens MinIdle  *)
(* connections, one pool after the other).                                 *)
LEMMA OpeningsFacts ==
  ASSUME Known, phase \notin {"load", "fatal"}
  PROVE  /\ Len(Openings) \in Nat
         /\ \A k \in 1 .. Len(Openings) : Openings[k] \in DOMAIN cfg.buckets
         /\ \A i \in DOMAIN cfg.buckets : \A n \in Nat :
               FitsIn(Opened(i, n), cfg.buckets[i].minIdle)
<1> DEFINE len == Len(cfg.buckets)
           idle == [i \in 1 .. len |-> cfg.buckets[i].minIdle]
           s == [i \in DOMAIN cfg.buckets |-> WarmUp(i)]
<1>1. len \in Nat /\ len # 0 /\ DOMAIN cfg.buckets = 1 .. len
  BY DEF Known
<1>2. idle \in [1 .. len -> Int]
  BY <1>1 DEF Known, BucketType
<1>3. s = [i \in 1 .. len |-> [k \in 1 .. idle[i] |-> i]]
  BY <1>1 DEF WarmUp
<1>4. Openings = FlattenSeq(s)
  BY DEF Openings
<1>5. \A i \in 1 .. len : idle[i] = cfg.buckets[i].minIdle
  OBVIOUS
<1> HIDE DEF s, len, idle
<1>6. /\ Collected(1 .. len, s, Openings, len)
      /\ \A i \in 1 .. len : \A n \in Nat : FitsIn(Places(Openings, i, n), idle[i])
  <2>1. \A i \in 1 .. len : idle[i] \in Int /\ s[i] = [k \in 1 .. idle[i] |-> i]
    BY ONLY <1>2, <1>3
  <2>2. DOMAIN s = 1 .. len /\ Len(s) = len
    BY ONLY <1>1, <1>3
  <2>3. \A i \in 1 .. len : Repeats(s[i], i, idle[i])
    BY ONLY <2>1, Constants
  <2> QED
    BY ONLY <1>1, <1>4, <2>2, <2>3, WarmUps
<1>7. Openings \in Seq(1 .. len) /\ Len(Openings) \in Nat
  BY ONLY <1>6 DEF Collected
<1>8. \A k \in 1 .. Len(Openings) : Openings[k] \in 1 .. len
  BY ONLY <1>7, ElementOfSeq
<1>9. \A i \in 1 .. len : \A n \in Nat : FitsIn(Opened(i, n), cfg.buckets[i].minIdle)
  BY ONLY <1>5, <1>6 DEF Opened, Places
<1> QED
  BY ONLY <1>1, <1>7, <1>8, <1>9

-----------------------------------------------------------------------------
(* The requests to Redis. *)

(* The request at hand has the command.                                    *)
Asked(command) == \E k \in 1 .. Len(Commands) : Commands[k] = command

(* SCRIPT LOAD of each Lua script.                                         *)
LEMMA ScriptCommands ==
  ASSUME phase \in {"acquire.lua", "release.lua"}
  PROVE  /\ Len(Commands) \in Nat
         /\ \A k \in 1 .. Len(Commands) : Commands[k] \in CommandType
         /\ phase = "acquire.lua" => Asked(<<"SCRIPT LOAD", "acquire">>)
         /\ phase = "release.lua" => Asked(<<"SCRIPT LOAD", "release">>)
<1> DEFINE script == IF phase = "acquire.lua" THEN "acquire" ELSE "release"
<1>1. Commands = << <<"SCRIPT LOAD", script>> >>
  BY DEF Commands
<1>2. Len(Commands) = 1 /\ Commands[1] = <<"SCRIPT LOAD", script>>
  BY <1>1
<1>3. \A k \in 1 .. 1 : k = 1
  OBVIOUS
<1>4. 1 \in 1 .. 1
  OBVIOUS
<1>5. <<"SCRIPT LOAD", script>> \in CommandType
  BY DEF CommandType, Scripts
<1>6. Len(Commands) \in Nat /\ \A k \in 1 .. Len(Commands) : Commands[k] \in CommandType
  <2>1. Len(Commands) = 1
    BY <1>2
  <2>2. Len(Commands) \in Nat
    BY ONLY <2>1
  <2>3. ASSUME NEW k \in 1 .. Len(Commands) PROVE Commands[k] \in CommandType
    <3>1. k = 1
      BY <1>3, <2>1
    <3> QED
      BY <1>2, <1>5, <3>1
  <2> QED
    BY ONLY <2>2, <2>3
<1>7. Asked(<<"SCRIPT LOAD", script>>)
  <2> HIDE DEF script
  <2> QED
    BY ONLY <1>2, <1>4 DEF Asked
<1> QED
  BY <1>6, <1>7

(* A sequence of two.                                                      *)
LEMMA PairFacts ==
  ASSUME NEW S, NEW a \in S, NEW b \in S
  PROVE  /\ <<a, b>> \in Seq(S) /\ Len(<<a, b>>) = 2
         /\ <<a, b>>[1] = a /\ <<a, b>>[2] = b
OBVIOUS

(* A function on 1 .. len is a sequence.                                   *)
LEMMA LenOf ==
  ASSUME NEW S, NEW len \in Nat, NEW s \in [1 .. len -> S]
  PROVE  s \in Seq(S) /\ Len(s) = len
OBVIOUS

(* A SET and a SETNX for each bucket.                                      *)
LEMMA LimitCommands ==
  ASSUME Known, phase = "limits"
  PROVE  /\ Len(Commands) \in Nat
         /\ \A k \in 1 .. Len(Commands) : Commands[k] \in CommandType
         /\ \A i \in DOMAIN cfg.buckets :
               Asked(<<"SET max", i>>) /\ Asked(<<"SETNX count", i>>)
<1> DEFINE len == Len(cfg.buckets)
           s == [i \in DOMAIN cfg.buckets |-> << <<"SET max", i>>, <<"SETNX count", i>> >>]
<1>1. len \in Nat /\ len # 0 /\ DOMAIN cfg.buckets = 1 .. len
  BY DEF Known
<1>2. s = [i \in 1 .. len |-> << <<"SET max", i>>, <<"SETNX count", i>> >>]
  BY <1>1
<1>3. Commands = FlattenSeq(s)
  BY DEF Commands
<1> HIDE DEF s, len
<1>4. \A i \in 1 .. len : s[i] = << <<"SET max", i>>, <<"SETNX count", i>> >>
  BY <1>2
<1>5. ASSUME NEW i \in 1 .. len
      PROVE  /\ s[i] \in Seq(CommandType) /\ Len(s[i]) = 2
             /\ s[i][1] = <<"SET max", i>> /\ s[i][2] = <<"SETNX count", i>>
  <2> DEFINE a == <<"SET max", i>>
             b == <<"SETNX count", i>>
  <2>1. a \in CommandType /\ b \in CommandType
    BY <1>1 DEF CommandType
  <2>2. s[i] = <<a, b>>
    BY <1>4
  <2> HIDE DEF a, b
  <2>3. /\ <<a, b>> \in Seq(CommandType) /\ Len(<<a, b>>) = 2
        /\ <<a, b>>[1] = a /\ <<a, b>>[2] = b
    BY ONLY <2>1, PairFacts
  <2> QED
    BY ONLY <2>2, <2>3, Zenon DEF a, b
<1>a. Len(s) = len
  <2>1. \A i \in 1 .. len : s[i] \in Seq(CommandType)
    BY ONLY <1>5
  <2>2. s \in [1 .. len -> Seq(CommandType)]
    <3> DEFINE e(i) == << <<"SET max", i>>, <<"SETNX count", i>> >>
    <3>1. s = [i \in 1 .. len |-> e(i)] /\ \A i \in 1 .. len : s[i] = e(i)
      BY <1>2, <1>4
    <3> HIDE DEF e
    <3> QED
      BY ONLY <2>1, <3>1
  <2> QED
    BY ONLY <1>1, <2>2, LenOf
<1>6. Collected(CommandType, s, Commands, len)
  <2>1. \A i \in 1 .. len : s[i] \in Seq(CommandType)
    BY ONLY <1>5
  <2> QED
    BY ONLY <1>1, <1>3, <1>a, <2>1, FlattenedFacts
<1>7. Commands \in Seq(CommandType) /\ Len(Commands) \in Nat
  BY ONLY <1>6 DEF Collected
<1>8. \A k \in 1 .. Len(Commands) : Commands[k] \in CommandType
  BY ONLY <1>7, ElementOfSeq
<1>9. ASSUME NEW i \in 1 .. len
      PROVE  Asked(<<"SET max", i>>) /\ Asked(<<"SETNX count", i>>)
  <2>1. \A m \in 1 .. Len(s[i]) : \E k \in 1 .. Len(Commands) : Commands[k] = s[i][m]
    <3>1. i \in 1 .. len
      OBVIOUS
    <3> QED
      BY ONLY <1>1, <1>6, <3>1 DEF Collected
  <2>2. /\ Len(s[i]) = 2
        /\ s[i][1] = <<"SET max", i>> /\ s[i][2] = <<"SETNX count", i>>
    BY ONLY <1>5, i \in 1 .. len
  <2>3. 1 \in 1 .. 2 /\ 2 \in 1 .. 2
    OBVIOUS
  <2>4. /\ \E k \in 1 .. Len(Commands) : Commands[k] = s[i][1]
        /\ \E k \in 1 .. Len(Commands) : Commands[k] = s[i][2]
    BY ONLY <2>1, <2>2, <2>3
  <2> QED
    BY ONLY <2>2, <2>4 DEF Asked
<1> QED
  BY ONLY <1>1, <1>7, <1>8, <1>9

(* An SADD, and an HSETNX for each bucket.                                 *)
LEMMA RegisterCommands ==
  ASSUME Known, phase = "register"
  PROVE  /\ Len(Commands) \in Nat
         /\ \A k \in 1 .. Len(Commands) : Commands[k] \in CommandType
         /\ Asked(<<"SADD", 0>>)
         /\ \A i \in DOMAIN cfg.buckets : Asked(<<"HSETNX", i>>)
<1> DEFINE len == Len(cfg.buckets)
           s == << <<"SADD", 0>> >>
           t == [i \in DOMAIN cfg.buckets |-> <<"HSETNX", i>>]
<1>1. len \in Nat /\ DOMAIN cfg.buckets = 1 .. len
  BY DEF Known
<1>2. Commands = s \o t
  BY DEF Commands
<1>3. t = [i \in 1 .. len |-> <<"HSETNX", i>>]
  BY <1>1
<1> HIDE DEF t, len
<1>4. <<"SADD", 0>> \in CommandType
  BY DEF CommandType
<1>5. \A i \in 1 .. len : <<"HSETNX", i>> \in CommandType
  BY <1>1 DEF CommandType
<1>6. s \in Seq(CommandType) /\ Len(s) = 1 /\ s[1] = <<"SADD", 0>>
  BY <1>4
<1> HIDE DEF s
<1>7. t \in [1 .. len -> CommandType] /\ \A i \in 1 .. len : t[i] = <<"HSETNX", i>>
  BY ONLY <1>3, <1>5
<1>8. t \in Seq(CommandType) /\ Len(t) = len
  BY ONLY <1>1, <1>7
<1>9. /\ Commands \in Seq(CommandType) /\ Len(Commands) = 1 + len
      /\ \A k \in 1 .. 1 + len : Commands[k] = IF k <= 1 THEN s[k] ELSE t[k - 1]
  <2> DEFINE u == s \o t
  <2>1. /\ u \in Seq(CommandType) /\ Len(u) = Len(s) + Len(t)
        /\ \A k \in 1 .. Len(s) + Len(t) : u[k] = IF k <= Len(s) THEN s[k] ELSE t[k - Len(s)]
    BY ONLY <1>6, <1>8, ConcatProperties
  <2> HIDE DEF u
  <2> QED
    BY ONLY <1>2, <1>6, <1>8, <2>1 DEF u
<1>10. 1 \in 1 .. 1 + len /\ 1 <= 1
  BY ONLY <1>1
<1>11. Asked(<<"SADD", 0>>)
  BY ONLY <1>6, <1>9, <1>10 DEF Asked
<1>12. ASSUME NEW i \in 1 .. len PROVE Asked(<<"HSETNX", i>>)
  <2>1. i + 1 \in 1 .. 1 + len /\ ~ (i + 1 <= 1) /\ (i + 1) - 1 = i
    BY ONLY <1>1, i \in 1 .. len
  <2>2. Commands[i + 1] = t[i]
    BY ONLY <1>9, <2>1
  <2>3. t[i] = <<"HSETNX", i>>
    BY <1>7
  <2> QED
    BY ONLY <1>9, <2>1, <2>2, <2>3 DEF Asked
<1>13. \A k \in 1 .. Len(Commands) : Commands[k] \in CommandType
  BY ONLY <1>9, ElementOfSeq
<1>14. Len(Commands) \in Nat
  BY ONLY <1>1, <1>9
<1> QED
  BY ONLY <1>1, <1>11, <1>12, <1>13, <1>14

(* The commands of all four requests are commands.                         *)
LEMMA CommandsFacts ==
  ASSUME Known, phase \in Requests
  PROVE  Len(Commands) \in Nat /\ \A k \in 1 .. Len(Commands) : Commands[k] \in CommandType
<1>1. CASE phase \in {"acquire.lua", "release.lua"}
  BY <1>1, ScriptCommands, Zenon
<1>2. CASE phase = "limits"
  BY ONLY <1>2, Known, LimitCommands
<1>3. CASE phase = "register"
  BY ONLY <1>3, Known, RegisterCommands
<1> QED
  BY ONLY <1>1, <1>2, <1>3, phase \in Requests DEF Requests

(* No request is empty: a valid configuration has a bucket.                *)
LEMMA SomeCommand ==
  ASSUME Known, phase \in Requests
  PROVE  0 < Len(Commands)
<1>1. \E command : Asked(command)
  <2>1. phase = "limits" => \E i : i \in DOMAIN cfg.buckets
    <3>1. phase = "limits" => 1 \in 1 .. Len(cfg.buckets)
      BY DEF Known
    <3> QED
      BY <3>1 DEF Known
  <2> QED
    BY <2>1, ScriptCommands, LimitCommands, RegisterCommands DEF Requests
<1> QED
  BY <1>1, CommandsFacts DEF Asked

(* Nothing of this start is lost from r to s but what is in v.             *)
Keeps(r, u, s, v) ==
    /\ u \subseteq v
    /\ "acquire.lua" \notin v /\ "acquire" \in r.scripts => "acquire" \in s.scripts
    /\ "release.lua" \notin v /\ "release" \in r.scripts => "release" \in s.scripts
    /\ "register" \notin v /\ r.registered => s.registered
    /\ "register" \notin v => r.counted \subseteq s.counted
    /\ "limits" \notin v =>
          \A id \in IDs : /\ r.max[id] # Absent => s.max[id] # Absent
                          /\ r.count[id] # Absent => s.count[id] # Absent

(* An effect is not undone.                                                *)
LEMMA EffectKept ==
  ASSUME Known, NEW r, NEW u, NEW s, NEW v, Keeps(r, u, s, v),
         NEW command \in CommandType, Effect(r, u, command)
  PROVE  Effect(s, v, command)
<1>1. command[1] \in {"SET max", "SETNX count", "HSETNX"} =>
         cfg.buckets[command[2]].id \in IDs
  BY DEF Known, CommandType
<1> QED
  BY <1>1 DEF Effect, Keeps

(* An effect that needs no excuse.                                         *)
LEMMA EffectExcused ==
  ASSUME NEW r, NEW u, NEW command, Effect(r, {}, command)
  PROVE  Effect(r, u, command)
BY DEF Effect

(* The effect of the whole request at hand.                                *)
RequestEffect(r, u) ==
    /\ phase = "acquire.lua" /\ "acquire.lua" \notin u => "acquire" \in r.scripts
    /\ phase = "release.lua" /\ "release.lua" \notin u => "release" \in r.scripts
    /\ phase = "limits" /\ "limits" \notin u => Limited(r)
    /\ phase = "register" /\ "register" \notin u => r.registered /\ r.counted = IDs

(* It follows from the effects of all its commands.                        *)
LEMMA AllSent ==
  ASSUME Known, NEW r \in RedisType, NEW u, phase \in Requests,
         \A k \in 1 .. Len(Commands) : Effect(r, u, Commands[k])
  PROVE  RequestEffect(r, u)
<1>1. ASSUME NEW command, Asked(command) PROVE Effect(r, u, command)
  BY <1>1 DEF Asked
<1>2. /\ Effect(r, u, <<"SCRIPT LOAD", "acquire">>) /\ "acquire.lua" \notin u =>
            "acquire" \in r.scripts
      /\ Effect(r, u, <<"SCRIPT LOAD", "release">>) /\ "release.lua" \notin u =>
            "release" \in r.scripts
  BY DEF Effect
<1>3. CASE phase \in {"acquire.lua", "release.lua"}
  <2>1. /\ phase = "acquire.lua" => Asked(<<"SCRIPT LOAD", "acquire">>)
        /\ phase = "release.lua" => Asked(<<"SCRIPT LOAD", "release">>)
    BY ONLY <1>3, ScriptCommands
  <2> QED
    BY ONLY <1>1, <1>2, <1>3, <2>1 DEF RequestEffect
<1>4. CASE phase = "limits"
  <2>1. ASSUME NEW id \in IDs, "limits" \notin u PROVE r.max[id] # Absent /\ r.count[id] # Absent
    <3>1. PICK i \in DOMAIN cfg.buckets : cfg.buckets[i].id = id
      BY DEF Known
    <3>2. Effect(r, u, <<"SET max", i>>) /\ Effect(r, u, <<"SETNX count", i>>)
      BY <1>1, <1>4, LimitCommands
    <3> QED
      BY <2>1, <3>1, <3>2 DEF Effect
  <2>2. "limits" \notin u => Limited(r)
    BY <2>1 DEF Limited
  <2> QED
    BY <1>4, <2>2 DEF RequestEffect
<1>5. CASE phase = "register"
  <2>1. ASSUME NEW id \in IDs, "register" \notin u PROVE id \in r.counted
    <3>1. PICK i \in DOMAIN cfg.buckets : cfg.buckets[i].id = id
      BY DEF Known
    <3>2. Effect(r, u, <<"HSETNX", i>>)
      BY <1>1, <1>5, RegisterCommands
    <3> QED
      BY <2>1, <3>1, <3>2 DEF Effect
  <2>2. Effect(r, u, <<"SADD", 0>>)
    BY <1>1, <1>5, RegisterCommands
  <2>3. "register" \notin u => r.registered
    BY <2>2 DEF Effect
  <2>4. r.counted \subseteq IDs
    BY DEF RedisType
  <2> QED
    BY <1>5, <2>1, <2>3, <2>4 DEF RequestEffect
<1> QED
  BY <1>3, <1>4, <1>5 DEF RequestEffect, Requests

(* A command keeps the types and what was there, has its effect, and       *)
(* leaves the value of every counter alone.                                *)
LEMMA ExecutedFacts ==
  ASSUME Known, redis \in RedisType, NEW command \in CommandType, NEW u
  PROVE  /\ Executed(command) \in RedisType
         /\ Keeps(redis, u, Executed(command), u)
         /\ Effect(Executed(command), {}, command)
         /\ \A id \in IDs : Value(Executed(command).count[id]) = Value(redis.count[id])
<1> DEFINE E == Executed(command)
           b == cfg.buckets[command[2]]
<1>1. command[1] \in {"SET max", "SETNX count", "HSETNX"} => b.id \in IDs /\ b.max \in Nat
  BY DEF Known, CommandType, BucketType
<1>2. CASE command[1] = "SCRIPT LOAD"
  <2>1. Executed(command) = [redis EXCEPT !.scripts = @ \union {command[2]}]
    BY <1>2 DEF Executed
  <2>2. command[2] \in Scripts
    BY <1>2 DEF CommandType
  <2>3. E \in RedisType
    BY <2>1, <2>2 DEF RedisType
  <2>4. /\ E.scripts = redis.scripts \union {command[2]} /\ E.counted = redis.counted
        /\ E.registered = redis.registered /\ E.max = redis.max /\ E.count = redis.count
    BY <2>1 DEF RedisType
  <2> HIDE DEF E
  <2> QED
    BY <1>2, <2>3, <2>4 DEF Keeps, Effect, E
<1>3. CASE command[1] = "SADD"
  <2>1. Executed(command) = [redis EXCEPT !.registered = TRUE]
    BY <1>3 DEF Executed
  <2> QED
    BY <1>3, <2>1 DEF RedisType, Keeps, Effect
<1>4. CASE command[1] = "SET max"
  <2>1. Executed(command) = [redis EXCEPT !.max[b.id] = b.max]
    BY <1>4 DEF Executed
  <2>2. b.id \in IDs /\ b.max \in Nat
    BY <1>1, <1>4
  <2> HIDE DEF b
  <2>3. E \in RedisType
    BY <2>1, <2>2 DEF RedisType
  <2>4. /\ E.scripts = redis.scripts /\ E.counted = redis.counted
        /\ E.registered = redis.registered /\ E.max = [redis.max EXCEPT ![b.id] = b.max]
        /\ E.count = redis.count
    BY <2>1 DEF RedisType
  <2>5. redis.max \in [IDs -> {Absent} \union Nat] /\ b.max # Absent
    BY <2>2 DEF RedisType, Absent
  <2>6. /\ \A id \in IDs : redis.max[id] # Absent => E.max[id] # Absent
        /\ E.max[b.id] # Absent
    BY <2>2, <2>4, <2>5
  <2> HIDE DEF E
  <2> QED
    BY <1>4, <2>3, <2>4, <2>6, Zenon DEF Keeps, Effect, E, b
<1>5. CASE command[1] = "SETNX count"
  <2>1. Executed(command) = [redis EXCEPT !.count[b.id] = SetNX(@, 0)]
    BY <1>5 DEF Executed
  <2>2. b.id \in IDs
    BY <1>1, <1>5
  <2> HIDE DEF b
  <2>3. E = [redis EXCEPT !.count[b.id] = SetNX(redis.count[b.id], 0)]
    BY <2>1
  <2>4. redis.count \in [IDs -> {Absent} \union Nat]
    BY DEF RedisType
  <2>5. \A n \in {Absent} \union Nat :
            /\ SetNX(n, 0) \in Nat /\ SetNX(n, 0) # Absent /\ Value(SetNX(n, 0)) = Value(n)
    BY DEF SetNX, Value, Absent
  <2>6. SetNX(redis.count[b.id], 0) \in Nat
    BY <2>2, <2>4, <2>5
  <2>7. E \in RedisType
    <3> DEFINE n == SetNX(redis.count[b.id], 0)
    <3> HIDE DEF n
    <3>1. E = [redis EXCEPT !.count[b.id] = n] /\ n \in Nat
      BY <2>3, <2>6 DEF n
    <3> HIDE DEF E
    <3> QED
      BY <2>2, <3>1 DEF RedisType
  <2>8. /\ E.scripts = redis.scripts /\ E.counted = redis.counted
        /\ E.registered = redis.registered /\ E.max = redis.max
        /\ E.count = [redis.count EXCEPT ![b.id] = SetNX(redis.count[b.id], 0)]
    BY <2>3 DEF RedisType
  <2> HIDE DEF E
  <2>9. \A id \in IDs : E.count[id] = IF id = b.id THEN SetNX(redis.count[id], 0) ELSE redis.count[id]
    BY <2>4, <2>8
  <2>10. /\ \A id \in IDs : /\ redis.count[id] # Absent => E.count[id] # Absent
                            /\ Value(E.count[id]) = Value(redis.count[id])
         /\ E.count[b.id] # Absent
    <3>1. \A id \in IDs : redis.count[id] \in {Absent} \union Nat
      BY <2>4
    <3> QED
      BY <2>2, <2>5, <2>9, <3>1
  <2>11. Keeps(redis, u, E, u)
    BY ONLY <2>8, <2>10 DEF Keeps
  <2>12. Effect(E, {}, command)
    <3>1. cfg.buckets[command[2]].id = b.id
      BY DEF b
    <3> QED
      BY ONLY <1>5, <2>10, <3>1 DEF Effect
  <2>13. \A id \in IDs : Value(E.count[id]) = Value(redis.count[id])
    BY ONLY <2>10
  <2> QED
    BY <2>7, <2>11, <2>12, <2>13, Zenon DEF E
<1>6. CASE command[1] = "HSETNX"
  <2>1. Executed(command) = [redis EXCEPT !.counted = @ \union {b.id}]
    BY <1>6 DEF Executed
  <2> QED
    BY <1>1, <1>6, <2>1 DEF RedisType, Keeps, Effect
<1> QED
  BY <1>2, <1>3, <1>4, <1>5, <1>6 DEF CommandType

-----------------------------------------------------------------------------
(* The steps. *)

(* Redis without its data, and the clean-up of another instance.           *)
Disturbance ==
    DataLost \/ OtherFindsNoHeartbeat \/ OtherDeletesHash \/ OtherUnregisters

(* The actions of Next.                                                    *)
LEMMA NextCases ==
  ASSUME Next
  PROVE  \/ Load \/ AskEndpoint
         \/ \E c \in Callers : Report(c) \/ \E t \in Targets : Probe(c, t)
         \/ OpenWarm \/ PoolsReady \/ Ping \/ RedisRuns \/ ReplyLost
         \/ RequestFails \/ RequestAgain \/ Listen
         \/ \E t \in Targets : Change(t)
         \/ \E id \in IDs : OtherAcquires(id) \/ OtherReleases(id)
         \/ Disturbance
<1>1. "main" \in Callers /\ "endpoint" \in Callers
  BY DEF Callers
<1> QED
  BY <1>1, Zenon DEF Next, MainStep, Disturbance

(* A disturbance leaves main alone and takes away from Redis only what it  *)
(* says.                                                                   *)
LEMMA DisturbanceFacts ==
  ASSUME Types, Disturbance
  PROVE  /\ UNCHANGED <<mainVars, checks, file, others, state>>
         /\ redis' \in RedisType /\ changes' \in 0 .. MaxChanges
         /\ cleanup' \in CleanUps /\ Undone(undone')
         /\ Keeps(redis, undone, redis', undone')
         /\ \/ redis' = Empty /\ "slots" \in undone'
            \/ redis'.count = redis.count /\ ("slots" \in undone' <=> "slots" \in undone)
<1>u. redis \in RedisType /\ cleanup \in CleanUps /\ Undone(undone) /\ changes \in 0 .. MaxChanges
  BY DEF Types
<1>1. CASE DataLost
  <2>1. Empty \in RedisType
    BY DEF Empty, RedisType
  <2>2. changes < MaxChanges => changes + 1 \in 0 .. MaxChanges
    BY <1>u, StartupAssumption
  <2>3. Undone(Requests \union {"slots"}) /\ undone \subseteq Requests \union {"slots"}
    BY <1>u DEF Undone
  <2>4. Keeps(redis, undone, redis', undone')
    BY <1>1, <2>3 DEF DataLost, Keeps, Requests
  <2>5. /\ UNCHANGED <<mainVars, checks, file, others, cleanup, state>>
        /\ redis' = Empty /\ undone' = Requests \union {"slots"}
        /\ changes < MaxChanges /\ changes' = changes + 1
    BY <1>1, Zenon DEF DataLost
  <2>6. "slots" \in undone'
    BY <2>5
  <2> QED
    BY <1>u, <2>1, <2>2, <2>3, <2>4, <2>5, <2>6
<1>2. CASE OtherFindsNoHeartbeat
  BY <1>2, <1>u DEF OtherFindsNoHeartbeat, Keeps, CleanUps
<1>3. CASE OtherDeletesHash \/ OtherUnregisters
  <2>1. /\ UNCHANGED <<mainVars, checks, file, others, state, changes>>
        /\ undone' = undone \union {"register"} /\ cleanup' \in CleanUps
        /\ \/ redis' = [redis EXCEPT !.counted = {}]
           \/ redis' = [redis EXCEPT !.registered = FALSE]
    BY <1>3, Zenon DEF OtherDeletesHash, OtherUnregisters, CleanUps
  <2>2. /\ redis' \in RedisType /\ redis'.scripts = redis.scripts
        /\ redis'.max = redis.max /\ redis'.count = redis.count
    BY <1>u, <2>1 DEF RedisType
  <2>3. Undone(undone') /\ ("slots" \in undone' <=> "slots" \in undone)
    BY <1>u, <2>1 DEF Undone, Requests
  <2>4. Keeps(redis, undone, redis', undone')
    BY <2>1, <2>2 DEF Keeps
  <2> QED
    BY <1>u, <2>1, <2>2, <2>3, <2>4
<1> QED
  BY <1>1, <1>2, <1>3 DEF Disturbance

(* What the file decides stays.                                            *)
LEMMA FileFixed ==
  ASSUME file' = file
  PROVE  /\ IDs' = IDs /\ Targets' = Targets
         /\ RedisType' = RedisType /\ CheckType' = CheckType
BY DEF IDs, Targets, RedisType, CheckType

(* At first the types hold.                                                *)
LEMMA InitTypes ==
  ASSUME Init
  PROVE  Types
<1>1. /\ phase \in PhaseType /\ step \in Nat /\ fallback \in BOOLEAN
      /\ warm \in [DOMAIN file.buckets -> Nat]
      /\ others \in [IDs -> 0 .. MaxOthers]
  BY DEF Init, PhaseType
<1>2. changes \in 0 .. MaxChanges
  BY StartupAssumption DEF Init
<1>3. checks \in [Callers -> CheckType]
  <2>1. NoCheck \in CheckType
    BY DEF NoCheck, CheckType
  <2> QED
    BY <2>1 DEF Init
<1>4. Empty \in RedisType
  BY DEF Empty, RedisType
<1>5. Shared(others) \in RedisType
  <2>1. /\ [id \in IDs |-> MaxOthers] \in [IDs -> {Absent} \union Nat]
        /\ others \in [IDs -> {Absent} \union Nat]
    BY <1>1, StartupAssumption
  <2>2. Shared(others) = [Empty EXCEPT !.scripts = Scripts,
                            !.max = [id \in IDs |-> MaxOthers], !.count = others]
    BY DEF Shared
  <2>3. Scripts \in SUBSET Scripts
    OBVIOUS
  <2> QED
    BY <1>4, <2>1, <2>2, <2>3, Zenon DEF RedisType
<1>6. redis \in RedisType
  BY <1>4, <1>5 DEF Init
<1>7. state \in [Targets -> States(1)] /\ state[0] \in States(0)
  BY DEF Init
<1>8. cleanup \in CleanUps /\ Undone(undone)
  BY DEF Init, CleanUps, Undone
<1> QED
  BY <1>1, <1>2, <1>3, <1>6, <1>7, <1>8 DEF Types

(* At first the invariant holds.                                           *)
LEMMA InitInv ==
  ASSUME Init
  PROVE  Inv
<1>1. Types
  BY InitTypes
<1>2. Configured
  BY DEF Init, Configured
<1>3. Warm
  BY DEF Init, Warm
<1>4. Checked
  BY DEF Init, Checked, Callers
<1>5. CountSurvivesStart
  <2> SUFFICES ASSUME NEW id \in IDs PROVE Value(redis.count[id]) = others[id] /\ others[id] \in Nat
    BY DEF CountSurvivesStart
  <2>1. others[id] \in Nat
    BY <1>1 DEF Types
  <2>2. Shared(others).count = others
    BY Zenon DEF Shared, Empty
  <2>3. Empty.count[id] = Absent
    BY DEF Empty
  <2>4. CASE redis = Shared(others)
    BY <2>1, <2>2, <2>4 DEF Value, Absent
  <2>5. CASE redis = Empty /\ others = [i \in IDs |-> 0]
    BY <2>3, <2>5 DEF Value
  <2> QED
    BY <2>1, <2>4, <2>5 DEF Init
<1>6. Sent
  BY DEF Init, Sent, Facts, Requests, Coordinates
<1> QED
  BY <1>1, <1>2, <1>3, <1>4, <1>5, <1>6 DEF Inv

(* The file is fixed and the configuration changes only at the load.       *)
LEMMA ConfiguredStep ==
  ASSUME Types, Configured, Checked, Next
  PROVE  Configured' /\ file' = file /\ (Load \/ cfg' = cfg)
<1>1. CASE Load
  <2>1. /\ file' = file
        /\ \/ Validate(file) /\ cfg' = ApplyDefaults(file)
           \/ cfg' = cfg /\ phase' = "fatal"
    BY <1>1 DEF Load, Goto, envVars
  <2> QED
    BY <1>1, <2>1 DEF Configured
<1> DEFINE Kept == /\ file' = file /\ cfg' = cfg
                   /\ phase' \notin {"load", "fatal"} => phase \notin {"load", "fatal"}
<1>2. ASSUME Kept PROVE Configured'
  BY <1>2 DEF Configured
<1>3. CASE AskEndpoint
  BY <1>2, <1>3 DEF AskEndpoint, mainVars, envVars
<1>4. ASSUME NEW c \in Callers, Report(c) PROVE Kept
  <2>1. file' = file /\ cfg' = cfg /\ (c # "main" => phase' = phase)
    BY <1>4 DEF Report, envVars
  <2>2. c = "main" => phase \notin {"load", "fatal"}
    BY <1>4 DEF Report, AllProbed, Checked, NoCheck
  <2> QED
    BY <2>1, <2>2
<1>5. ASSUME NEW c \in Callers, NEW t \in Targets, Probe(c, t) PROVE Kept
  BY <1>5 DEF Probe, mainVars, envVars
<1>6. CASE OpenWarm
  BY <1>2, <1>6 DEF OpenWarm, envVars
<1>7. CASE PoolsReady
  BY <1>2, <1>7 DEF PoolsReady, Goto, envVars
<1>8. CASE Ping
  BY <1>2, <1>8 DEF Ping, Goto, envVars
<1>9. CASE RedisRuns
  BY <1>2, <1>9 DEF RedisRuns, Execute, Goto, envVars, Requests
<1>10. CASE ReplyLost
  BY <1>2, <1>10 DEF ReplyLost, Execute, Goto, AfterError, Requests
<1>11. CASE RequestFails
  BY <1>2, <1>11 DEF RequestFails, Goto, envVars, Requests
<1>12. CASE RequestAgain
  BY <1>2, <1>12 DEF RequestAgain, envVars
<1>13. CASE Listen
  BY <1>2, <1>13 DEF Listen, Goto, envVars
<1>14. ASSUME NEW t \in Targets, Change(t) PROVE Kept
  BY <1>14 DEF Change, mainVars
<1>15. ASSUME NEW id \in IDs, OtherAcquires(id) \/ OtherReleases(id) PROVE Kept
  BY <1>15 DEF OtherAcquires, OtherReleases, mainVars
<1>16. CASE Disturbance
  BY <1>2, <1>16, DisturbanceFacts DEF mainVars
<1> QED
  BY <1>1, <1>2, <1>3, <1>4, <1>5, <1>6, <1>7, <1>8, <1>9, <1>10, <1>11, <1>12,
     <1>13, <1>14, <1>15, <1>16, NextCases

(* What a probe does to the checks.                                        *)
ProbedNow(c, t, result) ==
    checks' = [checks EXCEPT ![c].pending = @ \ {t},
                             ![c].components = @ \union {<<t, result>>}]

(* The fields of a check after a probe.                                    *)
LEMMA ProbedCheck ==
  ASSUME NEW c \in Callers, checks \in [Callers -> CheckType],
         NEW t \in Targets, NEW result \in Results, ProbedNow(c, t, result)
  PROVE  /\ checks'[c] \in CheckType
         /\ checks'[c].pending = checks[c].pending \ {t}
         /\ checks'[c].components = checks[c].components \union {<<t, result>>}
         /\ checks'[c].report = checks[c].report
         /\ \A d \in Callers : d # c => checks'[d] = checks[d]
         /\ checks' \in [Callers -> CheckType]
<1> DEFINE p == checks[c].pending \ {t}
           q == checks[c].components \union {<<t, result>>}
           new == [checks[c] EXCEPT !.pending = p, !.components = q]
<1>1. checks[c] \in CheckType
  OBVIOUS
<1>2. p \in SUBSET Targets /\ q \in SUBSET (Targets \X Results)
  BY <1>1 DEF CheckType
<1>3. new \in CheckType /\ new.pending = p /\ new.components = q
      /\ new.report = checks[c].report
  <2> HIDE DEF p, q
  <2> QED
    BY <1>1, <1>2 DEF CheckType
<1>4. checks' = [checks EXCEPT ![c] = new]
  BY <1>1 DEF CheckType, ProbedNow
<1> HIDE DEF p, q, new
<1>5. checks'[c] = new /\ \A d \in Callers : d # c => checks'[d] = checks[d]
  BY <1>4
<1>6. checks' \in [Callers -> CheckType]
  BY <1>3, <1>4
<1> QED
  BY <1>3, <1>5, <1>6 DEF p, q

(* The counter after release.lua.                                          *)
Returned(n) == IF Value(n) = 0 THEN 0 ELSE n - 1

(* It is a number, and one less unless there was nothing to return.        *)
LEMMA ReturnedFacts ==
  ASSUME NEW n \in {Absent} \union Nat
  PROVE  /\ Returned(n) \in Nat /\ Returned(n) # Absent /\ Value(Returned(n)) = Returned(n)
         /\ Returned(n) = IF Value(n) = 0 THEN 0 ELSE Value(n) - 1
BY DEF Returned, Value, Absent

(* Types is preserved.                                                     *)
LEMMA TypesStep ==
  ASSUME Inv, Known, Next, file' = file
  PROVE  Types'
<1>u. /\ Types /\ CountSurvivesStart /\ IDs' = IDs /\ Targets' = Targets
      /\ RedisType' = RedisType /\ CheckType' = CheckType
  BY FileFixed DEF Inv
<1>a. /\ phase \in PhaseType /\ step \in Nat /\ checks \in [Callers -> CheckType]
      /\ warm \in [DOMAIN file.buckets -> Nat] /\ fallback \in BOOLEAN
      /\ redis \in RedisType /\ others \in [IDs -> 0 .. MaxOthers]
      /\ state \in [Targets -> States(1)] /\ state[0] \in States(0)
      /\ changes \in 0 .. MaxChanges /\ cleanup \in CleanUps /\ Undone(undone)
  BY <1>u DEF Types
<1>s. 0 \in Nat /\ step + 1 \in Nat
  BY <1>a
<1>c. changes < MaxChanges => changes + 1 \in 0 .. MaxChanges
  BY <1>a, StartupAssumption
<1>k. NoCheck \in CheckType /\ StartedCheck \in CheckType
  BY DEF NoCheck, StartedCheck, CheckType
<1>r. phase \in Requests => Executed(Commands[step + 1]) \in RedisType
  <2> SUFFICES ASSUME phase \in Requests PROVE Executed(Commands[step + 1]) \in RedisType
    OBVIOUS
  <2>1. step < Len(Commands) /\ Len(Commands) \in Nat
    BY CommandsFacts DEF Inv, Sent
  <2>2. \A n, m \in Nat : n < m => n + 1 \in 1 .. m
    OBVIOUS
  <2>3. Commands[step + 1] \in CommandType
    BY <1>a, <2>1, <2>2, CommandsFacts
  <2> QED
    BY <1>a, <2>3, ExecutedFacts
<1>w. Execute => redis' \in RedisType /\ Undone(undone')
  <2> SUFFICES ASSUME Execute PROVE redis' \in RedisType /\ Undone(undone')
    OBVIOUS
  <2>1. redis' \in RedisType
    BY <1>r, Zenon DEF Execute
  <2>2. undone' \subseteq undone /\ ("slots" \in undone => "slots" \in undone')
    BY DEF Execute, Requests
  <2>3. Undone(undone')
    BY <1>a, <2>2 DEF Undone
  <2> QED
    BY <2>1, <2>3
<1> DEFINE Main == phase' \in PhaseType /\ step' \in Nat /\ fallback' \in BOOLEAN
           Environment == /\ others' = others /\ state' = state /\ changes' = changes
                          /\ cleanup' = cleanup /\ undone' = undone
<1>t. ASSUME Main, checks' \in [Callers -> CheckType], warm' \in [DOMAIN file.buckets -> Nat],
             redis' \in RedisType, others' \in [IDs -> 0 .. MaxOthers],
             state' \in [Targets -> States(1)], state'[0] \in States(0),
             changes' \in 0 .. MaxChanges, cleanup' \in CleanUps, Undone(undone')
      PROVE  Types'
  BY <1>t, <1>u DEF Types, PhaseType, Requests, States, Undone
<1>1. CASE Load
  <2>1. Main /\ Environment /\ warm' = warm /\ redis' = redis
    BY <1>1, <1>a, <1>s DEF Load, Goto, envVars, PhaseType
  <2>2. checks' \in [Callers -> CheckType]
    <3>1. checks' = [checks EXCEPT !["main"] = StartedCheck] \/ checks' = checks
      BY <1>1 DEF Load
    <3> QED
      BY <1>a, <1>k, <3>1
  <2> QED
    BY <1>a, <1>t, <2>1, <2>2
<1>2. CASE AskEndpoint
  <2>1. Main /\ Environment /\ warm' = warm /\ redis' = redis
    BY <1>2, <1>a DEF AskEndpoint, mainVars, envVars
  <2>2. checks' = [checks EXCEPT !["endpoint"] = StartedCheck]
    BY <1>2 DEF AskEndpoint
  <2>3. checks' \in [Callers -> CheckType]
    BY <1>a, <1>k, <2>2
  <2> QED
    BY <1>a, <1>t, <2>1, <2>3
<1>3. ASSUME NEW c \in Callers, Report(c) PROVE Types'
  <2>1. Environment /\ warm' = warm /\ redis' = redis /\ fallback' = fallback
    BY <1>3 DEF Report, envVars
  <2>2. phase' \in PhaseType /\ step' \in Nat
    BY <1>3, <1>a, <1>s DEF Report, Goto, PhaseType
  <2>3. checks' = [checks EXCEPT ![c].report = Overall(checks[c].components)]
    BY <1>3 DEF Report
  <2>4. Overall(checks[c].components) \in Results
    BY DEF Overall, Results
  <2>5. checks' \in [Callers -> CheckType]
    BY <1>a, <2>3, <2>4 DEF CheckType
  <2> QED
    BY <1>a, <1>t, <2>1, <2>2, <2>5
<1>4. ASSUME NEW c \in Callers, NEW t \in Targets, Probe(c, t) PROVE Types'
  <2>1. Main /\ Environment /\ warm' = warm /\ redis' = redis
    BY <1>4, <1>a DEF Probe, mainVars, envVars
  <2>2. PICK result \in Results : ProbedNow(c, t, result)
    BY <1>4 DEF Probe, Results, ProbedNow
  <2>3. checks' \in [Callers -> CheckType]
    BY <1>a, <2>2, ProbedCheck
  <2> QED
    BY <1>a, <1>t, <2>1, <2>3
<1>5. CASE OpenWarm
  <2>1. Main /\ Environment /\ checks' = checks /\ redis' = redis
    BY <1>5, <1>a, <1>s DEF OpenWarm, envVars
  <2>2. warm' = warm \/ \E i \in DOMAIN file.buckets : warm' = [warm EXCEPT ![i] = @ + 1]
    <3>1. step + 1 \in 1 .. Len(Openings)
      <4>1. step < Len(Openings) /\ Len(Openings) \in Nat
        BY <1>5, OpeningsFacts DEF OpenWarm
      <4>2. \A n, m \in Nat : n < m => n + 1 \in 1 .. m
        OBVIOUS
      <4> QED
        BY <1>a, <4>1, <4>2
    <3>2. Openings[step + 1] \in DOMAIN file.buckets
      BY <1>5, <3>1, OpeningsFacts DEF OpenWarm, Known
    <3> QED
      BY <1>5, <3>2 DEF OpenWarm
  <2>3. warm' \in [DOMAIN file.buckets -> Nat]
    BY <1>a, <2>2
  <2> QED
    BY <1>a, <1>t, <2>1, <2>3
<1>6. CASE PoolsReady
  <2>1. Main /\ Environment /\ checks' = checks /\ warm' = warm /\ redis' = redis
    BY <1>6, <1>a, <1>s DEF PoolsReady, Goto, envVars, PhaseType
  <2> QED
    BY <1>a, <1>t, <2>1
<1>7. CASE Ping
  <2>1. Main /\ Environment /\ checks' = checks /\ warm' = warm /\ redis' = redis
    BY <1>7, <1>a, <1>s DEF Ping, Goto, envVars, PhaseType, Requests
  <2> QED
    BY <1>a, <1>t, <2>1
<1>8. CASE RedisRuns
  <2>1. After(phase) \in PhaseType
    BY <1>8 DEF RedisRuns, Execute, Requests, After, PhaseType
  <2>2. /\ Main /\ others' = others /\ state' = state /\ changes' = changes
        /\ cleanup' = cleanup /\ checks' = checks /\ warm' = warm
    BY <1>8, <1>a, <1>s, <2>1 DEF RedisRuns, Goto, envVars
  <2>3. redis' \in RedisType /\ Undone(undone')
    BY <1>8, <1>r, <1>w DEF RedisRuns
  <2> QED
    BY <1>a, <1>t, <2>2, <2>3
<1>9. CASE ReplyLost
  <2>1. /\ Main /\ others' = others /\ state' = state /\ cleanup' = cleanup
        /\ checks' = checks /\ warm' = warm
    BY <1>9, <1>a, <1>s DEF ReplyLost, Execute, Goto, AfterError, PhaseType
  <2>2. redis' \in RedisType /\ Undone(undone')
    BY <1>9, <1>w DEF ReplyLost
  <2>3. changes' \in 0 .. MaxChanges
    BY <1>9, <1>c DEF ReplyLost
  <2> QED
    BY <1>a, <1>t, <2>1, <2>2, <2>3
<1>10. CASE RequestFails
  <2>1. Main /\ Environment /\ checks' = checks /\ warm' = warm /\ redis' = redis
    BY <1>10, <1>a, <1>s DEF RequestFails, Goto, AfterError, envVars, PhaseType
  <2> QED
    BY <1>a, <1>t, <2>1
<1>11. CASE RequestAgain
  <2>1. Main /\ Environment /\ checks' = checks /\ warm' = warm /\ redis' = redis
    BY <1>11, <1>a, <1>s DEF RequestAgain, envVars
  <2> QED
    BY <1>a, <1>t, <2>1
<1>12. CASE Listen
  <2>1. Main /\ Environment /\ checks' = checks /\ warm' = warm /\ redis' = redis
    BY <1>12, <1>a, <1>s DEF Listen, Goto, envVars, PhaseType
  <2> QED
    BY <1>a, <1>t, <2>1
<1>13. ASSUME NEW t \in Targets, Change(t) PROVE Types'
  <2>1. /\ Main /\ others' = others /\ checks' = checks /\ warm' = warm /\ redis' = redis
        /\ cleanup' = cleanup /\ undone' = undone
    BY <1>13, <1>a DEF Change, mainVars
  <2>2. changes' \in 0 .. MaxChanges
    BY <1>13, <1>c DEF Change
  <2>3. PICK v \in States(t) : state' = [state EXCEPT ![t] = v]
    BY <1>13 DEF Change
  <2>4. v \in States(1) /\ (t = 0 => v \in States(0))
    BY DEF States
  <2>5. state' \in [Targets -> States(1)] /\ state'[0] \in States(0)
    <3>1. 0 \in Targets
      BY DEF Known, Targets
    <3> QED
      BY <1>a, <2>3, <2>4, <3>1
  <2> QED
    BY <1>a, <1>t, <2>1, <2>2, <2>5
<1>14. ASSUME NEW id \in IDs, OtherAcquires(id) PROVE Types'
  <2>1. /\ Main /\ state' = state /\ changes' = changes /\ checks' = checks /\ warm' = warm
        /\ cleanup' = cleanup /\ undone' = undone
    BY <1>14, <1>a DEF OtherAcquires, mainVars
  <2>2. /\ others' = [others EXCEPT ![id] = others[id] + 1] /\ others[id] < MaxOthers
        /\ redis' = [redis EXCEPT !.count[id] = Value(redis.count[id]) + 1]
    BY <1>14 DEF OtherAcquires
  <2>3. others[id] \in 0 .. MaxOthers /\ Value(redis.count[id]) \in Nat
    BY <1>a DEF RedisType, Value, Absent
  <2>4. \A n \in 0 .. MaxOthers : n < MaxOthers => n + 1 \in 0 .. MaxOthers /\ n + 1 \in Nat
    BY StartupAssumption
  <2>5. others' \in [IDs -> 0 .. MaxOthers]
    BY <1>a, <2>2, <2>3, <2>4
  <2> DEFINE n == Value(redis.count[id]) + 1
  <2>6. n \in Nat
    BY <2>2, <2>3, <2>4
  <2> HIDE DEF n
  <2>7. redis' = [redis EXCEPT !.count[id] = n]
    BY <2>2 DEF n
  <2>8. redis' \in RedisType
    BY <1>a, <2>6, <2>7 DEF RedisType
  <2> QED
    BY <1>a, <1>t, <2>1, <2>5, <2>8
<1>15. ASSUME NEW id \in IDs, OtherReleases(id) PROVE Types'
  <2>1. /\ Main /\ state' = state /\ changes' = changes /\ checks' = checks /\ warm' = warm
        /\ cleanup' = cleanup /\ undone' = undone
    BY <1>15, <1>a DEF OtherReleases, mainVars
  <2>2. /\ others' = [others EXCEPT ![id] = others[id] - 1] /\ others[id] > 0
        /\ redis' = [redis EXCEPT !.count[id] = Returned(redis.count[id])]
    BY <1>15 DEF OtherReleases, Returned
  <2>3. others[id] \in 0 .. MaxOthers /\ redis.count[id] \in {Absent} \union Nat
    BY <1>a DEF RedisType
  <2>4. \A n \in 0 .. MaxOthers : n > 0 => n - 1 \in 0 .. MaxOthers /\ n - 1 \in Nat
    BY StartupAssumption
  <2>5. others' \in [IDs -> 0 .. MaxOthers]
    BY <1>a, <2>2, <2>3, <2>4
  <2> DEFINE n == Returned(redis.count[id])
  <2>6. n \in Nat
    BY <2>3, ReturnedFacts
  <2> HIDE DEF n
  <2>7. redis' = [redis EXCEPT !.count[id] = n]
    BY <2>2 DEF n
  <2>8. redis' \in RedisType
    BY <1>a, <2>6, <2>7 DEF RedisType
  <2> QED
    BY <1>a, <1>t, <2>1, <2>5, <2>8
<1>16. CASE Disturbance
  <2>1. UNCHANGED <<mainVars, checks, others, state>>
    BY <1>16, <1>u, DisturbanceFacts
  <2>2. Main /\ checks' = checks /\ warm' = warm /\ others' = others /\ state' = state
    BY <1>a, <2>1 DEF mainVars
  <2> QED
    BY <1>16, <1>a, <1>t, <1>u, <2>2, DisturbanceFacts
<1> QED
  BY <1>1, <1>2, <1>3, <1>4, <1>5, <1>6, <1>7, <1>8, <1>9, <1>10, <1>11, <1>12,
     <1>13, <1>14, <1>15, <1>16, NextCases

(* The places of a bucket change with step only.                           *)
LEMMA OpenedFixed ==
  ASSUME cfg' = cfg, NEW i
  PROVE  (Opened(i, step))' = Opened(i, step')
<1>1. Openings' = Openings
  BY DEF Openings, WarmUp
<1> QED
  BY <1>1 DEF Opened

(* One more opening is one more place of its bucket and of no other.       *)
LEMMA OpenedNext ==
  ASSUME NEW i, NEW n \in Nat, IsFiniteSet(Opened(i, n)), Cardinality(Opened(i, n)) \in Nat
  PROVE  /\ n + 1 <= Len(Openings) /\ Openings[n + 1] = i =>
               Cardinality(Opened(i, n + 1)) = Cardinality(Opened(i, n)) + 1
         /\ ~ (n + 1 <= Len(Openings) /\ Openings[n + 1] = i) =>
               Opened(i, n + 1) = Opened(i, n)
<1>1. n + 1 \notin Opened(i, n)
  <2>1. n + 1 \notin 1 .. n
    OBVIOUS
  <2> QED
    BY <2>1 DEF Opened
<1>2. \A k : k \in 1 .. n + 1 <=> k \in 1 .. n \/ k = n + 1
  OBVIOUS
<1>3. CASE n + 1 <= Len(Openings) /\ Openings[n + 1] = i
  <2>1. Opened(i, n + 1) = Opened(i, n) \union {n + 1}
    BY <1>2, <1>3 DEF Opened
  <2> QED
    BY <1>1, <1>3, <2>1, FS_AddElement
<1>4. CASE ~ (n + 1 <= Len(Openings) /\ Openings[n + 1] = i)
  <2>1. Opened(i, n + 1) = Opened(i, n)
    BY <1>2, <1>4 DEF Opened
  <2> QED
    BY <1>4, <2>1
<1> QED
  BY <1>3, <1>4

(* Warm is preserved: what is opened is counted.                           *)
LEMMA WarmStep ==
  ASSUME Inv, Known, Next, file' = file, Load \/ cfg' = cfg
  PROVE  Warm'
<1>u. Types /\ Warm /\ Checked
  BY DEF Inv
<1> DEFINE Same == /\ warm' = warm /\ cfg' = cfg
                   /\ phase' \in {"load", "check"} => phase \in {"load", "check"}
                   /\ phase' = "pools" => phase = "pools" /\ step' = step
<1>f. ASSUME Same PROVE Warm'
  <2>1. \A i : phase' = "pools" => (Opened(i, step))' = Opened(i, step)
    BY <1>f, OpenedFixed
  <2> QED
    BY <1>f, <1>u, <2>1 DEF Warm
<1>1. CASE Load
  <2>1. warm' = warm /\ phase = "load" /\ phase' # "pools"
    BY <1>1 DEF Load, Goto
  <2> QED
    BY <1>u, <2>1 DEF Warm
<1>2. CASE AskEndpoint
  BY <1>2, <1>f DEF AskEndpoint, mainVars
<1>3. ASSUME NEW c \in Callers, Report(c) PROVE Warm'
  <2>1. CASE c # "main"
    BY <1>3, <1>f, <2>1 DEF Report, AskEndpoint
  <2>2. CASE c = "main"
    <3>1. warm' = warm /\ cfg' = cfg /\ phase' = "pools" /\ step' = 0
      BY <1>3, <2>2 DEF Report, Goto
    <3>2. phase = "check"
      BY <1>3, <1>u, <2>2 DEF Report, Checked, AllProbed, NoCheck
    <3>3. \A i \in DOMAIN file.buckets : warm[i] = 0
      BY <1>u, <3>2 DEF Warm
    <3>4. ASSUME NEW i \in DOMAIN file.buckets PROVE 0 <= Cardinality(Opened(i, 0))
      <4>1. FitsIn(Opened(i, 0), cfg.buckets[i].minIdle)
        BY <3>2, OpeningsFacts DEF Known
      <4> QED
        BY ONLY <4>1 DEF FitsIn
    <3>5. \A i : (Opened(i, step))' = Opened(i, 0)
      BY <3>1, OpenedFixed
    <3> QED
      BY <3>1, <3>3, <3>4, <3>5 DEF Warm
  <2> QED
    BY <2>1, <2>2
<1>4. ASSUME NEW c \in Callers, NEW t \in Targets, Probe(c, t) PROVE Warm'
  BY <1>4, <1>f DEF Probe, mainVars
<1>5. CASE OpenWarm
  <2>1. /\ phase = "pools" /\ phase' = "pools" /\ step' = step + 1 /\ cfg' = cfg
        /\ step < Len(Openings)
        /\ \/ warm' = warm
           \/ warm' = [warm EXCEPT ![Openings[step + 1]] = @ + 1]
    BY <1>5 DEF OpenWarm
  <2>2. step \in Nat /\ warm \in [DOMAIN file.buckets -> Nat]
    BY <1>u DEF Types
  <2>3. ASSUME NEW i \in DOMAIN file.buckets
        PROVE  /\ warm'[i] <= Cardinality(Opened(i, step + 1))
               /\ warm'[i] \in {0} \union 1 .. cfg.buckets[i].minIdle
    <3> DEFINE idle == cfg.buckets[i].minIdle
               n == Cardinality(Opened(i, step))
               m == Cardinality(Opened(i, step + 1))
    <3>1. FitsIn(Opened(i, step), idle) /\ FitsIn(Opened(i, step + 1), idle)
      BY <2>1, <2>2, OpeningsFacts DEF Known
    <3>2. /\ IsFiniteSet(Opened(i, step)) /\ n \in Nat /\ m \in Nat
          /\ m = 0 \/ m <= idle
      BY ONLY <3>1 DEF FitsIn
    <3>3. warm[i] \in Nat /\ warm[i] <= n /\ warm[i] \in {0} \union 1 .. idle
      BY <1>u, <2>1, <2>2 DEF Warm
    <3>4. idle \in Int
      BY DEF Known, BucketType
    <3>5. /\ step + 1 <= Len(Openings) /\ Openings[step + 1] = i => m = n + 1
          /\ ~ (step + 1 <= Len(Openings) /\ Openings[step + 1] = i) => m = n
      BY <2>2, <3>2, OpenedNext
    <3>6. step + 1 <= Len(Openings)
      <4>1. Len(Openings) \in Nat
        BY <2>1, OpeningsFacts
      <4> QED
        BY <2>1, <2>2, <4>1
    <3>7. \/ warm'[i] = warm[i]
          \/ Openings[step + 1] = i /\ warm'[i] = warm[i] + 1
      BY <2>1, <2>2
    <3> HIDE DEF n, m, idle
    <3>8. \A w, a, b \in Nat : \A j \in Int :
             (w <= a /\ b = a + 1 /\ (b = 0 \/ b <= j))
                => w + 1 <= b /\ w <= b /\ w + 1 \in 1 .. j
      OBVIOUS
    <3>9. CASE Openings[step + 1] = i
      <4>1. m = n + 1
        BY <3>5, <3>6, <3>9
      <4>2. warm[i] + 1 <= m /\ warm[i] <= m /\ warm[i] + 1 \in 1 .. idle
        BY ONLY <3>2, <3>3, <3>4, <3>8, <4>1
      <4> QED
        BY <3>3, <3>7, <4>2 DEF m, idle
    <3>10. CASE Openings[step + 1] # i
      <4>1. m = n /\ warm'[i] = warm[i]
        BY <3>5, <3>7, <3>10
      <4> QED
        BY <3>3, <4>1 DEF m, idle
    <3> QED
      BY <3>9, <3>10
  <2>4. \A i : (Opened(i, step))' = Opened(i, step + 1)
    BY <2>1, OpenedFixed
  <2> QED
    BY <2>1, <2>3, <2>4 DEF Warm
<1>6. CASE PoolsReady
  BY <1>6, <1>f DEF PoolsReady, Goto
<1>7. CASE Ping
  BY <1>7, <1>f DEF Ping, Goto
<1>8. CASE RedisRuns
  <2>1. After(phase) \notin {"load", "check", "pools"}
    BY <1>8 DEF RedisRuns, Execute, Requests, After
  <2> QED
    BY <1>8, <1>f, <2>1 DEF RedisRuns, Execute, Requests, Goto
<1>9. CASE ReplyLost
  BY <1>9, <1>f DEF ReplyLost, Execute, Requests, Goto, AfterError
<1>10. CASE RequestFails
  BY <1>10, <1>f DEF RequestFails, Goto, AfterError
<1>11. CASE RequestAgain
  BY <1>11, <1>f DEF RequestAgain, Requests
<1>12. CASE Listen
  BY <1>12, <1>f DEF Listen, Goto
<1>13. ASSUME NEW t \in Targets, Change(t) PROVE Warm'
  BY <1>13, <1>f DEF Change, mainVars
<1>14. ASSUME NEW id \in IDs, OtherAcquires(id) \/ OtherReleases(id) PROVE Warm'
  BY <1>14, <1>f DEF OtherAcquires, OtherReleases, mainVars
<1>15. CASE Disturbance
  BY <1>15, <1>f, <1>u, DisturbanceFacts DEF mainVars
<1> QED
  BY <1>1, <1>2, <1>3, <1>4, <1>5, <1>6, <1>7, <1>8, <1>9, <1>10, <1>11, <1>12,
     <1>13, <1>14, <1>15, NextCases

(* A check starts with every target pending.                               *)
LEMMA StartedProbed == Probed(StartedCheck)
<1>1. /\ StartedCheck.pending = Targets /\ StartedCheck.components = {}
      /\ StartedCheck.report = "none"
  BY DEF StartedCheck, NoCheck
<1> QED
  BY <1>1 DEF Probed, Of

(* A probe turns a pending target into a component.                        *)
LEMMA ProbeProbed ==
  ASSUME NEW old, NEW new, Probed(old), NEW t \in Targets, NEW result \in Results,
         t \in old.pending, new.pending = old.pending \ {t},
         new.components = old.components \union {<<t, result>>}, new.report = old.report
  PROVE  Probed(new)
<1>1. ASSUME NEW v \in Targets
      PROVE  IF v \in new.pending THEN Of(new, v) = {}
             ELSE \E r \in Results : Of(new, v) = {<<v, r>>}
  <2>1. IF v \in old.pending THEN Of(old, v) = {}
        ELSE \E r \in Results : Of(old, v) = {<<v, r>>}
    BY DEF Probed
  <2>2. CASE v = t
    <3>1. Of(old, v) = {}
      BY <2>1, <2>2
    <3>2. Of(new, v) = {<<v, result>>}
      BY <2>2, <3>1 DEF Of
    <3> QED
      BY <2>2, <3>2
  <2>3. CASE v # t
    <3>1. Of(new, v) = Of(old, v)
      BY <2>3 DEF Of
    <3>2. v \in new.pending <=> v \in old.pending
      BY <2>3
    <3> QED
      BY <2>1, <3>1, <3>2
  <2> QED
    BY <2>2, <2>3
<1>2. new.report = "none"
  BY DEF Probed
<1> QED
  BY <1>1, <1>2 DEF Probed

(* A report is made of what the check found.                               *)
LEMMA ReportProbed ==
  ASSUME NEW old \in CheckType, Probed(old), old.pending = {}
  PROVE  Probed([old EXCEPT !.report = Overall(old.components)])
<1> DEFINE new == [old EXCEPT !.report = Overall(old.components)]
<1>1. /\ new.pending = {} /\ new.components = old.components
      /\ new.report = Overall(old.components)
  BY DEF CheckType
<1> HIDE DEF new
<1>2. \A v \in Targets : Of(new, v) = Of(old, v)
  BY <1>1 DEF Of
<1>3. Probed(new)
  BY <1>1, <1>2 DEF Probed
<1> QED
  BY <1>3 DEF new

(* Checked is preserved, whoever probes first.                             *)
LEMMA CheckedStep ==
  ASSUME Inv, Known, Next, file' = file
  PROVE  Checked'
<1>u. Types /\ Checked /\ Targets' = Targets
  BY FileFixed DEF Inv
<1>c. checks \in [Callers -> CheckType] /\ "main" \in Callers /\ "endpoint" \in Callers
  BY <1>u DEF Types, Callers
<1>d. \A c \in Callers : checks[c] = NoCheck \/ Probed(checks[c])
  BY <1>u DEF Checked
<1> DEFINE Good(check) == check = NoCheck \/ Probed(check)
           Later == {"load", "check", "fatal"}
<1>p. ASSUME \A c \in Callers : Good(checks'[c]),
             phase' = "load" => checks'["main"] = NoCheck,
             phase' \notin Later => checks'["main"].report # "none"
      PROVE  Checked'
  BY <1>p, <1>u DEF Checked, Probed, Of
<1>f. ASSUME checks' = checks, phase' = "load" => phase = "load",
             phase' \notin Later => phase \notin Later
      PROVE  Checked'
  BY <1>d, <1>f, <1>p, <1>u DEF Checked
<1>1. CASE Load
  <2>1. /\ phase' \in {"check", "fatal"}
        /\ checks' = [checks EXCEPT !["main"] = StartedCheck] \/ checks' = checks
    BY <1>1 DEF Load, Goto
  <2>2. \A c \in Callers : Good(checks'[c])
    BY <1>c, <1>d, <2>1, StartedProbed
  <2> QED
    BY <1>p, <2>1, <2>2
<1>2. CASE AskEndpoint
  <2>1. /\ phase' = phase /\ phase # "load"
        /\ checks' = [checks EXCEPT !["endpoint"] = StartedCheck]
    BY <1>2 DEF AskEndpoint, mainVars
  <2>2. checks'["main"] = checks["main"] /\ \A c \in Callers : Good(checks'[c])
    BY <1>c, <1>d, <2>1, StartedProbed
  <2> QED
    BY <1>p, <1>u, <2>1, <2>2 DEF Checked
<1>3. ASSUME NEW c \in Callers, Report(c) PROVE Checked'
  <2> DEFINE new == [checks[c] EXCEPT !.report = Overall(checks[c].components)]
  <2>1. /\ checks' = [checks EXCEPT ![c] = new] /\ checks[c].components # {}
        /\ checks[c].pending = {}
        /\ \/ phase' = phase
           \/ c = "main" /\ phase' = "pools"
    <3>1. checks' = [checks EXCEPT ![c].report = Overall(checks[c].components)]
      BY <1>3 DEF Report
    <3>2. checks' = [checks EXCEPT ![c] = new]
      BY <1>c, <3>1 DEF CheckType
    <3>3. AllProbed(checks[c])
      BY <1>3 DEF Report
    <3>4. \/ phase' = phase
          \/ c = "main" /\ phase' = "pools"
      <4>1. IF c = "main" THEN Goto("pools") ELSE phase' = phase /\ step' = step
        BY <1>3 DEF Report
      <4> QED
        BY ONLY <4>1 DEF Goto
    <3> HIDE DEF new
    <3> QED
      BY <3>2, <3>3, <3>4 DEF AllProbed
  <2>2. checks[c] \in CheckType /\ new.report \in Results
    BY <1>c DEF CheckType, Results, Overall
  <2>3. Probed(checks[c])
    BY <1>d, <2>1 DEF NoCheck
  <2>4. Probed(new)
    BY <2>1, <2>2, <2>3, ReportProbed
  <2> HIDE DEF new
  <2>5. \A d \in Callers : checks'[d] = IF d = c THEN new ELSE checks[d]
    BY <1>c, <2>1
  <2>6. \A d \in Callers : Good(checks'[d])
    BY <1>d, <2>4, <2>5
  <2>7. phase' = "load" => checks'["main"] = NoCheck
    <3>1. phase' = "load" => phase = "load" /\ c # "main"
      BY <1>u, <2>1 DEF Checked, NoCheck
    <3> QED
      BY <1>c, <1>u, <2>5, <3>1 DEF Checked
  <2>8. phase' \notin Later => checks'["main"].report # "none"
    BY <1>c, <1>u, <2>1, <2>2, <2>5 DEF Checked, Results
  <2> QED
    BY <1>p, <2>6, <2>7, <2>8
<1>4. ASSUME NEW c \in Callers, NEW t \in Targets, Probe(c, t) PROVE Checked'
  <2>1. phase' = phase /\ t \in checks[c].pending
    BY <1>4 DEF Probe, mainVars
  <2>2. PICK result \in Results : ProbedNow(c, t, result)
    BY <1>4 DEF Probe, Results, ProbedNow
  <2>3. /\ checks'[c].pending = checks[c].pending \ {t}
        /\ checks'[c].components = checks[c].components \union {<<t, result>>}
        /\ checks'[c].report = checks[c].report
        /\ \A d \in Callers : d # c => checks'[d] = checks[d]
    <3>1. checks \in [Callers -> CheckType]
      BY <1>c
    <3> QED
      BY ONLY <2>2, <3>1, c \in Callers, t \in Targets, ProbedCheck, Zenon
  <2>4. Probed(checks[c]) /\ checks[c] # NoCheck
    BY <1>d, <2>1 DEF NoCheck
  <2>5. Probed(checks'[c])
    <3> DEFINE new == checks'[c]
    <3>1. /\ new.pending = checks[c].pending \ {t}
          /\ new.components = checks[c].components \union {<<t, result>>}
          /\ new.report = checks[c].report
      BY <2>3
    <3> HIDE DEF new
    <3>2. Probed(new)
      BY <2>1, <2>4, <3>1, ProbeProbed
    <3> QED
      BY <3>2 DEF new
  <2>6. \A d \in Callers : Good(checks'[d])
    BY <1>d, <2>3, <2>5
  <2>7. phase' = "load" => checks'["main"] = NoCheck
    BY <1>c, <1>u, <2>1, <2>3, <2>4 DEF Checked
  <2>8. phase' \notin Later => checks'["main"].report # "none"
    BY <1>c, <1>u, <2>1, <2>3 DEF Checked
  <2> QED
    BY <1>p, <2>6, <2>7, <2>8
<1>5. CASE OpenWarm
  BY <1>5, <1>f DEF OpenWarm
<1>6. CASE PoolsReady
  BY <1>6, <1>f DEF PoolsReady, Goto
<1>7. CASE Ping
  BY <1>7, <1>f DEF Ping, Goto
<1>8. CASE RedisRuns
  <2>1. After(phase) # "load"
    BY <1>8 DEF RedisRuns, Execute, Requests, After
  <2> QED
    BY <1>8, <1>f, <2>1 DEF RedisRuns, Execute, Requests, Goto
<1>9. CASE ReplyLost
  BY <1>9, <1>f DEF ReplyLost, Execute, Requests, Goto, AfterError
<1>10. CASE RequestFails
  BY <1>10, <1>f DEF RequestFails, Goto, AfterError
<1>11. CASE RequestAgain
  BY <1>11, <1>f DEF RequestAgain, Requests
<1>12. CASE Listen
  BY <1>12, <1>f DEF Listen, Goto
<1>13. ASSUME NEW t \in Targets, Change(t) PROVE Checked'
  BY <1>13, <1>f DEF Change, mainVars
<1>14. ASSUME NEW id \in IDs, OtherAcquires(id) \/ OtherReleases(id) PROVE Checked'
  BY <1>14, <1>f DEF OtherAcquires, OtherReleases, mainVars
<1>15. CASE Disturbance
  BY <1>15, <1>f, <1>u, DisturbanceFacts DEF mainVars
<1> QED
  BY <1>1, <1>2, <1>3, <1>4, <1>5, <1>6, <1>7, <1>8, <1>9, <1>10, <1>11, <1>12,
     <1>13, <1>14, <1>15, NextCases

(* CountSurvivesStart, of one bucket.                                      *)
Matches(r, id, held, u) ==
    /\ Value(r.count[id]) <= held[id]
    /\ "slots" \notin u => Value(r.count[id]) = held[id]

(* It is preserved: SETNX, and what others take and return.                *)
LEMMA CountStep ==
  ASSUME Inv, Known, Next, file' = file
  PROVE  CountSurvivesStart'
<1>u. Types /\ CountSurvivesStart /\ IDs' = IDs
  BY FileFixed DEF Inv
<1>r. redis \in RedisType /\ others \in [IDs -> 0 .. MaxOthers] /\ step \in Nat
  BY <1>u DEF Types
<1>v. \A id \in IDs : Matches(redis, id, others, undone)
  BY <1>u DEF CountSurvivesStart, Matches
<1>p. ASSUME \A id \in IDs : Matches(redis', id, others', undone') PROVE CountSurvivesStart'
  BY <1>p, <1>u DEF CountSurvivesStart, Matches, Value
<1>f. ASSUME redis' = redis, others' = others, undone' = undone PROVE CountSurvivesStart'
  BY <1>f, <1>p, <1>v
<1>e. ASSUME Execute, others' = others
      PROVE  CountSurvivesStart'
  <2>1. Commands[step + 1] \in CommandType
    <3>1. step < Len(Commands) /\ Len(Commands) \in Nat
      BY <1>e, CommandsFacts DEF Inv, Sent, Execute
    <3>2. \A n, m \in Nat : n < m => n + 1 \in 1 .. m
      OBVIOUS
    <3> QED
      BY <1>e, <1>r, <3>1, <3>2, CommandsFacts DEF Execute
  <2>2. \A id \in IDs : Value(redis'.count[id]) = Value(redis.count[id])
    BY <1>e, <1>r, <2>1, ExecutedFacts DEF Execute
  <2>3. "slots" \notin undone' => "slots" \notin undone
    BY <1>e DEF Execute, Requests
  <2> QED
    BY <1>e, <1>p, <1>v, <2>2, <2>3 DEF Matches
<1>1. CASE Load
  BY <1>1, <1>f DEF Load, envVars
<1>2. CASE AskEndpoint
  BY <1>2, <1>f DEF AskEndpoint, envVars
<1>3. ASSUME NEW c \in Callers, Report(c) PROVE CountSurvivesStart'
  BY <1>3, <1>f DEF Report, envVars
<1>4. ASSUME NEW c \in Callers, NEW t \in Targets, Probe(c, t) PROVE CountSurvivesStart'
  BY <1>4, <1>f DEF Probe, envVars
<1>5. CASE OpenWarm
  BY <1>5, <1>f DEF OpenWarm, envVars
<1>6. CASE PoolsReady
  BY <1>6, <1>f DEF PoolsReady, envVars
<1>7. CASE Ping
  BY <1>7, <1>f DEF Ping, envVars
<1>8. CASE RedisRuns
  BY <1>8, <1>e DEF RedisRuns, envVars
<1>9. CASE ReplyLost
  BY <1>9, <1>e DEF ReplyLost
<1>10. CASE RequestFails
  BY <1>10, <1>f DEF RequestFails, envVars
<1>11. CASE RequestAgain
  BY <1>11, <1>f DEF RequestAgain, envVars
<1>12. CASE Listen
  BY <1>12, <1>f DEF Listen, envVars
<1>13. ASSUME NEW t \in Targets, Change(t) PROVE CountSurvivesStart'
  BY <1>13, <1>f DEF Change
<1>14. ASSUME NEW id \in IDs, OtherAcquires(id) PROVE CountSurvivesStart'
  <2>1. /\ others' = [others EXCEPT ![id] = others[id] + 1]
        /\ redis' = [redis EXCEPT !.count[id] = Value(redis.count[id]) + 1] /\ undone' = undone
    BY <1>14 DEF OtherAcquires
  <2>2. redis.count \in [IDs -> {Absent} \union Nat] /\ others[id] \in Nat
    BY <1>r DEF RedisType
  <2> DEFINE m == Value(redis.count[id])
             n == m + 1
  <2>3. m \in Nat
    BY <2>2 DEF Value, Absent
  <2>4. Matches(redis, id, others, undone)
    BY <1>v
  <2>5. m <= others[id] /\ ("slots" \notin undone => m = others[id])
    BY <2>4 DEF Matches
  <2> HIDE DEF m
  <2>6. /\ n \in Nat /\ Value(n) = n
        /\ n <= others[id] + 1 /\ (m = others[id] => n = others[id] + 1)
    BY <2>2, <2>3, <2>5 DEF Value, Absent
  <2>7. redis' = [redis EXCEPT !.count[id] = n]
    BY <2>1 DEF m
  <2> HIDE DEF n
  <2>8. redis'.count = [redis.count EXCEPT ![id] = n]
    BY <1>r, <2>7 DEF RedisType
  <2>9. \A i \in IDs : /\ redis'.count[i] = IF i = id THEN n ELSE redis.count[i]
                       /\ others'[i] = IF i = id THEN others[id] + 1 ELSE others[i]
    BY <1>r, <2>1, <2>2, <2>8
  <2>10. \A i \in IDs : Matches(redis', i, others', undone')
    BY <1>v, <2>1, <2>5, <2>6, <2>9 DEF Matches
  <2> QED
    BY <1>p, <2>10
<1>15. ASSUME NEW id \in IDs, OtherReleases(id) PROVE CountSurvivesStart'
  <2>1. /\ others' = [others EXCEPT ![id] = others[id] - 1] /\ others[id] > 0
        /\ redis' = [redis EXCEPT !.count[id] = Returned(redis.count[id])] /\ undone' = undone
    BY <1>15 DEF OtherReleases, Returned
  <2>2. redis.count \in [IDs -> {Absent} \union Nat] /\ others[id] \in Nat
    BY <1>r DEF RedisType
  <2> DEFINE m == Value(redis.count[id])
             n == Returned(redis.count[id])
  <2>3. /\ m \in Nat /\ n \in Nat /\ Value(n) = n
        /\ n = IF m = 0 THEN 0 ELSE m - 1
    <3>1. m \in Nat
      BY <2>2 DEF Value, Absent
    <3> QED
      BY <2>2, <3>1, ReturnedFacts
  <2>4. Matches(redis, id, others, undone)
    BY <1>v
  <2>5. m <= others[id] /\ ("slots" \notin undone => m = others[id])
    BY <2>4 DEF Matches
  <2> HIDE DEF m
  <2>7. redis' = [redis EXCEPT !.count[id] = n]
    BY <2>1
  <2> HIDE DEF n
  <2>6. n <= others[id] - 1 /\ (m = others[id] => n = others[id] - 1)
    BY <2>1, <2>2, <2>3, <2>5
  <2>8. redis'.count = [redis.count EXCEPT ![id] = n]
    BY <1>r, <2>7 DEF RedisType
  <2>9. \A i \in IDs : /\ redis'.count[i] = IF i = id THEN n ELSE redis.count[i]
                       /\ others'[i] = IF i = id THEN others[id] - 1 ELSE others[i]
    BY <1>r, <2>1, <2>2, <2>8
  <2>10. \A i \in IDs : Matches(redis', i, others', undone')
    BY <1>v, <2>1, <2>3, <2>5, <2>6, <2>9 DEF Matches
  <2> QED
    BY <1>p, <2>10
<1>16. CASE Disturbance
  <2>1. /\ others' = others
        /\ \/ redis' = Empty /\ "slots" \in undone'
           \/ redis'.count = redis.count /\ ("slots" \in undone' <=> "slots" \in undone)
    BY <1>16, <1>u, DisturbanceFacts
  <2>2. CASE redis' = Empty /\ "slots" \in undone'
    <3>1. \A i \in IDs : Value(redis'.count[i]) = 0 /\ 0 <= others[i]
      BY <1>r, <2>2 DEF Empty, Value
    <3> QED
      BY <1>p, <2>1, <2>2, <3>1 DEF Matches
  <2>3. CASE redis'.count = redis.count /\ ("slots" \in undone' <=> "slots" \in undone)
    BY <1>p, <1>v, <2>1, <2>3 DEF Matches
  <2> QED
    BY <2>1, <2>2, <2>3
<1> QED
  BY <1>1, <1>2, <1>3, <1>4, <1>5, <1>6, <1>7, <1>8, <1>9, <1>10, <1>11, <1>12,
     <1>13, <1>14, <1>15, <1>16, NextCases

(* SomeCommand of the next state.                                          *)
LEMMA SomeCommandNext == (Known /\ phase \in Requests => 0 < Len(Commands))'
<1>1. Known /\ phase \in Requests => 0 < Len(Commands)
  BY SomeCommand
<1> QED
  BY <1>1, PTL

(* ConfigFacts of the next state.                                          *)
LEMMA KnownNext == (Configured => Known)'
<1>1. Configured => Known
  BY ConfigFacts
<1> QED
  BY <1>1, PTL

(* The commands stay while configuration and phase do.                     *)
LEMMA CommandsFixed ==
  ASSUME cfg' = cfg, phase' = phase
  PROVE  /\ Commands' = Commands
         /\ \A k : (Effect(redis, undone, Commands[k]))' <=> Effect(redis', undone', Commands[k])
<1>1. Commands' = Commands
  BY Zenon DEF Commands
<1> QED
  BY <1>1 DEF Effect

(* Nothing is lost where nothing changes.                                  *)
LEMMA KeepsSelf == Keeps(redis, undone, redis, undone)
BY DEF Keeps

(* Facts are kept with what they are about.                                *)
LEMMA FactsKept ==
  ASSUME NEW r \in RedisType, NEW u, NEW s \in RedisType, NEW v, Keeps(r, u, s, v), Facts(r, u)
  PROVE  Facts(s, v)
<1>1. "limits" \notin v /\ Limited(r) => Limited(s)
  BY DEF Limited, Keeps
<1>2. "register" \notin v /\ r.counted = IDs => s.counted = IDs
  BY DEF Keeps, RedisType
<1> QED
  BY <1>1, <1>2 DEF Facts, Keeps

(* To begin a request anew excuses no finished one.                        *)
LEMMA FactsAnew ==
  ASSUME NEW r, NEW u, phase \in Requests, Facts(r, u)
  PROVE  Facts(r, u \ {phase})
BY DEF Facts, Coordinates, Requests

(* Sent is preserved: a request ends when its last command is done, and a  *)
(* request that fails ends the start.                                      *)
LEMMA SentStep ==
  ASSUME Inv, Known, Known', Types', Next, file' = file, Load \/ cfg' = cfg
  PROVE  Sent'
<1>u. Types /\ Sent /\ Checked /\ IDs' = IDs /\ RedisType' = RedisType
  BY FileFixed DEF Inv
<1>r. redis \in RedisType /\ redis' \in RedisType /\ step \in Nat /\ Facts(redis, undone)
  BY <1>u DEF Types, Sent
<1>n. ASSUME phase' \in {"check", "pools", "ping", "fatal"} \/ (phase' = "listen" /\ fallback')
      PROVE  Sent'
  BY <1>n DEF Sent, Facts, Requests, Coordinates
<1>k. ASSUME cfg' = cfg, phase' = phase, fallback' = fallback, Facts(redis', undone'),
             phase \in Requests => /\ step' < Len(Commands)
                                   /\ \A k \in 1 .. step' : Effect(redis', undone', Commands[k])
      PROVE  Sent'
  <2>2. (Facts(redis, undone))'
    BY <1>k, <1>u DEF Facts, Coordinates, Limited
  <2>3. (phase \in Requests =>
            step < Len(Commands) /\ \A k \in 1 .. step : Effect(redis, undone, Commands[k]))'
    BY <1>k, CommandsFixed DEF Requests
  <2> QED
    BY <2>2, <2>3 DEF Sent
<1>q. ASSUME cfg' = cfg, phase' = phase, step' = step, fallback' = fallback,
             Keeps(redis, undone, redis', undone')
      PROVE  Sent'
  <2>1. ASSUME phase \in Requests
        PROVE  step < Len(Commands) /\ \A k \in 1 .. step : Effect(redis', undone', Commands[k])
    <3>1. step < Len(Commands) /\ \A k \in 1 .. step : Effect(redis, undone, Commands[k])
      BY <1>u, <2>1 DEF Sent
    <3>2. \A k \in 1 .. step : Commands[k] \in CommandType
      BY <1>r, <2>1, <3>1, CommandsFacts
    <3> QED
      BY <1>q, <3>1, <3>2, EffectKept
  <2>2. Facts(redis', undone')
    BY <1>q, <1>r, FactsKept
  <2> QED
    BY <1>k, <1>q, <2>1, <2>2
<1>e. ASSUME Execute
      PROVE  /\ Facts(redis', undone') /\ step + 1 \in 1 .. Len(Commands)
             /\ \A k \in 1 .. step + 1 : Effect(redis', undone', Commands[k])
  <2>0. /\ phase \in Requests /\ redis' = Executed(Commands[step + 1])
        /\ undone' = IF step = 0 THEN undone \ {phase} ELSE undone
    BY <1>e DEF Execute
  <2>1. /\ step < Len(Commands) /\ Len(Commands) \in Nat
        /\ \A k \in 1 .. step : Effect(redis, undone, Commands[k])
    BY <1>u, <2>0, CommandsFacts DEF Sent
  <2>2. \A n, m \in Nat : n < m => /\ n + 1 \in 1 .. m
                                   /\ \A k \in 1 .. n + 1 : k \in 1 .. m /\ (k = n + 1 \/ k \in 1 .. n)
    OBVIOUS
  <2>3. /\ step + 1 \in 1 .. Len(Commands)
        /\ \A k \in 1 .. step + 1 : k = step + 1 \/ k \in 1 .. step
        /\ \A k \in 1 .. step + 1 : Commands[k] \in CommandType
    BY <1>r, <2>0, <2>1, <2>2, CommandsFacts
  <2>4. Commands[step + 1] \in CommandType
    BY <2>0, <2>3, CommandsFacts
  <2>5. Keeps(redis, undone', redis', undone') /\ Effect(redis', undone', Commands[step + 1])
    BY <1>r, <2>0, <2>4, ExecutedFacts, EffectExcused
  <2>6. ASSUME NEW k \in 1 .. step + 1 PROVE Effect(redis', undone', Commands[k])
    <3>1. CASE k = step + 1
      BY <2>5, <3>1
    <3>2. CASE k \in 1 .. step
      <4>1. undone' = undone
        BY <1>r, <2>0, <3>2
      <4> QED
        BY <2>1, <2>3, <2>5, <3>2, <4>1, EffectKept
    <3> QED
      BY <2>3, <3>1, <3>2
  <2>7. Facts(redis, undone')
    BY <1>r, <2>0, FactsAnew
  <2>8. Facts(redis', undone')
    BY <1>r, <2>5, <2>7, FactsKept
  <2> QED
    BY <2>3, <2>6, <2>8
<1>1. CASE Load
  BY <1>1, <1>n DEF Load, Goto
<1>2. CASE AskEndpoint
  BY <1>2, <1>q, KeepsSelf DEF AskEndpoint, mainVars
<1>3. ASSUME NEW c \in Callers, Report(c) PROVE Sent'
  <2>1. CASE c = "main"
    BY <1>3, <1>n, <2>1 DEF Report, Goto
  <2>2. CASE c # "main"
    BY <1>3, <1>q, <2>2, KeepsSelf DEF Report
  <2> QED
    BY <2>1, <2>2
<1>4. ASSUME NEW c \in Callers, NEW t \in Targets, Probe(c, t) PROVE Sent'
  BY <1>4, <1>q, KeepsSelf DEF Probe, mainVars
<1>5. CASE OpenWarm
  <2>1. phase' = "pools"
    BY <1>5 DEF OpenWarm
  <2> QED
    BY <1>n, <2>1
<1>6. CASE PoolsReady
  BY <1>6, <1>n DEF PoolsReady, Goto
<1>7. CASE Ping
  <2>1. \/ phase' = "acquire.lua" /\ step' = 0
        \/ phase' = "listen" /\ fallback'
        \/ phase' = "fatal"
    BY <1>7 DEF Ping, Goto
  <2>2. CASE phase' = "acquire.lua" /\ step' = 0
    <3>1. 0 < Len(Commands')
      BY <2>2, SomeCommandNext DEF Requests
    <3> QED
      BY <2>2, <3>1 DEF Sent, Facts, Requests, Coordinates
  <2> QED
    BY <1>n, <2>1, <2>2
<1>8. CASE RedisRuns
  <2>1. /\ Execute /\ phase \in Requests /\ cfg' = cfg /\ fallback' = fallback
        /\ \/ step + 1 = Len(Commands) /\ phase' = After(phase) /\ step' = 0
           \/ step + 1 # Len(Commands) /\ phase' = phase /\ step' = step + 1
    BY <1>8 DEF RedisRuns, Execute, Goto
  <2>2. /\ Facts(redis', undone') /\ step + 1 \in 1 .. Len(Commands)
        /\ \A k \in 1 .. step + 1 : Effect(redis', undone', Commands[k])
    BY <1>e, <2>1
  <2>3. CASE step + 1 # Len(Commands) /\ phase' = phase /\ step' = step + 1
    <3>1. step + 1 < Len(Commands)
      <4>1. Len(Commands) \in Nat
        BY <2>1, CommandsFacts
      <4> QED
        BY <1>r, <2>2, <2>3, <4>1
    <3> QED
      BY <1>k, <2>1, <2>2, <2>3, <3>1
  <2>4. CASE step + 1 = Len(Commands) /\ phase' = After(phase) /\ step' = 0
    <3>1. RequestEffect(redis', undone')
      BY <1>r, <2>1, <2>2, <2>4, AllSent
    <3>3. phase' \in Requests => 0 < Len(Commands')
      BY SomeCommandNext DEF Requests
    <3>4. (phase \in Requests =>
              step < Len(Commands) /\ \A k \in 1 .. step : Effect(redis, undone, Commands[k]))'
      BY <2>4, <3>3 DEF Requests
    <3>5. (Facts(redis, undone))'
      <4>0. Limited(redis') <=> Limited(redis)'
        BY <1>u DEF Limited
      <4>1. CASE phase = "acquire.lua"
        BY <2>4, <3>1, <4>1 DEF After, RequestEffect, Facts, Coordinates
      <4>2. CASE phase = "release.lua"
        BY <2>2, <2>4, <3>1, <4>2 DEF After, RequestEffect, Facts, Coordinates
      <4>3. CASE phase = "limits"
        BY <2>2, <2>4, <3>1, <4>0, <4>3 DEF After, RequestEffect, Facts, Coordinates
      <4>4. CASE phase = "register"
        BY <1>u, <2>2, <2>4, <3>1, <4>0, <4>4 DEF After, RequestEffect, Facts, Coordinates
      <4> QED
        BY <2>1, <4>1, <4>2, <4>3, <4>4 DEF Requests
    <3> QED
      BY <3>4, <3>5 DEF Sent
  <2> QED
    BY <2>1, <2>3, <2>4
<1>9. CASE ReplyLost
  <2>1. /\ Execute /\ phase \in Requests /\ cfg' = cfg /\ fallback' = fallback /\ step' = 0
        /\ phase' = phase \/ phase' = "fatal"
    BY <1>9 DEF ReplyLost, Execute, Goto, AfterError
  <2>2. 0 < Len(Commands) /\ Facts(redis', undone')
    BY <1>e, <2>1, SomeCommand
  <2>3. CASE phase' = phase
    <3>1. \A k \in 1 .. step' : Effect(redis', undone', Commands[k])
      BY <2>1
    <3> QED
      BY <1>k, <2>1, <2>2, <2>3, <3>1
  <2> QED
    BY <1>n, <2>1, <2>3
<1>10. CASE RequestFails
  BY <1>10, <1>n DEF RequestFails, Goto, AfterError
<1>11. CASE RequestAgain
  <2>1. /\ phase \in Requests /\ redis' = redis /\ undone' = undone
        /\ cfg' = cfg /\ fallback' = fallback /\ step' = 0 /\ phase' = phase
    BY <1>11 DEF RequestAgain
  <2>2. 0 < Len(Commands)
    BY <2>1, SomeCommand
  <2> QED
    BY <1>k, <1>r, <2>1, <2>2
<1>12. CASE Listen
  <2>1. /\ phase = "listen" /\ redis' = redis /\ undone' = undone /\ fallback' = fallback
        /\ phase' = "ready" \/ phase' = "fatal"
    BY <1>12 DEF Listen, Goto
  <2>2. CASE phase' = "ready"
    BY <1>u, <2>1, <2>2 DEF Sent, Facts, Requests, Coordinates, Limited
  <2> QED
    BY <1>n, <2>1, <2>2
<1>13. ASSUME NEW t \in Targets, Change(t) PROVE Sent'
  BY <1>13, <1>q, KeepsSelf DEF Change, mainVars
<1>14. ASSUME NEW id \in IDs, OtherAcquires(id) \/ OtherReleases(id) PROVE Sent'
  <2>0. /\ redis.count \in [IDs -> {Absent} \union Nat]
        /\ \A m \in {Absent} \union Nat :
              Value(m) + 1 \in Nat /\ Value(m) + 1 # Absent /\ Returned(m) \in Nat /\ Returned(m) # Absent
    BY <1>r, ReturnedFacts DEF RedisType, Value, Absent
  <2>1. /\ cfg' = cfg /\ phase' = phase /\ step' = step /\ fallback' = fallback /\ undone' = undone
        /\ \/ redis' = [redis EXCEPT !.count[id] = Value(redis.count[id]) + 1]
           \/ redis' = [redis EXCEPT !.count[id] = Returned(redis.count[id])]
    BY <1>14 DEF OtherAcquires, OtherReleases, Returned, mainVars
  <2>2. PICK n : n # Absent /\ redis' = [redis EXCEPT !.count[id] = n]
    BY <2>0, <2>1, Zenon
  <2>3. /\ redis'.scripts = redis.scripts /\ redis'.counted = redis.counted
        /\ redis'.registered = redis.registered /\ redis'.max = redis.max
        /\ \A i \in IDs : redis'.count[i] = IF i = id THEN n ELSE redis.count[i]
    BY <1>r, <2>0, <2>2 DEF RedisType
  <2>4. Keeps(redis, undone, redis', undone')
    BY <2>1, <2>2, <2>3 DEF Keeps
  <2> QED
    BY <1>q, <2>1, <2>4
<1>15. CASE Disturbance
  <2>1. Keeps(redis, undone, redis', undone') /\ UNCHANGED mainVars
    BY <1>15, <1>u, DisturbanceFacts
  <2> QED
    BY <1>q, <2>1 DEF mainVars
<1> QED
  BY <1>1, <1>2, <1>3, <1>4, <1>5, <1>6, <1>7, <1>8, <1>9, <1>10, <1>11, <1>12,
     <1>13, <1>14, <1>15, NextCases

(* A stuttering step keeps everything.                                     *)
LEMMA Stutter ==
  ASSUME Inv, UNCHANGED vars
  PROVE  Inv'
<1> USE DEF vars, mainVars, envVars
<1>0. IDs' = IDs /\ RedisType' = RedisType /\ CheckType' = CheckType /\ Targets' = Targets
  BY FileFixed
<1>1. Types'
  BY <1>0 DEF Inv, Types, PhaseType, Requests, States, Undone, CleanUps
<1>2. Configured'
  BY DEF Inv, Configured
<1>3. Warm'
  BY OpenedFixed DEF Inv, Warm
<1>4. Checked'
  BY <1>0 DEF Inv, Checked, Probed, Of
<1>5. CountSurvivesStart'
  BY <1>0 DEF Inv, CountSurvivesStart, Value
<1>6. Sent'
  BY <1>0, CommandsFixed DEF Inv, Sent, Facts, Requests, Coordinates, Limited
<1> QED
  BY <1>1, <1>2, <1>3, <1>4, <1>5, <1>6 DEF Inv

(* The invariant is inductive.                                             *)
LEMMA InvStep ==
  ASSUME Inv, Next
  PROVE  Inv'
<1>1. Configured' /\ file' = file /\ (Load \/ cfg' = cfg)
  BY ConfiguredStep DEF Inv
<1>2. Known
  BY ConfigFacts DEF Inv
<1>3. Known'
  BY <1>1, KnownNext
<1>4. Types'
  BY <1>1, <1>2, TypesStep
<1>5. Warm'
  BY <1>1, <1>2, WarmStep
<1>6. Checked'
  BY <1>1, <1>2, CheckedStep
<1>7. CountSurvivesStart'
  BY <1>1, <1>2, CountStep
<1>8. Sent'
  BY <1>1, <1>2, <1>3, <1>4, SentStep
<1> QED
  BY <1>1, <1>4, <1>5, <1>6, <1>7, <1>8 DEF Inv

(* The invariant holds of every start.                                     *)
THEOREM Invariant == Spec => []Inv
<1>1. Init => Inv
  BY InitInv
<1>2. Inv /\ [Next]_vars => Inv'
  BY InvStep, Stutter
<1> QED
  BY <1>1, <1>2, PTL DEF Spec

(* The variables keep their types, and a bucket never gets more warm       *)
(* connections than its minIdle (pool.go, NewBucketPool), for every list   *)
(* of buckets.                                                             *)
THEOREM StartupTypeCorrect == Spec => []TypeOK
<1>1. Inv => TypeOK
  <2> SUFFICES ASSUME Inv PROVE TypeOK
    OBVIOUS
  <2>u. Types /\ Configured /\ Warm
    BY DEF Inv
  <2>1. \A c \in Callers :
          /\ checks[c].pending \subseteq Targets
          /\ checks[c].components \subseteq Targets \X {"healthy", "unhealthy"}
          /\ checks[c].report \in {"none", "healthy", "unhealthy"}
    BY <2>u DEF Types, CheckType, Results
  <2>2. /\ redis.scripts \subseteq Scripts /\ redis.counted \subseteq IDs
        /\ redis.registered \in BOOLEAN
        /\ \A id \in IDs : {redis.max[id], redis.count[id]} \subseteq {Absent} \union Nat
    BY <2>u DEF Types, RedisType
  <2>3. \A t \in Targets : state[t] \in States(t)
    BY <2>u DEF Types, States
  <2> QED
    BY <2>u, <2>1, <2>2, <2>3 DEF TypeOK, Types, PhaseType, Configured, Warm, CleanUps, Undone
<1> QED
  BY <1>1, Invariant, PTL

(* A health report (health.go, Check) has the result of every probe, one   *)
(* for each, and calls the proxy healthy only if all are, although two     *)
(* checks run at once and each probe has a goroutine of its own.           *)
THEOREM ReportsAreComplete == Spec => []ReportComplete
<1>1. Inv => ReportComplete
  <2> SUFFICES ASSUME Inv, NEW c \in Callers, checks[c].report # "none"
               PROVE  /\ \A t \in Targets : \E result \in {"healthy", "unhealthy"} :
                            {component \in checks[c].components : component[1] = t}
                               = {<<t, result>>}
                      /\ checks[c].report = "unhealthy" <=>
                            \E component \in checks[c].components : component[2] = "unhealthy"
    BY DEF ReportComplete
  <2>1. Probed(checks[c])
    BY DEF Inv, Checked, NoCheck
  <2>2. checks[c].pending = {} /\ checks[c].report = Overall(checks[c].components)
    BY <2>1 DEF Probed
  <2>3. \A t \in Targets : \E result \in Results : Of(checks[c], t) = {<<t, result>>}
    BY <2>1, <2>2 DEF Probed
  <2>4. checks[c].report = "unhealthy" <=>
           \E component \in checks[c].components : component[2] = "unhealthy"
    BY <2>2 DEF Overall
  <2> QED
    BY <2>3, <2>4 DEF Of, Results
<1> QED
  BY <1>1, Invariant, PTL

(* A proxy that listens and is not in fallback mode has all it coordinates *)
(* with in Redis (redis.go, NewRedisCoordinator): both scripts, limit and  *)
(* counter of every bucket, its registration and its hash, wherever Redis  *)
(* stopped answering or lost a reply in between.  What it lacks was taken  *)
(* away after it was sent: the registration by the clean-up of another     *)
(* instance, and by a Redis that lost its data anything.                   *)
THEOREM ReadyMeansCoordinated == Spec => []ReadyIsCoordinated
<1>1. Inv => ReadyIsCoordinated
  <2> SUFFICES ASSUME Inv, phase = "ready" /\ ~fallback
               PROVE  /\ \A request \in Requests \ undone : InPlace(request)
                      /\ "slots" \notin undone => undone \subseteq {"register"}
    BY DEF ReadyIsCoordinated
  <2>1. Undone(undone) /\ Facts(redis, undone) /\ Coordinates
    BY DEF Inv, Types, Sent, Coordinates
  <2>2. ASSUME NEW request \in Requests \ undone PROVE InPlace(request)
    BY <2>1, <2>2 DEF Facts, InPlace, Limited, Requests
  <2> QED
    BY <2>1, <2>2 DEF Undone
<1> QED
  BY <1>1, Invariant, PTL

(* A start never changes the value of a counter that other instances are   *)
(* using (redis.go, the SETNX of the limits), and where Redis lost its     *)
(* data no counter goes above what they hold.                              *)
THEOREM CountIsKept == Spec => []CountSurvivesStart
<1>1. Inv => CountSurvivesStart
  BY DEF Inv
<1> QED
  BY <1>1, Invariant, PTL

(* Once the proxy is ready, a login that names a bucket unambiguously is   *)
(* routed to it, and one that names only a database is never routed to one *)
(* of several by guess (router.go), for every configuration and every      *)
(* login.                                                                  *)
THEOREM NamedBucketIsReached == Spec => []NamedBucketReached
<1>1. Inv => NamedBucketReached
  <2> SUFFICES ASSUME Inv, phase = "ready", NEW login \in Logins
               PROVE  ByIDReached(login) /\ DatabaseNotGuessed(login)
    BY DEF NamedBucketReached
  <2>1. Known /\ Validate(file)
    BY ConfigFacts DEF Inv, Configured
  <2>2. login \in LoginType
    BY StartupAssumption DEF LoginType
  <2>3. cfg.buckets \in Seq(BucketType)
    BY <2>1 DEF Known
  <2>4. \A i \in DOMAIN cfg.buckets : cfg.buckets[i].id # ""
    <3>1. \A j \in 1 .. Len(file.buckets) : file.buckets[j].id # ""
      BY ONLY <2>1, Zenon DEF Validate
    <3>2. DOMAIN file.buckets = 1 .. Len(file.buckets)
      BY <2>1 DEF Known
    <3>3. \A id \in IDs : id # ""
      BY ONLY <3>1, <3>2 DEF IDs
    <3> QED
      BY <2>1, <3>3 DEF Known
  <2>5. ByIDReached(login)
    <3> SUFFICES ASSUME NEW i \in DOMAIN cfg.buckets,
                        Lower[login.server] = Lower[cfg.buckets[i].id],
                        \A j \in DOMAIN cfg.buckets \ {i} :
                           Lower[login.server] \notin {Lower[cfg.buckets[j].id], Lower[cfg.buckets[j].host]}
                 PROVE  Route(cfg.buckets, login) = i
      BY DEF ByIDReached
    <3>1. NamesBucket(cfg.buckets, login, i)
      BY <2>4 DEF NamesBucket
    <3> QED
      BY <2>2, <2>3, <3>1, ReachedByID
  <2>6. DatabaseNotGuessed(login)
    <3> SUFFICES ASSUME NamesDatabase(cfg.buckets, login)
                 PROVE  IF Cardinality(SameDatabase(cfg.buckets, login)) = 1
                        THEN Route(cfg.buckets, login) \in SameDatabase(cfg.buckets, login)
                        ELSE Route(cfg.buckets, login) = DefaultBucket(cfg.buckets)
      BY DEF DatabaseNotGuessed, NamesDatabase, SameDatabase
    <3> QED
      BY <2>2, <2>3, ReachedByDatabase
  <2> QED
    BY <2>5, <2>6
<1> QED
  BY <1>1, Invariant, PTL
=============================================================================
