--------------------------- MODULE BucketPoolProofs ---------------------------
(***************************************************************************)
(* Proofs about BucketPool for every set of clients, every maximum and     *)
(* every number of idle connections to keep.  The hypothesis Enough says   *)
(* that connections are never too few to name one: NewBucketPool and       *)
(* createConn take whatever the driver returns, so there are as many as    *)
(* there are numbers.                                                      *)
(*                                                                         *)
(* Inv is inductive.  None of the three properties is: ExclusiveUse needs  *)
(* to know what a client at each place can hold (Places, Owners),          *)
(* BooksComplete that a connection being reset is in none of the two sets  *)
(* (Books), and OvershootBounded that the callers and the maintenance that *)
(* are past their check are counted beside the connections (Room).         *)
(***************************************************************************)
EXTENDS BucketPool, FiniteSetTheorems, SequenceTheorems, TLAPS

-----------------------------------------------------------------------------
(* The inductive invariant. *)

(* No element occurs twice.                                                *)
OneToOne(s) == \A m, n \in DOMAIN s : s[m] = s[n] => m = n

(* Where a client is tells what it has: a connection while it uses or      *)
(* resets one, something in its channel only while it waits, and a channel *)
(* that is still in the queue is empty. After Close nobody waits and       *)
(* nothing is active.                                                      *)
Places ==
    /\ \A k \in Clients :
          /\ mine[k] # None <=> pc[k] \in {"using", "resetting", "panicked"}
          /\ box[k] # None => pc[k] \in {"waiting", "removing"}
    /\ \A k \in ToSet(waiters) :
          pc[k] \in {"waiting", "removing"} /\ box[k] = None
    /\ OneToOne(waiters)
    /\ closed => waiters = <<>> /\ active = {}
    /\ \A k \in Clients : pc[k] = "panicked" => closed

(* A connection is in one place of the idle list, with one client, or in   *)
(* one channel.                                                            *)
Owners ==
    /\ OneToOne(idle)
    /\ IdleSet \intersect active = {}
    /\ \A k \in Clients : mine[k] \notin IdleSet /\ box[k] \notin IdleSet
    /\ \A j, k \in Clients :
          /\ mine[j] = mine[k] /\ mine[j] # None => j = k
          /\ box[j] = box[k] /\ box[j] \in Conns => j = k
          /\ box[j] \in Conns => mine[k] # box[j]

(* What is idle or active is open; what is open is idle, active, being     *)
(* reset, or with the goroutine whose panic ends the process.              *)
Books ==
    /\ IsFiniteSet(active)
    /\ IdleSet \union active \subseteq open
    /\ \A c \in open : \/ c \in IdleSet \/ c \in active
                      \/ \E k \in Clients :
                            mine[k] = c /\ pc[k] \in {"resetting", "panicked"}
    /\ \A k \in Clients :
          /\ pc[k] = "resetting" => mine[k] \notin active
          /\ ~closed /\ pc[k] = "using" => mine[k] \in active
          /\ ~closed /\ box[k] \in Conns => box[k] \in active

(* The clients that are about to have a connection which neither list      *)
(* counts.                                                                 *)
Busy == {k \in Clients : pc[k] \in {"creating", "resetting", "panicked"}}

(* What OvershootBounded allows.                                           *)
Capacity == MaxConnections + Cardinality(Clients) - 1 + MinIdle

(* Connections, and promises of connections, are counted together.         *)
Room == Len(idle) + Cardinality(active) + Cardinality(Busy) + deficit <= Capacity

(* ensureMinIdle is in its loop as long as it has something to open.       *)
Opening == maint = "opening" <=> deficit > 0

(* The inductive invariant.                                                *)
Inv == TypeOK /\ Places /\ Owners /\ Books /\ Room /\ Opening

-----------------------------------------------------------------------------
(* Sequences without repetition. *)

(* The elements of a sequence, by index.                                   *)
LEMMA ToSetDef ==
  ASSUME NEW S, NEW s \in Seq(S)
  PROVE  /\ ToSet(s) = {s[n] : n \in 1 .. Len(s)} /\ ToSet(s) \subseteq S
         /\ DOMAIN s = 1 .. Len(s) /\ Len(s) \in Nat
BY LenProperties, ElementOfSeq DEF ToSet

(* Append adds one element, and no repetition if the element is new.       *)
LEMMA AppendFacts ==
  ASSUME NEW S, NEW s \in Seq(S), NEW e \in S
  PROVE  /\ Append(s, e) \in Seq(S) /\ Len(Append(s, e)) = Len(s) + 1
         /\ ToSet(Append(s, e)) = ToSet(s) \union {e}
         /\ OneToOne(s) /\ e \notin ToSet(s) => OneToOne(Append(s, e))
<1> DEFINE t == Append(s, e)
<1>1. /\ t \in Seq(S) /\ Len(t) = Len(s) + 1 /\ Len(s) \in Nat
      /\ \A n \in 1 .. Len(s) : t[n] = s[n]
      /\ t[Len(s) + 1] = e
  BY AppendProperties, LenProperties
<1> HIDE DEF t
<1>2. ToSet(t) = {t[n] : n \in 1 .. Len(s) + 1} /\ DOMAIN t = 1 .. Len(s) + 1
  BY <1>1, ToSetDef
<1>3. ToSet(s) = {s[n] : n \in 1 .. Len(s)} /\ DOMAIN s = 1 .. Len(s)
  BY ToSetDef
<1>4. 1 .. Len(s) + 1 = (1 .. Len(s)) \union {Len(s) + 1}
  BY <1>1
<1>5. ToSet(t) = ToSet(s) \union {e}
  BY <1>1, <1>2, <1>3, <1>4
<1>6. ASSUME OneToOne(s), e \notin ToSet(s) PROVE OneToOne(t)
  BY <1>1, <1>2, <1>3, <1>4, <1>6 DEF OneToOne
<1> QED
  BY <1>1, <1>5, <1>6 DEF t

(* A prefix repeats nothing that the sequence does not repeat.             *)
LEMMA PrefixFacts ==
  ASSUME NEW S, NEW s \in Seq(S), NEW n \in 0 .. Len(s)
  PROVE  /\ SubSeq(s, 1, n) \in Seq(S) /\ Len(SubSeq(s, 1, n)) = n
         /\ ToSet(SubSeq(s, 1, n)) = {s[m] : m \in 1 .. n}
         /\ OneToOne(s) => OneToOne(SubSeq(s, 1, n))
<1> DEFINE t == SubSeq(s, 1, n)
<1>1. Len(s) \in Nat /\ \A m \in 1 .. n : s[m] \in S
  BY LenProperties, ElementOfSeq
<1>2. /\ t \in Seq(S) /\ Len(t) = n
      /\ \A m \in 1 .. n : t[m] = s[m]
  BY <1>1, SubSeqProperties
<1> HIDE DEF t
<1>3. ToSet(t) = {t[m] : m \in 1 .. n} /\ DOMAIN t = 1 .. n
  BY <1>2, ToSetDef
<1>4. ToSet(t) = {s[m] : m \in 1 .. n}
  BY <1>2, <1>3
<1>5. DOMAIN s = 1 .. Len(s)
  BY ToSetDef
<1>6. OneToOne(s) => OneToOne(t)
  BY <1>1, <1>2, <1>3, <1>5 DEF OneToOne
<1> QED
  BY <1>2, <1>4, <1>6 DEF t

(* Taking the head from a sequence without repetition takes it from its    *)
(* set.                                                                    *)
LEMMA TailFacts ==
  ASSUME NEW S, NEW s \in Seq(S), s # <<>>, OneToOne(s)
  PROVE  /\ Head(s) \in ToSet(s) /\ Tail(s) \in Seq(S)
         /\ ToSet(Tail(s)) = ToSet(s) \ {Head(s)}
         /\ OneToOne(Tail(s))
<1> DEFINE t == Tail(s)
<1>1. /\ t \in Seq(S) /\ Len(t) = Len(s) - 1
      /\ \A n \in 1 .. Len(t) : t[n] = s[n + 1]
      /\ Len(s) \in Nat /\ Len(s) > 0 /\ Head(s) = s[1]
  BY HeadTailProperties, LenProperties, EmptySeq
<1> HIDE DEF t
<1>2. /\ ToSet(s) = {s[n] : n \in 1 .. Len(s)} /\ DOMAIN s = 1 .. Len(s)
      /\ ToSet(t) = {t[n] : n \in 1 .. Len(t)} /\ DOMAIN t = 1 .. Len(t)
  BY <1>1, ToSetDef
<1>3. Head(s) \in ToSet(s)
  BY <1>1, <1>2
<1>4. ToSet(t) = {s[n] : n \in 2 .. Len(s)}
  <2>1. ASSUME NEW x \in ToSet(t) PROVE x \in {s[n] : n \in 2 .. Len(s)}
    <3>1. PICK n \in 1 .. Len(t) : x = t[n]
      BY <1>2
    <3> QED
      BY <1>1, <3>1
  <2>2. ASSUME NEW n \in 2 .. Len(s) PROVE s[n] \in ToSet(t)
    <3>1. n - 1 \in 1 .. Len(t) /\ t[n - 1] = s[n]
      BY <1>1
    <3> QED
      BY <1>2, <3>1
  <2> QED
    BY <2>1, <2>2
<1>5. ToSet(t) = ToSet(s) \ {Head(s)}
  <2>1. \A n \in 2 .. Len(s) : s[n] \in ToSet(s) /\ s[n] # Head(s)
    BY <1>1, <1>2 DEF OneToOne
  <2>2. \A n \in 1 .. Len(s) : s[n] # Head(s) => n \in 2 .. Len(s)
    BY <1>1
  <2>3. ASSUME NEW x \in ToSet(s), x # Head(s) PROVE x \in ToSet(t)
    <3>1. PICK n \in 1 .. Len(s) : x = s[n]
      BY <1>2
    <3> QED
      BY <1>4, <2>2, <2>3, <3>1
  <2>4. ASSUME NEW x \in ToSet(t) PROVE x \in ToSet(s) /\ x # Head(s)
    <3>1. PICK n \in 2 .. Len(s) : x = s[n]
      BY <1>4
    <3> QED
      BY <2>1, <3>1
  <2> QED
    BY <2>3, <2>4, Zenon
<1>6. OneToOne(t)
  <2> SUFFICES ASSUME NEW m \in 1 .. Len(t), NEW n \in 1 .. Len(t), t[m] = t[n]
               PROVE  m = n
    BY <1>2 DEF OneToOne
  <2>1. m + 1 \in 1 .. Len(s) /\ n + 1 \in 1 .. Len(s) /\ s[m + 1] = s[n + 1]
    BY <1>1
  <2>2. m + 1 = n + 1
    BY <1>2, <2>1 DEF OneToOne
  <2> QED
    BY <2>2
<1> QED
  BY <1>1, <1>3, <1>5, <1>6 DEF t

(* A sequence has at most as many elements as places.                      *)
LEMMA LengthBoundsSet ==
  ASSUME NEW S, NEW s \in Seq(S)
  PROVE  IsFiniteSet(ToSet(s)) /\ Cardinality(ToSet(s)) <= Len(s)
<1>1. s \in Surjection(1 .. Len(s), ToSet(s))
  <2>1. s \in [1 .. Len(s) -> S]
    BY LenProperties
  <2>2. s \in [1 .. Len(s) -> ToSet(s)]
    BY <2>1, ToSetDef
  <2>3. \A x \in ToSet(s) : \E n \in 1 .. Len(s) : s[n] = x
    BY ToSetDef
  <2> QED
    BY <2>2, <2>3 DEF Surjection
<1>2. IsFiniteSet(1 .. Len(s)) /\ Cardinality(1 .. Len(s)) = Len(s)
  <2>1. Len(s) \in Nat /\ Len(s) \in Int /\ 1 \in Int
    BY LenProperties
  <2>2. /\ IsFiniteSet(1 .. Len(s))
        /\ Cardinality(1 .. Len(s)) = IF 1 > Len(s) THEN 0 ELSE Len(s) - 1 + 1
    BY ONLY <2>1, FS_Interval, Zenon
  <2> QED
    BY <2>1, <2>2
<1> QED
  BY <1>1, <1>2, FS_Surjection

-----------------------------------------------------------------------------
(* Least and greatest elements. *)

(* A set of natural numbers that is not empty has a minimum.               *)
LEMMA LeastElement ==
  ASSUME NEW S, S \subseteq Nat, S # {}
  PROVE  Min(S) \in S /\ \A x \in S : Min(S) <= x
<1>1. PICK m \in S : \A x \in S : ~ (<<x, m>> \in OpToRel(<, Nat))
  BY NatLessThanWellFounded, WFMin
<1>2. \A x \in S : m <= x
  <2> TAKE x \in S
  <2>1. <<x, m>> \in Nat \X Nat
    OBVIOUS
  <2>2. ~ (x < m)
    BY <1>1, <2>1 DEF OpToRel
  <2> QED
    BY <2>2
<1> QED
  BY <1>1, <1>2 DEF Min

(* A bounded one has a maximum: the minimum of the distances to the bound. *)
LEMMA GreatestElement ==
  ASSUME NEW n \in Nat, NEW S, S \subseteq 1 .. n, S # {}
  PROVE  Max(S) \in S /\ \A x \in S : Max(S) >= x
<1> DEFINE T == {n - x : x \in S}
<1>1. T \subseteq Nat /\ T # {}
  <2>1. \A x \in S : n - x \in Nat
    OBVIOUS
  <2> QED
    BY <2>1
<1>2. Min(T) \in T /\ \A y \in T : Min(T) <= y
  <2> HIDE DEF T
  <2> QED
    BY <1>1, LeastElement
<1>3. PICK m \in S : Min(T) = n - m
  BY <1>2
<1>4. \A x \in S : m >= x
  <2> TAKE x \in S
  <2>1. n - m <= n - x
    BY <1>2, <1>3
  <2>2. m \in Int /\ x \in Int
    OBVIOUS
  <2> QED
    BY <2>1, <2>2
<1> QED
  BY <1>4 DEF Max

(* removeWaiter: without repetition, removing the first occurrence removes *)
(* the element.                                                            *)
LEMMA RemoveFirstFacts ==
  ASSUME NEW S, NEW s \in Seq(S), NEW e, OneToOne(s)
  PROVE  /\ RemoveFirst(s, e) \in Seq(S)
         /\ ToSet(RemoveFirst(s, e)) = ToSet(s) \ {e}
         /\ OneToOne(RemoveFirst(s, e))
<1>s. /\ ToSet(s) = {s[n] : n \in 1 .. Len(s)} /\ Len(s) \in Nat
      /\ DOMAIN s = 1 .. Len(s)
  BY ToSetDef
<1>1. CASE ~ \E n \in 1 .. Len(s) : s[n] = e
  BY <1>s, <1>1 DEF RemoveFirst
<1>2. CASE \E n \in 1 .. Len(s) : s[n] = e
  <2> DEFINE I == {n \in 1 .. Len(s) : s[n] = e}
             i == Min(I)
             a == SubSeq(s, 1, i - 1)
             b == SubSeq(s, i + 1, Len(s))
             t == a \o b
  <2>1. I \subseteq Nat /\ I # {}
    BY <1>2
  <2>2. RemoveFirst(s, e) = t
    BY <1>2, <2>1 DEF RemoveFirst, RemoveAt, SelectInSeq
  <2>3. i \in 1 .. Len(s) /\ s[i] = e
    <3> HIDE DEF I
    <3>1. i \in I
      BY <2>1, LeastElement
    <3> QED
      BY <3>1 DEF I
  <2> HIDE DEF i, I
  <2>4. /\ a \in Seq(S) /\ Len(a) = i - 1
        /\ \A n \in 1 .. i - 1 : a[n] = s[n]
    <3>1. \A n \in 1 .. i - 1 : s[n] \in S
      BY <1>s, <2>3, ElementOfSeq
    <3>2. i - 1 \in Int
      BY <2>3
    <3> QED
      BY <1>s, <2>3, <3>1, <3>2, SubSeqProperties
  <2>5. /\ b \in Seq(S) /\ Len(b) = Len(s) - i
        /\ \A n \in 1 .. Len(s) - i : b[n] = s[i + n]
    <3>1. \A n \in i + 1 .. Len(s) : s[n] \in S
      BY <1>s, <2>3, ElementOfSeq
    <3>2. i + 1 \in Int /\ Len(s) \in Int
      BY <1>s, <2>3
    <3>3. /\ b \in Seq(S)
          /\ Len(b) = IF i + 1 <= Len(s) THEN Len(s) - (i + 1) + 1 ELSE 0
          /\ \A n \in 1 .. Len(s) - (i + 1) + 1 : b[n] = s[(i + 1) + n - 1]
      BY <3>1, <3>2, SubSeqProperties
    <3>4. Len(s) - (i + 1) + 1 = Len(s) - i /\ i \in Nat
      BY <1>s, <2>3
    <3>5. Len(b) = Len(s) - i
      <4> HIDE DEF b
      <4>1. CASE i + 1 <= Len(s)
        BY <3>3, <3>4, <4>1
      <4>2. CASE ~ (i + 1 <= Len(s))
        <5>1. Len(b) = 0
          BY <3>3, <4>2
        <5>2. Len(s) - i = 0
          BY <1>s, <2>3, <4>2
        <5> QED
          BY <5>1, <5>2
      <4> QED
        BY <4>1, <4>2
    <3>6. ASSUME NEW n \in 1 .. Len(s) - i PROVE b[n] = s[i + n]
      <4>1. (i + 1) + n - 1 = i + n
        BY <3>4
      <4>2. n \in 1 .. Len(s) - (i + 1) + 1
        BY <3>4
      <4> QED
        BY <3>3, <4>1, <4>2
    <3> QED
      BY <3>3, <3>5, <3>6
  <2> HIDE DEF a, b
  <2>6. /\ t \in Seq(S) /\ Len(t) = Len(s) - 1
        /\ \A n \in 1 .. Len(s) - 1 :
              t[n] = IF n <= i - 1 THEN s[n] ELSE s[n + 1]
    <3>1. /\ t \in Seq(S) /\ Len(t) = Len(a) + Len(b)
          /\ \A n \in 1 .. Len(a) + Len(b) :
                t[n] = IF n <= Len(a) THEN a[n] ELSE b[n - Len(a)]
      BY <2>4, <2>5, ConcatProperties
    <3> HIDE DEF t
    <3>2. Len(a) + Len(b) = Len(s) - 1
      BY <1>s, <2>3, <2>4, <2>5
    <3>3. ASSUME NEW n \in 1 .. Len(s) - 1
          PROVE  t[n] = IF n <= i - 1 THEN s[n] ELSE s[n + 1]
      <4>1. CASE n <= i - 1
        BY <1>s, <2>3, <2>4, <3>1, <3>2, <4>1
      <4>2. CASE ~ (n <= i - 1)
        <5>1. n - (i - 1) \in 1 .. Len(s) - i /\ i + (n - (i - 1)) = n + 1
          BY <1>s, <2>3, <4>2
        <5>2. t[n] = b[n - (i - 1)]
          BY <2>4, <3>1, <3>2, <4>2
        <5> QED
          BY <2>5, <4>2, <5>1, <5>2
      <4> QED
        BY <4>1, <4>2
    <3> QED
      BY <3>1, <3>2, <3>3
  <2> HIDE DEF t
  <2>7. ToSet(t) = {t[n] : n \in 1 .. Len(s) - 1} /\ DOMAIN t = 1 .. Len(s) - 1
    BY <2>6, ToSetDef
  <2>8. ToSet(t) = ToSet(s) \ {e}
    <3>1. ASSUME NEW n \in 1 .. Len(s) - 1 PROVE t[n] \in ToSet(s) \ {e}
      <4> DEFINE m == IF n <= i - 1 THEN n ELSE n + 1
      <4>1. m \in 1 .. Len(s) /\ m # i /\ t[n] = s[m]
        BY <1>s, <2>3, <2>6
      <4> QED
        BY <1>s, <2>3, <4>1 DEF OneToOne
    <3>2. ASSUME NEW n \in 1 .. Len(s), s[n] # e PROVE s[n] \in ToSet(t)
      <4> DEFINE m == IF n < i THEN n ELSE n - 1
      <4>1. n # i
        BY <2>3, <3>2
      <4>2. m \in 1 .. Len(s) - 1 /\ t[m] = s[n]
        BY <1>s, <2>3, <2>6, <4>1
      <4> QED
        BY <2>7, <4>2
    <3> QED
      BY <1>s, <2>7, <3>1, <3>2
  <2>9. OneToOne(t)
    <3> DEFINE old(n) == IF n <= i - 1 THEN n ELSE n + 1
    <3>1. ASSUME NEW n \in 1 .. Len(s) - 1
          PROVE  old(n) \in 1 .. Len(s) /\ t[n] = s[old(n)]
      BY <1>s, <2>3, <2>6
    <3>2. ASSUME NEW m \in 1 .. Len(s) - 1, NEW n \in 1 .. Len(s) - 1,
                 old(m) = old(n)
          PROVE  m = n
      BY <2>3, <3>2
    <3>3. ASSUME NEW m \in 1 .. Len(s) - 1, NEW n \in 1 .. Len(s) - 1,
                 t[m] = t[n]
          PROVE  old(m) = old(n)
      <4> HIDE DEF old
      <4> QED
        BY <1>s, <3>1, <3>3 DEF OneToOne
    <3> HIDE DEF old
    <3> QED
      BY <2>7, <3>2, <3>3 DEF OneToOne
  <2> QED
    BY <2>2, <2>6, <2>8, <2>9
<1> QED
  BY <1>1, <1>2

-----------------------------------------------------------------------------
(* The loop of evictStale.  g[n] is what it has kept of the first n.       *)

Kept(s, T, len, g) ==
    g = [n \in 0 .. len |->
            IF n = 0 THEN <<>>
            ELSE IF s[n] \in T THEN g[n - 1]
                 ELSE Append(g[n - 1], s[n])]

(* The recursive function exists, by a least length that has none.         *)
LEMMA KeptExists ==
  ASSUME NEW s, NEW T, NEW len \in Nat
  PROVE  \E g : Kept(s, T, len, g)
<1> DEFINE D == {n \in Nat : ~ \E g : Kept(s, T, n, g)}
<1> SUFFICES ASSUME D # {} PROVE FALSE
  OBVIOUS
<1>1. Min(D) \in D /\ \A n \in D : Min(D) <= n
  <2>1. D \subseteq Nat
    OBVIOUS
  <2> HIDE DEF D
  <2> QED
    BY <2>1, LeastElement
<1> DEFINE n == Min(D)
<1>2. n \in Nat /\ ~ \E g : Kept(s, T, n, g)
  BY <1>1
<1>3. \A m \in Nat : m < n => \E g : Kept(s, T, m, g)
  BY <1>1
<1> HIDE DEF n, D
<1>4. CASE n = 0
  <2> DEFINE h == [m \in 0 .. 0 |-> <<>>]
  <2>1. h = [m \in 0 .. 0 |-> IF m = 0 THEN <<>>
                              ELSE IF s[m] \in T THEN h[m - 1]
                                   ELSE Append(h[m - 1], s[m])]
    OBVIOUS
  <2> HIDE DEF h
  <2> QED
    BY <1>2, <1>4, <2>1 DEF Kept
<1>5. CASE n # 0
  <2>1. n - 1 \in Nat /\ n - 1 < n
    BY <1>2, <1>5
  <2>2. PICK g : Kept(s, T, n - 1, g)
    BY <1>3, <2>1
  <2> DEFINE last == IF s[n] \in T THEN g[n - 1] ELSE Append(g[n - 1], s[n])
             h == [m \in 0 .. n |-> IF m = n THEN last ELSE g[m]]
  <2>3. ASSUME NEW m \in 0 .. n
        PROVE  h[m] = IF m = 0 THEN <<>>
                      ELSE IF s[m] \in T THEN h[m - 1]
                           ELSE Append(h[m - 1], s[m])
    <3>1. CASE m = n
      <4>1. h[m] = last /\ n - 1 \in 0 .. n /\ n - 1 # n
        BY <1>2, <1>5, <3>1
      <4>2. h[n - 1] = g[n - 1]
        BY <4>1
      <4> HIDE DEF h
      <4> QED
        BY <1>5, <3>1, <4>1, <4>2
    <3>2. CASE m # n
      <4>1. m \in 0 .. n - 1 /\ h[m] = g[m]
        BY <1>2, <3>2
      <4>2. g[m] = IF m = 0 THEN <<>>
                   ELSE IF s[m] \in T THEN g[m - 1]
                        ELSE Append(g[m - 1], s[m])
        BY <2>2, <4>1 DEF Kept
      <4>3. m # 0 => h[m - 1] = g[m - 1]
        BY <1>2, <4>1
      <4> HIDE DEF h
      <4> QED
        BY <4>1, <4>2, <4>3
    <3> QED
      BY <3>1, <3>2
  <2>4. Kept(s, T, n, h)
    <3>1. h = [m \in 0 .. n |-> h[m]]
      OBVIOUS
    <3> HIDE DEF h
    <3>2. h = [m \in 0 .. n |-> IF m = 0 THEN <<>>
                                ELSE IF s[m] \in T THEN h[m - 1]
                                     ELSE Append(h[m - 1], s[m])]
      BY <2>3, <3>1, Zenon
    <3> QED
      BY <3>2 DEF Kept
  <2> HIDE DEF h
  <2> QED
    BY <1>2, <2>4
<1> QED
  BY <1>4, <1>5

(* The sequence that the loop has built after n connections.               *)
LEMMA KeptPrefix ==
  ASSUME NEW S, NEW s \in Seq(S), NEW T, NEW g, Kept(s, T, Len(s), g)
  PROVE  \A n \in 0 .. Len(s) :
            /\ g[n] \in Seq(S) /\ Len(g[n]) <= n
            /\ ToSet(g[n]) = {s[m] : m \in 1 .. n} \ T
            /\ OneToOne(s) => OneToOne(g[n])
<1> DEFINE Good(n) == /\ g[n] \in Seq(S) /\ Len(g[n]) <= n
                      /\ ToSet(g[n]) = {s[m] : m \in 1 .. n} \ T
                      /\ OneToOne(s) => OneToOne(g[n])
           D == {n \in 0 .. Len(s) : ~ Good(n)}
<1> SUFFICES ASSUME D # {} PROVE FALSE
  OBVIOUS
<1>l. Len(s) \in Nat /\ DOMAIN s = 1 .. Len(s)
  BY ToSetDef
<1>1. Min(D) \in D /\ \A n \in D : Min(D) <= n
  <2>1. D \subseteq Nat
    BY <1>l
  <2> HIDE DEF D
  <2> QED
    BY <2>1, LeastElement
<1> DEFINE n == Min(D)
<1>2. n \in 0 .. Len(s) /\ ~ Good(n)
  BY <1>1
<1>3. \A m \in 0 .. Len(s) : m < n => Good(m)
  <2> SUFFICES ASSUME NEW m \in 0 .. Len(s), m < n, ~ Good(m) PROVE FALSE
    OBVIOUS
  <2> HIDE DEF Good
  <2>1. m \in D
    OBVIOUS
  <2>2. n <= m /\ n \in Nat /\ m \in Nat
    BY <1>1, <1>l, <2>1
  <2> QED
    BY <2>2
<1> HIDE DEF n, D
<1>4. g[n] = IF n = 0 THEN <<>>
             ELSE IF s[n] \in T THEN g[n - 1] ELSE Append(g[n - 1], s[n])
  BY <1>2 DEF Kept
<1>5. n # 0
  <2> SUFFICES ASSUME n = 0 PROVE Good(n)
    BY <1>2
  <2>1. g[n] = <<>> /\ {s[m] : m \in 1 .. n} = {}
    BY <1>4
  <2>2. <<>> \in Seq(S) /\ Len(<<>>) = 0 /\ 1 .. 0 = {}
    BY EmptySeq
  <2>3. DOMAIN <<>> = {}
    BY <2>2, ToSetDef
  <2>4. ToSet(<<>>) = {} /\ OneToOne(<<>>)
    BY <2>3 DEF ToSet, OneToOne
  <2> QED
    BY <2>1, <2>2, <2>4
<1>6. /\ n - 1 \in 0 .. Len(s) /\ n - 1 < n /\ n \in 1 .. Len(s)
      /\ {s[m] : m \in 1 .. n} = {s[m] : m \in 1 .. n - 1} \union {s[n]}
  <2>1. n \in Nat /\ n - 1 \in 0 .. Len(s) /\ n \in 1 .. Len(s)
    BY <1>2, <1>5, <1>l
  <2>2. 1 .. n = (1 .. n - 1) \union {n}
    BY <2>1
  <2> QED
    BY <2>1, <2>2
<1>7. Good(n - 1) /\ s[n] \in S
  BY <1>3, <1>6, ElementOfSeq
<1>8. CASE s[n] \in T
  <2>1. g[n] = g[n - 1]
    BY <1>4, <1>5, <1>8
  <2>2. {s[m] : m \in 1 .. n} \ T = {s[m] : m \in 1 .. n - 1} \ T
    BY <1>6, <1>8
  <2>3. Len(g[n]) <= n
    <3>1. Len(g[n - 1]) \in Nat /\ Len(g[n - 1]) <= n - 1
      BY <1>7, LenProperties
    <3> QED
      BY <1>6, <2>1, <3>1
  <2> QED
    BY <1>2, <1>7, <2>1, <2>2, <2>3
<1>9. CASE s[n] \notin T
  <2>1. g[n] = Append(g[n - 1], s[n])
    BY <1>4, <1>5, <1>9
  <2>2. /\ g[n] \in Seq(S) /\ Len(g[n]) = Len(g[n - 1]) + 1
        /\ ToSet(g[n]) = ToSet(g[n - 1]) \union {s[n]}
        /\ OneToOne(g[n - 1]) /\ s[n] \notin ToSet(g[n - 1]) => OneToOne(g[n])
    <3> DEFINE u == g[n - 1]
               v == s[n]
    <3>1. u \in Seq(S) /\ v \in S
      BY <1>7
    <3> HIDE DEF u, v
    <3>2. /\ Append(u, v) \in Seq(S) /\ Len(Append(u, v)) = Len(u) + 1
          /\ ToSet(Append(u, v)) = ToSet(u) \union {v}
          /\ OneToOne(u) /\ v \notin ToSet(u) => OneToOne(Append(u, v))
      BY ONLY <3>1, AppendFacts, SMT
    <3> QED
      BY ONLY <2>1, <3>2 DEF u, v
  <2>3. ToSet(g[n]) = {s[m] : m \in 1 .. n} \ T
    BY <1>6, <1>7, <1>9, <2>2
  <2>4. OneToOne(s) => s[n] \notin ToSet(g[n - 1])
    <3>1. ASSUME OneToOne(s), NEW m \in 1 .. n - 1 PROVE s[m] # s[n]
      BY <1>l, <1>6, <3>1 DEF OneToOne
    <3> QED
      BY <1>7, <3>1
  <2>5. Len(g[n]) <= n
    <3>1. Len(g[n - 1]) \in Nat /\ Len(g[n - 1]) <= n - 1
      BY <1>7, LenProperties
    <3> QED
      BY <1>6, <2>2, <3>1
  <2> QED
    BY <1>2, <1>7, <2>2, <2>3, <2>4, <2>5
<1> QED
  BY <1>8, <1>9

(* evictStale: the idle list without what is stale, in the same order.     *)
LEMMA RemainingFacts ==
  ASSUME NEW S, idle \in Seq(S)
  PROVE  /\ Remaining \in Seq(S) /\ Len(Remaining) <= Len(idle)
         /\ ToSet(Remaining) = IdleSet \ stale
         /\ OneToOne(idle) => OneToOne(Remaining)
<1> DEFINE g == CHOOSE h : Kept(idle, stale, Len(idle), h)
<1>1. Len(idle) \in Nat /\ IdleSet = {idle[m] : m \in 1 .. Len(idle)}
  BY ToSetDef DEF IdleSet
<1>2. Remaining = g[Len(idle)]
  BY DEF Remaining, Kept
<1>3. Kept(idle, stale, Len(idle), g)
  BY <1>1, KeptExists
<1> HIDE DEF g
<1>4. Len(idle) \in 0 .. Len(idle)
  BY <1>1
<1> DEFINE t == g[Len(idle)]
<1>5. /\ t \in Seq(S) /\ Len(t) <= Len(idle)
      /\ ToSet(t) = {idle[m] : m \in 1 .. Len(idle)} \ stale
      /\ OneToOne(idle) => OneToOne(t)
  BY <1>3, <1>4, KeptPrefix
<1> QED
  BY <1>1, <1>2, <1>5

-----------------------------------------------------------------------------
(* A new connection. *)

(* There is a number for every connection.                                 *)
Enough == Conns = Nat \ {0}

(* The numbers that Room adds up.                                          *)
LEMMA InvTypes ==
  ASSUME Inv
  PROVE  /\ Len(idle) \in Nat /\ DOMAIN idle = 1 .. Len(idle)
         /\ IdleSet = {idle[n] : n \in 1 .. Len(idle)} /\ IdleSet \subseteq Conns
         /\ IsFiniteSet(IdleSet) /\ Cardinality(IdleSet) <= Len(idle)
         /\ Cardinality(IdleSet) \in Nat
         /\ IsFiniteSet(active) /\ Cardinality(active) \in Nat
         /\ IsFiniteSet(Busy) /\ Cardinality(Busy) \in Nat
         /\ Cardinality(Busy) <= Cardinality(Clients)
         /\ Cardinality(Clients) \in Nat
         /\ deficit \in Nat /\ deficit <= MinIdle
<1>1. idle \in Seq(Conns) /\ deficit \in 0 .. MinIdle /\ IsFiniteSet(active)
  BY DEF Inv, TypeOK, Books
<1>2. /\ Len(idle) \in Nat /\ DOMAIN idle = 1 .. Len(idle)
      /\ IdleSet = {idle[n] : n \in 1 .. Len(idle)} /\ IdleSet \subseteq Conns
  BY <1>1, ToSetDef DEF IdleSet
<1>3. IsFiniteSet(IdleSet) /\ Cardinality(IdleSet) <= Len(idle)
  BY <1>1, LengthBoundsSet DEF IdleSet
<1>4. Busy \in SUBSET Clients
  BY DEF Busy
<1>5. /\ IsFiniteSet(Busy) /\ Cardinality(Busy) <= Cardinality(Clients)
  BY <1>4, ConstantsAssumption, FS_Subset
<1>6. deficit \in Nat /\ deficit <= MinIdle
  BY <1>1, ConstantsAssumption
<1> QED
  BY <1>1, <1>2, <1>3, <1>5, <1>6, ConstantsAssumption, FS_CardinalityType

(* createConn returns a connection that nobody has.                        *)
LEMMA FreshFacts ==
  ASSUME Enough, Inv
  PROVE  /\ Fresh \in Conns
         /\ Fresh \notin open /\ Fresh \notin active /\ Fresh \notin IdleSet
         /\ \A k \in Clients : Fresh # mine[k] /\ Fresh # box[k]
<1> DEFINE Mine == {mine[k] : k \in Clients}
           Box  == {box[k] : k \in Clients}
           Used == open \union active \union IdleSet \union Mine \union Box
           n    == Cardinality(Used)
<1>1. IsFiniteSet(Mine)
  <2>1. mine \in Surjection(Clients, Mine)
    <3>1. mine \in [Clients -> Mine]
      BY DEF Inv, TypeOK
    <3> QED
      BY <3>1 DEF Surjection
  <2> HIDE DEF Mine
  <2> QED
    BY <2>1, ConstantsAssumption, FS_Surjection
<1>2. IsFiniteSet(Box)
  <2>1. box \in Surjection(Clients, Box)
    <3>1. box \in [Clients -> Box]
      BY DEF Inv, TypeOK
    <3> QED
      BY <3>1 DEF Surjection
  <2> HIDE DEF Box
  <2> QED
    BY <2>1, ConstantsAssumption, FS_Surjection
<1>3. IsFiniteSet(Used)
  <2>1. Used = IdleSet \union active \union Mine \union Box
    BY DEF Inv, Books
  <2> HIDE DEF Mine, Box, Used
  <2>2. IsFiniteSet(IdleSet \union active)
    BY InvTypes, FS_Union
  <2>3. IsFiniteSet(IdleSet \union active \union Mine)
    BY <1>1, <2>2, FS_Union
  <2> QED
    BY <1>2, <2>1, <2>3, FS_Union
<1>4. Conns \ Used # {}
  <2> SUFFICES ASSUME Conns \subseteq Used PROVE FALSE
    OBVIOUS
  <2> HIDE DEF Used
  <2>1. n \in Nat
    BY <1>3, FS_CardinalityType
  <2> HIDE DEF n
  <2>2. 1 .. n + 1 \in SUBSET Used
    BY <2>1 DEF Enough
  <2>3. Cardinality(1 .. n + 1) <= n
    BY <1>3, <2>2, FS_Subset DEF n
  <2>4. Cardinality(1 .. n + 1) = n + 1
    <3>1. n + 1 \in Int /\ ~ (1 > n + 1)
      BY <2>1
    <3> QED
      BY <2>1, <3>1, FS_Interval
  <2> QED
    BY <2>1, <2>3, <2>4
<1>5. Fresh = Min(Conns \ Used)
  BY DEF Fresh
<1>6. Fresh \in Conns \ Used
  <2> HIDE DEF Used
  <2>1. Conns \ Used \subseteq Nat
    BY ConstantsAssumption
  <2> QED
    BY <1>4, <1>5, <2>1, LeastElement
<1> QED
  BY <1>6

-----------------------------------------------------------------------------
(* What a step does to the three cardinalities of Room. *)

(* The places of the busy clients.                                         *)
BusyPlace == {"creating", "resetting", "panicked"}

(* Arithmetic of one step.                                                 *)
LEMMA Successor ==
  ASSUME NEW x \in Nat
  PROVE  /\ x + 1 \in Nat /\ x + 1 <= x + 1 /\ x <= x + 1 /\ x <= x
         /\ x # 0 => x - 1 \in Nat /\ (x - 1) + 1 <= x
OBVIOUS

(* One element more or one less.                                           *)
LEMMA SetChanges ==
  ASSUME NEW S, IsFiniteSet(S), NEW x
  PROVE  /\ Cardinality(S) \in Nat /\ Cardinality(S) <= Cardinality(S)
         /\ IsFiniteSet(S \union {x}) /\ Cardinality(S \union {x}) \in Nat
         /\ Cardinality(S \union {x}) <= Cardinality(S) + 1
         /\ IsFiniteSet(S \ {x}) /\ Cardinality(S \ {x}) \in Nat
         /\ Cardinality(S \ {x}) <= Cardinality(S)
         /\ x \in S => Cardinality(S \ {x}) + 1 <= Cardinality(S)
<1>1. Cardinality(S) \in Nat
  BY FS_CardinalityType
<1>2. /\ IsFiniteSet(S \union {x})
      /\ Cardinality(S \union {x}) =
            IF x \in S THEN Cardinality(S) ELSE Cardinality(S) + 1
  BY FS_AddElement
<1>3. /\ IsFiniteSet(S \ {x})
      /\ Cardinality(S \ {x}) =
            IF x \in S THEN Cardinality(S) - 1 ELSE Cardinality(S)
  BY FS_RemoveElement
<1>4. Cardinality(S \ {x}) \in Nat /\ Cardinality(S \union {x}) \in Nat
  BY <1>2, <1>3, FS_CardinalityType
<1>5. x \in S => Cardinality(S) # 0
  BY FS_EmptySet
<1>6. x \in S => Cardinality(S \ {x}) = Cardinality(S) - 1
  BY <1>3
<1>7. x \notin S => Cardinality(S \ {x}) = Cardinality(S)
  BY <1>3
<1>8. x \in S => Cardinality(S \union {x}) = Cardinality(S)
  BY <1>2
<1>9. x \notin S => Cardinality(S \union {x}) = Cardinality(S) + 1
  BY <1>2
<1>10. Cardinality(S \union {x}) <= Cardinality(S) + 1
  BY <1>1, <1>8, <1>9, Successor
<1>11. x \in S => Cardinality(S \ {x}) + 1 <= Cardinality(S)
  BY <1>1, <1>5, <1>6, Successor
<1>12. Cardinality(S \ {x}) <= Cardinality(S)
  <2>1. CASE x \in S
    <3>1. \A y \in Nat : y # 0 => y - 1 <= y
      OBVIOUS
    <3> QED
      BY <1>1, <1>5, <1>6, <2>1, <3>1
  <2> QED
    BY <1>1, <1>7, <2>1, Successor
<1> QED
  BY <1>1, <1>2, <1>3, <1>4, <1>10, <1>11, <1>12, Successor

(* A client moves without becoming busy or ceasing to be.                  *)
LEMMA BusyKept ==
  ASSUME Inv, NEW k \in Clients, NEW l, GoTo(k, l),
         pc[k] \in BusyPlace <=> l \in BusyPlace
  PROVE  Cardinality(Busy') \in Nat /\ Cardinality(Busy') <= Cardinality(Busy)
<1>1. Busy' = Busy
  BY DEF Inv, TypeOK, GoTo, Busy, BusyPlace
<1> QED
  BY <1>1, InvTypes, Successor

(* A client becomes busy.                                                  *)
LEMMA BusyAdded ==
  ASSUME Inv, NEW k \in Clients, NEW l, GoTo(k, l),
         pc[k] \notin BusyPlace, l \in BusyPlace
  PROVE  Cardinality(Busy') \in Nat /\ Cardinality(Busy') <= Cardinality(Busy) + 1
<1>1. Busy' = Busy \union {k} /\ k \notin Busy
  BY DEF Inv, TypeOK, GoTo, Busy, BusyPlace
<1>2. Cardinality(Busy') = Cardinality(Busy) + 1
  BY <1>1, InvTypes, FS_AddElement
<1> QED
  BY <1>2, InvTypes, Successor

(* A client is busy no more.                                               *)
LEMMA BusyRemoved ==
  ASSUME Inv, NEW k \in Clients, NEW l, GoTo(k, l),
         pc[k] \in BusyPlace, l \notin BusyPlace
  PROVE  /\ Cardinality(Busy') \in Nat /\ Cardinality(Busy') <= Cardinality(Busy)
         /\ Cardinality(Busy') + 1 <= Cardinality(Busy)
<1>1. Busy' = Busy \ {k} /\ k \in Busy
  BY DEF Inv, TypeOK, GoTo, Busy, BusyPlace
<1> QED
  BY <1>1, InvTypes, SetChanges

(* The bound is a number.                                                  *)
LEMMA CapacityInteger == Capacity \in Int
<1>1. Cardinality(Clients) \in Nat
  BY ConstantsAssumption, FS_CardinalityType
<1> QED
  BY <1>1, ConstantsAssumption DEF Capacity

(* Four numbers of which none grows, or one grows by what another gives    *)
(* up.                                                                     *)
LEMMA OneMoves ==
  ASSUME NEW i \in Nat, NEW a \in Nat, NEW b \in Nat, NEW d \in Nat,
         NEW j \in Nat, NEW c \in Nat, NEW e \in Nat, NEW f \in Nat,
         NEW m \in Int, i + a + b + d <= m,
         \/ j <= i     /\ c <= a     /\ e <= b     /\ f <= d
         \/ j + 1 <= i /\ c <= a + 1 /\ e <= b     /\ f <= d
         \/ j <= i     /\ c <= a + 1 /\ e + 1 <= b /\ f <= d
         \/ j <= i     /\ c + 1 <= a /\ e <= b + 1 /\ f <= d
         \/ j <= i + 1 /\ c <= a     /\ e + 1 <= b /\ f <= d
         \/ j <= i + 1 /\ c <= a     /\ e <= b     /\ f + 1 <= d
  PROVE  j + c + e + f <= m
OBVIOUS

(* The capacity is kept by every step but the two that check it: one that  *)
(* takes from the idle list, the active set, the busy clients or the       *)
(* deficit at least what it adds to another.                               *)
LEMMA RoomKept ==
  ASSUME Inv,
         Len(idle') \in Nat, Cardinality(active') \in Nat,
         Cardinality(Busy') \in Nat, deficit' \in Nat,
         \/ /\ Len(idle') <= Len(idle)
            /\ Cardinality(active') <= Cardinality(active)
            /\ Cardinality(Busy') <= Cardinality(Busy) /\ deficit' <= deficit
         \/ /\ Len(idle') + 1 <= Len(idle)
            /\ Cardinality(active') <= Cardinality(active) + 1
            /\ Cardinality(Busy') <= Cardinality(Busy) /\ deficit' <= deficit
         \/ /\ Len(idle') <= Len(idle)
            /\ Cardinality(active') <= Cardinality(active) + 1
            /\ Cardinality(Busy') + 1 <= Cardinality(Busy) /\ deficit' <= deficit
         \/ /\ Len(idle') <= Len(idle)
            /\ Cardinality(active') + 1 <= Cardinality(active)
            /\ Cardinality(Busy') <= Cardinality(Busy) + 1 /\ deficit' <= deficit
         \/ /\ Len(idle') <= Len(idle) + 1
            /\ Cardinality(active') <= Cardinality(active)
            /\ Cardinality(Busy') + 1 <= Cardinality(Busy) /\ deficit' <= deficit
         \/ /\ Len(idle') <= Len(idle) + 1
            /\ Cardinality(active') <= Cardinality(active)
            /\ Cardinality(Busy') <= Cardinality(Busy) /\ deficit' + 1 <= deficit
  PROVE  Room'
<1> SUFFICES ASSUME
      NEW i \in Nat, NEW a \in Nat, NEW b \in Nat, NEW d \in Nat,
      NEW j \in Nat, NEW c \in Nat, NEW e \in Nat, NEW f \in Nat, NEW m \in Int,
      i = Len(idle), a = Cardinality(active), b = Cardinality(Busy), d = deficit,
      j = Len(idle'), c = Cardinality(active'), e = Cardinality(Busy'), f = deficit',
      m = Capacity
    PROVE j + c + e + f <= m
  BY InvTypes, CapacityInteger, Zenon DEF Room, Capacity
<1>1. i + a + b + d <= m
  BY DEF Inv, Room
<1>2. \/ j <= i     /\ c <= a     /\ e <= b     /\ f <= d
      \/ j + 1 <= i /\ c <= a + 1 /\ e <= b     /\ f <= d
      \/ j <= i     /\ c <= a + 1 /\ e + 1 <= b /\ f <= d
      \/ j <= i     /\ c + 1 <= a /\ e <= b + 1 /\ f <= d
      \/ j <= i + 1 /\ c <= a     /\ e + 1 <= b /\ f <= d
      \/ j <= i + 1 /\ c <= a     /\ e <= b     /\ f + 1 <= d
  OBVIOUS
<1>3. i \in Nat /\ a \in Nat /\ b \in Nat /\ d \in Nat /\ m \in Int
  OBVIOUS
<1>4. j \in Nat /\ c \in Nat /\ e \in Nat /\ f \in Nat
  OBVIOUS
<1>5. CASE j <= i /\ c <= a /\ e <= b /\ f <= d
  BY ONLY <1>1, <1>3, <1>4, <1>5
<1>6. CASE j + 1 <= i /\ c <= a + 1 /\ e <= b /\ f <= d
  BY ONLY <1>1, <1>3, <1>4, <1>6
<1>7. CASE j <= i /\ c <= a + 1 /\ e + 1 <= b /\ f <= d
  BY ONLY <1>1, <1>3, <1>4, <1>7
<1>8. CASE j <= i /\ c + 1 <= a /\ e <= b + 1 /\ f <= d
  BY ONLY <1>1, <1>3, <1>4, <1>8
<1>9. CASE j <= i + 1 /\ c <= a /\ e + 1 <= b /\ f <= d
  BY ONLY <1>1, <1>3, <1>4, <1>9
<1>10. CASE j <= i + 1 /\ c <= a /\ e <= b /\ f + 1 <= d
  BY ONLY <1>1, <1>3, <1>4, <1>10
<1> QED
  BY <1>2, <1>5, <1>6, <1>7, <1>8, <1>9, <1>10, Zenon

(* NewBucketPool.                                                          *)
LEMMA InitInv == ASSUME Enough, Init PROVE Inv
<1>1. PICK n \in 0 .. MinIdle : idle = [m \in 1 .. n |-> m]
  BY DEF Init
<1>2. n \in Nat /\ n <= MinIdle
  BY ConstantsAssumption
<1>3. idle \in Seq(Conns) /\ Len(idle) = n
  BY <1>1, <1>2 DEF Enough
<1>4. IdleSet = 1 .. n /\ DOMAIN idle = 1 .. n
  <2>1. IdleSet = {idle[m] : m \in 1 .. n} /\ DOMAIN idle = 1 .. n
    BY <1>3, ToSetDef DEF IdleSet
  <2> QED
    BY <1>1, <2>1
<1>5. TypeOK
  <2>1. IdleSet \subseteq Conns /\ active \subseteq Conns /\ open \subseteq Conns
    BY <1>4, <1>2 DEF Init, Enough
  <2>2. waiters \in Seq(Clients)
    BY EmptySeq DEF Init
  <2>3. /\ box \in [Clients -> Conns \union {None, Hangup}]
        /\ mine \in [Clients -> Conns \union {None}]
        /\ pc \in [Clients -> Location]
    BY DEF Init, Location
  <2>4. closed \in BOOLEAN /\ stale \subseteq IdleSet
    BY DEF Init
  <2>5. maint \in {"select", "evicted", "opening", "stopped"} /\ deficit \in 0 .. MinIdle
    BY ConstantsAssumption DEF Init
  <2> QED
    BY <1>3, <2>1, <2>2, <2>3, <2>4, <2>5 DEF TypeOK
<1>6. Places
  <2>1. ToSet(waiters) = {} /\ OneToOne(waiters)
    BY DEF Init, ToSet, OneToOne
  <2> QED
    BY <2>1 DEF Init, Places
<1>7. Owners
  <2>1. OneToOne(idle)
    BY <1>1, <1>4 DEF OneToOne
  <2> QED
    BY <1>4, <2>1 DEF Init, Owners, None, Enough
<1>8. Books
  <2>1. IsFiniteSet(active) /\ active = {} /\ open = IdleSet
    BY FS_EmptySet DEF Init
  <2>2. \A k \in Clients : pc[k] = "out" /\ box[k] = 0
    BY DEF Init, None
  <2> QED
    BY <2>1, <2>2, ConstantsAssumption DEF Books
<1>9. Room
  <2>1. Busy = {}
    BY DEF Init, Busy
  <2>2. Cardinality(active) = 0 /\ Cardinality(Busy) = 0 /\ deficit = 0
    BY <2>1, FS_EmptySet DEF Init
  <2>3. Cardinality(Clients) \in Nat
    BY ConstantsAssumption, FS_CardinalityType
  <2>4. n + 0 + 0 + 0 <= Capacity
    BY <1>2, <2>3, ConstantsAssumption DEF Capacity
  <2> QED
    BY <1>3, <2>2, <2>4 DEF Room
<1>10. Opening
  BY DEF Init, Opening
<1> QED
  BY <1>5, <1>6, <1>7, <1>8, <1>9, <1>10 DEF Inv

-----------------------------------------------------------------------------
(* Acquire. *)

(* popIdle finds a connection: it goes from the list to the active ones.   *)
LEMMA TakeIdleInv == ASSUME Inv, NEW k \in Clients, TakeIdle(k) PROVE Inv'
<1> DEFINE n == Max(Live)
           c == idle[n]
           Dropped == {idle[m] : m \in n + 1 .. Len(idle)}
<1>t. /\ idle \in Seq(Conns) /\ Len(idle) \in Nat /\ OneToOne(idle)
      /\ DOMAIN idle = 1 .. Len(idle)
      /\ IdleSet = {idle[m] : m \in 1 .. Len(idle)}
      /\ pc[k] = "out" /\ ~closed /\ mine[k] = None /\ box[k] = None
  BY InvTypes DEF Inv, TypeOK, Places, Owners, TakeIdle
<1>1. n \in 1 .. Len(idle) /\ c \notin stale /\ Dropped \subseteq stale
  <2>1. Live \subseteq 1 .. Len(idle) /\ Live # {}
    BY <1>t DEF Live, TakeIdle
  <2>2. n \in Live /\ \A m \in Live : n >= m
    BY <1>t, <2>1, GreatestElement
  <2> HIDE DEF n
  <2>3. \A m \in n + 1 .. Len(idle) : idle[m] \in stale
    BY <1>t, <2>1, <2>2 DEF Live
  <2> QED
    BY <2>1, <2>2, <2>3 DEF Live
<1>2. /\ idle' = SubSeq(idle, 1, n - 1) /\ open' = open \ Dropped
      /\ stale' = stale \ Dropped /\ active' = active \union {c}
      /\ mine' = [mine EXCEPT ![k] = c] /\ pc' = [pc EXCEPT ![k] = "using"]
      /\ UNCHANGED <<waiters, closed, box, maint, deficit>>
  BY DEF TakeIdle, Hold, GoTo, maintVars
<1> HIDE DEF n
<1>3. /\ idle' \in Seq(Conns) /\ Len(idle') = n - 1
      /\ IdleSet' = {idle[m] : m \in 1 .. n - 1} /\ OneToOne(idle')
  <2>1. n - 1 \in 0 .. Len(idle)
    BY <1>1, <1>t
  <2> QED
    BY <1>2, <1>t, <2>1, PrefixFacts DEF IdleSet
<1>4. /\ IdleSet = IdleSet' \union {c} \union Dropped
      /\ c \notin IdleSet' /\ c \notin Dropped /\ IdleSet' \intersect Dropped = {}
      /\ c \in Conns
  <2>1. 1 .. Len(idle) = (1 .. n - 1) \union {n} \union (n + 1 .. Len(idle))
    BY <1>1, <1>t
  <2>2. \A m \in 1 .. Len(idle) : m # n => idle[m] # c
    BY <1>1, <1>t DEF OneToOne
  <2>3. \A m \in 1 .. n - 1, l \in n + 1 .. Len(idle) : idle[m] # idle[l]
    BY <1>1, <1>t DEF OneToOne
  <2>4. \A m \in 1 .. n - 1 : m \in 1 .. Len(idle) /\ m # n
    BY <1>1, <1>t
  <2>5. \A m \in n + 1 .. Len(idle) : m \in 1 .. Len(idle) /\ m # n
    BY <1>1, <1>t
  <2>6. c \in Conns
    BY <1>1, <1>t, ElementOfSeq
  <2> QED
    BY <1>3, <1>t, <2>1, <2>2, <2>3, <2>4, <2>5, <2>6
<1> HIDE DEF c, Dropped
<1>5. TypeOK'
  BY <1>1, <1>2, <1>3, <1>4 DEF Inv, TypeOK, Location
<1>6. Places'
  BY <1>t, <1>2, <1>4, ConstantsAssumption DEF Inv, TypeOK, Places, None
<1>7. Owners'
  BY <1>t, <1>2, <1>3, <1>4, ConstantsAssumption DEF Inv, TypeOK, Owners, None
<1>8. Books'
  <2>1. IsFiniteSet(active')
    BY <1>2, FS_AddElement DEF Inv, Books
  <2>2. IdleSet' \union active' \subseteq open'
    BY <1>2, <1>4 DEF Inv, Books, Owners
  <2>3. ASSUME NEW x \in open'
        PROVE  \/ x \in IdleSet' \/ x \in active'
               \/ \E j \in Clients : mine'[j] = x /\ pc'[j] \in {"resetting", "panicked"}
    <3>1. x \in open /\ x \notin Dropped
      BY <1>2, <2>3
    <3>2. CASE x \in IdleSet \/ x \in active
      BY <1>2, <1>4, <3>1, <3>2
    <3>3. CASE \E j \in Clients : mine[j] = x /\ pc[j] \in {"resetting", "panicked"}
      BY <1>t, <1>2, <3>3 DEF Inv, TypeOK
    <3> QED
      BY <3>1, <3>2, <3>3 DEF Inv, Books
  <2>4. ASSUME NEW j \in Clients
        PROVE  /\ pc'[j] = "resetting" => mine'[j] \notin active'
               /\ ~closed' /\ pc'[j] = "using" => mine'[j] \in active'
               /\ ~closed' /\ box'[j] \in Conns => box'[j] \in active'
    BY <1>t, <1>2, <1>4 DEF Inv, TypeOK, Books, Owners
  <2> QED
    BY <2>1, <2>2, <2>3, <2>4 DEF Books
<1>9. Room'
  <2>1. Cardinality(Busy') \in Nat /\ Cardinality(Busy') <= Cardinality(Busy)
    BY <1>t, BusyKept DEF TakeIdle, BusyPlace
  <2>2. Cardinality(active') \in Nat /\ Cardinality(active') <= Cardinality(active) + 1
    BY <1>2, SetChanges DEF Inv, Books
  <2>3. Len(idle') \in Nat /\ Len(idle') + 1 <= Len(idle)
    BY <1>1, <1>3, <1>t
  <2>4. deficit' \in Nat /\ deficit' <= deficit
    BY <1>2, InvTypes, Successor
  <2> QED
    BY <2>1, <2>2, <2>3, <2>4, RoomKept
<1>10. Opening'
  BY <1>2 DEF Inv, Opening
<1> QED
  BY <1>5, <1>6, <1>7, <1>8, <1>9, <1>10 DEF Inv

(* The marks for nothing are no connections.                               *)
LEMMA NotConns == None \notin Conns /\ Hangup \notin Conns /\ None # Hangup
BY ConstantsAssumption DEF None, Hangup

(* popIdle finds none: it has emptied the list.                            *)
LEMMA PopFacts ==
  ASSUME Inv, PopNothing
  PROVE  /\ idle' \in Seq(Conns) /\ Len(idle') = 0 /\ IdleSet' = {}
         /\ OneToOne(idle') /\ open' = open \ IdleSet /\ stale' = {}
         /\ Len(idle') <= Len(idle)
<1>1. idle' = <<>> /\ open' = open \ IdleSet /\ stale' = {}
  BY DEF PopNothing
<1>2. idle' \in Seq(Conns) /\ Len(idle') = 0
  BY <1>1, EmptySeq
<1>3. IdleSet' = {idle'[n] : n \in 1 .. Len(idle')} /\ DOMAIN idle' = 1 .. Len(idle')
  <2>1. IdleSet' = ToSet(idle')
    BY DEF IdleSet
  <2>2. idle' \in Seq(Conns)
    BY <1>2
  <2>3. /\ ToSet(idle') = {idle'[n] : n \in 1 .. Len(idle')}
        /\ DOMAIN idle' = 1 .. Len(idle')
    BY ONLY <2>2, ToSetDef, Zenon
  <2> QED
    BY <2>1, <2>3, Zenon
<1>4. IdleSet' = {} /\ OneToOne(idle')
  BY <1>2, <1>3 DEF OneToOne
<1>5. 0 <= Len(idle)
  BY InvTypes
<1> QED
  BY <1>1, <1>2, <1>4, <1>5

(* What the books say after the idle list was emptied and nothing else    *)
(* happened to the connections.                                            *)
LEMMA PopBooks ==
  ASSUME Inv, PopNothing, NEW k \in Clients, pc[k] = "out", NEW l,
         GoTo(k, l), l \in {"creating", "waiting"},
         UNCHANGED <<active, closed, box, mine>>
  PROVE  Books'
<1>1. IsFiniteSet(active')
  BY DEF Inv, Books
<1>2. IdleSet' \union active' \subseteq open'
  BY PopFacts DEF Inv, Books, Owners
<1>3. ASSUME NEW x \in open'
      PROVE  \/ x \in IdleSet' \/ x \in active'
             \/ \E j \in Clients : mine'[j] = x /\ pc'[j] \in {"resetting", "panicked"}
  <2>1. x \in open /\ x \notin IdleSet
    BY PopFacts
  <2>2. CASE \E j \in Clients : mine[j] = x /\ pc[j] \in {"resetting", "panicked"}
    BY <2>2 DEF Inv, TypeOK, GoTo
  <2> QED
    BY <2>1, <2>2 DEF Inv, Books
<1>4. ASSUME NEW j \in Clients
      PROVE  /\ pc'[j] = "resetting" => mine'[j] \notin active'
             /\ ~closed' /\ pc'[j] = "using" => mine'[j] \in active'
             /\ ~closed' /\ box'[j] \in Conns => box'[j] \in active'
  BY DEF Inv, TypeOK, Books, GoTo
<1> QED
  BY <1>1, <1>2, <1>3, <1>4 DEF Books

(* The check of Acquire, with the list empty and the caller not yet        *)
(* counted.                                                                *)
LEMMA RoomAtStart ==
  ASSUME NEW a \in Nat, NEW b \in Nat, NEW d \in Nat, NEW n \in Nat, NEW i \in Nat,
         a < MaxConnections, b <= n, d <= MinIdle, i = 0
  PROVE  i + a + b + d <= MaxConnections + n - 1 + MinIdle
BY ConstantsAssumption

(* Acquire below the maximum: the first of the two steps that check Room.  *)
LEMMA StartCreateInv == ASSUME Inv, NEW k \in Clients, StartCreate(k) PROVE Inv'
<1>t. pc[k] = "out" /\ ~closed /\ mine[k] = None /\ box[k] = None
  BY DEF Inv, Places, StartCreate
<1>1. /\ PopNothing /\ GoTo(k, "creating") /\ Cardinality(active) < MaxConnections
      /\ pc' = [pc EXCEPT ![k] = "creating"]
      /\ UNCHANGED <<active, waiters, closed, box, mine, maint, deficit>>
  BY DEF StartCreate, GoTo, maintVars
<1>2. TypeOK'
  BY <1>1, PopFacts DEF Inv, TypeOK, Location
<1>3. Places'
  BY <1>t, <1>1 DEF Inv, TypeOK, Places
<1>4. Owners'
  BY <1>1, PopFacts DEF Inv, Owners
<1>5. Books'
  BY <1>t, <1>1, PopBooks
<1>6. Room'
  <2>1. IsFiniteSet(Clients) /\ Busy' \in SUBSET Clients
    BY ConstantsAssumption DEF Busy
  <2>2. /\ Cardinality(Busy') \in Nat /\ Cardinality(Busy') <= Cardinality(Clients)
        /\ Cardinality(Clients) \in Nat
    BY <2>1, FS_Subset, FS_CardinalityType
  <2>3. Len(idle') \in Nat /\ Len(idle') = 0
    BY <1>1, PopFacts
  <2>4. Cardinality(active') \in Nat /\ Cardinality(active') < MaxConnections
    BY <1>1, InvTypes
  <2>5. deficit' \in Nat /\ deficit' <= MinIdle
    BY <1>1, InvTypes
  <2>6. Len(idle') + Cardinality(active') + Cardinality(Busy') + deficit'
          <= MaxConnections + Cardinality(Clients) - 1 + MinIdle
    BY <2>2, <2>3, <2>4, <2>5, RoomAtStart
  <2> QED
    BY <2>6 DEF Room, Capacity
<1>7. Opening'
  BY <1>1 DEF Inv, Opening
<1> QED
  BY <1>2, <1>3, <1>4, <1>5, <1>6, <1>7 DEF Inv

(* Acquire at the maximum.                                                 *)
LEMMA JoinWaitersInv == ASSUME Inv, NEW k \in Clients, JoinWaiters(k) PROVE Inv'
<1>t. /\ pc[k] = "out" /\ ~closed /\ mine[k] = None /\ box[k] = None
      /\ k \notin ToSet(waiters)
  BY DEF Inv, Places, JoinWaiters
<1>1. /\ PopNothing /\ GoTo(k, "waiting") /\ waiters' = Append(waiters, k)
      /\ pc' = [pc EXCEPT ![k] = "waiting"]
      /\ UNCHANGED <<active, closed, box, mine, maint, deficit>>
  BY DEF JoinWaiters, GoTo, maintVars
<1>w. /\ waiters' \in Seq(Clients) /\ ToSet(waiters') = ToSet(waiters) \union {k}
      /\ OneToOne(waiters')
  BY <1>t, <1>1, AppendFacts DEF Inv, TypeOK, Places
<1>2. TypeOK'
  BY <1>1, <1>w, PopFacts DEF Inv, TypeOK, Location
<1>3. Places'
  BY <1>t, <1>1, <1>w DEF Inv, TypeOK, Places
<1>4. Owners'
  BY <1>1, PopFacts DEF Inv, Owners
<1>5. Books'
  BY <1>t, <1>1, PopBooks
<1>6. Room'
  <2>1. Cardinality(Busy') \in Nat /\ Cardinality(Busy') <= Cardinality(Busy)
    BY <1>t, <1>1, BusyKept DEF BusyPlace
  <2>2. Cardinality(active') \in Nat /\ Cardinality(active') <= Cardinality(active)
    BY <1>1, InvTypes, Successor
  <2>3. Len(idle') \in Nat /\ Len(idle') <= Len(idle)
    BY <1>1, PopFacts
  <2>4. deficit' \in Nat /\ deficit' <= deficit
    BY <1>1, InvTypes, Successor
  <2> QED
    BY <2>1, <2>2, <2>3, <2>4, RoomKept
<1>7. Opening'
  BY <1>1 DEF Inv, Opening
<1> QED
  BY <1>2, <1>3, <1>4, <1>5, <1>6, <1>7 DEF Inv

(* What a step leaves alone does not grow.                                 *)
LEMMA Unmoved ==
  ASSUME Inv
  PROVE  /\ UNCHANGED idle => Len(idle') \in Nat /\ Len(idle') <= Len(idle)
         /\ UNCHANGED active =>
               Cardinality(active') \in Nat /\ Cardinality(active') <= Cardinality(active)
         /\ UNCHANGED deficit => deficit' \in Nat /\ deficit' <= deficit
         /\ UNCHANGED pc =>
               Cardinality(Busy') \in Nat /\ Cardinality(Busy') <= Cardinality(Busy)
<1>1. UNCHANGED pc => Busy' = Busy
  BY DEF Busy
<1> QED
  BY <1>1, InvTypes, Successor

(* createConn fails, or ends after Close, or in time.                      *)
LEMMA FinishCreateInv ==
  ASSUME Enough, Inv, NEW k \in Clients, FinishCreate(k) PROVE Inv'
<1>t. pc[k] = "creating" /\ mine[k] = None /\ box[k] = None
  BY DEF Inv, Places, FinishCreate
<1>u. UNCHANGED <<idle, waiters, closed, stale, box, maint, deficit>> /\ IdleSet' = IdleSet
  BY DEF FinishCreate, maintVars, IdleSet
<1>7. Opening'
  BY <1>u DEF Inv, Opening
<1>n. Len(idle') \in Nat /\ Len(idle') <= Len(idle) /\ deficit' \in Nat /\ deficit' <= deficit
  BY <1>u, Unmoved
<1>a. CASE GoTo(k, "out") /\ UNCHANGED <<active, open, mine>>
  <2>1. pc' = [pc EXCEPT ![k] = "out"] /\ UNCHANGED <<active, open, mine>>
    BY <1>a DEF GoTo
  <2>2. TypeOK'
    BY <1>u, <2>1 DEF Inv, TypeOK, Location
  <2>3. Places'
    BY <1>t, <1>u, <2>1 DEF Inv, TypeOK, Places
  <2>4. Owners'
    BY <1>u, <2>1 DEF Inv, Owners
  <2>5. Books'
    BY <1>t, <1>u, <2>1 DEF Inv, TypeOK, Books
  <2>6. Room'
    <3>1. Cardinality(Busy') \in Nat /\ Cardinality(Busy') <= Cardinality(Busy)
      BY <1>a, <1>t, BusyRemoved DEF BusyPlace
    <3> QED
      BY <1>n, <2>1, <3>1, Unmoved, RoomKept
  <2> QED
    BY <1>7, <2>2, <2>3, <2>4, <2>5, <2>6 DEF Inv
<1>b. CASE /\ closed /\ GoTo(k, "panicked") /\ open' = open \union {Fresh}
           /\ Hold(k, Fresh) /\ UNCHANGED active
  <2>1. /\ pc' = [pc EXCEPT ![k] = "panicked"] /\ mine' = [mine EXCEPT ![k] = Fresh]
        /\ closed /\ open' = open \union {Fresh} /\ UNCHANGED active
    BY <1>b DEF GoTo, Hold
  <2>2. TypeOK'
    BY <1>u, <2>1, FreshFacts DEF Inv, TypeOK, Location
  <2>3. Places'
    BY <1>t, <1>u, <2>1, FreshFacts, NotConns DEF Inv, TypeOK, Places
  <2>4. Owners'
    BY <1>u, <2>1, FreshFacts DEF Inv, TypeOK, Owners
  <2>5. Books'
    <3>1. IsFiniteSet(active') /\ IdleSet' \union active' \subseteq open'
      BY <1>u, <2>1 DEF Inv, Books
    <3>2. ASSUME NEW x \in open'
          PROVE  \/ x \in IdleSet' \/ x \in active'
                 \/ \E j \in Clients : mine'[j] = x /\ pc'[j] \in {"resetting", "panicked"}
      BY <1>t, <1>u, <2>1 DEF Inv, TypeOK, Books
    <3>3. ASSUME NEW j \in Clients
          PROVE  /\ pc'[j] = "resetting" => mine'[j] \notin active'
                 /\ ~closed' /\ pc'[j] = "using" => mine'[j] \in active'
                 /\ ~closed' /\ box'[j] \in Conns => box'[j] \in active'
      BY <1>u, <2>1 DEF Inv, TypeOK, Books
    <3> QED
      BY <3>1, <3>2, <3>3 DEF Books
  <2>6. Room'
    <3>1. Cardinality(Busy') \in Nat /\ Cardinality(Busy') <= Cardinality(Busy)
      BY <1>b, <1>t, BusyKept DEF BusyPlace
    <3> QED
      BY <1>n, <2>1, <3>1, Unmoved, RoomKept
  <2> QED
    BY <1>7, <2>2, <2>3, <2>4, <2>5, <2>6 DEF Inv
<1>c. CASE /\ ~closed /\ GoTo(k, "using") /\ open' = open \union {Fresh}
           /\ active' = active \union {Fresh} /\ Hold(k, Fresh)
  <2>1. /\ pc' = [pc EXCEPT ![k] = "using"] /\ mine' = [mine EXCEPT ![k] = Fresh]
        /\ ~closed /\ open' = open \union {Fresh} /\ active' = active \union {Fresh}
    BY <1>c DEF GoTo, Hold
  <2>2. TypeOK'
    BY <1>u, <2>1, FreshFacts DEF Inv, TypeOK, Location
  <2>3. Places'
    BY <1>t, <1>u, <2>1, FreshFacts, NotConns DEF Inv, TypeOK, Places
  <2>4. Owners'
    BY <1>u, <2>1, FreshFacts DEF Inv, TypeOK, Owners
  <2>5. Books'
    <3>1. IsFiniteSet(active') /\ IdleSet' \union active' \subseteq open'
      BY <1>u, <2>1, FS_AddElement DEF Inv, Books
    <3>2. ASSUME NEW x \in open'
          PROVE  \/ x \in IdleSet' \/ x \in active'
                 \/ \E j \in Clients : mine'[j] = x /\ pc'[j] \in {"resetting", "panicked"}
      BY <1>t, <1>u, <2>1 DEF Inv, TypeOK, Books
    <3>3. ASSUME NEW j \in Clients
          PROVE  /\ pc'[j] = "resetting" => mine'[j] \notin active'
                 /\ ~closed' /\ pc'[j] = "using" => mine'[j] \in active'
                 /\ ~closed' /\ box'[j] \in Conns => box'[j] \in active'
      BY <1>u, <2>1, FreshFacts DEF Inv, TypeOK, Books
    <3> QED
      BY <3>1, <3>2, <3>3 DEF Books
  <2>6. Room'
    <3>1. Cardinality(Busy') \in Nat /\ Cardinality(Busy') + 1 <= Cardinality(Busy)
      BY <1>c, <1>t, BusyRemoved DEF BusyPlace
    <3>2. Cardinality(active') \in Nat /\ Cardinality(active') <= Cardinality(active) + 1
      BY <2>1, SetChanges DEF Inv, Books
    <3> QED
      BY <1>n, <3>1, <3>2, RoomKept
  <2> QED
    BY <1>7, <2>2, <2>3, <2>4, <2>5, <2>6 DEF Inv
<1> QED
  BY <1>a, <1>b, <1>c DEF FinishCreate

-----------------------------------------------------------------------------
(* Waiting. *)

(* A waiter takes a connection, or learns of Close.                        *)
LEMMA ReceiveInv == ASSUME Inv, NEW k \in Clients, Receive(k) PROVE Inv'
<1>t. pc[k] = "waiting" /\ mine[k] = None /\ box[k] # None
  BY DEF Inv, Places, Receive
<1>u. /\ UNCHANGED <<idle, active, waiters, closed, open, stale, maint, deficit>>
      /\ IdleSet' = IdleSet /\ box' = [box EXCEPT ![k] = None]
  BY DEF Receive, poolVars, connVars, maintVars, IdleSet
<1>1. \/ box[k] = Hangup /\ pc' = [pc EXCEPT ![k] = "out"] /\ mine' = mine
      \/ /\ box[k] \in Conns /\ pc' = [pc EXCEPT ![k] = "using"]
         /\ mine' = [mine EXCEPT ![k] = box[k]]
  BY <1>t DEF Receive, GoTo, Hold, Inv, TypeOK
<1>2. TypeOK'
  BY <1>u, <1>1 DEF Inv, TypeOK, Location
<1>3. Places'
  <2>1. ASSUME NEW j \in Clients
        PROVE  /\ mine'[j] # None <=> pc'[j] \in {"using", "resetting", "panicked"}
               /\ box'[j] # None => pc'[j] \in {"waiting", "removing"}
               /\ pc'[j] = "panicked" => closed'
    BY <1>t, <1>u, <1>1, NotConns DEF Inv, TypeOK, Places
  <2>2. k \notin ToSet(waiters) /\ ToSet(waiters) \subseteq Clients
    BY <1>t, ToSetDef DEF Inv, TypeOK, Places
  <2>3. ASSUME NEW j \in ToSet(waiters)
        PROVE  pc'[j] \in {"waiting", "removing"} /\ box'[j] = None
    BY <1>u, <1>1, <2>2 DEF Inv, TypeOK, Places
  <2> QED
    BY <1>u, <2>1, <2>3 DEF Inv, Places
<1>4. Owners'
  BY <1>t, <1>u, <1>1, NotConns DEF Inv, TypeOK, Owners
<1>5. Books'
  <2>1. IsFiniteSet(active') /\ IdleSet' \union active' \subseteq open'
    BY <1>u DEF Inv, Books
  <2>2. ASSUME NEW x \in open'
        PROVE  \/ x \in IdleSet' \/ x \in active'
               \/ \E j \in Clients : mine'[j] = x /\ pc'[j] \in {"resetting", "panicked"}
    BY <1>t, <1>u, <1>1 DEF Inv, TypeOK, Books
  <2>3. ASSUME NEW j \in Clients
        PROVE  /\ pc'[j] = "resetting" => mine'[j] \notin active'
               /\ ~closed' /\ pc'[j] = "using" => mine'[j] \in active'
               /\ ~closed' /\ box'[j] \in Conns => box'[j] \in active'
    BY <1>u, <1>1, NotConns DEF Inv, TypeOK, Books
  <2> QED
    BY <2>1, <2>2, <2>3 DEF Books
<1>6. Room'
  <2>1. Cardinality(Busy') \in Nat /\ Cardinality(Busy') <= Cardinality(Busy)
    <3>1. \/ GoTo(k, "out")
          \/ GoTo(k, "using")
      BY DEF Receive
    <3> QED
      BY <1>t, <3>1, BusyKept DEF BusyPlace
  <2> QED
    BY <1>u, <2>1, Unmoved, RoomKept
<1>7. Opening'
  BY <1>u DEF Inv, Opening
<1> QED
  BY <1>2, <1>3, <1>4, <1>5, <1>6, <1>7 DEF Inv

(* A waiter that gives up: neither its choice nor its removal touches a    *)
(* connection.                                                             *)
LEMMA GiveUpInv ==
  ASSUME Inv, NEW k \in Clients, Expire(k) \/ RemoveWaiter(k) PROVE Inv'
<1>t. pc[k] \in {"waiting", "removing"} /\ mine[k] = None
  BY DEF Inv, Places, Expire, RemoveWaiter
<1>u. UNCHANGED <<idle, active, closed, open, stale, mine, maint, deficit>> /\ IdleSet' = IdleSet
  BY DEF Expire, RemoveWaiter, poolVars, connVars, maintVars, IdleSet
<1>1. \/ pc' = [pc EXCEPT ![k] = "removing"] /\ waiters' = waiters /\ box' = box
      \/ /\ pc' = [pc EXCEPT ![k] = "out"] /\ box' = [box EXCEPT ![k] = None]
         /\ waiters' \in Seq(Clients) /\ OneToOne(waiters')
         /\ ToSet(waiters') = ToSet(waiters) \ {k}
  <2>1. CASE Expire(k)
    BY <2>1 DEF Expire, GoTo, poolVars
  <2>2. CASE RemoveWaiter(k)
    <3>1. waiters \in Seq(Clients) /\ OneToOne(waiters)
      BY DEF Inv, TypeOK, Places
    <3>2. waiters' = RemoveFirst(waiters, k)
      BY <2>2 DEF RemoveWaiter
    <3> QED
      BY <2>2, <3>1, <3>2, RemoveFirstFacts DEF RemoveWaiter, GoTo
  <2> QED
    BY <2>1, <2>2
<1>2. TypeOK'
  BY <1>u, <1>1 DEF Inv, TypeOK, Location
<1>3. Places'
  <2>1. closed => waiters' = <<>>
    <3>1. ASSUME closed, waiters' \in Seq(Clients), ToSet(waiters') = ToSet(waiters) \ {k}
          PROVE  waiters' = <<>>
      <4>1. waiters = <<>>
        BY <3>1 DEF Inv, Places
      <4>2. ToSet(waiters) = {}
        <5>1. Len(waiters) = 0 /\ waiters \in Seq(Clients)
          BY <4>1, EmptySeq
        <5>2. ToSet(waiters) = {waiters[n] : n \in 1 .. Len(waiters)}
          <6>1. waiters \in Seq(Clients)
            BY <5>1
          <6> QED
            BY ONLY <6>1, ToSetDef, Zenon
        <5> QED
          BY <5>1, <5>2
      <4>3. waiters' # <<>> => Head(waiters') \in ToSet(waiters')
        BY <3>1, ToSetDef, HeadTailProperties, EmptySeq, LenProperties
      <4> QED
        BY <3>1, <4>2, <4>3
    <3> QED
      BY <1>1, <3>1 DEF Inv, Places
  <2>2. ASSUME NEW j \in Clients
        PROVE  /\ mine'[j] # None <=> pc'[j] \in {"using", "resetting", "panicked"}
               /\ box'[j] # None => pc'[j] \in {"waiting", "removing"}
               /\ pc'[j] = "panicked" => closed'
    BY <1>t, <1>u, <1>1 DEF Inv, TypeOK, Places
  <2>3. ToSet(waiters) \subseteq Clients
    BY ToSetDef DEF Inv, TypeOK
  <2>4. ASSUME NEW j \in ToSet(waiters')
        PROVE  pc'[j] \in {"waiting", "removing"} /\ box'[j] = None
    BY <1>t, <1>1, <2>3 DEF Inv, TypeOK, Places
  <2>5. OneToOne(waiters')
    BY <1>1 DEF Inv, Places
  <2>6. closed => active = {}
    BY DEF Inv, Places
  <2> QED
    BY <1>u, <2>1, <2>2, <2>4, <2>5, <2>6 DEF Places
<1>4. Owners'
  <2>1. \A j \in Clients : box'[j] = box[j] \/ box'[j] = None
    BY <1>1 DEF Inv, TypeOK
  <2>2. None \notin IdleSet
    BY NotConns, InvTypes
  <2>3. Owners
    BY DEF Inv
  <2>4. OneToOne(idle') /\ IdleSet' \intersect active' = {}
    BY <1>u, <2>3 DEF Owners
  <2>5. ASSUME NEW j \in Clients
        PROVE  mine'[j] \notin IdleSet' /\ box'[j] \notin IdleSet'
    BY ONLY <1>u, <2>1, <2>2, <2>3, <2>5 DEF Owners
  <2>6. ASSUME NEW i \in Clients, NEW j \in Clients
        PROVE  /\ mine'[i] = mine'[j] /\ mine'[i] # None => i = j
               /\ box'[i] = box'[j] /\ box'[i] \in Conns => i = j
               /\ box'[i] \in Conns => mine'[j] # box'[i]
    BY ONLY <1>u, <2>1, <2>3, <2>6, NotConns DEF Owners
  <2> QED
    BY <2>4, <2>5, <2>6 DEF Owners
<1>5. Books'
  BY <1>t, <1>u, <1>1, NotConns DEF Inv, TypeOK, Books
<1>6. Room'
  <2>1. Cardinality(Busy') \in Nat /\ Cardinality(Busy') <= Cardinality(Busy)
    <3>1. GoTo(k, "removing") \/ GoTo(k, "out")
      BY DEF Expire, RemoveWaiter
    <3> QED
      BY <1>t, <3>1, BusyKept DEF BusyPlace
  <2> QED
    BY <1>u, <2>1, Unmoved, RoomKept
<1>7. Opening'
  BY <1>u DEF Inv, Opening
<1> QED
  BY <1>2, <1>3, <1>4, <1>5, <1>6, <1>7 DEF Inv

-----------------------------------------------------------------------------
(* Release and Discard. *)

(* A client that holds a connection is no waiter, and stays none.          *)
LEMMA HolderPlaces ==
  ASSUME Inv, NEW k \in Clients, pc[k] \in {"using", "resetting"},
         \/ pc' = [pc EXCEPT ![k] = "out"] /\ mine' = [mine EXCEPT ![k] = None]
         \/ pc' = [pc EXCEPT ![k] = "resetting"] /\ mine' = mine,
         waiters' = waiters, closed' = closed, box' = box, closed => active' = {}
  PROVE  Places'
<1>1. ASSUME NEW j \in Clients
      PROVE  /\ mine'[j] # None <=> pc'[j] \in {"using", "resetting", "panicked"}
             /\ box'[j] # None => pc'[j] \in {"waiting", "removing"}
             /\ pc'[j] = "panicked" => closed'
  BY DEF Inv, TypeOK, Places
<1>2. k \notin ToSet(waiters) /\ ToSet(waiters) \subseteq Clients
  BY ToSetDef DEF Inv, TypeOK, Places
<1>3. ASSUME NEW j \in ToSet(waiters)
      PROVE  pc'[j] \in {"waiting", "removing"} /\ box'[j] = None
  BY <1>2 DEF Inv, TypeOK, Places
<1> QED
  BY <1>1, <1>3 DEF Inv, Places

(* A client that gives its connection up takes none from another.          *)
LEMMA HolderOwners ==
  ASSUME Inv, NEW k \in Clients,
         mine' = mine \/ mine' = [mine EXCEPT ![k] = None],
         idle' = idle, box' = box, active' \subseteq active
  PROVE  Owners'
<1>1. IdleSet' = IdleSet
  BY DEF IdleSet
<1>2. OneToOne(idle') /\ IdleSet' \intersect active' = {}
  BY <1>1 DEF Inv, Owners
<1>3. ASSUME NEW j \in Clients PROVE mine'[j] = mine[j] \/ mine'[j] = None
  BY DEF Inv, TypeOK
<1>4. None \notin IdleSet
  BY NotConns, InvTypes
<1>5. ASSUME NEW j \in Clients PROVE mine'[j] \notin IdleSet' /\ box'[j] \notin IdleSet'
  BY <1>1, <1>3, <1>4 DEF Inv, Owners
<1>6. ASSUME NEW i \in Clients, NEW j \in Clients
      PROVE  /\ mine'[i] = mine'[j] /\ mine'[i] # None => i = j
             /\ box'[i] = box'[j] /\ box'[i] \in Conns => i = j
             /\ box'[i] \in Conns => mine'[j] # box'[i]
  BY <1>3, NotConns DEF Inv, Owners
<1> QED
  BY <1>2, <1>5, <1>6 DEF Owners

(* Release up to the reset.                                                *)
LEMMA BeginReleaseInv == ASSUME Inv, NEW k \in Clients, BeginRelease(k) PROVE Inv'
<1>t. /\ pc[k] = "using" /\ mine[k] # None /\ mine[k] \in Conns /\ box[k] = None
      /\ mine[k] \notin IdleSet
  BY DEF Inv, TypeOK, Places, Owners, BeginRelease
<1>u. /\ UNCHANGED <<idle, waiters, closed, stale, box, maint, deficit>>
      /\ IdleSet' = IdleSet
  BY DEF BeginRelease, maintVars, IdleSet
<1>1. \/ /\ closed /\ open' = open \ {mine[k]} /\ mine' = [mine EXCEPT ![k] = None]
         /\ pc' = [pc EXCEPT ![k] = "out"] /\ active' = active
      \/ /\ ~closed /\ active' = active \ {mine[k]} /\ open' = open /\ mine' = mine
         /\ pc' = [pc EXCEPT ![k] = "resetting"]
  BY DEF BeginRelease, GoTo, Hold
<1>2. TypeOK'
  BY <1>u, <1>1 DEF Inv, TypeOK, Location
<1>3. Places'
  <2>1. closed => active' = {}
    BY <1>1 DEF Inv, Places
  <2> QED
    BY <1>t, <1>u, <1>1, <2>1, HolderPlaces
<1>4. Owners'
  <2>1. active' \subseteq active
    BY <1>1
  <2> QED
    BY <1>u, <1>1, <2>1, HolderOwners
<1>5. Books'
  <2>1. IsFiniteSet(active')
    BY <1>1, FS_RemoveElement DEF Inv, Books
  <2>2. IdleSet' \union active' \subseteq open'
    BY <1>t, <1>u, <1>1 DEF Inv, Places, Books
  <2>3. ASSUME NEW x \in open'
        PROVE  \/ x \in IdleSet' \/ x \in active'
               \/ \E j \in Clients : mine'[j] = x /\ pc'[j] \in {"resetting", "panicked"}
    BY <1>t, <1>u, <1>1 DEF Inv, TypeOK, Books
  <2>4. ASSUME NEW j \in Clients
        PROVE  /\ pc'[j] = "resetting" => mine'[j] \notin active'
               /\ ~closed' /\ pc'[j] = "using" => mine'[j] \in active'
               /\ ~closed' /\ box'[j] \in Conns => box'[j] \in active'
    BY <1>t, <1>u, <1>1 DEF Inv, TypeOK, Books, Owners
  <2> QED
    BY <2>1, <2>2, <2>3, <2>4 DEF Books
<1>6. Room'
  <2>1. CASE closed
    <3>1. GoTo(k, "out") /\ active' = active
      BY <1>1, <2>1 DEF GoTo
    <3>2. Cardinality(Busy') \in Nat /\ Cardinality(Busy') <= Cardinality(Busy)
      BY <1>t, <3>1, BusyKept DEF BusyPlace
    <3> QED
      BY <1>u, <3>1, <3>2, Unmoved, RoomKept
  <2>2. CASE ~closed
    <3>1. GoTo(k, "resetting") /\ active' = active \ {mine[k]} /\ mine[k] \in active
      BY <1>t, <1>1, <2>2 DEF GoTo, Inv, Books
    <3>2. Cardinality(Busy') \in Nat /\ Cardinality(Busy') <= Cardinality(Busy) + 1
      BY <1>t, <3>1, BusyAdded DEF BusyPlace
    <3>3. Cardinality(active') \in Nat /\ Cardinality(active') + 1 <= Cardinality(active)
      BY <3>1, SetChanges DEF Inv, Books
    <3> QED
      BY <1>u, <3>2, <3>3, Unmoved, RoomKept
  <2> QED
    BY <2>1, <2>2
<1>7. Opening'
  BY <1>u DEF Inv, Opening
<1> QED
  BY <1>2, <1>3, <1>4, <1>5, <1>6, <1>7 DEF Inv

(* Release when the reset failed.                                          *)
LEMMA ResetFailsInv == ASSUME Inv, NEW k \in Clients, ResetFails(k) PROVE Inv'
<1>t. /\ pc[k] = "resetting" /\ mine[k] # None /\ mine[k] \in Conns /\ box[k] = None
      /\ mine[k] \notin IdleSet /\ mine[k] \notin active
  BY DEF Inv, TypeOK, Places, Owners, Books, ResetFails
<1>u. /\ UNCHANGED <<idle, active, waiters, closed, stale, box, maint, deficit>>
      /\ IdleSet' = IdleSet /\ open' = open \ {mine[k]}
      /\ mine' = [mine EXCEPT ![k] = None] /\ pc' = [pc EXCEPT ![k] = "out"]
  BY DEF ResetFails, poolVars, maintVars, IdleSet, Hold, GoTo
<1>2. TypeOK'
  BY <1>u DEF Inv, TypeOK, Location
<1>3. Places'
  <2>1. closed => active' = {}
    BY <1>u DEF Inv, Places
  <2> QED
    BY <1>t, <1>u, <2>1, HolderPlaces
<1>4. Owners'
  <2>1. active' \subseteq active
    BY <1>u
  <2> QED
    BY <1>u, <2>1, HolderOwners
<1>5. Books'
  <2>1. IsFiniteSet(active') /\ IdleSet' \union active' \subseteq open'
    BY <1>t, <1>u DEF Inv, Books
  <2>2. ASSUME NEW x \in open'
        PROVE  \/ x \in IdleSet' \/ x \in active'
               \/ \E j \in Clients : mine'[j] = x /\ pc'[j] \in {"resetting", "panicked"}
    BY <1>t, <1>u DEF Inv, TypeOK, Books
  <2>3. ASSUME NEW j \in Clients
        PROVE  /\ pc'[j] = "resetting" => mine'[j] \notin active'
               /\ ~closed' /\ pc'[j] = "using" => mine'[j] \in active'
               /\ ~closed' /\ box'[j] \in Conns => box'[j] \in active'
    BY <1>t, <1>u DEF Inv, TypeOK, Books
  <2> QED
    BY <2>1, <2>2, <2>3 DEF Books
<1>6. Room'
  <2>1. Cardinality(Busy') \in Nat /\ Cardinality(Busy') <= Cardinality(Busy)
    BY <1>t, BusyRemoved DEF ResetFails, BusyPlace
  <2> QED
    BY <1>u, <2>1, Unmoved, RoomKept
<1>7. Opening'
  BY <1>u DEF Inv, Opening
<1> QED
  BY <1>2, <1>3, <1>4, <1>5, <1>6, <1>7 DEF Inv

(* Release with somebody waiting.                                          *)
LEMMA HandOverInv == ASSUME Inv, NEW k \in Clients, HandOver(k) PROVE Inv'
<1> DEFINE w == Head(waiters)
<1>t. /\ pc[k] = "resetting" /\ mine[k] # None /\ mine[k] \in Conns /\ box[k] = None
      /\ mine[k] \notin IdleSet /\ mine[k] \in open /\ waiters # <<>> /\ ~closed
      /\ k \notin ToSet(waiters) /\ ToSet(waiters) \subseteq Clients
  BY ToSetDef DEF Inv, TypeOK, Places, Owners, HandOver
<1>w. /\ w \in ToSet(waiters) /\ Tail(waiters) \in Seq(Clients)
      /\ ToSet(Tail(waiters)) = ToSet(waiters) \ {w} /\ OneToOne(Tail(waiters))
  BY <1>t, TailFacts DEF Inv, TypeOK, Places
<1>u. /\ UNCHANGED <<idle, closed, open, stale, maint, deficit>> /\ IdleSet' = IdleSet
      /\ waiters' = Tail(waiters) /\ box' = [box EXCEPT ![w] = mine[k]]
      /\ active' = active \union {mine[k]}
      /\ mine' = [mine EXCEPT ![k] = None] /\ pc' = [pc EXCEPT ![k] = "out"]
  BY DEF HandOver, connVars, maintVars, IdleSet, Hold, GoTo
<1>v. /\ w \in Clients /\ w # k /\ box[w] = None /\ pc[w] \in {"waiting", "removing"}
  BY <1>t, <1>w DEF Inv, Places
<1> HIDE DEF w
<1>2. TypeOK'
  BY <1>t, <1>u, <1>v, <1>w DEF Inv, TypeOK, Location
<1>3. Places'
  <2>1. ASSUME NEW j \in Clients
        PROVE  /\ mine'[j] # None <=> pc'[j] \in {"using", "resetting", "panicked"}
               /\ box'[j] # None => pc'[j] \in {"waiting", "removing"}
               /\ pc'[j] = "panicked" => closed'
    BY <1>t, <1>u, <1>v DEF Inv, TypeOK, Places
  <2>2. ASSUME NEW j \in ToSet(waiters')
        PROVE  pc'[j] \in {"waiting", "removing"} /\ box'[j] = None
    BY <1>t, <1>u, <1>v, <1>w DEF Inv, TypeOK, Places
  <2> QED
    BY <1>t, <1>u, <1>w, <2>1, <2>2 DEF Places
<1>4. Owners'
  BY <1>t, <1>u, <1>v, NotConns DEF Inv, TypeOK, Owners
<1>5. Books'
  <2>1. IsFiniteSet(active') /\ IdleSet' \union active' \subseteq open'
    BY <1>t, <1>u, FS_AddElement DEF Inv, Books
  <2>2. ASSUME NEW x \in open'
        PROVE  \/ x \in IdleSet' \/ x \in active'
               \/ \E j \in Clients : mine'[j] = x /\ pc'[j] \in {"resetting", "panicked"}
    BY <1>t, <1>u DEF Inv, TypeOK, Books
  <2>3. ASSUME NEW j \in Clients
        PROVE  /\ pc'[j] = "resetting" => mine'[j] \notin active'
               /\ ~closed' /\ pc'[j] = "using" => mine'[j] \in active'
               /\ ~closed' /\ box'[j] \in Conns => box'[j] \in active'
    BY <1>t, <1>u, <1>v DEF Inv, TypeOK, Books, Owners
  <2> QED
    BY <2>1, <2>2, <2>3 DEF Books
<1>6. Room'
  <2>1. Cardinality(Busy') \in Nat /\ Cardinality(Busy') + 1 <= Cardinality(Busy)
    BY <1>t, BusyRemoved DEF HandOver, BusyPlace
  <2>2. Cardinality(active') \in Nat /\ Cardinality(active') <= Cardinality(active) + 1
    BY <1>u, SetChanges DEF Inv, Books
  <2> QED
    BY <1>u, <2>1, <2>2, Unmoved, RoomKept
<1>7. Opening'
  BY <1>u DEF Inv, Opening
<1> QED
  BY <1>2, <1>3, <1>4, <1>5, <1>6, <1>7 DEF Inv

(* Release with nobody waiting; the pool may be closed meanwhile.          *)
LEMMA PutBackInv == ASSUME Inv, NEW k \in Clients, PutBack(k) PROVE Inv'
<1>t. /\ pc[k] = "resetting" /\ mine[k] # None /\ mine[k] \in Conns /\ box[k] = None
      /\ mine[k] \notin IdleSet /\ mine[k] \notin active /\ mine[k] \in open
  BY DEF Inv, TypeOK, Places, Owners, Books, PutBack
<1>u. /\ UNCHANGED <<active, waiters, closed, open, stale, box, maint, deficit>>
      /\ idle' = Append(idle, mine[k])
      /\ mine' = [mine EXCEPT ![k] = None] /\ pc' = [pc EXCEPT ![k] = "out"]
  BY DEF PutBack, connVars, maintVars, Hold, GoTo
<1>w. /\ idle' \in Seq(Conns) /\ Len(idle') = Len(idle) + 1
      /\ IdleSet' = IdleSet \union {mine[k]} /\ OneToOne(idle')
  BY <1>t, <1>u, AppendFacts DEF Inv, TypeOK, Owners, IdleSet
<1>2. TypeOK'
  BY <1>u, <1>w DEF Inv, TypeOK, Location
<1>3. Places'
  <2>1. closed => active' = {}
    BY <1>u DEF Inv, Places
  <2> QED
    BY <1>t, <1>u, <2>1, HolderPlaces
<1>4. Owners'
  BY <1>t, <1>u, <1>w, NotConns DEF Inv, TypeOK, Owners
<1>5. Books'
  <2>1. IsFiniteSet(active') /\ IdleSet' \union active' \subseteq open'
    BY <1>t, <1>u, <1>w DEF Inv, Books
  <2>2. ASSUME NEW x \in open'
        PROVE  \/ x \in IdleSet' \/ x \in active'
               \/ \E j \in Clients : mine'[j] = x /\ pc'[j] \in {"resetting", "panicked"}
    BY <1>t, <1>u, <1>w DEF Inv, TypeOK, Books
  <2>3. ASSUME NEW j \in Clients
        PROVE  /\ pc'[j] = "resetting" => mine'[j] \notin active'
               /\ ~closed' /\ pc'[j] = "using" => mine'[j] \in active'
               /\ ~closed' /\ box'[j] \in Conns => box'[j] \in active'
    BY <1>t, <1>u DEF Inv, TypeOK, Books
  <2> QED
    BY <2>1, <2>2, <2>3 DEF Books
<1>6. Room'
  <2>1. Cardinality(Busy') \in Nat /\ Cardinality(Busy') + 1 <= Cardinality(Busy)
    BY <1>t, BusyRemoved DEF PutBack, BusyPlace
  <2>2. Len(idle') \in Nat /\ Len(idle') <= Len(idle) + 1
    BY <1>w, InvTypes, Successor
  <2> QED
    BY <1>u, <2>1, <2>2, Unmoved, RoomKept
<1>7. Opening'
  BY <1>u DEF Inv, Opening
<1> QED
  BY <1>2, <1>3, <1>4, <1>5, <1>6, <1>7 DEF Inv

(* Discard.                                                                *)
LEMMA DiscardInv == ASSUME Inv, NEW k \in Clients, Discard(k) PROVE Inv'
<1>t. /\ pc[k] = "using" /\ mine[k] # None /\ mine[k] \in Conns /\ box[k] = None
      /\ mine[k] \notin IdleSet
  BY DEF Inv, TypeOK, Places, Owners, Discard
<1>u. /\ UNCHANGED <<idle, waiters, closed, stale, box, maint, deficit>>
      /\ IdleSet' = IdleSet /\ active' = active \ {mine[k]} /\ open' = open \ {mine[k]}
      /\ mine' = [mine EXCEPT ![k] = None] /\ pc' = [pc EXCEPT ![k] = "out"]
  BY DEF Discard, maintVars, IdleSet, Hold, GoTo
<1>2. TypeOK'
  BY <1>u DEF Inv, TypeOK, Location
<1>3. Places'
  <2>1. closed => active' = {}
    BY <1>u DEF Inv, Places
  <2> QED
    BY <1>t, <1>u, <2>1, HolderPlaces
<1>4. Owners'
  <2>1. active' \subseteq active
    BY <1>u
  <2> QED
    BY <1>u, <2>1, HolderOwners
<1>5. Books'
  <2>1. IsFiniteSet(active') /\ IdleSet' \union active' \subseteq open'
    BY <1>t, <1>u, FS_RemoveElement DEF Inv, Books
  <2>2. ASSUME NEW x \in open'
        PROVE  \/ x \in IdleSet' \/ x \in active'
               \/ \E j \in Clients : mine'[j] = x /\ pc'[j] \in {"resetting", "panicked"}
    BY <1>t, <1>u DEF Inv, TypeOK, Books
  <2>3. ASSUME NEW j \in Clients
        PROVE  /\ pc'[j] = "resetting" => mine'[j] \notin active'
               /\ ~closed' /\ pc'[j] = "using" => mine'[j] \in active'
               /\ ~closed' /\ box'[j] \in Conns => box'[j] \in active'
    BY <1>t, <1>u DEF Inv, TypeOK, Books, Owners
  <2> QED
    BY <2>1, <2>2, <2>3 DEF Books
<1>6. Room'
  <2>1. Cardinality(Busy') \in Nat /\ Cardinality(Busy') <= Cardinality(Busy)
    BY <1>t, BusyKept DEF Discard, BusyPlace
  <2>2. Cardinality(active') \in Nat /\ Cardinality(active') <= Cardinality(active)
    BY <1>u, SetChanges DEF Inv, Books
  <2> QED
    BY <1>u, <2>1, <2>2, Unmoved, RoomKept
<1>7. Opening'
  BY <1>u DEF Inv, Opening
<1> QED
  BY <1>2, <1>3, <1>4, <1>5, <1>6, <1>7 DEF Inv

-----------------------------------------------------------------------------
(* Close. *)

(* Close empties everything but the hands of the clients.                  *)
LEMMA CloseInv == ASSUME Inv, Close PROVE Inv'
<1>u. /\ ~closed /\ closed' = TRUE /\ waiters' = <<>> /\ idle' = <<>>
      /\ active' = {} /\ stale' = {} /\ open' = open \ (IdleSet \union active)
      /\ box' = [k \in Clients |-> IF k \in ToSet(waiters) THEN Hangup ELSE box[k]]
      /\ UNCHANGED <<mine, pc, maint, deficit>>
  BY DEF Close, maintVars
<1>1. /\ idle' \in Seq(Conns) /\ Len(idle') = 0
      /\ waiters' \in Seq(Clients) /\ Len(waiters') = 0
  BY <1>u, EmptySeq
<1>2. IdleSet' = {} /\ ToSet(waiters') = {} /\ OneToOne(idle') /\ OneToOne(waiters')
  <2>1. /\ IdleSet' = {idle'[n] : n \in 1 .. Len(idle')}
        /\ DOMAIN idle' = 1 .. Len(idle')
    BY <1>1, ToSetDef DEF IdleSet
  <2>2. /\ ToSet(waiters') = {waiters'[n] : n \in 1 .. Len(waiters')}
        /\ DOMAIN waiters' = 1 .. Len(waiters')
    BY <1>1, ToSetDef
  <2> QED
    BY <1>1, <2>1, <2>2 DEF OneToOne
<1>3. \A k \in Clients : box'[k] \in Conns => box'[k] = box[k]
  BY <1>u, NotConns
<1>4. TypeOK'
  <2>1. box' \in [Clients -> Conns \union {None, Hangup}]
    BY <1>u DEF Inv, TypeOK
  <2> QED
    BY <1>u, <1>1, <1>2, <2>1 DEF Inv, TypeOK
<1>5. Places'
  <2>1. ASSUME NEW k \in Clients PROVE box'[k] # None => pc'[k] \in {"waiting", "removing"}
    BY <1>u DEF Inv, Places
  <2> QED
    BY <1>u, <1>2, <2>1 DEF Inv, Places
<1>6. Owners'
  BY <1>u, <1>2, <1>3 DEF Inv, Owners
<1>7. Books'
  <2>1. IsFiniteSet(active')
    BY <1>u, FS_EmptySet
  <2> QED
    BY <1>u, <1>2, <2>1 DEF Inv, Books
<1>8. Room'
  <2>1. 0 <= Len(idle) /\ 0 <= Cardinality(active)
    BY InvTypes
  <2>2. Cardinality(active') = 0
    BY <1>u, FS_EmptySet
  <2> QED
    BY <1>u, <1>1, <2>1, <2>2, Unmoved, RoomKept
<1>9. Opening'
  BY <1>u DEF Inv, Opening
<1> QED
  BY <1>4, <1>5, <1>6, <1>7, <1>8, <1>9 DEF Inv

-----------------------------------------------------------------------------
(* Steps of the environment and of the maintenance goroutine. *)

(* An idle connection gets too old.                                        *)
LEMMA AgeInv == ASSUME Inv, NEW c \in Conns, Age(c) PROVE Inv'
<1>u. /\ UNCHANGED <<idle, active, waiters, closed, open, box, mine, pc, maint, deficit>>
      /\ IdleSet' = IdleSet /\ Busy' = Busy
      /\ c \in IdleSet /\ stale' = stale \union {c}
  BY DEF Age, poolVars, maintVars, IdleSet, Busy
<1>1. TypeOK'
  BY <1>u DEF Inv, TypeOK
<1>2. Places' /\ Owners' /\ Books' /\ Room' /\ Opening'
  BY <1>u DEF Inv, Places, Owners, Books, Room, Capacity, Opening
<1> QED
  BY <1>1, <1>2 DEF Inv

(* The maintenance closes what is too old.                                 *)
LEMMA EvictStaleInv == ASSUME Inv, EvictStale PROVE Inv'
<1>u. /\ UNCHANGED <<active, waiters, closed, box, mine, pc, deficit>>
      /\ idle' = Remaining /\ open' = open \ stale /\ stale' = {}
      /\ maint = "select" /\ maint' = "evicted"
  BY DEF EvictStale
<1>1. /\ idle' \in Seq(Conns) /\ Len(idle') <= Len(idle) /\ Len(idle') \in Nat
      /\ IdleSet' = IdleSet \ stale /\ OneToOne(idle')
  <2>1. idle \in Seq(Conns) /\ OneToOne(idle)
    BY DEF Inv, TypeOK, Owners
  <2>2. IdleSet' = ToSet(Remaining)
    BY <1>u DEF IdleSet
  <2> QED
    BY <1>u, <2>1, <2>2, RemainingFacts, LenProperties
<1>2. TypeOK'
  BY <1>u, <1>1 DEF Inv, TypeOK
<1>3. Places'
  BY <1>u DEF Inv, Places
<1>4. Owners'
  BY <1>u, <1>1 DEF Inv, Owners
<1>5. Books'
  <2>1. IsFiniteSet(active') /\ IdleSet' \union active' \subseteq open'
    BY <1>u, <1>1 DEF Inv, TypeOK, Owners, Books
  <2>2. ASSUME NEW x \in open'
        PROVE  \/ x \in IdleSet' \/ x \in active'
               \/ \E j \in Clients : mine'[j] = x /\ pc'[j] \in {"resetting", "panicked"}
    BY <1>u, <1>1 DEF Inv, Books
  <2>3. ASSUME NEW j \in Clients
        PROVE  /\ pc'[j] = "resetting" => mine'[j] \notin active'
               /\ ~closed' /\ pc'[j] = "using" => mine'[j] \in active'
               /\ ~closed' /\ box'[j] \in Conns => box'[j] \in active'
    BY <1>u DEF Inv, Books
  <2> QED
    BY <2>1, <2>2, <2>3 DEF Books
<1>6. Room'
  BY <1>u, <1>1, Unmoved, RoomKept
<1>7. Opening'
  BY <1>u DEF Inv, Opening
<1> QED
  BY <1>2, <1>3, <1>4, <1>5, <1>6, <1>7 DEF Inv

(* The deficit is zero or within both of its terms.                        *)
LEMMA ClampedMinimum ==
  ASSUME NEW x \in Int, NEW y \in Int
  PROVE  LET d == Max({0, Min({x, y})}) IN
            d = 0 \/ (d \in Nat /\ d > 0 /\ d <= x /\ d <= y)
<1>1. Min({x, y}) \in {x, y} /\ Min({x, y}) <= x /\ Min({x, y}) <= y
  BY DEF Min
<1> DEFINE z == Min({x, y})
<1>2. z \in Int
  BY <1>1
<1> HIDE DEF z
<1>3. Max({0, z}) \in {0, z} /\ Max({0, z}) >= 0
  BY <1>2 DEF Max
<1>4. Max({0, z}) = 0 \/ (Max({0, z}) \in Nat /\ Max({0, z}) > 0 /\ Max({0, z}) <= x /\ Max({0, z}) <= y)
  BY <1>1, <1>2, <1>3 DEF z
<1> QED
  BY <1>4 DEF z

(* The second check of Room: with something to open, the idle connections, *)
(* the active ones and the deficit fit in the maximum.                     *)
LEMMA RoomForDeficit ==
  ASSUME NEW i \in Nat, NEW a \in Nat, NEW b \in Nat, NEW n \in Nat, NEW d \in Nat,
         d > 0, d <= MinIdle - i, d <= MaxConnections - (i + a), b <= n
  PROVE  i + a + b + d <= MaxConnections + n - 1 + MinIdle /\ d \in 0 .. MinIdle
BY ConstantsAssumption

(* ensureMinIdle under the lock.                                           *)
LEMMA MeasureDeficitInv == ASSUME Inv, MeasureDeficit PROVE Inv'
<1> DEFINE missing  == MinIdle - Len(idle)
           headroom == MaxConnections - (Len(idle) + Cardinality(active))
<1>u. /\ UNCHANGED <<idle, active, waiters, closed, open, stale, box, mine, pc>>
      /\ IdleSet' = IdleSet /\ Busy' = Busy
      /\ deficit' = Max({0, Min({missing, headroom})})
      /\ maint = "evicted" /\ maint' = IF deficit' = 0 THEN "select" ELSE "opening"
  BY DEF MeasureDeficit, poolVars, connVars, IdleSet, Busy
<1>1. missing \in Int /\ headroom \in Int
  BY InvTypes, ConstantsAssumption
<1>2. \/ deficit' = 0
      \/ /\ deficit' \in Nat /\ deficit' > 0
         /\ deficit' <= missing /\ deficit' <= headroom
  <2> HIDE DEF missing, headroom
  <2> QED
    BY <1>u, <1>1, ClampedMinimum
<1>3. deficit = 0
  BY <1>u, InvTypes DEF Inv, Opening
<1>4. deficit' \in 0 .. MinIdle /\ Room'
  <2>1. CASE deficit' = 0
    <3>1. deficit' \in 0 .. MinIdle /\ deficit' \in Nat /\ deficit' <= deficit
      BY <1>3, <2>1, ConstantsAssumption
    <3> QED
      BY <1>u, <3>1, Unmoved, RoomKept
  <2>2. CASE /\ deficit' \in Nat /\ deficit' > 0
             /\ deficit' <= missing /\ deficit' <= headroom
    <3>1. /\ Len(idle) + Cardinality(active) + Cardinality(Busy) + deficit'
                <= MaxConnections + Cardinality(Clients) - 1 + MinIdle
          /\ deficit' \in 0 .. MinIdle
      BY <2>2, InvTypes, RoomForDeficit
    <3> QED
      BY <1>u, <3>1 DEF Room, Capacity
  <2> QED
    BY <1>2, <2>1, <2>2
<1>5. TypeOK'
  BY <1>u, <1>4 DEF Inv, TypeOK
<1>6. Places' /\ Owners' /\ Books'
  BY <1>u DEF Inv, Places, Owners, Books
<1>7. Opening'
  BY <1>u, <1>2 DEF Opening
<1> QED
  BY <1>4, <1>5, <1>6, <1>7 DEF Inv

(* ensureMinIdle after it: one connection, or the end at the first         *)
(* failure.                                                                *)
LEMMA OpenMinIdleInv == ASSUME Enough, Inv, OpenMinIdle PROVE Inv'
<1>u. /\ UNCHANGED <<active, waiters, closed, stale, box, mine, pc>> /\ maint = "opening"
      /\ \/ idle' = idle /\ open' = open /\ maint' = "select" /\ deficit' = 0
         \/ /\ idle' = Append(idle, Fresh) /\ open' = open \union {Fresh}
            /\ deficit' = deficit - 1
            /\ maint' = IF deficit = 1 THEN "select" ELSE "opening"
  BY DEF OpenMinIdle
<1>d. deficit \in Nat /\ deficit > 0 /\ deficit <= MinIdle
  BY <1>u, InvTypes DEF Inv, Opening
<1>1. Places'
  BY <1>u DEF Inv, Places
<1>a. CASE idle' = idle /\ open' = open /\ maint' = "select" /\ deficit' = 0
  <2>1. IdleSet' = IdleSet
    BY <1>a DEF IdleSet
  <2>2. TypeOK' /\ Opening'
    BY <1>a, <1>u, <2>1, ConstantsAssumption DEF Inv, TypeOK, Opening
  <2>3. Owners' /\ Books'
    BY <1>a, <1>u, <2>1 DEF Inv, Owners, Books
  <2>4. deficit' \in Nat /\ deficit' <= deficit
    BY <1>a, <1>d
  <2>5. Room'
    BY <1>a, <1>u, <2>4, Unmoved, RoomKept
  <2> QED
    BY <1>1, <2>2, <2>3, <2>5 DEF Inv
<1>b. CASE /\ idle' = Append(idle, Fresh) /\ open' = open \union {Fresh}
           /\ deficit' = deficit - 1
           /\ maint' = IF deficit = 1 THEN "select" ELSE "opening"
  <2>1. /\ idle' \in Seq(Conns) /\ Len(idle') = Len(idle) + 1
        /\ IdleSet' = IdleSet \union {Fresh} /\ OneToOne(idle')
    BY <1>b, FreshFacts, AppendFacts DEF Inv, TypeOK, Owners, IdleSet
  <2>2. /\ deficit' \in Nat /\ deficit' + 1 <= deficit /\ deficit' \in 0 .. MinIdle
        /\ deficit' > 0 <=> deficit # 1
    BY <1>b, <1>d, ConstantsAssumption
  <2>3. TypeOK'
    BY <1>b, <1>u, <2>1, <2>2, FreshFacts DEF Inv, TypeOK
  <2>4. Owners'
    BY <1>u, <2>1, FreshFacts DEF Inv, Owners
  <2>5. Books'
    <3>1. IsFiniteSet(active') /\ IdleSet' \union active' \subseteq open'
      BY <1>b, <1>u, <2>1 DEF Inv, Books
    <3>2. ASSUME NEW x \in open'
          PROVE  \/ x \in IdleSet' \/ x \in active'
                 \/ \E j \in Clients : mine'[j] = x /\ pc'[j] \in {"resetting", "panicked"}
      BY <1>b, <1>u, <2>1 DEF Inv, Books
    <3>3. ASSUME NEW j \in Clients
          PROVE  /\ pc'[j] = "resetting" => mine'[j] \notin active'
                 /\ ~closed' /\ pc'[j] = "using" => mine'[j] \in active'
                 /\ ~closed' /\ box'[j] \in Conns => box'[j] \in active'
      BY <1>u DEF Inv, Books
    <3> QED
      BY <3>1, <3>2, <3>3 DEF Books
  <2>6. Room'
    <3>1. Len(idle') \in Nat /\ Len(idle') <= Len(idle) + 1
      BY <2>1, InvTypes, Successor
    <3> QED
      BY <1>u, <2>2, <3>1, Unmoved, RoomKept
  <2>7. Opening'
    BY <1>b, <2>2 DEF Opening
  <2> QED
    BY <1>1, <2>3, <2>4, <2>5, <2>6, <2>7 DEF Inv
<1> QED
  BY <1>u, <1>a, <1>b

(* Steps that change nothing the invariant speaks of but maint.            *)
LEMMA QuietInv == ASSUME Inv, StopMaintenance \/ UNCHANGED vars PROVE Inv'
<1>u. /\ UNCHANGED <<idle, active, waiters, closed, open, stale, box, mine, pc, deficit>>
      /\ IdleSet' = IdleSet /\ Busy' = Busy
      /\ maint' = maint \/ (maint = "select" /\ maint' = "stopped")
  BY DEF StopMaintenance, vars, poolVars, connVars, maintVars, IdleSet, Busy
<1>1. TypeOK' /\ Opening'
  BY <1>u DEF Inv, TypeOK, Opening
<1>2. Places' /\ Owners' /\ Books' /\ Room'
  BY <1>u DEF Inv, Places, Owners, Books, Room, Capacity
<1> QED
  BY <1>1, <1>2 DEF Inv

-----------------------------------------------------------------------------
(* The invariant. *)

(* Every step of a client.                                                 *)
LEMMA ClientStepInv ==
  ASSUME Enough, Inv, NEW k \in Clients, ClientStep(k) PROVE Inv'
BY TakeIdleInv, StartCreateInv, FinishCreateInv, JoinWaitersInv, ReceiveInv,
   GiveUpInv, BeginReleaseInv, ResetFailsInv, HandOverInv, PutBackInv, DiscardInv
   DEF ClientStep

(* Every step.                                                             *)
LEMMA NextInv == ASSUME Enough, Inv, [Next]_vars PROVE Inv'
<1>1. CASE \E k \in Clients : ClientStep(k)
  BY <1>1, ClientStepInv
<1>2. CASE Maintenance
  BY <1>2, EvictStaleInv, MeasureDeficitInv, OpenMinIdleInv, QuietInv DEF Maintenance
<1>3. CASE Close
  BY <1>3, CloseInv
<1>4. CASE \E c \in Conns : Age(c)
  BY <1>4, AgeInv
<1>5. CASE UNCHANGED vars
  BY <1>5, QuietInv
<1> QED
  BY <1>1, <1>2, <1>3, <1>4, <1>5 DEF Next

(* The invariant holds always.                                             *)
LEMMA SpecInv == ASSUME Enough PROVE Spec => []Inv
<1>1. Init => Inv
  BY InitInv
<1>2. Inv /\ [Next]_vars => Inv'
  BY NextInv
<1> QED
  BY <1>1, <1>2, PTL DEF Spec

(* The variables keep their types; a fresh connection is always found, and *)
(* the deficit is never negative (pool.go: ensureMinIdle).                 *)
THEOREM PoolTypeCorrect == ASSUME Enough PROVE Spec => []TypeOK
<1>1. Inv => TypeOK
  BY DEF Inv
<1> QED
  BY <1>1, SpecInv, PTL

(* A set whose elements are all equal has one or none.                     *)
LEMMA OneElement ==
  ASSUME NEW T, \A x, y \in T : x = y
  PROVE  Cardinality(T) \in {0, 1} /\ (T = {} => Cardinality(T) = 0)
<1>1. CASE T = {}
  BY <1>1, FS_EmptySet
<1>2. CASE T # {}
  <2>1. PICK x \in T : T = {x}
    BY <1>2
  <2> QED
    BY <2>1, FS_Singleton
<1> QED
  BY <1>1, <1>2

(* The three counts of ExclusiveUse are at most one, and at most one of    *)
(* them is not zero.                                                       *)
LEMMA InvExclusive == ASSUME Inv PROVE ExclusiveUse
<1> SUFFICES ASSUME NEW c \in Conns
             PROVE  Cardinality({k \in Clients : mine[k] = c})
                      + Cardinality({k \in Clients : box[k] = c})
                      + Cardinality({n \in DOMAIN idle : idle[n] = c}) <= 1
  BY DEF ExclusiveUse, Inv, Owners
<1> DEFINE M == {k \in Clients : mine[k] = c}
           B == {k \in Clients : box[k] = c}
           I == {n \in DOMAIN idle : idle[n] = c}
<1>1. /\ \A x, y \in M : x = y
      /\ \A x, y \in B : x = y
      /\ \A x, y \in I : x = y
  BY NotConns DEF Inv, Owners, OneToOne
<1>2. \/ M = {} /\ B = {}
      \/ M = {} /\ I = {}
      \/ B = {} /\ I = {}
  <2>1. I # {} => c \in IdleSet
    BY InvTypes
  <2>2. M # {} => c \notin IdleSet
    BY DEF Inv, Owners
  <2>3. B # {} => c \notin IdleSet /\ M = {}
    BY DEF Inv, Owners
  <2> QED
    BY <2>1, <2>2, <2>3
<1> HIDE DEF M, B, I
<1>3. /\ Cardinality(M) \in {0, 1} /\ (M = {} => Cardinality(M) = 0)
      /\ Cardinality(B) \in {0, 1} /\ (B = {} => Cardinality(B) = 0)
      /\ Cardinality(I) \in {0, 1} /\ (I = {} => Cardinality(I) = 0)
  BY <1>1, OneElement
<1>4. Cardinality(M) + Cardinality(B) + Cardinality(I) <= 1
  BY <1>2, <1>3
<1> QED
  BY <1>4 DEF M, B, I

(* Whatever callers, maintenance and Close do, a physical connection has   *)
(* one user: popIdle, the hand-over to a waiter and the return to the idle *)
(* list never give it to two (pool.go: Acquire, Release).                  *)
THEOREM PoolExclusiveUse == ASSUME Enough PROVE Spec => []ExclusiveUse
BY SpecInv, InvExclusive, PTL

(* While the pool is open no connection escapes its books and no closed    *)
(* one is offered (pool.go: bp.idle and bp.active against the connections  *)
(* opened).                                                                *)
THEOREM PoolBooksComplete == ASSUME Enough PROVE Spec => []BooksComplete
<1>1. Inv => BooksComplete
  <2> SUFFICES ASSUME Inv, ~closed, NEW x \in open,
                      x \notin IdleSet, x \notin active
               PROVE  x \in Resetting
    BY DEF Inv, Books, BooksComplete
  <2>1. PICK k \in Clients : mine[k] = x /\ pc[k] \in {"resetting", "panicked"}
    BY DEF Inv, Books
  <2>2. pc[k] = "resetting"
    BY <2>1 DEF Inv, Places
  <2> QED
    BY <2>1, <2>2 DEF Resetting
<1> QED
  BY <1>1, SpecInv, PTL

(* A union is no larger than the sum.                                      *)
LEMMA UnionBound ==
  ASSUME NEW S, NEW T, IsFiniteSet(S), IsFiniteSet(T)
  PROVE  /\ IsFiniteSet(S \union T)
         /\ Cardinality(S \union T) <= Cardinality(S) + Cardinality(T)
<1>1. /\ IsFiniteSet(S \union T)
      /\ Cardinality(S \union T) =
            Cardinality(S) + Cardinality(T) - Cardinality(S \intersect T)
  BY FS_Union
<1>2. /\ Cardinality(S) \in Nat /\ Cardinality(T) \in Nat
      /\ Cardinality(S \intersect T) \in Nat
  BY FS_Intersection, FS_CardinalityType
<1>3. \A s, t, u \in Nat : s + t - u <= s + t
  OBVIOUS
<1> QED
  BY <1>1, <1>2, <1>3

(* The chain of bounds of the next theorem.                                *)
LEMMA ChainBound ==
  ASSUME NEW o \in Nat, NEW v \in Nat, NEW u \in Nat, NEW s \in Nat, NEW h \in Nat,
         NEW i \in Nat, NEW a \in Nat, NEW b \in Nat, NEW d \in Nat, NEW m \in Int,
         o <= v, v <= u + h, u <= s + a, s <= i, h <= b, i + a + b + d <= m
  PROVE  o <= m
OBVIOUS

(* The check of max_connections before the lock is given up lets at most   *)
(* the other callers and the maintenance exceed it (pool.go: Acquire,      *)
(* ensureMinIdle).                                                         *)
THEOREM PoolOvershootBounded == ASSUME Enough PROVE Spec => []OvershootBounded
<1>1. ASSUME Inv PROVE OvershootBounded
  <2> DEFINE H == {mine[k] : k \in Busy}
             U == IdleSet \union active
  <2>1. IsFiniteSet(H) /\ Cardinality(H) <= Cardinality(Busy)
    <3>1. [k \in Busy |-> mine[k]] \in Surjection(Busy, H)
      BY DEF Surjection
    <3> HIDE DEF H
    <3> QED
      BY <1>1, <3>1, InvTypes, FS_Surjection
  <2>2. open \in SUBSET (U \union H)
    BY <1>1 DEF Inv, Books, Busy
  <2> HIDE DEF H
  <2>3. /\ IsFiniteSet(U)
        /\ Cardinality(U) <= Cardinality(IdleSet) + Cardinality(active)
    BY <1>1, InvTypes, UnionBound
  <2> HIDE DEF U
  <2>4. /\ IsFiniteSet(U \union H)
        /\ Cardinality(U \union H) <= Cardinality(U) + Cardinality(H)
    BY <2>1, <2>3, UnionBound
  <2>5. IsFiniteSet(open) /\ Cardinality(open) <= Cardinality(U \union H)
    BY <2>2, <2>4, FS_Subset
  <2>6. /\ Cardinality(H) \in Nat /\ Cardinality(U) \in Nat
        /\ Cardinality(U \union H) \in Nat /\ Cardinality(open) \in Nat
    BY <2>1, <2>3, <2>4, <2>5, FS_CardinalityType
  <2>7. Len(idle) + Cardinality(active) + Cardinality(Busy) + deficit <= Capacity
    BY <1>1 DEF Inv, Room
  <2>8. Cardinality(open) <= Capacity
    <3>1. /\ Cardinality(IdleSet) \in Nat /\ Cardinality(IdleSet) <= Len(idle)
          /\ Len(idle) \in Nat /\ Cardinality(active) \in Nat
          /\ Cardinality(Busy) \in Nat /\ deficit \in Nat /\ Capacity \in Int
      BY <1>1, InvTypes, CapacityInteger
    <3> QED
      BY ONLY <2>1, <2>3, <2>4, <2>5, <2>6, <2>7, <3>1, ChainBound
  <2> QED
    BY <2>8 DEF OvershootBounded, Capacity
<1> QED
  BY <1>1, SpecInv, PTL
=============================================================================
