----------------------------- MODULE TdsProofs -----------------------------
(***************************************************************************)
(* Proofs about TdsSession for any messages, packet sizes, answers, bucket *)
(* names and bounds.                                                       *)
(*                                                                         *)
(* First the operators of Packets on sequences of packets of any length:   *)
(* what one more packet does to Unfinished and Messages (UnfinishedAppend, *)
(* MessagesAppend), what a run of packets does (Running, Closing), and     *)
(* that the packets of BuildPackets end where the message ends and can be  *)
(* assembled again (Built).  Both streams are recursive functions; their   *)
(* equations come from the uniqueness of the function (RecursiveExists).   *)
(*                                                                         *)
(* The inductive invariant Inv says where packets can be while each        *)
(* function runs (Places), that those of one side on their way are the     *)
(* packets of one message, from the sender through the proxy to what is    *)
(* written of it (OneMessage), and that requests, answers and refusals     *)
(* balance (Books).  Without Books a client could ask again while an       *)
(* answer is under way; without Places a message could be half written     *)
(* when another begins.                                                    *)
(*                                                                         *)
(* Every step has one of few effects on the messages under way (Effect).   *)
(* The lemmas on actions show which; BooksStep and CourierStep draw from   *)
(* the effect that the books still balance and that Courier takes the      *)
(* step.                                                                   *)
(*                                                                         *)
(* The pin of a session is right when nothing is under way; while an       *)
(* exchange goes on it is late by the packets not yet read.  PinInv says   *)
(* what it will be once the first packet under way is inspected            *)
(* (PinAfter): until the backend has executed the request, a pin that      *)
(* suits what the request will do; then, one that agrees with what the     *)
(* session has become (Plan).  It is inductive for every client; that an   *)
(* end unpins it says of one whose ends are recognised.                    *)
(*                                                                         *)
(* That Relay ends is left to the model checker.                           *)
(***************************************************************************)
EXTENDS TdsSession, SequenceTheorems, WellFoundedInduction, TLAPS

-----------------------------------------------------------------------------
(* Recursion over the packets of a stream. *)

(* A set of numbers that has 0, and each number whose predecessor it has,  *)
(* has them all.                                                           *)
LEMMA Upward ==
  ASSUME NEW len \in Nat, NEW H, 0 \in H,
         \A n \in 1 .. len : n - 1 \in H => n \in H
  PROVE  \A n \in 0 .. len : n \in H
<1> DEFINE D == {n \in 0 .. len : n \notin H}
<1> SUFFICES ASSUME D # {} PROVE FALSE
  OBVIOUS
<1>1. IsWellFoundedOn(OpToRel(<, Nat), Nat)
  BY NatLessThanWellFounded
<1>2. PICK n \in D : \A m \in D : ~ (<<m, n>> \in OpToRel(<, Nat))
  <2>1. D \subseteq Nat
    OBVIOUS
  <2> HIDE DEF D
  <2> QED
    BY <1>1, <2>1, WFMin
<1>3. n \in 0 .. len /\ n \notin H /\ n # 0
  BY <1>2
<1>4. n - 1 \in H
  <2> SUFFICES ASSUME n - 1 \notin H PROVE FALSE
    OBVIOUS
  <2>1. n - 1 \in D /\ n - 1 \in Nat /\ n \in Nat /\ n - 1 < n
    BY <1>3
  <2> QED
    BY <1>2, <2>1 DEF OpToRel
<1> QED
  BY <1>3, <1>4

(* f is defined by recursion up to n: base, and step on what came before.  *)
Recursive(f, n, base, step) ==
    f = [i \in 0 .. n |-> IF i = 0 THEN base ELSE step[i][f[i - 1]]]

(* Such a function exists.                                                 *)
LEMMA RecursiveExists ==
  ASSUME NEW len \in Nat, NEW V, NEW base \in V, NEW step \in [1 .. len -> [V -> V]]
  PROVE  \E f \in [0 .. len -> V] : Recursive(f, len, base, step)
<1> DEFINE H == {n \in 0 .. len : \E f \in [0 .. n -> V] : Recursive(f, n, base, step)}
<1>1. 0 \in H
  <2> DEFINE h == [i \in 0 .. 0 |-> base]
  <2>1. h \in [0 .. 0 -> V]
    OBVIOUS
  <2>2. Recursive(h, 0, base, step)
    <3>1. \A i \in 0 .. 0 : i = 0
      OBVIOUS
    <3>2. h = [i \in 0 .. 0 |-> IF i = 0 THEN base ELSE step[i][h[i - 1]]]
      <4> DEFINE g(i) == step[i][h[i - 1]]
      <4> HIDE DEF g
      <4>1. h = [i \in 0 .. 0 |-> IF i = 0 THEN base ELSE g(i)]
        BY <3>1
      <4> QED
        BY <4>1 DEF g
    <3> HIDE DEF h
    <3> QED
      BY <3>2 DEF Recursive
  <2> HIDE DEF h
  <2> QED
    BY <2>1, <2>2
<1>2. ASSUME NEW n \in 1 .. len, n - 1 \in H PROVE n \in H
  <2>1. PICK g \in [0 .. n - 1 -> V] : Recursive(g, n - 1, base, step)
    BY <1>2
  <2> DEFINE h == [i \in 0 .. n |-> IF i = n THEN step[n][g[n - 1]] ELSE g[i]]
  <2>2. h \in [0 .. n -> V]
    <3>1. step[n][g[n - 1]] \in V
      <4>1. n - 1 \in 0 .. n - 1
        OBVIOUS
      <4>2. g[n - 1] \in V
        BY <4>1
      <4> QED
        BY <4>2
    <3>2. \A i \in 0 .. n : i # n => i \in 0 .. n - 1
      OBVIOUS
    <3> QED
      BY <3>1, <3>2
  <2>3. ASSUME NEW i \in 0 .. n
        PROVE  h[i] = IF i = 0 THEN base ELSE step[i][h[i - 1]]
    <3>1. i # 0 => i - 1 \in 0 .. n - 1 /\ i - 1 \in 0 .. n /\ i - 1 # n
      OBVIOUS
    <3>2. i # 0 => h[i - 1] = g[i - 1]
      BY <3>1
    <3>3. CASE i = n
      <4>1. h[i] = step[n][g[n - 1]] /\ i # 0
        BY <3>3
      <4> HIDE DEF h
      <4> QED
        BY <3>2, <3>3, <4>1
    <3>4. CASE i # n
      <4>1. i \in 0 .. n - 1 /\ h[i] = g[i]
        BY <3>4
      <4>2. g[i] = IF i = 0 THEN base ELSE step[i][g[i - 1]]
        BY <2>1, <4>1 DEF Recursive
      <4> HIDE DEF h
      <4> QED
        BY <3>2, <4>1, <4>2
    <3> QED
      BY <3>3, <3>4
  <2>4. Recursive(h, n, base, step)
    <3>1. h = [i \in 0 .. n |-> h[i]]
      OBVIOUS
    <3> HIDE DEF h
    <3>2. h = [i \in 0 .. n |-> IF i = 0 THEN base ELSE step[i][h[i - 1]]]
      BY <2>3, <3>1, Zenon
    <3> QED
      BY <3>2 DEF Recursive
  <2>5. n \in 0 .. len
    OBVIOUS
  <2> HIDE DEF h
  <2> QED
    BY <2>2, <2>4, <2>5
<1>3. len \in 0 .. len
  OBVIOUS
<1>4. len \in H
  <2> HIDE DEF H
  <2> QED
    BY <1>1, <1>2, <1>3, Upward
<1> QED
  BY <1>4

-----------------------------------------------------------------------------
(* Streams of packets. *)

(* The recursive function inside Unfinished. *)
Begun(s, f) ==
    f = [n \in 0 .. Len(s) |->
            IF n = 0 \/ s[n].eom THEN <<>> ELSE Append(f[n - 1], s[n])]

(* There is such a function, with one value for each prefix. *)
LEMMA BegunExists ==
  ASSUME NEW S, NEW s \in Seq(S)
  PROVE  \E f \in [0 .. Len(s) -> Seq(S)] : Begun(s, f)
<1> DEFINE step == [n \in 1 .. Len(s) |-> [t \in Seq(S) |->
                      IF s[n].eom THEN <<>> ELSE Append(t, s[n])]]
<1>1. Len(s) \in Nat /\ <<>> \in Seq(S)
  BY LenProperties, EmptySeq
<1>2. ASSUME NEW t \in Seq(S), NEW n \in 1 .. Len(s)
      PROVE  /\ step[n][t] = IF s[n].eom THEN <<>> ELSE Append(t, s[n])
             /\ step[n][t] \in Seq(S)
  <2>1. s[n] \in S
    BY ElementOfSeq
  <2>3. step[n][t] = IF s[n].eom THEN <<>> ELSE Append(t, s[n])
    OBVIOUS
  <2>4. Append(t, s[n]) \in Seq(S)
    BY <2>1, AppendProperties
  <2> QED
    BY <1>1, <2>3, <2>4
<1>3. step \in [1 .. Len(s) -> [Seq(S) -> Seq(S)]]
  <2>1. \A n \in 1 .. Len(s), t \in Seq(S) :
           (IF s[n].eom THEN <<>> ELSE Append(t, s[n])) \in Seq(S)
    BY <1>2
  <2> QED
    BY <2>1
<1> HIDE DEF step
<1>4. PICK f \in [0 .. Len(s) -> Seq(S)] : Recursive(f, Len(s), <<>>, step)
  BY <1>1, <1>3, RecursiveExists
<1>5. ASSUME NEW n \in 0 .. Len(s)
      PROVE  f[n] = IF n = 0 \/ s[n].eom THEN <<>> ELSE Append(f[n - 1], s[n])
  <2>1. f[n] = IF n = 0 THEN <<>> ELSE step[n][f[n - 1]]
    BY <1>4 DEF Recursive
  <2>2. n # 0 => n \in 1 .. Len(s) /\ n - 1 \in 0 .. Len(s)
    BY <1>1
  <2>3. n # 0 => f[n - 1] \in Seq(S)
    BY <2>2
  <2>4. n # 0 => step[n][f[n - 1]] = IF s[n].eom THEN <<>> ELSE Append(f[n - 1], s[n])
    BY <1>2, <2>2, <2>3
  <2> QED
    BY <2>1, <2>4
<1>6. f = [n \in 0 .. Len(s) |->
             IF n = 0 \/ s[n].eom THEN <<>> ELSE Append(f[n - 1], s[n])]
  <2>1. f = [n \in 0 .. Len(s) |-> f[n]]
    OBVIOUS
  <2> QED
    BY <1>5, <2>1, Zenon
<1> QED
  BY <1>6 DEF Begun

(* Two streams that agree up to a packet have begun the same there.        *)
LEMMA BegunAgree ==
  ASSUME NEW S, NEW s \in Seq(S), NEW t \in Seq(S), NEW f, NEW g,
         Begun(s, f), Begun(t, g), NEW len \in Nat, len <= Len(s), len <= Len(t),
         \A n \in 1 .. len : s[n] = t[n]
  PROVE  f[len] = g[len]
<1> DEFINE H == {n \in 0 .. len : f[n] = g[n]}
<1>1. Len(s) \in Nat /\ Len(t) \in Nat
  BY LenProperties
<1>2. \A n \in 0 .. len : n \in 0 .. Len(s) /\ n \in 0 .. Len(t)
  BY <1>1
<1>3. 0 \in H
  <2>1. 0 \in 0 .. len
    OBVIOUS
  <2>2. f[0] = <<>> /\ g[0] = <<>>
    BY <1>2, <2>1 DEF Begun
  <2> QED
    BY <2>1, <2>2
<1>4. ASSUME NEW n \in 1 .. len, n - 1 \in H PROVE n \in H
  <2>1. n \in 0 .. len /\ n # 0
    OBVIOUS
  <2>2. f[n] = IF n = 0 \/ s[n].eom THEN <<>> ELSE Append(f[n - 1], s[n])
    BY <1>2, <2>1 DEF Begun
  <2>3. g[n] = IF n = 0 \/ t[n].eom THEN <<>> ELSE Append(g[n - 1], t[n])
    BY <1>2, <2>1 DEF Begun
  <2>4. f[n - 1] = g[n - 1] /\ s[n] = t[n]
    BY <1>4
  <2> QED
    BY <2>1, <2>2, <2>3, <2>4
<1>5. len \in 0 .. len
  OBVIOUS
<1>6. len \in H
  <2> HIDE DEF H
  <2> QED
    BY <1>3, <1>4, <1>5, Upward
<1> QED
  BY <1>6

(* Unfinished is the last value of the function. *)
LEMMA UnfinishedIs ==
  ASSUME NEW S, NEW s \in Seq(S), NEW f, Begun(s, f)
  PROVE  Unfinished(s) = f[Len(s)]
<1> DEFINE g == CHOOSE h : Begun(s, h)
<1>1. Unfinished(s) = g[Len(s)]
  BY DEF Unfinished, Begun
<1>2. Begun(s, g)
  BY Zenon
<1> HIDE DEF g
<1>3. Len(s) \in Nat /\ Len(s) <= Len(s)
  BY LenProperties
<1>4. f[Len(s)] = g[Len(s)]
  BY <1>2, <1>3, BegunAgree
<1> QED
  BY <1>1, <1>4

(* What is unfinished is packets of the stream. *)
LEMMA UnfinishedType ==
  ASSUME NEW S, NEW s \in Seq(S)
  PROVE  Unfinished(s) \in Seq(S)
<1>1. PICK f \in [0 .. Len(s) -> Seq(S)] : Begun(s, f)
  BY BegunExists
<1>2. Len(s) \in 0 .. Len(s)
  <2>1. Len(s) \in Nat
    BY LenProperties
  <2> QED
    BY <2>1
<1> QED
  BY <1>1, <1>2, UnfinishedIs

(* Nothing is unfinished in an empty stream. *)
LEMMA UnfinishedEmpty == Unfinished(<<>>) = <<>>
<1>1. <<>> \in Seq({}) /\ Len(<<>>) = 0
  BY EmptySeq
<1>2. PICK f \in [0 .. Len(<<>>) -> Seq({})] : Begun(<<>>, f)
  BY <1>1, BegunExists
<1>3. f[0] = <<>>
  <2>1. 0 \in 0 .. Len(<<>>)
    BY <1>1
  <2> QED
    BY <1>2, <2>1 DEF Begun
<1> QED
  BY <1>1, <1>2, <1>3, UnfinishedIs

(* One more packet goes on with what is unfinished, or ends it. *)
LEMMA UnfinishedAppend ==
  ASSUME NEW S, NEW s \in Seq(S), NEW x \in S
  PROVE  Unfinished(Append(s, x)) = IF x.eom THEN <<>> ELSE Append(Unfinished(s), x)
<1> DEFINE t == Append(s, x)
<1>1. /\ t \in Seq(S) /\ Len(t) = Len(s) + 1 /\ Len(s) \in Nat
      /\ \A n \in 1 .. Len(s) : t[n] = s[n]
      /\ t[Len(s) + 1] = x
  BY AppendProperties, LenProperties
<1> HIDE DEF t
<1>2. PICK f \in [0 .. Len(s) -> Seq(S)] : Begun(s, f)
  BY BegunExists
<1>3. PICK g \in [0 .. Len(t) -> Seq(S)] : Begun(t, g)
  BY <1>1, BegunExists
<1>4. Unfinished(s) = f[Len(s)] /\ Unfinished(t) = g[Len(s) + 1]
  BY <1>1, <1>2, <1>3, UnfinishedIs
<1>5. f[Len(s)] = g[Len(s)]
  <2>1. PICK n \in Nat : n = Len(s)
    BY <1>1
  <2>2. n <= Len(s) /\ n <= Len(t) /\ \A i \in 1 .. n : s[i] = t[i]
    BY <1>1, <2>1
  <2>3. f[n] = g[n]
    BY <1>1, <1>2, <1>3, <2>2, BegunAgree, SMTT(20)
  <2> QED
    BY <2>1, <2>3
<1>6. g[Len(s) + 1] = IF t[Len(s) + 1].eom THEN <<>> ELSE Append(g[Len(s)], t[Len(s) + 1])
  <2>1. Len(s) + 1 \in 0 .. Len(t) /\ Len(s) + 1 # 0 /\ (Len(s) + 1) - 1 = Len(s)
    BY <1>1
  <2> QED
    BY <1>3, <2>1 DEF Begun
<1> QED
  BY <1>1, <1>4, <1>5, <1>6 DEF t

(* The messages that packets of S make. *)
Wholes(S) == {Assemble(t) : t \in Seq(S)}

(* The packets of the message that ends with the n-th packet. *)
Ending(s, n) == Append(Unfinished(SubSeq(s, 1, n - 1)), s[n])

(* The recursive function inside Messages. *)
Complete(s, f) ==
    f = [n \in 0 .. Len(s) |->
            IF n = 0 THEN <<>>
            ELSE IF s[n].eom THEN Append(f[n - 1], Assemble(Ending(s, n)))
            ELSE f[n - 1]]

(* A prefix, and the packets of a message that ends, are packets of the    *)
(* stream.                                                                 *)
LEMMA EndingType ==
  ASSUME NEW S, NEW s \in Seq(S), NEW n \in 1 .. Len(s)
  PROVE  SubSeq(s, 1, n - 1) \in Seq(S) /\ Ending(s, n) \in Seq(S)
<1>1. Len(s) \in Nat
  BY LenProperties
<1>2. n - 1 \in Int /\ \A i \in 1 .. n - 1 : s[i] \in S
  <2>1. \A i \in 1 .. n - 1 : i \in 1 .. Len(s)
    BY <1>1
  <2> QED
    BY <1>1, <2>1, ElementOfSeq
<1>3. SubSeq(s, 1, n - 1) \in Seq(S)
  BY <1>2, SubSeqProperties
<1>4. Unfinished(SubSeq(s, 1, n - 1)) \in Seq(S)
  BY <1>3, UnfinishedType
<1>5. s[n] \in S
  BY ElementOfSeq
<1>6. Ending(s, n) \in Seq(S)
  BY <1>4, <1>5, AppendProperties DEF Ending
<1> QED
  BY <1>3, <1>6

(* There is such a function, with one value for each prefix. *)
LEMMA CompleteExists ==
  ASSUME NEW S, NEW s \in Seq(S)
  PROVE  \E f \in [0 .. Len(s) -> Seq(Wholes(S))] : Complete(s, f)
<1> DEFINE R == Seq(Wholes(S))
           Next1(t, n) == IF s[n].eom THEN Append(t, Assemble(Ending(s, n))) ELSE t
           step == [n \in 1 .. Len(s) |-> [t \in R |-> Next1(t, n)]]
<1>1. Len(s) \in Nat /\ <<>> \in R
  BY LenProperties, EmptySeq
<1>2. \A n \in 1 .. Len(s), t \in R : Next1(t, n) \in R
  <2> SUFFICES ASSUME NEW n \in 1 .. Len(s), NEW t \in R PROVE Next1(t, n) \in R
    OBVIOUS
  <2>1. Assemble(Ending(s, n)) \in Wholes(S)
    BY EndingType DEF Wholes
  <2>2. Append(t, Assemble(Ending(s, n))) \in R
    BY <2>1, AppendProperties
  <2> QED
    BY <2>2
<1>3. \A n \in 1 .. Len(s), t \in R : step[n][t] = Next1(t, n)
  <2> HIDE DEF Next1, R
  <2> QED
    OBVIOUS
<1>4. step \in [1 .. Len(s) -> [R -> R]]
  <2> HIDE DEF Next1, R
  <2> QED
    BY <1>2
<1> HIDE DEF step
<1>5. PICK f \in [0 .. Len(s) -> R] : Recursive(f, Len(s), <<>>, step)
  <2> HIDE DEF R
  <2> QED
    BY <1>1, <1>4, RecursiveExists
<1>6. ASSUME NEW n \in 0 .. Len(s)
      PROVE  f[n] = IF n = 0 THEN <<>> ELSE Next1(f[n - 1], n)
  <2>1. f[n] = IF n = 0 THEN <<>> ELSE step[n][f[n - 1]]
    BY <1>5 DEF Recursive
  <2>2. n # 0 => n \in 1 .. Len(s) /\ n - 1 \in 0 .. Len(s)
    BY <1>1
  <2>3. n # 0 => f[n - 1] \in R
    BY <2>2
  <2>4. n # 0 => step[n][f[n - 1]] = Next1(f[n - 1], n)
    <3> HIDE DEF Next1, R
    <3> QED
      BY <1>3, <2>2, <2>3
  <2> HIDE DEF Next1
  <2> QED
    BY <2>1, <2>4
<1>7. f = [n \in 0 .. Len(s) |-> IF n = 0 THEN <<>> ELSE Next1(f[n - 1], n)]
  <2>1. f = [n \in 0 .. Len(s) |-> f[n]]
    OBVIOUS
  <2> HIDE DEF Next1
  <2> QED
    BY <1>6, <2>1, Zenon
<1>8. Complete(s, f)
  BY <1>7 DEF Complete
<1> QED
  BY <1>8

(* Two streams that agree up to a packet have completed the same there.    *)
LEMMA CompleteAgree ==
  ASSUME NEW S, NEW s \in Seq(S), NEW t \in Seq(S), NEW f, NEW g,
         Complete(s, f), Complete(t, g), NEW len \in Nat, len <= Len(s), len <= Len(t),
         \A n \in 1 .. len : s[n] = t[n]
  PROVE  f[len] = g[len]
<1> DEFINE H == {n \in 0 .. len : f[n] = g[n]}
<1>1. Len(s) \in Nat /\ Len(t) \in Nat
  BY LenProperties
<1>2. \A n \in 0 .. len : n \in 0 .. Len(s) /\ n \in 0 .. Len(t)
  BY <1>1
<1>3. 0 \in H
  <2>1. 0 \in 0 .. len
    OBVIOUS
  <2>2. f[0] = <<>> /\ g[0] = <<>>
    BY <1>2, <2>1 DEF Complete
  <2> QED
    BY <2>1, <2>2
<1>4. ASSUME NEW n \in 1 .. len, n - 1 \in H PROVE n \in H
  <2>1. n \in 0 .. len /\ n # 0
    OBVIOUS
  <2>2. Ending(s, n) = Ending(t, n)
    <3>1. n \in 1 .. Len(s) /\ n \in 1 .. Len(t)
      BY <1>1
    <3>2. SubSeq(s, 1, n - 1) \in Seq(S) /\ SubSeq(t, 1, n - 1) \in Seq(S)
      BY <3>1, EndingType
    <3>3. /\ \A i \in 1 .. n - 1 : i \in 1 .. Len(s) /\ i \in 1 .. Len(t)
          /\ \A i \in 1 .. n - 1 : s[i] \in S /\ t[i] \in S
      <4>1. \A i \in 1 .. n - 1 : i \in 1 .. Len(s) /\ i \in 1 .. Len(t)
        BY <1>1
      <4> QED
        BY <4>1, ElementOfSeq
    <3>4. /\ Len(SubSeq(s, 1, n - 1)) = n - 1 /\ Len(SubSeq(t, 1, n - 1)) = n - 1
          /\ \A i \in 1 .. n - 1 : SubSeq(s, 1, n - 1)[i] = s[i] /\ SubSeq(t, 1, n - 1)[i] = t[i]
      <4>1. n - 1 \in Int /\ n - 1 + 1 = n /\ 1 \in Int
        OBVIOUS
      <4>2. /\ Len(SubSeq(s, 1, n - 1)) = IF 1 <= n - 1 THEN (n - 1) - 1 + 1 ELSE 0
            /\ \A i \in 1 .. (n - 1) - 1 + 1 : SubSeq(s, 1, n - 1)[i] = s[1 + i - 1]
        BY <3>3, <4>1, SubSeqProperties
      <4>3. /\ Len(SubSeq(t, 1, n - 1)) = IF 1 <= n - 1 THEN (n - 1) - 1 + 1 ELSE 0
            /\ \A i \in 1 .. (n - 1) - 1 + 1 : SubSeq(t, 1, n - 1)[i] = t[1 + i - 1]
        BY <3>3, <4>1, SubSeqProperties
      <4> QED
        BY <4>2, <4>3
    <3>5. \A i \in 1 .. n - 1 : s[i] = t[i]
      OBVIOUS
    <3>6. SubSeq(s, 1, n - 1) = SubSeq(t, 1, n - 1)
      BY <3>2, <3>4, <3>5, SeqEqual
    <3>7. s[n] = t[n]
      OBVIOUS
    <3> QED
      BY <3>6, <3>7 DEF Ending
  <2>3. f[n] = IF n = 0 THEN <<>>
               ELSE IF s[n].eom THEN Append(f[n - 1], Assemble(Ending(s, n)))
               ELSE f[n - 1]
    BY <1>2, <2>1 DEF Complete
  <2>4. g[n] = IF n = 0 THEN <<>>
               ELSE IF t[n].eom THEN Append(g[n - 1], Assemble(Ending(t, n)))
               ELSE g[n - 1]
    BY <1>2, <2>1 DEF Complete
  <2>5. f[n - 1] = g[n - 1] /\ s[n] = t[n]
    BY <1>4
  <2> QED
    BY <2>1, <2>2, <2>3, <2>4, <2>5
<1>5. len \in 0 .. len
  OBVIOUS
<1>6. len \in H
  <2> HIDE DEF H
  <2> QED
    BY <1>3, <1>4, <1>5, Upward
<1> QED
  BY <1>6

(* Messages is the last value of the function. *)
LEMMA MessagesIs ==
  ASSUME NEW S, NEW s \in Seq(S), NEW f, Complete(s, f)
  PROVE  Messages(s) = f[Len(s)]
<1> DEFINE g == CHOOSE h : Complete(s, h)
<1>1. Messages(s) = g[Len(s)]
  BY DEF Messages, Complete, Ending
<1>2. Complete(s, g)
  BY Zenon
<1> HIDE DEF g
<1>3. PICK n \in Nat : n = Len(s)
  BY LenProperties
<1>4. n <= Len(s) /\ \A i \in 1 .. n : s[i] = s[i]
  BY <1>3
<1>5. f[n] = g[n]
  BY <1>2, <1>4, CompleteAgree
<1> QED
  BY <1>1, <1>3, <1>5

(* The messages of a stream are assembled from its packets. *)
LEMMA MessagesType ==
  ASSUME NEW S, NEW s \in Seq(S)
  PROVE  Messages(s) \in Seq(Wholes(S)) /\ Len(Messages(s)) \in Nat
<1>1. PICK f \in [0 .. Len(s) -> Seq(Wholes(S))] : Complete(s, f)
  BY CompleteExists
<1>2. Len(s) \in 0 .. Len(s)
  <2>1. Len(s) \in Nat
    BY LenProperties
  <2> QED
    BY <2>1
<1>3. Messages(s) = f[Len(s)]
  BY <1>1, MessagesIs
<1>4. Messages(s) \in Seq(Wholes(S))
  BY <1>2, <1>3
<1> QED
  BY <1>4, LenProperties

(* An empty stream has no message. *)
LEMMA MessagesEmpty == Messages(<<>>) = <<>>
<1>1. <<>> \in Seq({}) /\ Len(<<>>) = 0
  BY EmptySeq
<1>2. PICK f \in [0 .. Len(<<>>) -> Seq(Wholes({}))] : Complete(<<>>, f)
  BY <1>1, CompleteExists
<1>3. f[0] = <<>>
  <2>1. 0 \in 0 .. Len(<<>>)
    BY <1>1
  <2> QED
    BY <1>2, <2>1 DEF Complete
<1> QED
  BY <1>1, <1>2, <1>3, MessagesIs

(* A packet that ends a message adds that message, and no other packet     *)
(* does.                                                                   *)
LEMMA MessagesAppend ==
  ASSUME NEW S, NEW s \in Seq(S), NEW x \in S
  PROVE  Messages(Append(s, x)) =
            IF x.eom THEN Append(Messages(s), Assemble(Append(Unfinished(s), x)))
            ELSE Messages(s)
<1> DEFINE t == Append(s, x)
<1>1. /\ t \in Seq(S) /\ Len(t) = Len(s) + 1 /\ Len(s) \in Nat
      /\ \A n \in 1 .. Len(s) : t[n] = s[n]
      /\ t[Len(s) + 1] = x
  BY AppendProperties, LenProperties
<1>2. SubSeq(t, 1, Len(s)) = s
  <2>1. /\ Len(s) \in Int /\ 1 \in Int
        /\ \A i \in 1 .. Len(s) : t[i] \in S
    <3>1. \A i \in 1 .. Len(s) : i \in 1 .. Len(t)
      BY <1>1
    <3> HIDE DEF t
    <3> QED
      BY <1>1, <3>1, ElementOfSeq
  <2> HIDE DEF t
  <2>2. /\ SubSeq(t, 1, Len(s)) \in Seq(S)
        /\ Len(SubSeq(t, 1, Len(s))) = IF 1 <= Len(s) THEN Len(s) - 1 + 1 ELSE 0
        /\ \A i \in 1 .. Len(s) - 1 + 1 : SubSeq(t, 1, Len(s))[i] = t[1 + i - 1]
    BY <2>1, SubSeqProperties
  <2>3. /\ Len(SubSeq(t, 1, Len(s))) = Len(s)
        /\ \A i \in 1 .. Len(s) : SubSeq(t, 1, Len(s))[i] = s[i]
    BY <1>1, <2>2
  <2> QED
    BY <2>2, <2>3, SeqEqual
<1> HIDE DEF t
<1>3. PICK f \in [0 .. Len(s) -> Seq(Wholes(S))] : Complete(s, f)
  BY CompleteExists
<1>4. PICK g \in [0 .. Len(t) -> Seq(Wholes(S))] : Complete(t, g)
  BY <1>1, CompleteExists
<1>5. Messages(s) = f[Len(s)] /\ Messages(t) = g[Len(s) + 1]
  BY <1>1, <1>3, <1>4, MessagesIs
<1>6. f[Len(s)] = g[Len(s)]
  <2>1. PICK n \in Nat : n = Len(s)
    BY <1>1
  <2>2. n <= Len(s) /\ n <= Len(t) /\ \A i \in 1 .. n : s[i] = t[i]
    BY <1>1, <2>1
  <2>3. f[n] = g[n]
    BY <1>1, <1>3, <1>4, <2>2, CompleteAgree
  <2> QED
    BY <2>1, <2>3
<1>7. LET n == Len(s) + 1
      IN  g[n] = IF t[n].eom THEN Append(g[Len(s)], Assemble(Ending(t, n))) ELSE g[Len(s)]
  <2>1. Len(s) + 1 \in 0 .. Len(t) /\ Len(s) + 1 # 0 /\ (Len(s) + 1) - 1 = Len(s)
    BY <1>1
  <2> QED
    BY <1>4, <2>1 DEF Complete
<1>8. Ending(t, Len(s) + 1) = Append(Unfinished(s), x)
  <2>1. (Len(s) + 1) - 1 = Len(s)
    BY <1>1
  <2> QED
    BY <1>1, <1>2, <2>1 DEF Ending
<1> QED
  BY <1>1, <1>5, <1>6, <1>7, <1>8 DEF t

-----------------------------------------------------------------------------
(* Packets that go on with a message, and the packets of one message.      *)
NoEom(t) == \A i \in 1 .. Len(t) : ~ t[i].eom

Whole(t) ==
    t # <<>> /\ \A i \in 1 .. Len(t) : t[i].eom <=> i = Len(t)

(* One more at the end. *)
LEMMA ConcatAppend ==
  ASSUME NEW S, NEW s \in Seq(S), NEW t \in Seq(S), NEW x \in S
  PROVE  s \o Append(t, x) = Append(s \o t, x)
<1>1. <<x>> \in Seq(S) /\ s \o t \in Seq(S)
  BY ConcatProperties
<1>2. Append(t, x) = t \o <<x>> /\ Append(s \o t, x) = (s \o t) \o <<x>>
  BY <1>1, AppendIsConcat
<1>3. s \o (t \o <<x>>) = (s \o t) \o <<x>>
  BY <1>1, ConcatAssociative
<1> QED
  BY <1>2, <1>3

(* The head of one sequence moved to the end of the one before it.         *)
LEMMA MoveHead ==
  ASSUME NEW S, NEW s \in Seq(S), NEW t \in Seq(S), t # <<>>
  PROVE  /\ Append(s, Head(t)) \in Seq(S) /\ Tail(t) \in Seq(S)
         /\ Append(s, Head(t)) \o Tail(t) = s \o t
<1>1. Head(t) \in S /\ Tail(t) \in Seq(S) /\ Len(t) \in Nat \ {0}
  BY HeadTailProperties, EmptySeq
<1>2. /\ <<Head(t)>> \in Seq(S)
      /\ Append(s, Head(t)) = s \o <<Head(t)>> /\ Append(s, Head(t)) \in Seq(S)
  BY <1>1, AppendIsConcat, AppendProperties
<1>3. t = <<Head(t)>> \o Tail(t)
  <2>1. 1 \in 1 .. Len(t) /\ Len(t) \in 1 .. Len(t)
    BY <1>1
  <2>2. SubSeq(t, 1, Len(t)) = <<t[1]>> \o SubSeq(t, 2, Len(t))
    <3>1. SubSeq(t, 1, Len(t)) = <<t[1]>> \o SubSeq(t, 1 + 1, Len(t))
      BY <2>1, SubSeqRecursiveFirst
    <3> QED
      BY <3>1
  <2>3. SubSeq(t, 1, Len(t)) = t /\ Tail(t) = SubSeq(t, 2, Len(t))
    BY SubSeqFull, TailIsSubSeq
  <2>4. Head(t) = t[1]
    OBVIOUS
  <2> QED
    BY <2>2, <2>3, <2>4
<1>4. s \o (<<Head(t)>> \o Tail(t)) = (s \o <<Head(t)>>) \o Tail(t)
  BY <1>1, <1>2, ConcatAssociative
<1> QED
  BY <1>1, <1>2, <1>3, <1>4

(* A prefix and the next element. *)
LEMMA PrefixAppend ==
  ASSUME NEW S, NEW t \in Seq(S), NEW n \in 1 .. Len(t)
  PROVE  /\ SubSeq(t, 1, n - 1) \in Seq(S) /\ t[n] \in S
         /\ SubSeq(t, 1, n) = Append(SubSeq(t, 1, n - 1), t[n])
<1>1. SubSeq(t, 1, n - 1) \in Seq(S) /\ t[n] \in S
  BY EndingType, ElementOfSeq
<1>2. 1 \in 1 .. Len(t) /\ n \in 1 .. Len(t)
  <2>1. Len(t) \in Nat
    BY LenProperties
  <2> QED
    BY <2>1
<1>3. SubSeq(t, 1, n) = SubSeq(t, 1, n - 1) \o <<t[n]>>
  BY <1>2, SubSeqRecursiveSecond
<1> QED
  BY <1>1, <1>3, AppendIsConcat

(* Packets that only go on add to what is unfinished.                      *)
LEMMA Running ==
  ASSUME NEW S, NEW s \in Seq(S), NEW t \in Seq(S), NoEom(t)
  PROVE  Unfinished(s \o t) = Unfinished(s) \o t /\ Messages(s \o t) = Messages(s)
<1> DEFINE u(n) == SubSeq(t, 1, n)
           H == {n \in 0 .. Len(t) : /\ Unfinished(s \o u(n)) = Unfinished(s) \o u(n)
                                     /\ Messages(s \o u(n)) = Messages(s)}
<1>1. Len(t) \in Nat /\ Unfinished(s) \in Seq(S)
  BY LenProperties, UnfinishedType
<1>2. 0 \in H
  <2>1. u(0) = <<>>
    BY SubSeqEmpty
  <2>2. s \o <<>> = s /\ Unfinished(s) \o <<>> = Unfinished(s)
    BY <1>1, ConcatEmptySeq
  <2>3. 0 \in 0 .. Len(t)
    BY <1>1
  <2> HIDE DEF u
  <2> QED
    BY <2>1, <2>2, <2>3
<1>3. ASSUME NEW n \in 1 .. Len(t), n - 1 \in H PROVE n \in H
  <2>1. u(n - 1) \in Seq(S) /\ t[n] \in S /\ u(n) = Append(u(n - 1), t[n])
    BY PrefixAppend
  <2>2. ~ t[n].eom
    BY DEF NoEom
  <2> HIDE DEF u
  <2>3. /\ s \o u(n - 1) \in Seq(S)
        /\ s \o u(n) = Append(s \o u(n - 1), t[n])
    <3>1. s \o u(n - 1) \in Seq(S)
      BY <2>1, ConcatProperties
    <3>2. s \o Append(u(n - 1), t[n]) = Append(s \o u(n - 1), t[n])
      BY <2>1, ConcatAppend
    <3> QED
      BY <2>1, <3>1, <3>2
  <2>7. Unfinished(s) \o u(n) = Append(Unfinished(s) \o u(n - 1), t[n])
    <3>1. Unfinished(s) \o Append(u(n - 1), t[n]) = Append(Unfinished(s) \o u(n - 1), t[n])
      BY <1>1, <2>1, ConcatAppend, SMTT(20)
    <3> QED
      BY <2>1, <3>1
  <2>4. /\ Unfinished(s \o u(n)) = Append(Unfinished(s \o u(n - 1)), t[n])
        /\ Messages(s \o u(n)) = Messages(s \o u(n - 1))
    <3> DEFINE v == s \o u(n - 1)
    <3>1. v \in Seq(S) /\ s \o u(n) = Append(v, t[n])
      BY <2>3
    <3> HIDE DEF v
    <3>2. /\ Unfinished(Append(v, t[n])) = Append(Unfinished(v), t[n])
          /\ Messages(Append(v, t[n])) = Messages(v)
      BY <2>1, <2>2, <3>1, UnfinishedAppend, MessagesAppend
    <3> QED
      BY <3>1, <3>2 DEF v
  <2>5. /\ Unfinished(s \o u(n - 1)) = Unfinished(s) \o u(n - 1)
        /\ Messages(s \o u(n - 1)) = Messages(s)
    BY <1>3
  <2>6. n \in 0 .. Len(t)
    BY <1>1
  <2> QED
    BY <2>3, <2>4, <2>5, <2>6, <2>7
<1>4. Len(t) \in 0 .. Len(t)
  BY <1>1
<1>5. Len(t) \in H
  <2> HIDE DEF H
  <2> QED
    BY <1>1, <1>2, <1>3, <1>4, Upward
<1>6. u(Len(t)) = t
  BY SubSeqFull
<1> HIDE DEF u
<1> QED
  BY <1>5, <1>6

(* The packets of a message end it.                                        *)
LEMMA Closing ==
  ASSUME NEW S, NEW s \in Seq(S), NEW t \in Seq(S), Whole(t)
  PROVE  /\ Unfinished(s \o t) = <<>>
         /\ Messages(s \o t) = Append(Messages(s), Assemble(Unfinished(s) \o t))
<1> DEFINE u == SubSeq(t, 1, Len(t) - 1)
           x == t[Len(t)]
<1>1. Len(t) \in Nat \ {0} /\ Len(t) \in 1 .. Len(t) /\ Unfinished(s) \in Seq(S)
  BY EmptySeq, UnfinishedType DEF Whole
<1>2. u \in Seq(S) /\ x \in S /\ t = Append(u, x)
  <2>1. /\ u \in Seq(S) /\ x \in S /\ SubSeq(t, 1, Len(t)) = Append(u, x)
    BY <1>1, PrefixAppend
  <2> QED
    BY <2>1, SubSeqFull
<1>3. x.eom
  BY <1>1 DEF Whole
<1>4. NoEom(u)
  <2>1. Len(u) = Len(t) - 1 /\ \A i \in 1 .. Len(t) - 1 : u[i] = t[i]
    <3>1. \A i \in 1 .. Len(t) - 1 : i \in 1 .. Len(t) /\ t[i] \in S
      <4>1. \A i \in 1 .. Len(t) - 1 : i \in 1 .. Len(t)
        BY <1>1
      <4> QED
        BY <4>1, ElementOfSeq
    <3>2. Len(t) - 1 \in Int /\ 1 \in Int
      BY <1>1
    <3>3. /\ Len(u) = IF 1 <= Len(t) - 1 THEN (Len(t) - 1) - 1 + 1 ELSE 0
          /\ \A i \in 1 .. (Len(t) - 1) - 1 + 1 : u[i] = t[1 + i - 1]
      BY <3>1, <3>2, SubSeqProperties
    <3> HIDE DEF u
    <3>4. Len(u) = Len(t) - 1
      <4>1. Len(u) = IF 1 <= Len(t) - 1 THEN (Len(t) - 1) - 1 + 1 ELSE 0
        BY <3>3
      <4>2. PICK n \in Nat \ {0} : n = Len(t)
        BY <1>1
      <4>3. (IF 1 <= n - 1 THEN (n - 1) - 1 + 1 ELSE 0) = n - 1
        BY <4>2
      <4> QED
        BY <4>1, <4>2, <4>3
    <3>5. ASSUME NEW i \in 1 .. Len(t) - 1 PROVE u[i] = t[i]
      <4>1. i \in 1 .. (Len(t) - 1) - 1 + 1 /\ 1 + i - 1 = i
        BY <1>1
      <4> QED
        BY <3>3, <4>1
    <3> QED
      BY <3>4, <3>5
  <2>2. \A i \in 1 .. Len(t) - 1 : i \in 1 .. Len(t) /\ i # Len(t)
    BY <1>1
  <2> HIDE DEF u
  <2> QED
    BY <2>1, <2>2 DEF NoEom, Whole
<1> HIDE DEF u, x
<1>5. /\ s \o u \in Seq(S)
      /\ s \o t = Append(s \o u, x)
      /\ Unfinished(s) \o t = Append(Unfinished(s) \o u, x)
  <2>1. s \o u \in Seq(S)
    BY <1>2, ConcatProperties
  <2>2. s \o Append(u, x) = Append(s \o u, x)
    BY <1>2, ConcatAppend
  <2>3. Unfinished(s) \o Append(u, x) = Append(Unfinished(s) \o u, x)
    BY <1>1, <1>2, ConcatAppend
  <2> QED
    BY <1>2, <2>1, <2>2, <2>3, Zenon
<1>6. /\ Unfinished(s \o t) = <<>>
      /\ Messages(s \o t) = Append(Messages(s \o u), Assemble(Append(Unfinished(s \o u), x)))
  BY <1>2, <1>3, <1>5, UnfinishedAppend, MessagesAppend
<1>7. Unfinished(s \o u) = Unfinished(s) \o u /\ Messages(s \o u) = Messages(s)
  BY <1>2, <1>4, Running
<1> QED
  BY <1>5, <1>6, <1>7

(* A message by itself, and a beginning by itself.                         *)
LEMMA Alone ==
  ASSUME NEW S, NEW t \in Seq(S)
  PROVE  /\ Whole(t) => Messages(t) = <<Assemble(t)>>
         /\ NoEom(t) => Messages(t) = <<>> /\ Unfinished(t) = t
<1>1. <<>> \in Seq(S) /\ <<>> \o t = t
  BY EmptySeq, ConcatEmptySeq
<1>2. CASE Whole(t)
  <2>1. Messages(<<>> \o t) = Append(Messages(<<>>), Assemble(Unfinished(<<>>) \o t))
    BY <1>1, <1>2, Closing
  <2>2. Messages(t) = Append(<<>>, Assemble(t))
    BY <1>1, <2>1, UnfinishedEmpty, MessagesEmpty
  <2>3. Append(<<>>, Assemble(t)) = <<Assemble(t)>>
    OBVIOUS
  <2>4. ~ NoEom(t)
    <3>1. Len(t) \in 1 .. Len(t)
      <4>1. Len(t) \in Nat \ {0}
        BY <1>2, EmptySeq DEF Whole
      <4> QED
        BY <4>1
    <3> QED
      BY <1>2, <3>1 DEF Whole, NoEom
  <2> QED
    BY <2>2, <2>3, <2>4
<1>3. CASE NoEom(t)
  <2>1. Unfinished(<<>> \o t) = Unfinished(<<>>) \o t /\ Messages(<<>> \o t) = Messages(<<>>)
    BY <1>1, <1>3, Running
  <2>2. Messages(t) = <<>> /\ Unfinished(t) = t
    BY <1>1, <2>1, UnfinishedEmpty, MessagesEmpty
  <2>3. ~ Whole(t)
    <3> SUFFICES ASSUME Whole(t) PROVE FALSE
      OBVIOUS
    <3>1. Len(t) \in 1 .. Len(t)
      <4>1. Len(t) \in Nat \ {0}
        BY EmptySeq DEF Whole
      <4> QED
        BY <4>1
    <3> QED
      BY <1>3, <3>1 DEF Whole, NoEom
  <2> QED
    BY <2>2, <2>3
<1> QED
  BY <1>2, <1>3

-----------------------------------------------------------------------------
(* Cutting a message into packets. *)

(* Packets of messages of the types T that show an inspection the views V. *)
PacketsOf(T, V) ==
    [type : T, id : Nat, eom : BOOLEAN, length : Nat, of : Nat, from : Nat,
     size : Nat, view : V]

(* Division rounds down. *)
LEMMA Quotient ==
  ASSUME NEW a \in Nat, NEW d \in Nat \ {0}
  PROVE  /\ a \div d \in Nat
         /\ (a \div d) * d <= a /\ a < (a \div d) * d + d
  OBVIOUS

(* Multiples are ordered like what is multiplied. *)
LEMMA Multiples ==
  ASSUME NEW d \in Nat, NEW i \in Nat, NEW k \in Nat
  PROVE  /\ i * d \in Nat
         /\ i <= k => i * d <= k * d
         /\ (i + 1) * d = i * d + d
  OBVIOUS

(* A field of a fixed width is a natural number. *)
LEMMA Widths ==
  ASSUME NEW n \in Nat PROVE Uint8(n) \in Nat /\ Uint16(n) \in Nat
  BY SMT DEF Uint8, Uint16

(* Where the packets of a message of the given size begin and end, if most *)
(* bytes fit in one.                                                       *)
Pieces(size, most) == IF size = 0 THEN 1 ELSE (size + most - 1) \div most

(* Every packet but the last is full, and the last one is not empty or     *)
(* alone.                                                                  *)
LEMMA PiecesFacts ==
  ASSUME NEW size \in Nat, NEW most \in Nat \ {0}
  PROVE  LET number == Pieces(size, most)
         IN  /\ number \in Nat \ {0}
             /\ \A i \in 1 .. number :
                   /\ (i - 1) * most \in Nat
                   /\ i < number => i * most < size /\ i * most = (i - 1) * most + most
                   /\ i = number => /\ (i - 1) * most <= size
                                    /\ size <= (i - 1) * most + most
<1> DEFINE number == Pieces(size, most)
<1>1. CASE size = 0
  <2>1. number = 1
    BY <1>1 DEF Pieces
  <2>2. \A i \in 1 .. 1 : i = 1 /\ (i - 1) * most = 0
    OBVIOUS
  <2> QED
    BY <1>1, <2>1, <2>2
<1>2. CASE size # 0
  <2> DEFINE a == size + most - 1
  <2>1. number = a \div most /\ a \in Nat
    BY <1>2 DEF Pieces
  <2>2. number \in Nat /\ number * most <= a /\ a < number * most + most
    <3> HIDE DEF number, a
    <3> QED
      BY <2>1, Quotient
  <2> HIDE DEF number
  <2>3. number # 0
    <3> SUFFICES ASSUME number = 0 PROVE FALSE
      OBVIOUS
    <3>1. number * most = 0
      OBVIOUS
    <3> QED
      BY <1>2, <2>2, <3>1
  <2>4. number - 1 \in Nat /\ number * most \in Nat
    BY <2>2, <2>3, Multiples
  <2>5. number * most = (number - 1) * most + most
    <3>1. PICK k \in Nat : k = number - 1
      BY <2>4
    <3>2. (k + 1) * most = k * most + most
      BY Multiples
    <3>3. k + 1 = number
      BY <2>2, <3>1
    <3> QED
      BY <3>1, <3>2, <3>3
  <2>6. ASSUME NEW i \in 1 .. number
        PROVE  /\ (i - 1) * most \in Nat
               /\ i < number => i * most < size /\ i * most = (i - 1) * most + most
    <3>1. PICK k \in Nat : k = i - 1 /\ i = k + 1
      BY <2>2
    <3>2. k * most \in Nat /\ (k + 1) * most = k * most + most
      BY Multiples
    <3>3. i < number => i * most <= (number - 1) * most
      <4>1. i < number => i \in Nat /\ i <= number - 1
        BY <2>2
      <4> QED
        BY <2>4, <4>1, Multiples
    <3>4. (number - 1) * most \in Nat
      BY <2>4, Multiples
    <3>5. (number - 1) * most < size
      BY <2>2, <2>4, <2>5, <3>4
    <3>6. i * most \in Nat
      BY <3>1, <3>2
    <3>7. i < number => i * most < size
      BY <3>3, <3>4, <3>5, <3>6
    <3> QED
      BY <3>1, <3>2, <3>7
  <2>7. (number - 1) * most <= size /\ size <= (number - 1) * most + most
    <3>1. (number - 1) * most \in Nat
      BY <2>4, Multiples
    <3> QED
      BY <2>2, <2>4, <2>5, <3>1
  <2> QED
    BY <2>2, <2>3, <2>6, <2>7 DEF number
<1> QED
  BY <1>1, <1>2

(* A message to be cut into packets. *)
Describes(m, T, V) ==
    m.type \in T /\ m.of \in Nat /\ m.size \in Nat /\ m.view \in V /\ m.later \in V

(* What ReadMessage makes of it. *)
Carried(m) == [type |-> m.type, of |-> m.of, size |-> m.size]

(* BuildPackets: the last packet ends the message and no other does, and   *)
(* ReadMessage puts the message together again (packet.go).                *)
LEMMA Built ==
  ASSUME NEW T, NEW V, NEW m, NEW packetSize \in Int,
         Describes(m, T, V)
  PROVE  /\ BuildPackets(m, packetSize) \in Seq(PacketsOf(T, V))
         /\ Whole(BuildPackets(m, packetSize))
         /\ Assemble(BuildPackets(m, packetSize)) = Carried(m)
<1> DEFINE most == (IF packetSize <= HeaderSize THEN DefaultPacketSize
                    ELSE packetSize) - HeaderSize
           From(i) == (i - 1) * most
           Left(i) == m.size - From(i)
           Chunk(i) == Least(most, Left(i))
           Packet(i) == [type |-> m.type, id |-> Uint8(i - 1),
                         eom |-> Chunk(i) >= Left(i),
                         length |-> Uint16(HeaderSize + Chunk(i)),
                         of |-> m.of, from |-> From(i), size |-> Chunk(i),
                         view |-> IF i = 1 THEN m.view ELSE m.later]
           number == Pieces(m.size, most)
           b == BuildPackets(m, packetSize)
<1>0. m.type \in T /\ m.of \in Nat /\ m.size \in Nat /\ m.view \in V /\ m.later \in V
  BY DEF Describes
<1>1. b = [i \in 1 .. number |-> Packet(i)]
  BY Zenon DEF BuildPackets, Pieces
<1>2. most \in Nat \ {0}
  BY SMT DEF HeaderSize, DefaultPacketSize
<1> HIDE DEF most
<1>3. /\ number \in Nat \ {0}
      /\ \A i \in 1 .. number :
            /\ From(i) \in Nat
            /\ i < number => i * most < m.size /\ i * most = From(i) + most
            /\ i = number => From(i) <= m.size /\ m.size <= From(i) + most
  BY <1>0, <1>2, PiecesFacts
<1> HIDE DEF number, b
<1>4. ASSUME NEW i \in 1 .. number
      PROVE  /\ From(i) \in Nat /\ Chunk(i) \in Nat
             /\ i < number => Chunk(i) = most /\ ~ (Chunk(i) >= Left(i))
             /\ i = number => Chunk(i) >= Left(i) /\ From(i) + Chunk(i) = m.size
  <2> DEFINE f == From(i)
  <2>1. /\ f \in Nat
        /\ i < number => f + most < m.size
        /\ i = number => f <= m.size /\ m.size <= f + most
    BY <1>3
  <2>2. Left(i) = m.size - f
    OBVIOUS
  <2>3. i \in Int /\ (i < number \/ i = number)
    BY <1>3
  <2> HIDE DEF f
  <2>4. CASE i < number
    <3>1. Least(most, m.size - f) = most /\ ~ (most >= m.size - f)
      BY <1>0, <1>2, <2>1, <2>4 DEF Least
    <3> QED
      BY <1>2, <2>1, <2>2, <2>4, <3>1, <1>3 DEF f
  <2>5. CASE i = number
    <3>1. /\ Least(most, m.size - f) = m.size - f
          /\ m.size - f >= m.size - f
          /\ f + (m.size - f) = m.size /\ m.size - f \in Nat
      BY <1>0, <1>2, <2>1, <2>5 DEF Least
    <3> QED
      BY <1>2, <2>1, <2>2, <2>5, <3>1, <1>3 DEF f
  <2> QED
    BY <2>3, <2>4, <2>5
<1>5. \A i \in 1 .. number : Packet(i) \in PacketsOf(T, V)
  <2> SUFFICES ASSUME NEW i \in 1 .. number PROVE Packet(i) \in PacketsOf(T, V)
    OBVIOUS
  <2>1. From(i) \in Nat /\ Chunk(i) \in Nat
    BY <1>4
  <2>2. (Chunk(i) >= Left(i)) \in BOOLEAN
    OBVIOUS
  <2>3. Uint8(i - 1) \in Nat
    <3>1. i - 1 \in Nat
      BY <1>3
    <3> QED
      BY <3>1, Widths
  <2>4. Uint16(HeaderSize + Chunk(i)) \in Nat
    <3> HIDE DEF Chunk
    <3>1. HeaderSize + Chunk(i) \in Nat
      BY <2>1 DEF HeaderSize
    <3> QED
      BY <3>1, Widths
  <2> HIDE DEF From, Chunk, Left
  <2> QED
    BY <1>0, <2>1, <2>2, <2>3, <2>4 DEF PacketsOf
<1> HIDE DEF Chunk, Left, From
<1>6. /\ b \in Seq(PacketsOf(T, V)) /\ Len(b) = number
      /\ \A i \in 1 .. number : b[i] = Packet(i)
  <2> HIDE DEF Packet
  <2>1. b \in [1 .. number -> PacketsOf(T, V)]
    BY <1>1, <1>5
  <2> QED
    BY <1>1, <1>3, <2>1
<1>7. \A i \in 1 .. number :
         /\ b[i].type = m.type /\ b[i].of = m.of /\ b[i].eom = (Chunk(i) >= Left(i))
         /\ b[i].from = From(i) /\ b[i].size = Chunk(i)
  BY <1>6
<1> HIDE DEF Packet
<1>8. Whole(b)
  <2>1. b # <<>>
    BY <1>3, <1>6, EmptySeq
  <2>2. \A i \in 1 .. number : b[i].eom <=> i = number
    <3>1. \A i \in 1 .. number : i < number \/ i = number
      BY <1>3
    <3> QED
      BY <1>3, <1>4, <1>7, <3>1
  <2> QED
    BY <1>6, <2>1, <2>2 DEF Whole
<1>9. Contiguous(b)
  <2>1. 1 \in 1 .. number
    BY <1>3
  <2>2. ASSUME NEW i \in 1 .. number
        PROVE  /\ b[i].of = b[1].of
               /\ b[i].from = IF i = 1 THEN 0 ELSE b[i - 1].from + b[i - 1].size
    <3>1. CASE i = 1
      <4>1. From(1) = 0
        BY <1>2 DEF From
      <4> QED
        BY <1>7, <2>1, <3>1, <4>1
    <3>2. CASE i # 1
      <4>1. i - 1 \in 1 .. number /\ i - 1 < number
        BY <1>3, <3>2
      <4>2. b[i - 1].from = From(i - 1) /\ b[i - 1].size = most
        BY <1>4, <1>7, <4>1
      <4>3. From(i) = From(i - 1) + most
        <5>1. (i - 1) * most = From(i - 1) + most
          BY <1>3, <4>1
        <5> QED
          BY <5>1 DEF From
      <4> QED
        BY <1>7, <2>1, <3>2, <4>2, <4>3
    <3> QED
      BY <3>1, <3>2
  <2> QED
    BY <1>6, <2>2 DEF Contiguous
<1>10. Last(b).from + Last(b).size = m.size
  <2>1. number \in 1 .. number /\ Last(b) = b[number]
    BY <1>3, <1>6 DEF Last
  <2>2. From(number) + Chunk(number) = m.size
    BY <1>4, <2>1
  <2> QED
    BY <1>7, <2>1, <2>2
<1>11. Assemble(b) = Carried(m)
  <2>1. b[1].type = m.type /\ b[1].of = m.of
    <3>1. 1 \in 1 .. number
      BY <1>3
    <3> QED
      BY <1>7, <3>1
  <2> QED
    BY <1>9, <1>10, <2>1 DEF Assemble, Carried
<1> QED
  BY <1>6, <1>8, <1>11 DEF b

(* The same for the fields of the message. *)
LEMMA BuiltMessage ==
  ASSUME NEW T, NEW V, NEW type \in T, NEW of \in Nat, NEW size \in Nat,
         NEW view \in V, NEW later \in V, NEW packetSize \in Int,
         NEW b, b = BuildPackets([type |-> type, of |-> of, size |-> size,
                                  view |-> view, later |-> later], packetSize)
  PROVE  /\ b \in Seq(PacketsOf(T, V)) /\ Whole(b)
         /\ Assemble(b) = [type |-> type, of |-> of, size |-> size]
<1>1. PICK m : m = [type |-> type, of |-> of, size |-> size, view |-> view, later |-> later]
  OBVIOUS
<1>2. m.type = type /\ m.of = of /\ m.size = size /\ m.view = view /\ m.later = later
  BY <1>1
<1>3. Describes(m, T, V)
  BY <1>2 DEF Describes
<1>4. /\ BuildPackets(m, packetSize) \in Seq(PacketsOf(T, V))
      /\ Whole(BuildPackets(m, packetSize))
      /\ Assemble(BuildPackets(m, packetSize)) = Carried(m)
  BY <1>3, Built
<1> QED
  BY <1>1, <1>2, <1>4 DEF Carried

(* The packets that BuildPackets cuts show the view of the message first,   *)
(* and then the later one.                                                  *)
LEMMA BuiltViews ==
  ASSUME NEW S, NEW type, NEW of, NEW size, NEW view, NEW later, NEW packetSize,
         NEW b \in Seq(S),
         b = BuildPackets([type |-> type, of |-> of, size |-> size,
                           view |-> view, later |-> later], packetSize)
  PROVE  \A i \in 1 .. Len(b) :
            b[i].type = type /\ b[i].view = IF i = 1 THEN view ELSE later
<1>1. PICK m : m = [type |-> type, of |-> of, size |-> size, view |-> view, later |-> later]
  OBVIOUS
<1>2. m.type = type /\ m.view = view /\ m.later = later
  BY <1>1
<1> DEFINE most == (IF packetSize <= HeaderSize THEN DefaultPacketSize
                    ELSE packetSize) - HeaderSize
           From(i) == (i - 1) * most
           Left(i) == m.size - From(i)
           Chunk(i) == Least(most, Left(i))
           Packet(i) == [type |-> m.type, id |-> Uint8(i - 1),
                         eom |-> Chunk(i) >= Left(i),
                         length |-> Uint16(HeaderSize + Chunk(i)),
                         of |-> m.of, from |-> From(i), size |-> Chunk(i),
                         view |-> IF i = 1 THEN m.view ELSE m.later]
           number == Pieces(m.size, most)
<1>3. BuildPackets(m, packetSize) = [i \in 1 .. number |-> Packet(i)]
  BY Zenon DEF BuildPackets, Pieces
<1>4. \A i : Packet(i).type = m.type /\ Packet(i).view = IF i = 1 THEN m.view ELSE m.later
  OBVIOUS
<1>5. b = [i \in 1 .. number |-> Packet(i)]
  BY <1>1, <1>3, Zenon
<1> HIDE DEF Packet, number
<1>6. DOMAIN b = 1 .. number /\ DOMAIN b = 1 .. Len(b)
  BY <1>5, LenProperties
<1>7. \A i \in 1 .. Len(b) : b[i] = Packet(i)
  BY <1>5, <1>6
<1> QED
  BY <1>2, <1>4, <1>7

-----------------------------------------------------------------------------
(* The session: what its sequences contain. *)

ClientSends == PreLogins \union Login7s \union Statements

Types == {m.type : m \in PreLogins \union Login7s} \union {m.type : m \in Statements}
            \union {"reply"}

(* The tokens of an answer. *)
Tokens == {"begin", "commit", "rollback", "done", "result", "error"}

(* The packets of one side show its own inspections. *)
Views(p) ==
    IF p = "client" THEN {m.view : m \in ClientSends} \union {Blank}
    ELSE {Response(tokens) : tokens \in Seq(Tokens)} \union {Blank}

PacketsFrom(p) == PacketsOf(Types, Views(p))

AllCalls ==
    {c \in [fn : {"Handle", "ForwardPreLogin", "ForwardLogin7", "RelayMessage",
                  "RelayUntilEOM", "DrainResponse", "Relay"},
            from : Peers] : c.fn = "DrainResponse" => c.from = "backend"}

PinReasons == {"", "transaction", "prepared", "temp_table", "bulk_load"}

Scalars ==
    /\ asked \in Seq(ClientSends) /\ executed \in Nat
    /\ txn \in Nat /\ prepared \in Nat /\ opened \in 0 .. executed
    /\ up \subseteq Peers /\ expired \in BOOLEAN /\ sockets \in BOOLEAN
    /\ pc \in {"idle", "reading", "writing", "relaying", "ending", "closed"}
    /\ call \in AllCalls
    /\ copier \in [Peers -> {"off", "reading", "writing", "written", "ended"}]
    /\ pinReason \in PinReasons
    /\ told \subseteq Refusals

Sequences ==
    /\ DOMAIN rest = Peers /\ DOMAIN wire = Peers
    /\ DOMAIN held = Peers /\ DOMAIN out = Peers
    /\ \A p \in Peers : /\ rest[p] \in Seq(PacketsFrom(p)) /\ wire[p] \in Seq(PacketsFrom(p))
                        /\ held[p] \in Seq(PacketsFrom(p))
                        /\ out[Other(p)] \in Seq(PacketsFrom(p))
    /\ left \in Seq(PacketsFrom(call.from))

(* Where packets can be, by what the session's goroutines are doing.       *)
Resting ==
    /\ left = <<>>
    /\ \A p \in Peers : held[p] = <<>> /\ Unfinished(out[p]) = <<>>

(* Whatever the function reads, the other side has whole messages.         *)
Reading ==
    LET p == call.from
    IN  /\ call.fn # "Relay" /\ left = <<>>
        /\ held[Other(p)] = <<>> /\ Unfinished(out[p]) = <<>>
        /\ IF call.fn = "RelayUntilEOM" THEN held[p] = <<>>
           ELSE Unfinished(out[Other(p)]) = <<>> /\ NoEom(held[p])

(* A function that forwards a whole message has it until the last packet   *)
(* is written, and what it has written is the beginning of that message.   *)
Writing ==
    LET p == call.from
        written == Unfinished(out[Other(p)])
    IN  /\ call.fn # "Relay" /\ left # <<>>
        /\ held[Other(p)] = <<>> /\ Unfinished(out[p]) = <<>>
        /\ IF call.fn = "RelayUntilEOM" THEN Len(left) = 1 /\ held[p] = left
           ELSE /\ Whole(held[p]) /\ Whole(left)
                /\ Assemble(written \o left) = Assemble(held[p])

Copying(p) ==
    /\ copier[p] # "off"
    /\ copier[p] \in {"reading", "written"} => held[p] = <<>>
    /\ copier[p] = "writing" => Len(held[p]) = 1

Off == \A p \in Peers : copier[p] = "off"

Places ==
    \/ /\ call = Relaying /\ pc \in {"relaying", "ending", "closed"}
       /\ told = {} /\ \A p \in Peers : Copying(p)
    \/ /\ Off /\ pc # "relaying"
       /\ pc = "idle" => Resting
       /\ pc = "reading" => Reading
       /\ pc = "writing" => Writing
       /\ told # {} => pc \in {"ending", "closed"}

(* The packets of a side on their way, those it has yet to send included.  *)
Streamed(p) == IF Streaming(p) THEN Unfinished(out[Other(p)]) ELSE <<>>

Flow(p) == Streamed(p) \o held[p] \o wire[p]

OnTheWay(p) == Flow(p) \o rest[p]

(* They are those of one message, or there are none.                       *)
OneMessage(p) ==
    OnTheWay(p) # <<>> => Whole(OnTheWay(p)) /\ Assemble(OnTheWay(p)) \in AnyMessage

Answers == Len(Messages(out["client"]))
Requests == Len(Messages(out["backend"]))
Refused == IF told = {} THEN 0 ELSE 1

(* The client waits for the answer to its last message; the backend        *)
(* answers in turn; a refusal is the answer to a request that was not      *)
(* passed.                                                                 *)
Books ==
    /\ Answers <= executed + Refused /\ executed <= Requests
    /\ Requests + Refused <= Len(asked) /\ Len(asked) <= Answers + 1
    /\ Len(asked) <= MaxMessages
    /\ told # {} => Answers = executed + 1 /\ Answers = Requests + 1
    /\ OnTheWay("client") # <<>> =>
          Len(asked) = Answers + 1 /\ Requests + Refused = Len(asked) - 1
    /\ OnTheWay("backend") # <<>> =>
          /\ told = {} /\ executed = Requests
          /\ executed = Len(asked) /\ Len(asked) = Answers + 1

Inv ==
    /\ Scalars /\ Sequences /\ Places /\ Books
    /\ \A p \in Peers : OneMessage(p)

-----------------------------------------------------------------------------
(* What a step does to the messages under way.                             *)
Same(p) == Flow(p)' = Flow(p) /\ rest'[p] = rest[p]

SameOut == \A p \in Peers : Messages(out'[p]) = Messages(out[p])

Quietly ==
    /\ UNCHANGED <<asked, executed, told>> /\ SameOut
    /\ \A p \in Peers : Same(p)

Starts(p) ==
    /\ Flow(p)' = Flow(p) /\ rest'[p] \in Seq(PacketsFrom(p))
    /\ rest[p] = <<>> /\ Whole(rest'[p]) /\ Assemble(rest'[p]) \in AnyMessage
    /\ Same(Other(p)) /\ SameOut /\ told' = told

Asking ==
    /\ Starts("client") /\ Len(asked') = Len(asked) + 1 /\ executed' = executed
    /\ Answers = Len(asked) /\ Len(asked) < MaxMessages

Executing ==
    /\ Starts("backend") /\ asked' = asked /\ executed' = executed + 1
    /\ executed < Requests

Sending(p) ==
    /\ rest[p] # <<>>
    /\ Flow(p)' = Append(Flow(p), Head(rest[p])) /\ rest'[p] = Tail(rest[p])
    /\ Same(Other(p)) /\ SameOut /\ UNCHANGED <<asked, executed, told>>

Taken(p) ==
    /\ Flow(p) # <<>> /\ rest[p] = <<>> /\ Flow(p)' = <<>> /\ rest'[p] = <<>>
    /\ Same(Other(p)) /\ UNCHANGED <<asked, executed>> /\ told = {}

Passing(p) ==
    /\ Taken(p) /\ told' = told
    /\ Messages(out'[Other(p)]) = Append(Messages(out[Other(p)]), Assemble(Flow(p)))
    /\ Messages(out'[p]) = Messages(out[p])

Dropping == Taken("backend") /\ told' = told /\ SameOut

Refusing ==
    /\ Taken("client") /\ told' # {}
    /\ \E m \in AnyRefusal : Messages(out'["client"]) = Append(Messages(out["client"]), m)
    /\ Messages(out'["backend"]) = Messages(out["backend"])

Effect ==
    \/ Quietly \/ Asking \/ Executing \/ Dropping \/ Refusing
    \/ \E p \in Peers : Sending(p) \/ Passing(p)

-----------------------------------------------------------------------------
(* Facts about the packets under way. *)

(* Of the packets of one message, the last part has its end.               *)
LEMMA WholeParts ==
  ASSUME NEW S, NEW s \in Seq(S), NEW t \in Seq(S), Whole(s \o t), t # <<>>
  PROVE  NoEom(s) /\ Whole(t)
<1>1. /\ Len(s) \in Nat /\ Len(t) \in Nat \ {0}
      /\ Len(s \o t) = Len(s) + Len(t)
      /\ \A i \in 1 .. Len(s) + Len(t) :
            (s \o t)[i] = IF i <= Len(s) THEN s[i] ELSE t[i - Len(s)]
  BY LenProperties, EmptySeq, ConcatProperties
<1>2. \A i \in 1 .. Len(s) + Len(t) : (s \o t)[i].eom <=> i = Len(s) + Len(t)
  BY <1>1 DEF Whole
<1>3. NoEom(s)
  <2> SUFFICES ASSUME NEW i \in 1 .. Len(s) PROVE ~ s[i].eom
    BY DEF NoEom
  <2>1. i \in 1 .. Len(s) + Len(t) /\ i <= Len(s) /\ i # Len(s) + Len(t)
    BY <1>1
  <2>2. (s \o t)[i] = s[i]
    BY <1>1, <2>1
  <2> QED
    BY <1>2, <2>1, <2>2
<1>4. Whole(t)
  <2> SUFFICES ASSUME NEW i \in 1 .. Len(t) PROVE t[i].eom <=> i = Len(t)
    BY DEF Whole
  <2>1. PICK k \in Nat : k = Len(s) + i
    BY <1>1
  <2>2. k \in 1 .. Len(s) + Len(t) /\ ~ (k <= Len(s)) /\ k - Len(s) = i
    BY <1>1, <2>1
  <2>3. (s \o t)[k] = t[i]
    BY <1>1, <2>2
  <2>4. k = Len(s) + Len(t) <=> i = Len(t)
    BY <1>1, <2>1, SMTT(20)
  <2> QED
    BY <1>2, <2>2, <2>3, <2>4
<1> QED
  BY <1>3, <1>4

(* A packet that ends a message, alone. *)
LEMMA Single ==
  ASSUME NEW S, NEW x \in S
  PROVE  /\ <<x>> \in Seq(S) /\ Len(<<x>>) = 1 /\ <<x>> # <<>> /\ Head(<<x>>) = x
         /\ x.eom => Whole(<<x>>)
         /\ ~ x.eom => NoEom(<<x>>)
BY DEF Whole, NoEom

(* There are two sides, each the other's other. *)
LEMMA OtherPeer ==
  ASSUME NEW p \in Peers
  PROVE  /\ Other(p) \in Peers /\ Other(p) # p /\ Other(Other(p)) = p
         /\ Other("client") = "backend" /\ Other("backend") = "client"
         /\ "client" \in Peers /\ "backend" \in Peers
         /\ \A q \in Peers : q = p \/ q = Other(p)
BY DEF Peers, Other

(* What is under way is packets of the side it comes from. *)
LEMMA FlowTypes ==
  ASSUME Sequences, NEW p \in Peers
  PROVE  /\ rest[p] \in Seq(PacketsFrom(p)) /\ wire[p] \in Seq(PacketsFrom(p))
         /\ held[p] \in Seq(PacketsFrom(p)) /\ Streamed(p) \in Seq(PacketsFrom(p))
         /\ Streamed(p) \o held[p] \in Seq(PacketsFrom(p))
         /\ Flow(p) \in Seq(PacketsFrom(p)) /\ OnTheWay(p) \in Seq(PacketsFrom(p))
<1> DEFINE S == PacketsFrom(p)
<1>1. rest[p] \in Seq(S) /\ wire[p] \in Seq(S) /\ held[p] \in Seq(S) /\ out[Other(p)] \in Seq(S)
  BY DEF Sequences
<1> HIDE DEF S
<1>2. Streamed(p) \in Seq(S)
  BY <1>1, UnfinishedType, EmptySeq DEF Streamed
<1>3. Streamed(p) \o held[p] \in Seq(S)
  BY <1>1, <1>2, ConcatProperties
<1>4. Flow(p) \in Seq(S)
  BY <1>1, <1>3, ConcatProperties DEF Flow
<1>5. OnTheWay(p) \in Seq(S)
  BY <1>1, <1>4, ConcatProperties DEF OnTheWay
<1> QED
  BY <1>1, <1>2, <1>3, <1>4, <1>5 DEF S

(* The messages under way: one if all of it was sent, and otherwise none.  *)
LEMMA PendingIs ==
  ASSUME Sequences, NEW p \in Peers, OneMessage(p)
  PROVE  /\ Pending(p) = Messages(Flow(p))
         /\ rest[p] = <<>> => OnTheWay(p) = Flow(p)
         /\ rest[p] # <<>> => OnTheWay(p) # <<>> /\ NoEom(Flow(p)) /\ Pending(p) = <<>>
         /\ Flow(p) # <<>> => OnTheWay(p) # <<>>
         /\ Flow(p) = <<>> => Pending(p) = <<>>
         /\ rest[p] = <<>> /\ Flow(p) # <<>> =>
               /\ Whole(Flow(p)) /\ Assemble(Flow(p)) \in AnyMessage
               /\ Pending(p) = <<Assemble(Flow(p))>>
<1> DEFINE S == PacketsFrom(p)
<1>1. rest[p] \in Seq(S) /\ Flow(p) \in Seq(S)
  BY FlowTypes
<1>2. Pending(p) = Messages(Flow(p))
  BY DEF Pending, Flow, Streamed
<1> HIDE DEF S
<1>3. rest[p] = <<>> => OnTheWay(p) = Flow(p)
  BY <1>1, ConcatEmptySeq DEF OnTheWay
<1>4. OnTheWay(p) = <<>> <=> Flow(p) = <<>> /\ rest[p] = <<>>
  BY <1>1, ConcatEqualIffEmpty DEF OnTheWay
<1>5. rest[p] # <<>> => OnTheWay(p) # <<>> /\ NoEom(Flow(p)) /\ Pending(p) = <<>>
  <2> SUFFICES ASSUME rest[p] # <<>>
               PROVE  OnTheWay(p) # <<>> /\ NoEom(Flow(p)) /\ Pending(p) = <<>>
    OBVIOUS
  <2>1. OnTheWay(p) # <<>>
    BY <1>4
  <2>2. Whole(Flow(p) \o rest[p])
    BY <2>1 DEF OneMessage, OnTheWay
  <2>3. NoEom(Flow(p))
    BY <1>1, <2>2, WholeParts
  <2> QED
    BY <1>1, <1>2, <2>1, <2>3, Alone
<1>6. Flow(p) = <<>> => Pending(p) = <<>>
  BY <1>2, MessagesEmpty
<1>7. rest[p] = <<>> /\ Flow(p) # <<>> =>
         /\ Whole(Flow(p)) /\ Assemble(Flow(p)) \in AnyMessage
         /\ Pending(p) = <<Assemble(Flow(p))>>
  BY <1>1, <1>2, <1>3, <1>4, Alone DEF OneMessage
<1> QED
  BY <1>2, <1>3, <1>4, <1>5, <1>6, <1>7

-----------------------------------------------------------------------------
(* What each effect does to the books. *)

(* A side whose packets stay has the message it had. *)
LEMMA SameKeeps ==
  ASSUME NEW p \in Peers, OneMessage(p), Same(p)
  PROVE  OnTheWay(p)' = OnTheWay(p) /\ OneMessage(p)' /\ Pending(p)' = Pending(p)
<1>1. OnTheWay(p)' = OnTheWay(p)
  BY DEF OnTheWay, Same
<1>2. OneMessage(p)'
  BY <1>1 DEF OneMessage
<1>3. Pending(p)' = Messages(Flow(p)') /\ Pending(p) = Messages(Flow(p))
  BY DEF Pending, Flow, Streamed
<1> QED
  BY <1>1, <1>2, <1>3 DEF Same

(* The messages that were written can be counted. *)
LEMMA OutTypes ==
  ASSUME Sequences
  PROVE  /\ Answers \in Nat /\ Requests \in Nat
         /\ \A p \in Peers : \E S : Messages(out[p]) \in Seq(S)
<1>1. \A p \in Peers : out[p] \in Seq(PacketsFrom(Other(p)))
  BY OtherPeer DEF Sequences
<1>2. \A p \in Peers : /\ Messages(out[p]) \in Seq(Wholes(PacketsFrom(Other(p))))
                       /\ Len(Messages(out[p])) \in Nat
  BY <1>1, MessagesType
<1> QED
  BY <1>2 DEF Answers, Requests, Peers

(* One more message is one more. *)
LEMMA Counted ==
  ASSUME NEW S, NEW s \in Seq(S), NEW m
  PROVE  Len(Append(s, m)) = Len(s) + 1
OBVIOUS

(* A message that starts is all there is on its side.                      *)
LEMMA StartsFills ==
  ASSUME Inv, NEW p \in Peers, Starts(p), OnTheWay(p) = <<>>
  PROVE  /\ OnTheWay(p)' = rest'[p] /\ OnTheWay(p)' # <<>> /\ OneMessage(p)'
         /\ OnTheWay(Other(p))' = OnTheWay(Other(p)) /\ OneMessage(Other(p))'
         /\ told' = told
<1>0. Sequences /\ OneMessage(p) /\ OneMessage(Other(p)) /\ Other(p) \in Peers
  BY OtherPeer DEF Inv
<1>1. Flow(p) = <<>>
  BY <1>0, PendingIs
<1>2. Flow(p)' = <<>> /\ <<>> \o rest'[p] = rest'[p]
  BY <1>1, ConcatEmptySeq DEF Starts
<1>3. OnTheWay(p)' = rest'[p]
  BY <1>2 DEF OnTheWay
<1>4. Whole(rest'[p]) /\ Assemble(rest'[p]) \in AnyMessage /\ rest'[p] # <<>>
  BY DEF Starts, Whole
<1>5. OneMessage(p)'
  BY <1>3, <1>4 DEF OneMessage
<1>6. Same(Other(p)) /\ told' = told
  BY DEF Starts
<1> QED
  BY <1>0, <1>3, <1>4, <1>5, <1>6, SameKeeps

(* A message that is taken leaves nothing on its side.                     *)
LEMMA TakenEmpties ==
  ASSUME Inv, NEW p \in Peers, Taken(p)
  PROVE  /\ OnTheWay(p) # <<>> /\ OnTheWay(p)' = <<>> /\ OneMessage(p)'
         /\ OnTheWay(Other(p))' = OnTheWay(Other(p)) /\ OneMessage(Other(p))'
         /\ executed' = executed /\ asked' = asked /\ told = {}
<1>0. Sequences /\ OneMessage(p) /\ OneMessage(Other(p)) /\ Other(p) \in Peers
  BY OtherPeer DEF Inv
<1>1. OnTheWay(p) # <<>>
  BY <1>0, PendingIs DEF Taken
<1>2. OnTheWay(p)' = <<>>
  <2>1. <<>> \o <<>> = <<>>
    OBVIOUS
  <2> QED
    BY <2>1 DEF Taken, OnTheWay
<1>3. Same(Other(p))
  BY DEF Taken
<1> QED
  BY <1>0, <1>1, <1>2, <1>3, SameKeeps DEF OneMessage, Taken

(* A packet that is sent stays on its way.                                 *)
LEMMA SendingKeeps ==
  ASSUME Inv, NEW p \in Peers, Sending(p)
  PROVE  /\ OnTheWay(p)' = OnTheWay(p) /\ OneMessage(p)'
         /\ OnTheWay(Other(p))' = OnTheWay(Other(p)) /\ OneMessage(Other(p))'
         /\ SameOut /\ UNCHANGED <<asked, executed, told>>
<1>0. Sequences /\ OneMessage(p) /\ OneMessage(Other(p)) /\ Other(p) \in Peers
  BY OtherPeer DEF Inv
<1>1. rest[p] \in Seq(PacketsFrom(p)) /\ Flow(p) \in Seq(PacketsFrom(p)) /\ rest[p] # <<>>
  BY <1>0, FlowTypes DEF Sending
<1>2. Append(Flow(p), Head(rest[p])) \o Tail(rest[p]) = Flow(p) \o rest[p]
  BY <1>1, MoveHead
<1>3. OnTheWay(p)' = OnTheWay(p)
  BY <1>2 DEF Sending, OnTheWay
<1>4. OneMessage(p)'
  BY <1>0, <1>3 DEF OneMessage
<1>5. Same(Other(p)) /\ SameOut /\ UNCHANGED <<asked, executed, told>>
  BY DEF Sending
<1> QED
  BY <1>0, <1>3, <1>4, <1>5, SameKeeps

(* Every effect leaves the books balanced and at most one message per side. *)
LEMMA BooksStep ==
  ASSUME Inv, Effect, Sequences'
  PROVE  Books' /\ \A p \in Peers : OneMessage(p)'
<1>0. Sequences /\ Books /\ \A p \in Peers : OneMessage(p)
  BY DEF Inv
<1>1. /\ Answers \in Nat /\ Requests \in Nat /\ executed \in Nat /\ Len(asked) \in Nat
      /\ MaxMessages \in Nat
  BY <1>0, OutTypes, ConstantsAssumption, LenProperties DEF Inv, Scalars
<1>2. "client" \in Peers /\ "backend" \in Peers /\ Other("client") = "backend"
      /\ Other("backend") = "client" /\ \A p \in Peers : p = "client" \/ p = "backend"
  BY DEF Peers, Other
<1>3. SameOut => Answers' = Answers /\ Requests' = Requests
  BY <1>2 DEF SameOut, Answers, Requests
<1>4. CASE Quietly
  <2>1. \A p \in Peers : OnTheWay(p)' = OnTheWay(p) /\ OneMessage(p)'
    BY <1>0, <1>4, SameKeeps DEF Quietly
  <2>2. Books'
    BY <1>0, <1>2, <1>3, <1>4, <2>1 DEF Quietly, Books, Refused
  <2> QED
    BY <2>1, <2>2
<1>5. ASSUME NEW p \in Peers, Starts(p), OnTheWay(p) = <<>>
      PROVE  /\ OnTheWay(p)' = rest'[p] /\ OnTheWay(p)' # <<>> /\ OneMessage(p)'
             /\ OnTheWay(Other(p))' = OnTheWay(Other(p)) /\ OneMessage(Other(p))'
             /\ Answers' = Answers /\ Requests' = Requests /\ told' = told
  BY <1>3, <1>5, StartsFills DEF Starts
<1>6. CASE Asking
  <2>1. OnTheWay("client") = <<>> /\ OnTheWay("backend") = <<>>
    BY <1>0, <1>1, <1>6 DEF Asking, Books
  <2>2. /\ OneMessage("client")' /\ OneMessage("backend")'
        /\ OnTheWay("backend")' = <<>>
        /\ Answers' = Answers /\ Requests' = Requests /\ told' = told
    BY <1>2, <1>5, <1>6, <2>1 DEF Asking
  <2>3. Refused' = Refused /\ Refused \in {0, 1} /\ (told # {} => Refused = 1)
    BY <2>2 DEF Refused
  <2>4. Len(asked)' = Len(asked) + 1 /\ executed' = executed
    BY <1>6 DEF Asking
  <2>5. Requests + Refused = Len(asked)
    BY <1>0, <1>1, <1>6, <2>3 DEF Asking, Books, Refused
  <2>6. Books'
    BY <1>0, <1>1, <1>6, <2>2, <2>3, <2>4, <2>5 DEF Asking, Books
  <2> QED
    BY <1>2, <2>2, <2>6
<1>7. CASE Executing
  <2>1. /\ told = {} /\ executed + 1 = Requests /\ Requests = Len(asked)
        /\ Len(asked) = Answers + 1
    BY <1>0, <1>1, <1>7 DEF Executing, Books, Refused
  <2>2. OnTheWay("client") = <<>> /\ OnTheWay("backend") = <<>>
    BY <1>0, <1>1, <2>1 DEF Books, Refused
  <2>3. /\ OneMessage("client")' /\ OneMessage("backend")'
        /\ OnTheWay("client")' = <<>>
        /\ Answers' = Answers /\ Requests' = Requests /\ told' = {}
    BY <1>2, <1>5, <1>7, <2>1, <2>2 DEF Executing
  <2>4. Len(asked)' = Len(asked) /\ executed' = executed + 1
    BY <1>7 DEF Executing
  <2>5. Books'
    BY <1>0, <1>1, <2>1, <2>3, <2>4 DEF Books, Refused
  <2> QED
    BY <1>2, <2>3, <2>5
<1>8. ASSUME NEW p \in Peers, Taken(p)
      PROVE  /\ OnTheWay(p) # <<>> /\ OnTheWay(p)' = <<>> /\ OneMessage(p)'
             /\ OnTheWay(Other(p))' = OnTheWay(Other(p)) /\ OneMessage(Other(p))'
             /\ executed' = executed /\ Len(asked)' = Len(asked) /\ told = {}
  BY <1>8, TakenEmpties
<1>9. CASE Dropping
  <2>1. /\ OneMessage("client")' /\ OneMessage("backend")'
        /\ OnTheWay("backend")' = <<>> /\ OnTheWay("client")' = OnTheWay("client")
        /\ Answers' = Answers /\ Requests' = Requests /\ told' = told
        /\ executed' = executed /\ Len(asked)' = Len(asked)
    BY <1>2, <1>3, <1>8, <1>9 DEF Dropping
  <2>2. Books'
    BY <1>0, <1>1, <2>1 DEF Books, Refused
  <2> QED
    BY <1>2, <2>1, <2>2
<1>10. CASE Refusing
  <2>1. /\ OneMessage("client")' /\ OneMessage("backend")' /\ OnTheWay("client") # <<>>
        /\ OnTheWay("client")' = <<>> /\ OnTheWay("backend")' = OnTheWay("backend")
        /\ executed' = executed /\ Len(asked)' = Len(asked) /\ told = {}
    BY <1>2, <1>8, <1>10 DEF Refusing
  <2>2. Answers' = Answers + 1 /\ Requests' = Requests /\ told' # {}
    BY <1>0, <1>2, <1>10, OutTypes, Counted DEF Refusing, Answers, Requests
  <2>3. Books'
    BY <1>0, <1>1, <2>1, <2>2 DEF Books, Refused
  <2> QED
    BY <1>2, <2>1, <2>3
<1>11. ASSUME NEW p \in Peers, Sending(p)
       PROVE  Books' /\ OneMessage(p)' /\ OneMessage(Other(p))'
  <2>1. /\ OnTheWay(p)' = OnTheWay(p) /\ OnTheWay(Other(p))' = OnTheWay(Other(p))
        /\ OneMessage(p)' /\ OneMessage(Other(p))' /\ SameOut
        /\ UNCHANGED <<asked, executed, told>>
    BY <1>11, SendingKeeps
  <2>2. OnTheWay("client")' = OnTheWay("client") /\ OnTheWay("backend")' = OnTheWay("backend")
    BY <1>2, <2>1
  <2>3. Books'
    BY <1>0, <1>3, <2>1, <2>2 DEF Books, Refused
  <2> QED
    BY <2>1, <2>3
<1>12. ASSUME NEW p \in Peers, Passing(p)
       PROVE  Books' /\ OneMessage(p)' /\ OneMessage(Other(p))'
  <2>1. /\ OneMessage(p)' /\ OneMessage(Other(p))' /\ OnTheWay(p) # <<>>
        /\ OnTheWay(p)' = <<>> /\ OnTheWay(Other(p))' = OnTheWay(Other(p))
        /\ executed' = executed /\ Len(asked)' = Len(asked) /\ told = {} /\ told' = {}
    BY <1>8, <1>12 DEF Passing
  <2>2. /\ Len(Messages(out'[Other(p)])) = Len(Messages(out[Other(p)])) + 1
        /\ Messages(out'[p]) = Messages(out[p])
    <3>1. Other(p) \in Peers
      BY <1>2
    <3>2. PICK S : Messages(out[Other(p)]) \in Seq(S)
      BY <1>0, <3>1, OutTypes
    <3> QED
      BY <1>12, <3>2, Counted DEF Passing
  <2>3. CASE p = "client"
    <3>1. /\ Requests' = Requests + 1 /\ Answers' = Answers
          /\ OnTheWay("client") # <<>> /\ OnTheWay("client")' = <<>>
          /\ OnTheWay("backend")' = OnTheWay("backend")
      BY <1>2, <2>1, <2>2, <2>3 DEF Answers, Requests
    <3> QED
      BY <1>0, <1>1, <2>1, <3>1 DEF Books, Refused
  <2>4. CASE p = "backend"
    <3>1. /\ Answers' = Answers + 1 /\ Requests' = Requests
          /\ OnTheWay("backend") # <<>> /\ OnTheWay("backend")' = <<>>
          /\ OnTheWay("client")' = OnTheWay("client")
      BY <1>2, <2>1, <2>2, <2>4 DEF Answers, Requests
    <3> QED
      BY <1>0, <1>1, <2>1, <3>1 DEF Books, Refused
  <2> QED
    BY <1>2, <2>1, <2>3, <2>4
<1> QED
  BY <1>2, <1>4, <1>6, <1>7, <1>9, <1>10, <1>11, <1>12 DEF Effect

-----------------------------------------------------------------------------
(* Each effect is a step of Courier, or none. *)

(* Nothing appears or disappears: no step of Courier.                      *)
LEMMA CourierStutters ==
  ASSUME \A p \in Peers : Pending(p)' = Pending(p), SameOut
  PROVE  [Abstract!Next]_(Abstract!vars)
<1>1. [p \in Peers |-> Pending(p)]' = [p \in Peers |-> Pending(p)]
  OBVIOUS
<1>2. [p \in Peers |-> Messages(out[p])]' = [p \in Peers |-> Messages(out[p])]
  BY DEF SameOut
<1> QED
  BY <1>1, <1>2 DEF Abstract!vars

(* When the last packet was sent, the courier gets a message. *)
LEMMA CourierSends ==
  ASSUME NEW p \in Peers, NEW m \in AnyMessage,
         Pending(p) = <<>>, Pending(p)' = <<m>>,
         Pending(Other(p))' = Pending(Other(p)), SameOut
  PROVE  [Abstract!Next]_(Abstract!vars)
<1> DEFINE P == [q \in Peers |-> Pending(q)]
           D == [q \in Peers |-> Messages(out[q])]
<1>1. D' = D
  BY DEF SameOut
<1>2. P[p] = <<>> /\ P'[p] = <<m>>
  OBVIOUS
<1>3. P' = [P EXCEPT ![p] = Append(@, m)]
  <2>1. Append(<<>>, m) = <<m>>
    OBVIOUS
  <2>2. \A q \in Peers : Pending(q)' = IF q = p THEN Append(Pending(p), m) ELSE Pending(q)
    BY <2>1, OtherPeer
  <2> QED
    BY <2>2
<1>4. Len(P'[p]) = Len(P[p]) + 1 /\ Last(P'[p]) = m
  <2>1. Len(<<m>>) = Len(<<>>) + 1 /\ Last(<<m>>) = m
    BY DEF Last
  <2> HIDE DEF P
  <2> QED
    BY <1>2, <2>1
<1>5. Abstract!Send(p)
  <2>1. /\ Last(P'[p]) \in AnyMessage
        /\ P' = [P EXCEPT ![p] = Append(@, Last(P'[p]))]
    <3> HIDE DEF P, D
    <3> QED
      BY <1>3, <1>4
  <2>2. /\ Len(P'[p]) = Len(P[p]) + 1
        /\ LET n == Last(P'[p])
           IN  n \in AnyMessage /\ P' = [P EXCEPT ![p] = Append(@, n)]
        /\ UNCHANGED D
    <3> HIDE DEF P, D
    <3> QED
      BY <1>1, <1>4, <2>1
  <2> QED
    BY <2>2 DEF Abstract!Send, Abstract!Last, Last
<1>6. p \in Abstract!Peers
  BY DEF Abstract!Peers, Peers
<1> QED
  BY <1>5, <1>6 DEF Abstract!Next

(* What is taken is passed on, thrown away or refused. *)
LEMMA CourierTakes ==
  ASSUME NEW p \in Peers, NEW m, Pending(p) = <<m>>, Pending(p)' = <<>>,
         Pending(Other(p))' = Pending(Other(p)),
         \/ SameOut
         \/ /\ Messages(out'[Other(p)]) = Append(Messages(out[Other(p)]), m)
            /\ Messages(out'[p]) = Messages(out[p])
         \/ /\ p = "client" /\ Messages(out'["backend"]) = Messages(out["backend"])
            /\ \E r \in AnyRefusal :
                  Messages(out'["client"]) = Append(Messages(out["client"]), r)
  PROVE  [Abstract!Next]_(Abstract!vars)
<1> DEFINE P == [q \in Peers |-> Pending(q)]
           D == [q \in Peers |-> Messages(out[q])]
<1>1. P[p] = <<m>> /\ Head(P[p]) = m /\ P[p] # <<>>
  OBVIOUS
<1>2. P' = [P EXCEPT ![p] = Tail(@)]
  <2>1. Tail(<<m>>) = <<>>
    OBVIOUS
  <2>2. \A q \in Peers : Pending(q)' = IF q = p THEN Tail(Pending(p)) ELSE Pending(q)
    BY <2>1, OtherPeer
  <2> QED
    BY <2>2
<1>3. Abstract!Take(p)
  BY <1>1, <1>2 DEF Abstract!Take
<1>4. p \in Abstract!Peers /\ Abstract!Other(p) = Other(p)
  BY DEF Abstract!Peers, Peers, Abstract!Other, Other
<1>5. CASE SameOut
  <2>1. D' = D
    BY <1>5 DEF SameOut
  <2>2. Abstract!ThrowAway
    BY <2>1 DEF Abstract!ThrowAway
  <2> QED
    BY <1>3, <1>4, <2>2 DEF Abstract!Next
<1>6. CASE /\ Messages(out'[Other(p)]) = Append(Messages(out[Other(p)]), m)
           /\ Messages(out'[p]) = Messages(out[p])
  <2>1. \A q \in Peers : Messages(out'[q]) =
            IF q = Other(p) THEN Append(Messages(out[Other(p)]), m) ELSE Messages(out[q])
    BY <1>6, OtherPeer
  <2>2. D' = [D EXCEPT ![Other(p)] = Append(@, m)]
    BY <2>1, OtherPeer
  <2>3. Abstract!Pass(p)
    <3> HIDE DEF P, D
    <3>1. D' = [D EXCEPT ![Abstract!Other(p)] = Append(@, Head(P[p]))]
      BY <1>1, <1>4, <2>2
    <3> QED
      BY <3>1 DEF Abstract!Pass, P, D
  <2> QED
    BY <1>3, <1>4, <2>3 DEF Abstract!Next
<1>7. CASE /\ p = "client" /\ Messages(out'["backend"]) = Messages(out["backend"])
           /\ \E r \in AnyRefusal :
                 Messages(out'["client"]) = Append(Messages(out["client"]), r)
  <2>1. PICK r \in AnyRefusal : Messages(out'["client"]) = Append(Messages(out["client"]), r)
    BY <1>7
  <2>2. \A q \in Peers : Messages(out'[q]) =
            IF q = "client" THEN Append(Messages(out["client"]), r) ELSE Messages(out[q])
    BY <1>7, <2>1 DEF Peers
  <2>3. D' = [D EXCEPT !["client"] = Append(@, r)]
    BY <2>2 DEF Peers
  <2>4. Abstract!Refuse(p)
    BY <1>7, <2>3 DEF Abstract!Refuse
  <2> QED
    BY <1>3, <1>4, <2>4 DEF Abstract!Next
<1> QED
  BY <1>5, <1>6, <1>7

(* What PendingIs says of a state, for the state after a step.             *)
PendingFacts(p) ==
    Sequences /\ OneMessage(p) =>
        /\ rest[p] # <<>> => Pending(p) = <<>>
        /\ rest[p] = <<>> /\ Flow(p) # <<>> =>
              Assemble(Flow(p)) \in AnyMessage /\ Pending(p) = <<Assemble(Flow(p))>>
        /\ Flow(p) = <<>> => Pending(p) = <<>>

(* They hold in every state. *)
LEMMA PendingFactsNow == \A p \in Peers : PendingFacts(p)
BY PendingIs DEF PendingFacts

(* And in the next one. *)
LEMMA PendingFactsNext == \A p \in Peers : PendingFacts(p)'
<1>1. (\A p \in Peers : PendingFacts(p))'
  BY PendingFactsNow, PTL
<1> QED
  BY <1>1

(* Every effect is a step of the courier or none. *)
LEMMA CourierStep ==
  ASSUME Inv, Effect, Sequences', \A p \in Peers : OneMessage(p)'
  PROVE  [Abstract!Next]_(Abstract!vars)
<1>0. Sequences /\ \A p \in Peers : OneMessage(p)
  BY DEF Inv
<1>1. \A p \in Peers : Pending(p) = Messages(Flow(p)) /\ Pending(p)' = Messages(Flow(p)')
  BY DEF Pending, Flow, Streamed
<1>2. ASSUME NEW p \in Peers, Flow(p)' = Flow(p), Same(Other(p)), SameOut
      PROVE  [Abstract!Next]_(Abstract!vars)
  <2>1. \A q \in Peers : Flow(q)' = Flow(q)
    BY <1>2, OtherPeer DEF Same
  <2>2. \A q \in Peers : Pending(q)' = Pending(q)
    BY <1>1, <2>1
  <2> QED
    BY <1>2, <2>2, CourierStutters
<1>3. "client" \in Peers /\ "backend" \in Peers
  BY DEF Peers
<1>4. CASE Quietly
  BY <1>2, <1>3, <1>4, OtherPeer DEF Quietly, Same
<1>5. CASE Asking
  BY <1>2, <1>3, <1>5 DEF Asking, Starts
<1>6. CASE Executing
  BY <1>2, <1>3, <1>6 DEF Executing, Starts
<1>7. ASSUME NEW p \in Peers, Sending(p) PROVE [Abstract!Next]_(Abstract!vars)
  <2>1. Pending(p) = <<>>
    BY <1>0, <1>7, PendingIs DEF Sending
  <2>2. Pending(Other(p))' = Pending(Other(p))
    BY <1>1, <1>7, OtherPeer DEF Sending, Same
  <2>3. /\ rest'[p] # <<>> => Pending(p)' = <<>>
        /\ rest'[p] = <<>> /\ Flow(p)' # <<>> =>
             Assemble(Flow(p)') \in AnyMessage /\ Pending(p)' = <<Assemble(Flow(p)')>>
        /\ Flow(p)' = <<>> => Pending(p)' = <<>>
    <3>1. PendingFacts(p)'
      BY PendingFactsNext
    <3>2. OneMessage(p)'
      OBVIOUS
    <3> QED
      BY <3>1, <3>2 DEF PendingFacts
  <2>4. SameOut
    BY <1>7 DEF Sending
  <2>5. CASE Pending(p)' = <<>>
    <3>1. \A q \in Peers : Pending(q)' = Pending(q)
      BY <2>1, <2>2, <2>5, OtherPeer
    <3> QED
      BY <2>4, <3>1, CourierStutters
  <2>6. CASE Pending(p)' # <<>>
    <3>1. PICK m \in AnyMessage : Pending(p)' = <<m>>
      BY <2>3, <2>6
    <3> QED
      BY <2>1, <2>2, <2>4, <3>1, CourierSends
  <2> QED
    BY <2>5, <2>6
<1>8. ASSUME NEW p \in Peers, Taken(p)
      PROVE  /\ Pending(p) = <<Assemble(Flow(p))>> /\ Pending(p)' = <<>>
             /\ Pending(Other(p))' = Pending(Other(p))
  <2>1. Pending(p) = <<Assemble(Flow(p))>>
    BY <1>0, <1>8, PendingIs DEF Taken
  <2>2. Pending(p)' = <<>>
    BY <1>1, <1>8, MessagesEmpty DEF Taken
  <2> QED
    BY <1>1, <1>8, <2>1, <2>2, OtherPeer DEF Taken, Same
<1>9. CASE Dropping
  BY <1>3, <1>8, <1>9, CourierTakes DEF Dropping
<1>10. CASE Refusing
  BY <1>3, <1>8, <1>10, CourierTakes DEF Refusing
<1>11. ASSUME NEW p \in Peers, Passing(p) PROVE [Abstract!Next]_(Abstract!vars)
  BY <1>8, <1>11, CourierTakes DEF Passing
<1> QED
  BY <1>4, <1>5, <1>6, <1>7, <1>9, <1>10, <1>11 DEF Effect

-----------------------------------------------------------------------------
(* The reasons of a pin. *)

PinResults ==
    {NoChange} \union {Pin(r) : r \in PinReasons} \union {Unpin(r) : r \in PinReasons}

(* What the inspection of a client's packet returns. *)
LEMMA ClientResult ==
  ASSUME NEW type, NEW view
  PROVE  InspectPacket(type, view) \in PinResults
<1>1. /\ NoChange \in PinResults /\ Pin("transaction") \in PinResults
      /\ Unpin("transaction") \in PinResults /\ Pin("temp_table") \in PinResults
      /\ Pin("prepared") \in PinResults /\ Unpin("prepared") \in PinResults
      /\ Pin("bulk_load") \in PinResults
  BY DEF PinResults, PinReasons
<1>2. InspectSQLBatch(view.words) \in PinResults
  BY <1>1 DEF InspectSQLBatch
<1>3. InspectRPC(view.proc) \in PinResults
  BY <1>1 DEF InspectRPC
<1>4. InspectTransactionManager(view.request) \in PinResults
  BY <1>1 DEF InspectTransactionManager
<1> QED
  BY <1>1, <1>2, <1>3, <1>4 DEF InspectPacket

(* A bounded set of numbers that is not empty has a greatest. *)
LEMMA Greatest ==
  ASSUME NEW len \in Nat, NEW C, C \subseteq 1 .. len, C # {}
  PROVE  \E i \in C : \A j \in C : j <= i
<1> DEFINE H == {n \in 0 .. len : (\E i \in C : i <= n) =>
                                     \E i \in C : i <= n /\ \A j \in C : j <= n => j <= i}
<1>1. 0 \in H
  <2>1. ~ \E i \in C : i <= 0
    OBVIOUS
  <2> QED
    BY <2>1
<1>2. ASSUME NEW n \in 1 .. len, n - 1 \in H PROVE n \in H
  <2>1. n \in 0 .. len
    OBVIOUS
  <2>2. CASE n \in C
    <3>1. n <= n /\ \A j \in C : j <= n => j <= n
      OBVIOUS
    <3> QED
      BY <2>1, <2>2, <3>1
  <2>3. CASE n \notin C
    <3>1. \A i \in C : i <= n <=> i <= n - 1
      BY <2>3
    <3>2. (\E i \in C : i <= n - 1) =>
             \E i \in C : i <= n - 1 /\ \A j \in C : j <= n - 1 => j <= i
      BY <1>2
    <3>3. (\E i \in C : i <= n) => \E i \in C : i <= n /\ \A j \in C : j <= n => j <= i
      BY <3>1, <3>2
    <3> QED
      BY <2>1, <3>3
  <2> QED
    BY <2>2, <2>3
<1>3. len \in 0 .. len
  OBVIOUS
<1>4. len \in H
  <2> HIDE DEF H
  <2> QED
    BY <1>1, <1>2, <1>3, Upward
<1>5. \A i \in C : i <= len
  OBVIOUS
<1> QED
  BY <1>4, <1>5

(* What the inspection of an answer returns. *)
LEMMA ResponseResult ==
  ASSUME NEW tokens \in Seq(Tokens)
  PROVE  InspectResponse(tokens) \in PinResults
<1> DEFINE C == {i \in Scanned(tokens) : tokens[i] \in DOMAIN Transitions}
           k == CHOOSE i \in C : \A j \in C : j <= i
<1>1. Len(tokens) \in Nat
  BY LenProperties
<1>2. C \subseteq 1 .. Len(tokens)
  BY DEF Scanned
<1>3. CASE C = {}
  <2>1. InspectResponse(tokens) = NoChange
    BY <1>3 DEF InspectResponse
  <2> QED
    BY <2>1 DEF PinResults
<1>4. CASE C # {}
  <2>1. \E i \in C : \A j \in C : j <= i
    <3> HIDE DEF C
    <3> QED
      BY <1>1, <1>2, <1>4, Greatest
  <2>2. k \in C
    <3> HIDE DEF C
    <3> QED
      BY <2>1
  <2>3. InspectResponse(tokens) = Transitions[tokens[k]]
    BY <1>4 DEF InspectResponse
  <2> HIDE DEF k
  <2>4. tokens[k] \in {"begin", "commit", "rollback"}
    BY <2>2 DEF Transitions
  <2>5. /\ Transitions["begin"] = Pin("transaction")
        /\ Transitions["commit"] = Unpin("transaction")
        /\ Transitions["rollback"] = Unpin("transaction")
    BY DEF Transitions
  <2>6. Pin("transaction") \in PinResults /\ Unpin("transaction") \in PinResults
    BY DEF PinResults, PinReasons
  <2> QED
    BY <2>3, <2>4, <2>5, <2>6
<1> QED
  BY <1>3, <1>4

(* The reason after a result was applied. *)
LEMMA AppliedReason ==
  ASSUME NEW reason \in PinReasons, NEW result \in PinResults
  PROVE  ApplyPinResult(reason, result) \in PinReasons
<1>2. "" \in PinReasons
  BY DEF PinReasons
<1>1. result.reason \in PinReasons
  <2>1. NoChange.reason = "" /\ \A r : Pin(r).reason = r /\ Unpin(r).reason = r
    BY DEF NoChange, Pin, Unpin
  <2>2. result = NoChange \/ \E r \in PinReasons : result = Pin(r) \/ result = Unpin(r)
    BY DEF PinResults
  <2> QED
    BY <1>2, <2>1, <2>2
<1> QED
  BY <1>1, <1>2 DEF ApplyPinResult

(* And after the callback of a packet that was read. *)
LEMMA CallbackReason ==
  ASSUME Scalars, NEW p \in Peers, NEW packet \in PacketsFrom(p), Callback("read", p, packet)
  PROVE  pinReason' \in PinReasons
<1>1. CASE p = "client"
  BY <1>1, ClientResult, AppliedReason DEF Callback, Scalars
<1>2. CASE p # "client"
  <2>1. packet.view \in Views(p)
    BY DEF PacketsFrom, PacketsOf
  <2>2. packet.view.tokens \in Seq(Tokens)
    <3>1. Blank.tokens = <<>> /\ <<>> \in Seq(Tokens)
      BY EmptySeq DEF Blank
    <3>2. \A tokens \in Seq(Tokens) : Response(tokens).tokens = tokens
      BY DEF Response, Blank
    <3> QED
      BY <1>2, <2>1, <3>1, <3>2 DEF Views
  <2>3. pinReason' = IF "read" # CallbackAt THEN pinReason
                     ELSE ApplyPinResult(pinReason, InspectResponse(packet.view.tokens))
    BY <1>2 DEF Callback
  <2> QED
    BY <2>2, <2>3, ResponseResult, AppliedReason DEF Scalars
<1> QED
  BY <1>1, <1>2

(* What a statement leaves of the backend's session. *)
LEMMA OutcomesTypes ==
  ASSUME Scalars, NEW effect, NEW o \in Outcomes(effect)
  PROVE  o.txn \in Nat /\ o.prepared \in Nat /\ o.tokens \in Seq(Tokens)
<1> DEFINE Same1(tokens) == [txn |-> txn, prepared |-> prepared, tokens |-> tokens]
           Typed(x) == x.txn \in Nat /\ x.prepared \in Nat /\ x.tokens \in Seq(Tokens)
<1>1. txn \in Nat /\ prepared \in Nat
  BY DEF Scalars
<1>2. /\ <<"done">> \in Seq(Tokens) /\ <<"begin", "done">> \in Seq(Tokens)
      /\ <<"commit", "done">> \in Seq(Tokens) /\ <<"rollback", "done">> \in Seq(Tokens)
      /\ <<"done", "begin", "done">> \in Seq(Tokens) /\ <<"done", "done">> \in Seq(Tokens)
      /\ <<"result">> \in Seq(Tokens) /\ <<"error">> \in Seq(Tokens)
      /\ <<"error", "rollback", "done">> \in Seq(Tokens)
  BY DEF Tokens
<1>3. \A tokens \in Seq(Tokens) :
         /\ Typed(Same1(tokens))
         /\ Typed([Same1(tokens) EXCEPT !.txn = txn + 1])
         /\ Typed([Same1(tokens) EXCEPT !.txn = 0])
         /\ txn > 0 => Typed([Same1(tokens) EXCEPT !.txn = txn - 1])
         /\ Typed([Same1(tokens) EXCEPT !.prepared = prepared + 1])
         /\ prepared > 0 => Typed([Same1(tokens) EXCEPT !.prepared = prepared - 1])
  BY <1>1
<1>4. Typed(o)
  <2>1. CASE effect = "begin"
    BY <1>2, <1>3, <2>1 DEF Outcomes
  <2>2. CASE effect = "commit" /\ txn > 0
    BY <1>2, <1>3, <2>2 DEF Outcomes
  <2>3. CASE effect = "rollback" /\ txn > 0
    BY <1>2, <1>3, <2>3 DEF Outcomes
  <2>4. CASE effect = "insert and begin"
    BY <1>2, <1>3, <2>4 DEF Outcomes
  <2>5. CASE effect = "prepare"
    BY <1>2, <1>3, <2>5 DEF Outcomes
  <2>6. CASE effect = "unprepare" /\ prepared > 0
    BY <1>2, <1>3, <2>6 DEF Outcomes
  <2>7. CASE effect = "query"
    BY <1>2, <1>3, <2>7 DEF Outcomes
  <2>8. CASE /\ effect \notin {"begin", "insert and begin", "prepare", "query"}
             /\ ~ (effect = "commit" /\ txn > 0) /\ ~ (effect = "rollback" /\ txn > 0)
             /\ ~ (effect = "unprepare" /\ prepared > 0)
    <3>1. o = Same1(<<"error">>)
      BY <2>8 DEF Outcomes
    <3> QED
      BY <1>2, <1>3, <3>1
  <2> QED
    BY <2>1, <2>2, <2>3, <2>4, <2>5, <2>6, <2>7, <2>8
<1> QED
  BY <1>4

-----------------------------------------------------------------------------
(* The scalars. *)

(* The functions, and the ones that go on with the answer. *)
LEMMA CallTypes ==
  /\ Relaying \in AllCalls /\ \A c \in Calls : c \in AllCalls /\ c.fn # "Relay"
  /\ \A c \in AllCalls : [c EXCEPT !.from = "backend"] \in AllCalls
BY DEF Relaying, AllCalls, Calls, Peers, Checking

(* The peers keep the types of the scalars. *)
LEMMA EnvironmentScalars ==
  ASSUME Inv, Environment
  PROVE  Scalars'
<1>0. Scalars
  BY DEF Inv
<1>1. ASSUME NEW m \in ClientSends, ClientAsks(m) PROVE Scalars'
  <2>1. asked' \in Seq(ClientSends)
    BY <1>0, <1>1, AppendProperties DEF ClientAsks, Scalars
  <2> QED
    BY <1>0, <1>1, <2>1 DEF ClientAsks, Scalars, callVars
<1>2. CASE BackendExecutes
  <2>1. txn' \in Nat /\ prepared' \in Nat
    BY <1>0, <1>2, OutcomesTypes DEF BackendExecutes
  <2>2. opened' \in 0 .. executed'
    BY <1>0, <1>2 DEF BackendExecutes, Scalars
  <2> QED
    BY <1>0, <1>2, <2>1, <2>2 DEF BackendExecutes, Scalars, callVars
<1>3. CASE Deadline
  BY <1>0, <1>3 DEF Deadline, Scalars, callVars, peerVars
<1>4. ASSUME NEW p \in Peers, Transmit(p) PROVE Scalars'
  BY <1>0, <1>4 DEF Transmit, Scalars, callVars
<1>5. ASSUME NEW p \in Peers, HangUp(p) PROVE Scalars'
  BY <1>0, <1>5 DEF HangUp, Scalars, callVars
<1> QED
  BY <1>1, <1>2, <1>3, <1>4, <1>5 DEF Environment, ClientSends

(* The message functions keep them. *)
LEMMA FunctionScalars ==
  ASSUME Inv, MessageFunctions
  PROVE  Scalars'
<1>0. Scalars
  BY DEF Inv
<1>1. ASSUME NEW c \in Calls, Begin(c) PROVE Scalars'
  BY <1>0, <1>1, CallTypes DEF Begin, Scalars, peerVars
<1>2. CASE ReadPart
  BY <1>0, <1>2 DEF ReadPart, Scalars, peerVars, callVars
<1>3. CASE ReadLast
  <2>1. pc' \in {"writing", "ending"}
    BY <1>3 DEF ReadLast
  <2> QED
    BY <1>0, <1>3, <2>1 DEF ReadLast, Scalars, peerVars
<1>4. CASE Drain
  BY <1>0, <1>4 DEF Drain, Scalars, peerVars
<1>5. CASE ReadOne
  BY <1>0, <1>5 DEF ReadOne, Scalars, peerVars
<1>6. CASE ReadError
  BY <1>0, <1>6 DEF ReadError, Scalars, peerVars
<1>7. CASE WritePart
  BY <1>0, <1>7 DEF WritePart, Scalars, peerVars
<1>8. CASE WriteLast
  <2>1. pc' \in {"reading", "idle"} /\ call' \in AllCalls
    <3>1. CASE call.fn \in Exchanges /\ call.from = "client"
      BY <1>0, <1>8, <3>1, CallTypes DEF WriteLast, Scalars
    <3>2. CASE ~ (call.fn \in Exchanges /\ call.from = "client")
      BY <1>0, <1>8, <3>2 DEF WriteLast, Scalars
    <3> QED
      BY <3>1, <3>2
  <2> QED
    BY <1>0, <1>8, <2>1 DEF WriteLast, Scalars, peerVars
<1>9. CASE WriteError
  BY <1>0, <1>9 DEF WriteError, Scalars, peerVars
<1>10. ASSUME NEW message \in Refusals, RefuseSession(message) PROVE Scalars'
  BY <1>0, <1>10 DEF RefuseSession, Scalars, peerVars
<1> QED
  BY <1>1, <1>2, <1>3, <1>4, <1>5, <1>6, <1>7, <1>8, <1>9, <1>10
  DEF MessageFunctions

(* And Relay keeps them. *)
LEMMA RelayScalars ==
  ASSUME Inv, StartRelay \/ RelayReturns \/ Cleanup \/ \E p \in Peers : RelayStep(p)
  PROVE  Scalars'
<1>0. Scalars /\ Sequences
  BY DEF Inv
<1>1. CASE StartRelay
  BY <1>0, <1>1, CallTypes DEF StartRelay, Scalars, peerVars
<1>2. CASE RelayReturns
  BY <1>0, <1>2 DEF RelayReturns, Scalars, peerVars
<1>3. CASE Cleanup
  BY <1>0, <1>3 DEF Cleanup, Scalars, peerVars, Closed
<1>4. ASSUME NEW p \in Peers, RelayRead(p) PROVE Scalars'
  <2>1. Head(wire[p]) \in PacketsFrom(p)
    <3>1. wire[p] # <<>> /\ wire[p] \in Seq(PacketsFrom(p))
      BY <1>0, <1>4 DEF RelayRead, Readable, Sequences
    <3> QED
      BY <3>1, HeadTailProperties
  <2>2. pinReason' \in PinReasons
    BY <1>0, <1>4, <2>1, CallbackReason DEF RelayRead
  <2> QED
    BY <1>0, <1>4, <2>2 DEF RelayRead, Scalars, peerVars, callVars
<1>5. ASSUME NEW p \in Peers, RelayWrite(p) PROVE Scalars'
  BY <1>0, <1>5 DEF RelayWrite, Scalars, peerVars, callVars
<1>6. ASSUME NEW p \in Peers, RelayNext(p) PROVE Scalars'
  <2>1. pinReason' = pinReason
    BY <1>6 DEF RelayNext, Callback, CallbackAt
  <2> QED
    BY <1>0, <1>6, <2>1 DEF RelayNext, Scalars, peerVars, callVars
<1>7. ASSUME NEW p \in Peers, RelayError(p) PROVE Scalars'
  BY <1>0, <1>7 DEF RelayError, Scalars, peerVars, callVars
<1> QED
  BY <1>1, <1>2, <1>3, <1>4, <1>5, <1>6, <1>7 DEF RelayStep

-----------------------------------------------------------------------------
(* A packet moved within the packets under way. *)

(* Three sequences in a row. *)
InARow(u, h, w) == (u \o h) \o w

Two(u, v) == u \o v

(* They can be put together from the end. *)
LEMMA RowFromEnd ==
  ASSUME NEW S, NEW u \in Seq(S), NEW h \in Seq(S), NEW w \in Seq(S),
         NEW v, v = h \o w
  PROVE  InARow(u, h, w) = Two(u, v)
BY ConcatAssociative DEF InARow, Two

(* A packet moved from the third to the second makes no difference. *)
LEMMA MoveFlow ==
  ASSUME NEW S, NEW u \in Seq(S), NEW h \in Seq(S), NEW w \in Seq(S), w # <<>>
  PROVE  InARow(u, Append(h, Head(w)), Tail(w)) = InARow(u, h, w)
<1>1. Head(w) \in S
  BY HeadTailProperties
<1>2. u \o Append(h, Head(w)) = Append(u \o h, Head(w))
  BY <1>1, ConcatAppend
<1>3. PICK t \in Seq(S) : t = u \o h
  BY ConcatProperties
<1>4. Append(t, Head(w)) \o Tail(w) = t \o w
  BY MoveHead
<1> QED
  BY <1>2, <1>3, <1>4 DEF InARow

(* A message that ends with the first packet of w: nothing follows it.     *)
LEMMA FirstAlone ==
  ASSUME NEW S, NEW u \in Seq(S), NEW w \in Seq(S), NEW r \in Seq(S),
         w # <<>>, Head(w).eom,
         (u \o w) \o r # <<>> => Whole((u \o w) \o r)
  PROVE  Tail(w) = <<>> /\ r = <<>> /\ u \o w # <<>>
<1>1. PICK v \in Seq(S) : v = w \o r
  BY ConcatProperties
<1>2. (u \o w) \o r = u \o v
  <2>1. InARow(u, w, r) = Two(u, v)
    BY <1>1, RowFromEnd, Zenon
  <2> QED
    BY <2>1, Zenon DEF InARow, Two
<1>3. v # <<>> /\ u \o w # <<>>
  BY <1>1, ConcatEqualIffEmpty
<1>4. u \o v # <<>>
  BY <1>3, ConcatEqualIffEmpty
<1>5. Whole(v)
  BY <1>2, <1>3, <1>4, WholeParts
<1>6. PICK n \in Nat \ {0} : n = Len(w)
  BY EmptySeq
<1>7. PICK k \in Nat : k = Len(r)
  BY LenProperties
<1>8. Len(v) = n + k /\ \A i \in 1 .. n + k : v[i] = IF i <= n THEN w[i] ELSE r[i - n]
  BY <1>1, <1>6, <1>7, ConcatProperties
<1>9. 1 \in 1 .. n + k /\ 1 <= n
  BY <1>6, <1>7
<1>10. v[1] = w[1] /\ w[1] = Head(w)
  BY <1>8, <1>9
<1>11. n + k = 1
  BY <1>5, <1>8, <1>9, <1>10 DEF Whole
<1>12. n = 1 /\ k = 0
  BY <1>6, <1>7, <1>11
<1>13. r = <<>>
  BY <1>7, <1>12, EmptySeq
<1>14. Tail(w) \in Seq(S) /\ Len(Tail(w)) = 0
  <2>1. Tail(w) \in Seq(S) /\ Len(Tail(w)) = Len(w) - 1
    BY HeadTailProperties
  <2>2. Len(w) = 1
    BY <1>6, <1>12
  <2> QED
    BY <2>1, <2>2
<1>15. Tail(w) = <<>>
  BY <1>14, EmptySeq
<1> QED
  BY <1>3, <1>13, <1>15

(* A message that ends with h: nothing follows it. *)
LEMMA LastAlone ==
  ASSUME NEW S, NEW u \in Seq(S), NEW h \in Seq(S), NEW w \in Seq(S), NEW r \in Seq(S),
         Whole(h),
         ((u \o h) \o w) \o r # <<>> => Whole(((u \o h) \o w) \o r)
  PROVE  w = <<>> /\ r = <<>> /\ (u \o h) \o w = u \o h /\ u \o h # <<>>
<1>1. PICK t \in Seq(S) : t = u \o h
  BY ConcatProperties
<1>2. PICK v \in Seq(S) : v = w \o r
  BY ConcatProperties
<1>3. (t \o w) \o r = t \o v
  BY <1>2, ConcatAssociative, SMTT(30)
<1>4. h # <<>>
  BY DEF Whole
<1>5. t # <<>>
  BY <1>1, <1>4, ConcatEqualIffEmpty
<1>6. t \o v # <<>>
  BY <1>5, ConcatEqualIffEmpty
<1>7. Whole(t \o v)
  BY <1>1, <1>3, <1>6
<1>8. v = <<>>
  <2> SUFFICES ASSUME v # <<>> PROVE FALSE
    OBVIOUS
  <2>1. NoEom(t)
    BY <1>7, WholeParts
  <2>2. PICK n \in Nat : n = Len(u)
    BY LenProperties
  <2>3. PICK k \in Nat \ {0} : k = Len(h)
    BY <1>4, EmptySeq
  <2>4. Len(t) = n + k /\ \A i \in 1 .. n + k : t[i] = IF i <= n THEN u[i] ELSE h[i - n]
    BY <1>1, <2>2, <2>3, ConcatProperties
  <2>5. PICK m \in Nat : m = n + k
    BY <2>2, <2>3
  <2>6. m \in 1 .. n + k /\ ~ (m <= n) /\ m - n = k /\ k \in 1 .. Len(h)
    BY <2>2, <2>3, <2>5
  <2>7. t[m] = h[k]
    BY <2>4, <2>6
  <2>8. h[k].eom
    BY <2>3, <2>6 DEF Whole
  <2>9. ~ t[m].eom
    BY <2>1, <2>4, <2>6 DEF NoEom
  <2> QED
    BY <2>7, <2>8, <2>9
<1>9. w = <<>> /\ r = <<>>
  <2>1. w \o r = <<>>
    BY <1>2, <1>8
  <2> QED
    BY <2>1, ConcatEqualIffEmpty
<1>10. t \o w = t
  BY <1>9, ConcatEmptySeq
<1> QED
  BY <1>1, <1>5, <1>9, <1>10

-----------------------------------------------------------------------------
(* The packets under way, by what a step does to them. *)

(* A step that moves no packet. *)
LEMMA StillStep ==
  ASSUME Sequences, UNCHANGED <<asked, executed, told, rest, wire, out, held, call, left>>
  PROVE  Sequences' /\ Quietly
<1>1. Sequences'
  BY DEF Sequences
<1>2. Quietly
  BY DEF Quietly, SameOut, Same, Flow, Streamed, Streaming
<1> QED
  BY <1>1, <1>2

(* Places depend on nothing else. *)
LEMMA PlacesKept ==
  ASSUME Places, UNCHANGED <<left, held, out, copier, call, pc, told>>
  PROVE  Places'
BY DEF Places, Copying, Off, Resting, Reading, Writing

(* The same for the packets of a side. *)
LEMMA MoveInFlow ==
  ASSUME Sequences, NEW p \in Peers, wire[p] # <<>>
  PROVE  (Streamed(p) \o Append(held[p], Head(wire[p]))) \o Tail(wire[p]) = Flow(p)
<1>1. PICK S : held[p] \in Seq(S) /\ wire[p] \in Seq(S) /\ Streamed(p) \in Seq(S)
  BY FlowTypes
<1>2. InARow(Streamed(p), Append(held[p], Head(wire[p])), Tail(wire[p]))
         = InARow(Streamed(p), held[p], wire[p])
  BY <1>1, MoveFlow
<1> QED
  BY <1>2 DEF Flow, InARow

(* A packet is read: from the connection to what is held. *)
LEMMA MoveStep ==
  ASSUME Sequences, NEW p \in Peers, wire[p] # <<>>,
         wire' = [wire EXCEPT ![p] = Tail(@)],
         held' = [held EXCEPT ![p] = Append(held[p], Head(wire[p]))],
         UNCHANGED <<asked, executed, told, rest, out, call>>,
         left' \in Seq(PacketsFrom(call.from))
  PROVE  Sequences' /\ Quietly
<1> DEFINE S == PacketsFrom(p)
           x == Head(wire[p])
<1>1. /\ wire[p] \in Seq(S) /\ held[p] \in Seq(S) /\ Streamed(p) \in Seq(S)
      /\ Streamed(p) \o held[p] \in Seq(S)
  BY FlowTypes
<1>2. x \in S /\ Tail(wire[p]) \in Seq(S) /\ Append(held[p], x) \in Seq(S)
  BY <1>1, HeadTailProperties, AppendProperties
<1>3. /\ DOMAIN wire' = Peers /\ DOMAIN held' = Peers
      /\ wire'[p] = Tail(wire[p]) /\ held'[p] = Append(held[p], x)
      /\ \A q \in Peers : q # p => wire'[q] = wire[q] /\ held'[q] = held[q]
  BY DEF Sequences
<1>4. Sequences'
  <2>1. \A q \in Peers : wire'[q] \in Seq(PacketsFrom(q)) /\ held'[q] \in Seq(PacketsFrom(q))
    BY <1>2, <1>3 DEF Sequences
  <2> QED
    BY <1>3, <2>1 DEF Sequences
<1>5. \A q \in Peers : Streamed(q)' = Streamed(q)
  BY DEF Streamed, Streaming
<1>6. Flow(p)' = Flow(p)
  <2>1. (Streamed(p) \o Append(held[p], x)) \o Tail(wire[p]) = Flow(p)
    BY MoveInFlow
  <2> QED
    BY <1>3, <1>5, <2>1 DEF Flow
<1>7. \A q \in Peers : Same(q)
  <2>1. \A q \in Peers : Flow(q)' = Flow(q)
    BY <1>3, <1>5, <1>6 DEF Flow
  <2> QED
    BY <2>1 DEF Same
<1>8. SameOut
  BY DEF SameOut
<1> QED
  BY <1>4, <1>7, <1>8 DEF Quietly

(* The packet that is read ends its message: nothing follows it.           *)
LEMMA FirstEom ==
  ASSUME Sequences, NEW p \in Peers, OneMessage(p), wire[p] # <<>>, Head(wire[p]).eom
  PROVE  Tail(wire[p]) = <<>> /\ rest[p] = <<>> /\ Flow(p) # <<>>
<1>1. PICK S : /\ rest[p] \in Seq(S) /\ wire[p] \in Seq(S)
               /\ Streamed(p) \o held[p] \in Seq(S)
  BY FlowTypes
<1>2. PICK u \in Seq(S) : u = Streamed(p) \o held[p]
  BY <1>1
<1>3. Flow(p) = u \o wire[p] /\ OnTheWay(p) = (u \o wire[p]) \o rest[p]
  BY <1>2 DEF Flow, OnTheWay
<1>4. (u \o wire[p]) \o rest[p] # <<>> => Whole((u \o wire[p]) \o rest[p])
  BY <1>3 DEF OneMessage
<1> QED
  BY <1>1, <1>3, <1>4, FirstAlone

(* A message is held, or its last packet: nothing follows it.              *)
LEMMA HeldWhole ==
  ASSUME Sequences, NEW p \in Peers, OneMessage(p), Whole(held[p])
  PROVE  /\ wire[p] = <<>> /\ rest[p] = <<>> /\ Flow(p) = Streamed(p) \o held[p]
         /\ Flow(p) # <<>>
<1>1. PICK S : /\ rest[p] \in Seq(S) /\ wire[p] \in Seq(S) /\ held[p] \in Seq(S)
               /\ Streamed(p) \in Seq(S)
  BY FlowTypes
<1>2. /\ Flow(p) = (Streamed(p) \o held[p]) \o wire[p]
      /\ OnTheWay(p) = ((Streamed(p) \o held[p]) \o wire[p]) \o rest[p]
  BY DEF Flow, OnTheWay
<1>3. ((Streamed(p) \o held[p]) \o wire[p]) \o rest[p] # <<>> =>
          Whole(((Streamed(p) \o held[p]) \o wire[p]) \o rest[p])
  BY <1>2 DEF OneMessage
<1>4. /\ wire[p] = <<>> /\ rest[p] = <<>>
      /\ (Streamed(p) \o held[p]) \o wire[p] = Streamed(p) \o held[p]
      /\ Streamed(p) \o held[p] # <<>>
  <2>1. PICK u \in Seq(S), h \in Seq(S), w \in Seq(S), r \in Seq(S) :
           u = Streamed(p) /\ h = held[p] /\ w = wire[p] /\ r = rest[p]
    BY <1>1
  <2>2. Whole(h) /\ (((u \o h) \o w) \o r # <<>> => Whole(((u \o h) \o w) \o r))
    BY <1>3, <2>1
  <2>3. w = <<>> /\ r = <<>> /\ (u \o h) \o w = u \o h /\ u \o h # <<>>
    BY <2>2, LastAlone
  <2> QED
    BY <2>1, <2>3
<1> QED
  BY <1>2, <1>4

(* One more packet at the end. *)
LEMMA SendFlow ==
  ASSUME NEW S, NEW u \in Seq(S), NEW h \in Seq(S), NEW w \in Seq(S), NEW x \in S
  PROVE  InARow(u, h, Append(w, x)) = Append(InARow(u, h, w), x)
<1>1. PICK t \in Seq(S) : t = u \o h
  BY ConcatProperties
<1>2. t \o Append(w, x) = Append(t \o w, x)
  BY ConcatAppend
<1> QED
  BY <1>1, <1>2 DEF InARow

(* A side sends a packet. *)
LEMMA SendStep ==
  ASSUME Sequences, NEW p \in Peers, rest[p] # <<>>,
         wire' = [wire EXCEPT ![p] = Append(@, Head(rest[p]))],
         rest' = [rest EXCEPT ![p] = Tail(@)],
         UNCHANGED <<asked, executed, told, out, held, call, left>>
  PROVE  Sequences' /\ Sending(p)
<1>1. PICK S : /\ S = PacketsFrom(p) /\ rest[p] \in Seq(S) /\ wire[p] \in Seq(S)
               /\ Streamed(p) \in Seq(S) /\ held[p] \in Seq(S)
  BY FlowTypes
<1>2. Head(rest[p]) \in S /\ Tail(rest[p]) \in Seq(S) /\ Append(wire[p], Head(rest[p])) \in Seq(S)
  BY <1>1, HeadTailProperties, AppendProperties
<1>3. /\ DOMAIN wire' = Peers /\ DOMAIN rest' = Peers
      /\ wire'[p] = Append(wire[p], Head(rest[p])) /\ rest'[p] = Tail(rest[p])
      /\ \A q \in Peers : q # p => wire'[q] = wire[q] /\ rest'[q] = rest[q]
  BY DEF Sequences
<1>4. Sequences'
  <2>1. \A q \in Peers : wire'[q] \in Seq(PacketsFrom(q)) /\ rest'[q] \in Seq(PacketsFrom(q))
    BY <1>1, <1>2, <1>3 DEF Sequences
  <2> QED
    BY <1>3, <2>1 DEF Sequences
<1>5. \A q \in Peers : Streamed(q)' = Streamed(q)
  BY DEF Streamed, Streaming
<1>6. Flow(p)' = Append(Flow(p), Head(rest[p]))
  <2>1. InARow(Streamed(p), held[p], Append(wire[p], Head(rest[p])))
           = Append(InARow(Streamed(p), held[p], wire[p]), Head(rest[p]))
    <3>1. PICK x \in S : x = Head(rest[p])
      BY <1>2
    <3>2. PICK u \in Seq(S), h \in Seq(S), w \in Seq(S) :
             u = Streamed(p) /\ h = held[p] /\ w = wire[p]
      BY <1>1
    <3>3. InARow(u, h, Append(w, x)) = Append(InARow(u, h, w), x)
      BY SendFlow
    <3> QED
      BY <3>1, <3>2, <3>3
  <2>2. Flow(p) = InARow(Streamed(p), held[p], wire[p])
    BY DEF Flow, InARow
  <2>3. Flow(p)' = InARow(Streamed(p), held[p], Append(wire[p], Head(rest[p])))
    BY <1>3, <1>5 DEF Flow, InARow
  <2> QED
    BY <2>1, <2>2, <2>3
<1>7. Same(Other(p))
  <2>1. Other(p) \in Peers /\ Other(p) # p
    BY OtherPeer
  <2> QED
    BY <1>3, <1>5, <2>1 DEF Same, Flow
<1>8. SameOut
  BY DEF SameOut
<1> QED
  BY <1>3, <1>4, <1>6, <1>7, <1>8 DEF Sending

(* A side begins to send a message. *)
LEMMA StartStep ==
  ASSUME Sequences, NEW p \in Peers, rest[p] = <<>>, NEW b \in Seq(PacketsFrom(p)),
         Whole(b), Assemble(b) \in AnyMessage,
         rest' = [rest EXCEPT ![p] = b],
         UNCHANGED <<told, wire, out, held, call, left>>
  PROVE  Sequences' /\ Starts(p)
<1>1. /\ DOMAIN rest' = Peers /\ rest'[p] = b
      /\ \A q \in Peers : q # p => rest'[q] = rest[q]
  BY DEF Sequences
<1>2. Sequences'
  <2>1. \A q \in Peers : rest'[q] \in Seq(PacketsFrom(q))
    BY <1>1 DEF Sequences
  <2> QED
    BY <1>1, <2>1 DEF Sequences
<1>3. \A q \in Peers : Flow(q)' = Flow(q)
  BY DEF Flow, Streamed, Streaming
<1>4. Other(p) \in Peers /\ Other(p) # p
  BY OtherPeer
<1>5. Same(Other(p)) /\ SameOut
  BY <1>1, <1>3, <1>4 DEF Same, SameOut
<1> QED
  BY <1>1, <1>2, <1>3, <1>5 DEF Starts

(* No packet is anywhere in the proxy: which function runs makes no        *)
(* difference.                                                             *)
LEMMA CallStep ==
  ASSUME Sequences, Resting,
         UNCHANGED <<asked, executed, told, rest, wire, out, held, left>>
  PROVE  Sequences' /\ Quietly
<1>1. Sequences'
  BY EmptySeq DEF Sequences, Resting
<1>2. \A p \in Peers : Streamed(p) = <<>> /\ Streamed(p)' = <<>>
  BY OtherPeer DEF Streamed, Resting
<1>3. \A p \in Peers : Flow(p)' = Flow(p)
  BY <1>2 DEF Flow
<1> QED
  BY <1>1, <1>3 DEF Quietly, Same, SameOut

(* A packet that is written as it was read. *)
LEMMA StreamFlow ==
  ASSUME NEW S, NEW u \in Seq(S), NEW x \in S, NEW w \in Seq(S)
  PROVE  /\ InARow(Append(u, x), <<>>, w) = InARow(u, <<x>>, w)
         /\ u \o <<x>> = Append(u, x)
<1>1. Append(u, x) = u \o <<x>> /\ Append(u, x) \in Seq(S)
  BY AppendIsConcat, AppendProperties
<1>2. Append(u, x) \o <<>> = Append(u, x)
  BY <1>1, ConcatEmptySeq
<1> QED
  BY <1>1, <1>2 DEF InARow

(* It ends its message, or what is unfinished grows by it. *)
LEMMA StreamStep ==
  ASSUME Sequences, NEW p \in Peers, OneMessage(p), Streaming(p), NEW x,
         held[p] = <<x>>, told = {},
         out' = [out EXCEPT ![Other(p)] = Append(@, x)],
         held' = [held EXCEPT ![p] = <<>>],
         UNCHANGED <<asked, executed, told, rest, wire, call>>,
         left' \in Seq(PacketsFrom(call.from))
  PROVE  /\ Sequences'
         /\ x.eom => Passing(p) /\ Unfinished(out'[Other(p)]) = <<>>
         /\ ~ x.eom => Quietly
         /\ out'[p] = out[p] /\ held'[p] = <<>> /\ held'[Other(p)] = held[Other(p)]
<1>1. PICK S : /\ S = PacketsFrom(p) /\ rest[p] \in Seq(S) /\ wire[p] \in Seq(S)
               /\ held[p] \in Seq(S) /\ out[Other(p)] \in Seq(S)
  BY DEF Sequences
<1>2. x \in S
  <2>1. 1 \in 1 .. Len(<<x>>) /\ <<x>>[1] = x
    OBVIOUS
  <2> QED
    BY <1>1, <2>1, ElementOfSeq
<1>3. Append(out[Other(p)], x) \in Seq(S)
  BY <1>1, <1>2, AppendProperties
<1>4. Other(p) \in Peers /\ Other(p) # p /\ Other(Other(p)) = p
      /\ \A q \in Peers : q = p \/ q = Other(p)
  BY OtherPeer
<1>5. /\ DOMAIN out' = Peers /\ DOMAIN held' = Peers
      /\ out'[Other(p)] = Append(out[Other(p)], x) /\ out'[p] = out[p]
      /\ held'[p] = <<>> /\ held'[Other(p)] = held[Other(p)]
  BY <1>4 DEF Sequences
<1>6. Sequences'
  <2>1. /\ held'[p] \in Seq(PacketsFrom(p))
        /\ held'[Other(p)] \in Seq(PacketsFrom(Other(p)))
        /\ out'[Other(p)] \in Seq(PacketsFrom(p))
        /\ out'[Other(Other(p))] \in Seq(PacketsFrom(Other(p)))
    BY <1>1, <1>3, <1>4, <1>5, EmptySeq DEF Sequences
  <2>2. \A q \in Peers : /\ held'[q] \in Seq(PacketsFrom(q))
                         /\ out'[Other(q)] \in Seq(PacketsFrom(q))
    BY <1>4, <2>1
  <2> QED
    BY <1>5, <2>2 DEF Sequences
<1>7. Unfinished(out[Other(p)]) \in Seq(S)
  BY <1>1, UnfinishedType
<1>8. Streaming(p)' /\ Streamed(p) = Unfinished(out[Other(p)])
      /\ Streamed(p)' = Unfinished(Append(out[Other(p)], x))
  BY <1>5 DEF Streaming, Streamed
<1>9. Same(Other(p))
  <2>1. Streamed(Other(p))' = Streamed(Other(p))
    BY <1>4, <1>5 DEF Streamed, Streaming
  <2> QED
    BY <1>4, <1>5, <2>1 DEF Same, Flow
<1>10. /\ Messages(out'[p]) = Messages(out[p])
  BY <1>5
<1>11. ASSUME x.eom PROVE Passing(p) /\ Unfinished(out'[Other(p)]) = <<>>
  <2>1. Whole(<<x>>)
    BY <1>2, <1>11, Single
  <2>2. /\ wire[p] = <<>> /\ rest[p] = <<>> /\ Flow(p) # <<>>
        /\ Flow(p) = Streamed(p) \o <<x>>
    BY <2>1, HeldWhole
  <2>3. Flow(p) = Append(Unfinished(out[Other(p)]), x)
    BY <1>2, <1>7, <1>8, <2>2, StreamFlow
  <2>4. /\ Unfinished(out'[Other(p)]) = <<>>
        /\ Messages(out'[Other(p)]) = Append(Messages(out[Other(p)]), Assemble(Flow(p)))
    BY <1>1, <1>2, <1>5, <1>11, <2>3, UnfinishedAppend, MessagesAppend
  <2>5. Flow(p)' = <<>>
    <3>1. Streamed(p)' = <<>> /\ held'[p] = <<>> /\ wire'[p] = <<>>
      BY <1>5, <1>8, <2>2, <2>4
    <3>2. (<<>> \o <<>>) \o <<>> = <<>>
      OBVIOUS
    <3> QED
      BY <3>1, <3>2 DEF Flow
  <2>6. Taken(p)
    BY <1>9, <2>2, <2>5 DEF Taken
  <2> QED
    BY <1>10, <2>4, <2>6 DEF Passing
<1>12. ASSUME ~ x.eom PROVE Quietly
  <2>1. /\ Streamed(p)' = Append(Streamed(p), x)
        /\ Messages(out'[Other(p)]) = Messages(out[Other(p)])
    BY <1>1, <1>2, <1>5, <1>8, <1>12, UnfinishedAppend, MessagesAppend
  <2>2. SameOut
    BY <1>4, <1>10, <2>1 DEF SameOut
  <2>3. Flow(p)' = Flow(p)
    <3>1. InARow(Append(Streamed(p), x), <<>>, wire[p]) = InARow(Streamed(p), <<x>>, wire[p])
      BY <1>1, <1>2, <1>7, <1>8, StreamFlow
    <3>2. Flow(p) = InARow(Streamed(p), <<x>>, wire[p])
      BY DEF Flow, InARow
    <3>3. Flow(p)' = InARow(Append(Streamed(p), x), <<>>, wire[p])
      BY <1>5, <2>1 DEF Flow, InARow
    <3> QED
      BY <3>1, <3>2, <3>3
  <2>4. Same(p)
    BY <2>3 DEF Same
  <2> QED
    BY <1>4, <1>9, <2>2, <2>4 DEF Quietly
<1> QED
  BY <1>5, <1>6, <1>11, <1>12

(* Neither a copy loop nor RelayUntilEOM: the function has whole messages. *)
LEMMA NotStreaming ==
  ASSUME call.fn \notin {"Relay", "RelayUntilEOM"}, NEW p \in Peers
  PROVE  ~ Streaming(p) /\ Streamed(p) = <<>>
<1>1. ~ Streaming(p)
  BY DEF Streaming
<1> QED
  BY <1>1 DEF Streamed

(* The same for the next state. *)
LEMMA NotStreamingNext ==
  (call.fn \notin {"Relay", "RelayUntilEOM"} => \A p \in Peers : Streamed(p) = <<>>)'
<1>1. call.fn \notin {"Relay", "RelayUntilEOM"} => \A p \in Peers : Streamed(p) = <<>>
  BY NotStreaming
<1> QED
  BY <1>1, PTL

(* Nothing in a row with nothing. *)
LEMMA EmptyRow ==
  /\ (<<>> \o <<>>) \o <<>> = <<>>
  /\ \A S : \A t \in Seq(S) : <<>> \o t = t
BY ConcatEmptySeq

(* A whole message that is held is written, its last packet now.           *)
LEMMA WholeStep ==
  ASSUME Sequences, NEW p \in Peers, p = call.from, OneMessage(p), told = {},
         call.fn \notin {"Relay", "RelayUntilEOM"}, call'.fn = call.fn,
         Whole(held[p]), NEW x, x.eom, left = <<x>>,
         Assemble(Unfinished(out[Other(p)]) \o left) = Assemble(held[p]),
         out' = [out EXCEPT ![Other(p)] = Append(@, x)],
         held' = [held EXCEPT ![p] = <<>>], left' = <<>>,
         UNCHANGED <<asked, executed, told, rest, wire>>
  PROVE  /\ Sequences' /\ Passing(p) /\ Unfinished(out'[Other(p)]) = <<>>
         /\ out'[p] = out[p] /\ held'[p] = <<>> /\ held'[Other(p)] = held[Other(p)]
<1>1. PICK S : /\ S = PacketsFrom(p) /\ rest[p] \in Seq(S) /\ wire[p] \in Seq(S)
               /\ held[p] \in Seq(S) /\ out[Other(p)] \in Seq(S) /\ left \in Seq(S)
  BY DEF Sequences
<1>2. x \in S
  <2>1. 1 \in 1 .. Len(<<x>>) /\ <<x>>[1] = x
    OBVIOUS
  <2> QED
    BY <1>1, <2>1, ElementOfSeq
<1>3. Append(out[Other(p)], x) \in Seq(S)
  BY <1>1, <1>2, AppendProperties
<1>4. Other(p) \in Peers /\ Other(p) # p /\ Other(Other(p)) = p
      /\ \A q \in Peers : q = p \/ q = Other(p)
  BY OtherPeer
<1>5. /\ DOMAIN out' = Peers /\ DOMAIN held' = Peers
      /\ out'[Other(p)] = Append(out[Other(p)], x) /\ out'[p] = out[p]
      /\ held'[p] = <<>> /\ held'[Other(p)] = held[Other(p)]
  BY <1>4 DEF Sequences
<1>6. Sequences'
  <2>1. /\ held'[p] \in Seq(PacketsFrom(p))
        /\ held'[Other(p)] \in Seq(PacketsFrom(Other(p)))
        /\ out'[Other(p)] \in Seq(PacketsFrom(p))
        /\ out'[Other(Other(p))] \in Seq(PacketsFrom(Other(p)))
    BY <1>1, <1>3, <1>4, <1>5, EmptySeq DEF Sequences
  <2>2. \A q \in Peers : /\ held'[q] \in Seq(PacketsFrom(q))
                         /\ out'[Other(q)] \in Seq(PacketsFrom(q))
    BY <1>4, <2>1
  <2>3. left' \in Seq(PacketsFrom(call'.from))
    BY EmptySeq
  <2> QED
    BY <1>5, <2>2, <2>3 DEF Sequences
<1>7. \A q \in Peers : Streamed(q) = <<>> /\ Streamed(q)' = <<>>
  BY NotStreaming, NotStreamingNext
<1>8. /\ wire[p] = <<>> /\ rest[p] = <<>> /\ Flow(p) # <<>> /\ Flow(p) = held[p]
  <2>1. /\ wire[p] = <<>> /\ rest[p] = <<>> /\ Flow(p) # <<>>
        /\ Flow(p) = Streamed(p) \o held[p]
    BY HeldWhole
  <2>2. <<>> \o held[p] = held[p]
    BY <1>1, EmptyRow
  <2> QED
    BY <1>7, <2>1, <2>2
<1>9. Flow(p)' = <<>>
  BY <1>5, <1>7, <1>8, EmptyRow DEF Flow
<1>10. Same(Other(p))
  BY <1>4, <1>5, <1>7 DEF Same, Flow
<1>11. Unfinished(out[Other(p)]) \in Seq(S)
  BY <1>1, UnfinishedType
<1>12. Unfinished(out[Other(p)]) \o <<x>> = Append(Unfinished(out[Other(p)]), x)
  BY <1>2, <1>11, EmptySeq, StreamFlow
<1>13. /\ Unfinished(out'[Other(p)]) = <<>>
       /\ Messages(out'[Other(p)]) = Append(Messages(out[Other(p)]), Assemble(Flow(p)))
  <2>1. /\ Unfinished(Append(out[Other(p)], x)) = <<>>
        /\ Messages(Append(out[Other(p)], x))
              = Append(Messages(out[Other(p)]), Assemble(Append(Unfinished(out[Other(p)]), x)))
    <3>1. PICK s \in Seq(S) : s = out[Other(p)]
      BY <1>1
    <3>2. /\ Unfinished(Append(s, x)) = <<>>
          /\ Messages(Append(s, x)) = Append(Messages(s), Assemble(Append(Unfinished(s), x)))
      BY <1>2, UnfinishedAppend, MessagesAppend
    <3> QED
      BY <3>1, <3>2
  <2>2. Assemble(Append(Unfinished(out[Other(p)]), x)) = Assemble(Flow(p))
    BY <1>8, <1>12
  <2> QED
    BY <1>5, <2>1, <2>2
<1> QED
  BY <1>5, <1>6, <1>8, <1>9, <1>10, <1>13 DEF Passing, Taken

(* A packet of it that is not the last. *)
LEMMA PartStep ==
  ASSUME Sequences, NEW p \in Peers, p = call.from,
         call.fn \notin {"Relay", "RelayUntilEOM"}, Whole(left), Len(left) > 1,
         out' = [out EXCEPT ![Other(p)] = Append(@, Head(left))], left' = Tail(left),
         UNCHANGED <<asked, executed, told, rest, wire, held, call>>
  PROVE  /\ Sequences' /\ Quietly /\ Whole(left') /\ out'[p] = out[p]
         /\ Unfinished(out'[Other(p)]) \o left' = Unfinished(out[Other(p)]) \o left
<1>1. PICK S : S = PacketsFrom(p) /\ out[Other(p)] \in Seq(S) /\ left \in Seq(S)
  BY DEF Sequences
<1>2. left # <<>> /\ Len(left) \in Nat
  BY <1>1, LenProperties DEF Whole
<1>3. Head(left) \in S /\ Tail(left) \in Seq(S) /\ Len(Tail(left)) = Len(left) - 1
  BY <1>1, <1>2, HeadTailProperties
<1>4. PICK x \in S : x = Head(left)
  BY <1>3
<1>5. Tail(left) # <<>>
  <2>1. PICK n \in Nat : n = Len(left) /\ n > 1
    BY <1>2
  <2>2. Len(Tail(left)) # 0
    BY <1>3, <2>1
  <2> QED
    BY <1>3, <2>2, EmptySeq
<1>6. ~ x.eom
  <2>1. left[1] = x
    BY <1>2, <1>4
  <2>2. PICK n \in Nat : n = Len(left) /\ n > 1
    BY <1>2
  <2>3. 1 \in 1 .. Len(left) /\ 1 # Len(left)
    BY <2>2
  <2> QED
    BY <2>1, <2>3 DEF Whole
<1>7. Whole(Tail(left))
  <2>1. Append(<<>>, x) \in Seq(S) /\ Append(<<>>, x) \o Tail(left) = <<>> \o left
    BY <1>1, <1>2, <1>4, EmptySeq, MoveHead
  <2>2. <<>> \o left = left
    BY <1>1, EmptyRow
  <2> QED
    BY <1>3, <1>5, <2>1, <2>2, WholeParts
<1>8. Append(out[Other(p)], x) \in Seq(S) /\ Unfinished(out[Other(p)]) \in Seq(S)
  BY <1>1, <1>4, AppendProperties, UnfinishedType
<1>9. Other(p) \in Peers /\ Other(p) # p /\ Other(Other(p)) = p
      /\ \A q \in Peers : q = p \/ q = Other(p)
  BY OtherPeer
<1>10. /\ DOMAIN out' = Peers /\ out'[p] = out[p]
       /\ out'[Other(p)] = Append(out[Other(p)], x)
  BY <1>4, <1>9 DEF Sequences
<1>11. Sequences'
  <2>1. /\ out'[Other(p)] \in Seq(PacketsFrom(p))
        /\ out'[Other(Other(p))] \in Seq(PacketsFrom(Other(p)))
    BY <1>1, <1>8, <1>9, <1>10 DEF Sequences
  <2>2. \A q \in Peers : out'[Other(q)] \in Seq(PacketsFrom(q))
    BY <1>9, <2>1
  <2>3. left' \in Seq(PacketsFrom(call'.from))
    BY <1>1, <1>3
  <2> QED
    BY <1>10, <2>2, <2>3 DEF Sequences
<1>12. \A q \in Peers : Streamed(q) = <<>> /\ Streamed(q)' = <<>>
  BY NotStreaming, NotStreamingNext
<1>13. \A q \in Peers : Same(q)
  BY <1>12 DEF Same, Flow
<1>14. /\ Unfinished(out'[Other(p)]) = Append(Unfinished(out[Other(p)]), x)
       /\ Messages(out'[Other(p)]) = Messages(out[Other(p)])
  BY <1>1, <1>4, <1>6, <1>10, UnfinishedAppend, MessagesAppend
<1>15. SameOut
  BY <1>9, <1>10, <1>14 DEF SameOut
<1>16. Append(Unfinished(out[Other(p)]), x) \o Tail(left) = Unfinished(out[Other(p)]) \o left
  BY <1>1, <1>2, <1>4, <1>8, MoveHead, SMTT(20)
<1> QED
  BY <1>7, <1>10, <1>11, <1>13, <1>14, <1>15, <1>16 DEF Quietly

-----------------------------------------------------------------------------
(* The actions of the peers. *)

(* What the assumptions on the constants give. *)
LEMMA Constants ==
  /\ \A m \in ClientSends : m.payload.size \in Nat /\ m.packetSize \in Int
                            /\ m.type \in Types /\ m.view \in Views("client")
  /\ Blank \in Views("client") /\ Blank \in Views("backend") /\ "reply" \in Types
  /\ \A tokens \in Seq(Tokens) : Response(tokens) \in Views("backend")
  /\ ReplySizes \subseteq Nat /\ DefaultPacketSize \in Int
  /\ MaxMessages \in Nat \ {0} /\ MaxLogins \in Nat /\ MaxLogins <= MaxMessages
<1>1. "client" # "backend"
  OBVIOUS
<1> QED
  BY <1>1, ConstantsAssumption DEF ClientSends, Types, Views, DefaultPacketSize

(* The packets of a message of the client: they are this message, and the   *)
(* first one shows what it is.                                              *)
LEMMA CutIs ==
  ASSUME NEW m \in ClientSends, NEW n \in Nat, NEW b, b = Cut(m, n)
  PROVE  /\ b \in Seq(PacketsFrom("client")) /\ Whole(b)
         /\ Assemble(b) = [type |-> m.type, of |-> n, size |-> m.payload.size]
         /\ \A i \in 1 .. Len(b) :
               b[i].type = m.type /\ b[i].view = IF i = 1 THEN m.view ELSE Blank
<1>1. b = BuildPackets([type |-> m.type, of |-> n, size |-> m.payload.size,
                        view |-> m.view, later |-> Blank], m.packetSize)
  BY DEF Cut
<1>2. PICK type \in Types, size \in Nat, view \in Views("client"), later \in Views("client"),
           packetSize \in Int :
         /\ type = m.type /\ size = m.payload.size /\ view = m.view /\ later = Blank
         /\ packetSize = m.packetSize
  BY Constants
<1>3. b = BuildPackets([type |-> type, of |-> n, size |-> size,
                        view |-> view, later |-> later], packetSize)
  BY <1>1, <1>2
<1>4. /\ b \in Seq(PacketsOf(Types, Views("client"))) /\ Whole(b)
      /\ Assemble(b) = [type |-> type, of |-> n, size |-> size]
  BY <1>3, BuiltMessage
<1>5. \A i \in 1 .. Len(b) : b[i].type = type /\ b[i].view = IF i = 1 THEN view ELSE later
  BY <1>3, <1>4, BuiltViews
<1> QED
  BY <1>2, <1>4, <1>5 DEF PacketsFrom

(* The packets of an answer: the first one shows its tokens.                *)
LEMMA AnswerIs ==
  ASSUME NEW n \in Nat, NEW size \in Nat, NEW tokens \in Seq(Tokens), NEW b,
         b = BuildPackets([type |-> "reply", of |-> n, size |-> size,
                           view |-> Response(tokens), later |-> Response(<<"result">>)],
                          DefaultPacketSize)
  PROVE  /\ b \in Seq(PacketsFrom("backend")) /\ Whole(b)
         /\ Assemble(b) = [type |-> "reply", of |-> n, size |-> size]
         /\ \A i \in 1 .. Len(b) :
               b[i].view = IF i = 1 THEN Response(tokens) ELSE Response(<<"result">>)
<1>1. <<"result">> \in Seq(Tokens)
  BY DEF Tokens
<1>2. PICK type \in Types, view \in Views("backend"), later \in Views("backend"),
           packetSize \in Int :
         /\ type = "reply" /\ view = Response(tokens) /\ later = Response(<<"result">>)
         /\ packetSize = DefaultPacketSize
  BY <1>1, Constants
<1>3. b = BuildPackets([type |-> type, of |-> n, size |-> size,
                        view |-> view, later |-> later], packetSize)
  BY <1>2
<1>4. /\ b \in Seq(PacketsOf(Types, Views("backend"))) /\ Whole(b)
      /\ Assemble(b) = [type |-> type, of |-> n, size |-> size]
  BY <1>3, BuiltMessage
<1>5. \A i \in 1 .. Len(b) : b[i].view = IF i = 1 THEN view ELSE later
  BY <1>3, <1>4, BuiltViews
<1> QED
  BY <1>2, <1>4, <1>5 DEF PacketsFrom

(* The client cuts its next message when the last one is answered. *)
LEMMA AsksStep ==
  ASSUME Inv, NEW m \in ClientSends, ClientAsks(m)
  PROVE  Sequences' /\ Places' /\ Effect /\ Asking
<1>0. /\ Scalars /\ Sequences /\ Places /\ Books
      /\ Len(asked) \in Nat
  BY DEF Inv, Scalars
<1>1. /\ m.payload.size \in Nat /\ m.packetSize \in Int
      /\ m.type \in Types /\ m.view \in Views("client") /\ Blank \in Views("client")
      /\ MaxMessages \in Nat /\ MaxLogins \in Nat /\ MaxLogins <= MaxMessages
  BY Constants
<1>2. Answers = Len(asked) /\ rest["client"] = <<>>
  BY DEF ClientAsks, Answered, Answers
<1>3. Len(asked) < MaxMessages
  BY <1>0, <1>1 DEF ClientAsks
<1>4. PICK n \in 1 .. MaxMessages : n = Len(asked) + 1
  BY <1>0, <1>1, <1>3
<1> DEFINE b == Cut(m, n)
<1>5. /\ b \in Seq(PacketsFrom("client")) /\ Whole(b)
      /\ Assemble(b) = [type |-> m.type, of |-> n, size |-> m.payload.size]
  <2> HIDE DEF b
  <2>1. n \in Nat /\ b = Cut(m, n)
    BY <1>1 DEF b
  <2> QED
    BY <2>1, CutIs
<1>6. Assemble(b) \in AnyMessage
  <2>1. m.payload.size \in {x.payload.size : x \in PreLogins \union Login7s}
                              \union {x.payload.size : x \in Statements}
    BY DEF ClientSends
  <2> HIDE DEF b
  <2> QED
    BY <1>1, <1>4, <1>5, <2>1 DEF AnyMessage, Types
<1>7. /\ rest' = [rest EXCEPT !["client"] = b] /\ asked' = Append(asked, m)
      /\ UNCHANGED <<executed, told, wire, out, held, call, left, copier, pc>>
  BY <1>4 DEF ClientAsks, callVars
<1> HIDE DEF b
<1>8. "client" \in Peers
  BY DEF Peers
<1>9. Sequences' /\ Starts("client")
  BY <1>0, <1>2, <1>5, <1>6, <1>7, <1>8, StartStep
<1>10. Len(asked') = Len(asked) + 1
  BY <1>0, <1>7 DEF Scalars
<1>11. Asking
  BY <1>2, <1>3, <1>7, <1>9, <1>10 DEF Asking
<1>12. Places'
  BY <1>0, <1>7, PlacesKept
<1> QED
  BY <1>9, <1>11, <1>12 DEF Effect

(* The backend answers the next message it has all of. *)
LEMMA ExecutesStep ==
  ASSUME Inv, BackendExecutes
  PROVE  Sequences' /\ Places' /\ Effect /\ Executing
<1>0. /\ Scalars /\ Sequences /\ Places /\ Books
      /\ Len(asked) \in Nat /\ executed \in Nat
      /\ Requests \in Nat /\ Refused \in Nat
  BY OutTypes DEF Inv, Scalars, Refused
<1>1. PICK size \in ReplySizes, o \in Outcomes(asked[Messages(out["backend"])[executed + 1].of].effect) :
         rest' = [rest EXCEPT !["backend"] =
            BuildPackets([type |-> "reply", of |-> executed + 1, size |-> size,
                          view |-> Response(o.tokens), later |-> Response(<<"result">>)],
                         DefaultPacketSize)]
  BY DEF BackendExecutes
<1>2. rest["backend"] = <<>> /\ executed < Requests /\ executed' = executed + 1
  BY DEF BackendExecutes, Requests
<1>3. PICK n \in 1 .. MaxMessages : n = executed + 1
  <2>1. Requests <= Len(asked) /\ Len(asked) <= MaxMessages
    BY <1>0 DEF Books
  <2> QED
    BY <1>0, <1>2, <2>1, Constants
<1>4. size \in Nat
  BY Constants
<1>5. o.tokens \in Seq(Tokens) /\ n \in Nat
  BY <1>0, <1>3, Constants, OutcomesTypes
<1> DEFINE b == BuildPackets([type |-> "reply", of |-> n, size |-> size,
                              view |-> Response(o.tokens), later |-> Response(<<"result">>)],
                             DefaultPacketSize)
<1>6. /\ b \in Seq(PacketsFrom("backend")) /\ Whole(b)
      /\ Assemble(b) = [type |-> "reply", of |-> n, size |-> size]
  <2>1. PICK tokens \in Seq(Tokens), number \in Nat, s \in Nat :
           tokens = o.tokens /\ number = n /\ s = size
    BY <1>4, <1>5
  <2>2. b = BuildPackets([type |-> "reply", of |-> number, size |-> s,
                          view |-> Response(tokens), later |-> Response(<<"result">>)],
                         DefaultPacketSize)
    BY <2>1 DEF b
  <2> HIDE DEF b
  <2>3. /\ b \in Seq(PacketsFrom("backend")) /\ Whole(b)
        /\ Assemble(b) = [type |-> "reply", of |-> number, size |-> s]
    BY <2>2, AnswerIs
  <2> QED
    BY <2>1, <2>3
<1>7. /\ rest' = [rest EXCEPT !["backend"] = b]
      /\ UNCHANGED <<asked, told, wire, out, held, call, left, copier, pc>>
  BY <1>1, <1>3 DEF BackendExecutes, callVars
<1> HIDE DEF b
<1>8. Assemble(b) \in AnyMessage
  BY <1>3, <1>6 DEF AnyMessage
<1>9. "backend" \in Peers
  BY DEF Peers
<1>10. Sequences' /\ Starts("backend")
  BY <1>0, <1>2, <1>6, <1>7, <1>8, <1>9, StartStep
<1>11. Executing
  BY <1>2, <1>7, <1>10 DEF Executing
<1>12. Places'
  BY <1>0, <1>7, PlacesKept
<1> QED
  BY <1>10, <1>11, <1>12 DEF Effect

(* Every action of the peers and of the deadline. *)
LEMMA EnvironmentStep ==
  ASSUME Inv, Environment
  PROVE  Sequences' /\ Places' /\ Effect
<1>0. Sequences /\ Places
  BY DEF Inv
<1>1. ASSUME NEW p \in Peers, Transmit(p) PROVE Sequences' /\ Places' /\ Effect
  <2>1. /\ rest[p] # <<>>
        /\ wire' = [wire EXCEPT ![p] = Append(@, Head(rest[p]))]
        /\ rest' = [rest EXCEPT ![p] = Tail(@)]
        /\ UNCHANGED <<asked, executed, told, out, held, call, left, copier, pc>>
    BY <1>1 DEF Transmit, callVars
  <2>2. Sequences' /\ Sending(p)
    BY <1>0, <2>1, SendStep
  <2>3. Places'
    BY <1>0, <2>1, PlacesKept
  <2> QED
    BY <2>2, <2>3 DEF Effect
<1>2. ASSUME Deadline \/ \E p \in Peers : HangUp(p) PROVE Sequences' /\ Places' /\ Effect
  <2>1. UNCHANGED <<asked, executed, told, rest, wire, out, held, call, left, copier, pc>>
    BY <1>2 DEF Deadline, HangUp, callVars, peerVars
  <2> QED
    BY <1>0, <2>1, StillStep, PlacesKept DEF Effect
<1> QED
  BY <1>1, <1>2, AsksStep, ExecutesStep DEF Environment, ClientSends

-----------------------------------------------------------------------------
(* The actions of the message functions. *)

(* A function begins when nothing is in the proxy. *)
LEMMA BeginStep ==
  ASSUME Inv, NEW c \in Calls, Begin(c)
  PROVE  Sequences' /\ Places' /\ Effect
<1>1. /\ Sequences /\ Places /\ pc = "idle"
      /\ pc' = "reading" /\ call' = c
      /\ UNCHANGED <<asked, executed, told, rest, wire, out, held, left, copier>>
  BY DEF Begin, Inv, peerVars
<1>2. Off /\ Resting /\ told = {}
  BY <1>1 DEF Places
<1>3. Sequences' /\ Quietly
  BY <1>1, <1>2, CallStep
<1>4. c.from \in Peers /\ c.fn # "Relay"
  BY DEF Calls, Peers, Checking
<1>5. Other(c.from) \in Peers
  BY <1>4, OtherPeer
<1>6. NoEom(<<>>)
  BY DEF NoEom
<1>7. Reading'
  BY <1>1, <1>2, <1>4, <1>5, <1>6 DEF Reading, Resting
<1>8. Off'
  BY <1>1, <1>2 DEF Off
<1>9. Places'
  BY <1>1, <1>2, <1>7, <1>8 DEF Places
<1> QED
  BY <1>3, <1>9 DEF Effect

(* A function that reads or writes: the copiers have not started. *)
LEMMA InFunction ==
  ASSUME Inv, pc \in {"reading", "writing"}
  PROVE  /\ Sequences /\ Off /\ told = {}
         /\ pc = "reading" => Reading
         /\ pc = "writing" => Writing
         /\ call.from \in Peers /\ Other(call.from) \in Peers
         /\ Other(call.from) # call.from /\ Other(Other(call.from)) = call.from
         /\ OneMessage(call.from) /\ call \in AllCalls
<1>1. call.from \in Peers /\ call \in AllCalls
  BY DEF Inv, Scalars, AllCalls
<1>2. Sequences /\ Places /\ OneMessage(call.from)
  BY <1>1 DEF Inv
<1>3. Off /\ told = {} /\ (pc = "reading" => Reading) /\ (pc = "writing" => Writing)
  BY <1>2 DEF Places
<1> QED
  BY <1>1, <1>2, <1>3, OtherPeer

(* One more packet that goes on, or the one that ends the message. *)
LEMMA NextPacket ==
  ASSUME NEW S, NEW t \in Seq(S), NEW x \in S, NoEom(t)
  PROVE  /\ ~ x.eom => NoEom(Append(t, x))
         /\ x.eom => Whole(Append(t, x))
<1>1. PICK n \in Nat : n = Len(t)
  BY LenProperties
<1>2. /\ Append(t, x) \in Seq(S) /\ Len(Append(t, x)) = n + 1
      /\ \A i \in 1 .. n + 1 : Append(t, x)[i] = IF i = n + 1 THEN x ELSE t[i]
  BY <1>1, AppendProperties
<1>3. PICK u \in Seq(S) : u = Append(t, x)
  BY <1>2
<1>4. Len(u) = n + 1 /\ \A i \in 1 .. n + 1 : u[i] = IF i = n + 1 THEN x ELSE t[i]
  BY <1>2, <1>3
<1>5. \A i \in 1 .. n : ~ t[i].eom
  BY <1>1 DEF NoEom
<1>6. ~ x.eom => NoEom(u)
  BY <1>4, <1>5 DEF NoEom
<1>7. x.eom => Whole(u)
  <2>1. u # <<>>
    BY <1>4
  <2>2. ASSUME x.eom, NEW i \in 1 .. n + 1 PROVE u[i].eom <=> i = n + 1
    BY <1>4, <1>5, <2>2
  <2> QED
    BY <1>4, <2>1, <2>2 DEF Whole
<1> QED
  BY <1>3, <1>6, <1>7

(* ReadMessage holds one more packet of a message that goes on. *)
LEMMA ReadPartStep ==
  ASSUME Inv, ReadPart
  PROVE  Sequences' /\ Places' /\ Effect
<1> DEFINE p == call.from
           x == Head(wire[p])
<1>1. /\ pc = "reading" /\ call.fn # "RelayUntilEOM" /\ wire[p] # <<>> /\ ~ x.eom
      /\ wire' = [wire EXCEPT ![p] = Tail(@)]
      /\ held' = [held EXCEPT ![p] = Append(held[p], x)]
      /\ UNCHANGED <<asked, executed, told, rest, out, call, left, copier, pc>>
  BY DEF ReadPart, Readable, Received, peerVars, callVars
<1>2. /\ Sequences /\ Off /\ told = {} /\ Reading /\ p \in Peers /\ Other(p) # p
      /\ Other(p) \in Peers
  BY <1>1, InFunction
<1>3. PICK S : /\ S = PacketsFrom(p) /\ wire[p] \in Seq(S) /\ held[p] \in Seq(S)
               /\ left \in Seq(S)
  BY <1>2 DEF Sequences
<1>4. PICK y \in S : y = x
  BY <1>1, <1>3, HeadTailProperties
<1>5. left' \in Seq(PacketsFrom(call.from))
  BY <1>1, <1>3
<1>6. Sequences' /\ Quietly
  BY <1>1, <1>2, <1>5, MoveStep
<1>7. NoEom(Append(held[p], x))
  BY <1>1, <1>2, <1>3, <1>4, NextPacket DEF Reading
<1>8. held'[p] = Append(held[p], x) /\ held'[Other(p)] = held[Other(p)]
  BY <1>1, <1>2 DEF Sequences
<1>9. Reading'
  BY <1>1, <1>2, <1>7, <1>8 DEF Reading
<1>10. Off'
  BY <1>1, <1>2 DEF Off
<1>11. Places'
  BY <1>1, <1>2, <1>9, <1>10 DEF Places
<1> QED
  BY <1>6, <1>11 DEF Effect

(* What ReadMessage puts together has the types of what it read. *)
LEMMA AssembleTypes ==
  ASSUME NEW T, NEW V, NEW t \in Seq(PacketsOf(T, V)), t # <<>>
  PROVE  /\ Assemble(t).type \in T /\ Assemble(t).of \in Nat /\ Assemble(t).size \in Nat
         /\ Assemble(t) = Carried(Assemble(t))
<1>1. PICK n \in Nat \ {0} : n = Len(t)
  BY EmptySeq
<1>2. 1 \in 1 .. Len(t) /\ n \in 1 .. Len(t)
  BY <1>1
<1>3. t[1] \in PacketsOf(T, V) /\ t[n] \in PacketsOf(T, V)
  BY <1>2, ElementOfSeq
<1>4. PICK x \in PacketsOf(T, V), y \in PacketsOf(T, V) : x = t[1] /\ y = t[n]
  BY <1>3
<1>5. Last(t) = y
  BY <1>1, <1>4 DEF Last
<1>6. /\ x.type \in T /\ x.of \in Nat /\ y.from \in Nat /\ y.size \in Nat
  BY DEF PacketsOf
<1>7. /\ Assemble(t).type = x.type /\ Assemble(t).size = y.from + y.size
      /\ Assemble(t).of = IF Contiguous(t) THEN x.of ELSE 0
  BY <1>4, <1>5 DEF Assemble
<1>8. Assemble(t) = Carried(Assemble(t))
  <2>1. PICK a, b, c : Assemble(t) = [type |-> a, of |-> b, size |-> c]
    BY DEF Assemble
  <2> QED
    BY <2>1 DEF Carried
<1> QED
  BY <1>6, <1>7, <1>8

(* The packets a function is about to write are those of the message it    *)
(* has read.                                                               *)
LEMMA OutgoingFacts ==
  ASSUME NEW V, Blank \in V, NEW t \in Seq(PacketsOf(Types, V)), Whole(t)
  PROVE  /\ Outgoing(t) \in Seq(PacketsOf(Types, V)) /\ Whole(Outgoing(t))
         /\ Assemble(Outgoing(t)) = Assemble(t)
<1>1. CASE call = [fn |-> "ForwardPreLogin", from |-> "client"]
  <2>1. PICK m : m = Assemble(t)
    OBVIOUS
  <2>2. m.type \in Types /\ m.of \in Nat /\ m.size \in Nat /\ m = Carried(m)
    <3>1. t # <<>>
      BY DEF Whole
    <3> QED
      BY <2>1, <3>1, AssembleTypes
  <2>3. Outgoing(t) = BuildPackets([type |-> m.type, of |-> m.of, size |-> m.size,
                                    view |-> Blank, later |-> Blank], DefaultPacketSize)
    BY <1>1, <2>1 DEF Outgoing
  <2>4. PICK type \in Types, of \in Nat, size \in Nat, v \in V :
           type = m.type /\ of = m.of /\ size = m.size /\ v = Blank
    BY <2>2
  <2>5. Outgoing(t) = BuildPackets([type |-> type, of |-> of, size |-> size,
                                    view |-> v, later |-> v], DefaultPacketSize)
    BY <2>3, <2>4
  <2>6. DefaultPacketSize \in Int
    BY Constants
  <2>7. /\ Outgoing(t) \in Seq(PacketsOf(Types, V)) /\ Whole(Outgoing(t))
        /\ Assemble(Outgoing(t)) = [type |-> type, of |-> of, size |-> size]
    BY <2>5, <2>6, BuiltMessage
  <2>8. m = [type |-> type, of |-> of, size |-> size]
    BY <2>2, <2>4 DEF Carried
  <2> QED
    BY <2>1, <2>7, <2>8
<1>2. CASE call # [fn |-> "ForwardPreLogin", from |-> "client"]
  BY <1>2 DEF Outgoing
<1> QED
  BY <1>1, <1>2

(* It has the whole message, and the packets to write if it is approved. *)
LEMMA ReadLastStep ==
  ASSUME Inv, ReadLast
  PROVE  Sequences' /\ Places' /\ Effect
<1> DEFINE p == call.from
           x == Head(wire[p])
           packets == Append(held[p], x)
<1>1. /\ pc = "reading" /\ call.fn # "RelayUntilEOM" /\ wire[p] # <<>> /\ x.eom
      /\ wire' = [wire EXCEPT ![p] = Tail(@)]
      /\ held' = [held EXCEPT ![p] = packets]
      /\ \/ pc' = "writing" /\ left' = Outgoing(packets)
         \/ pc' = "ending" /\ left' = left
      /\ UNCHANGED <<asked, executed, told, rest, out, call, copier>>
  BY DEF ReadLast, Readable, Received, peerVars
<1>2. /\ Sequences /\ Off /\ told = {} /\ Reading /\ p \in Peers /\ Other(p) # p
      /\ Other(p) \in Peers
  BY <1>1, InFunction
<1>3. PICK S : /\ S = PacketsFrom(p) /\ wire[p] \in Seq(S) /\ held[p] \in Seq(S)
               /\ left \in Seq(S) /\ out[Other(p)] \in Seq(S)
  BY <1>2 DEF Sequences
<1>4. PICK y \in S : y = x
  BY <1>1, <1>3, HeadTailProperties
<1>5. packets \in Seq(S) /\ Whole(packets)
  BY <1>1, <1>2, <1>3, <1>4, NextPacket, AppendProperties DEF Reading
<1> HIDE DEF packets
<1>6. /\ Outgoing(packets) \in Seq(S) /\ Whole(Outgoing(packets))
      /\ Assemble(Outgoing(packets)) = Assemble(packets)
  <2>1. Blank \in Views(p)
    BY <1>2, Constants DEF Peers
  <2> QED
    BY <1>3, <1>5, <2>1, OutgoingFacts DEF PacketsFrom
<1>7. left' \in Seq(PacketsFrom(call.from))
  BY <1>1, <1>3, <1>6
<1>8. Sequences' /\ Quietly
  BY <1>1, <1>2, <1>7, MoveStep DEF packets
<1>9. held'[p] = packets /\ held'[Other(p)] = held[Other(p)]
  BY <1>1, <1>2 DEF Sequences
<1>10. Off'
  BY <1>1, <1>2 DEF Off
<1>11. CASE pc' = "writing" /\ left' = Outgoing(packets)
  <2>1. Unfinished(out[Other(p)]) \o left' = left'
    BY <1>1, <1>2, <1>6, <1>11, EmptyRow DEF Reading
  <2>2. left' # <<>>
    BY <1>6, <1>11 DEF Whole
  <2>3. Writing'
    BY <1>1, <1>2, <1>5, <1>6, <1>9, <1>11, <2>1, <2>2 DEF Reading, Writing
  <2> QED
    BY <1>1, <1>2, <1>8, <1>10, <1>11, <2>3 DEF Places, Effect
<1>12. CASE pc' = "ending"
  BY <1>1, <1>2, <1>8, <1>10, <1>12 DEF Places, Effect
<1> QED
  BY <1>1, <1>11, <1>12

(* DrainResponse throws away a whole answer. *)
LEMMA DrainStep ==
  ASSUME Inv, Drain
  PROVE  Sequences' /\ Places' /\ Effect
<1>0. PICK p \in Peers : p = "backend"
  BY DEF Peers
<1>1. /\ pc = "reading" /\ call.fn = "DrainResponse" /\ wire[p] # <<>> /\ Head(wire[p]).eom
      /\ wire' = [wire EXCEPT ![p] = Tail(@)]
      /\ held' = [held EXCEPT ![p] = <<>>] /\ pc' = "idle"
      /\ UNCHANGED <<asked, executed, told, rest, out, call, left, copier>>
  BY <1>0 DEF Drain, DrainedAt, Readable, Received, peerVars
<1>2. /\ Sequences /\ Off /\ told = {} /\ Reading /\ call \in AllCalls /\ OneMessage(call.from)
      /\ call.from \in Peers /\ Other(call.from) \in Peers /\ Other(call.from) # call.from
  BY <1>1, InFunction
<1>3. call.from = p
  BY <1>0, <1>1, <1>2 DEF AllCalls
<1>4. Tail(wire[p]) = <<>> /\ rest[p] = <<>> /\ Flow(p) # <<>>
  BY <1>1, <1>2, <1>3, FirstEom
<1>5. /\ DOMAIN wire' = Peers /\ DOMAIN held' = Peers
      /\ wire'[p] = <<>> /\ held'[p] = <<>>
      /\ \A q \in Peers : q # p => wire'[q] = wire[q] /\ held'[q] = held[q]
  BY <1>1, <1>2, <1>3, <1>4 DEF Sequences
<1>6. Sequences'
  <2>1. \A q \in Peers : wire'[q] \in Seq(PacketsFrom(q)) /\ held'[q] \in Seq(PacketsFrom(q))
    BY <1>2, <1>5, EmptySeq DEF Sequences
  <2> QED
    BY <1>1, <1>2, <1>5, <2>1 DEF Sequences
<1>7. \A q \in Peers : Streamed(q) = <<>> /\ Streamed(q)' = <<>>
  BY <1>1, NotStreaming, NotStreamingNext
<1>8. Flow(p)' = <<>>
  BY <1>5, <1>7, EmptyRow DEF Flow
<1>9. Same(Other(p))
  BY <1>1, <1>2, <1>3, <1>5, <1>7, SMTT(20) DEF Same, Flow
<1>10. Dropping
  BY <1>0, <1>1, <1>2, <1>4, <1>8, <1>9 DEF Dropping, Taken, SameOut
<1>11. Off'
  BY <1>1, <1>2 DEF Off
<1>12. Resting'
  <2>1. /\ left = <<>> /\ held[Other(p)] = <<>>
        /\ Unfinished(out[p]) = <<>> /\ Unfinished(out[Other(p)]) = <<>>
    BY <1>1, <1>2, <1>3 DEF Reading
  <2>2. \A q \in Peers : q = p \/ q = Other(p)
    BY <1>2, <1>3, OtherPeer
  <2> QED
    BY <1>1, <1>2, <1>3, <1>5, <2>1, <2>2 DEF Resting
<1>13. Places'
  BY <1>1, <1>2, <1>11, <1>12 DEF Places
<1> QED
  BY <1>6, <1>10, <1>13 DEF Effect

(* RelayUntilEOM holds one packet. *)
LEMMA ReadOneStep ==
  ASSUME Inv, ReadOne
  PROVE  Sequences' /\ Places' /\ Effect
<1> DEFINE p == call.from
           x == Head(wire[p])
<1>1. /\ pc = "reading" /\ call.fn = "RelayUntilEOM" /\ wire[p] # <<>>
      /\ wire' = [wire EXCEPT ![p] = Tail(@)]
      /\ held' = [held EXCEPT ![p] = <<x>>] /\ left' = <<x>> /\ pc' = "writing"
      /\ UNCHANGED <<asked, executed, told, rest, out, call, copier>>
  BY DEF ReadOne, Readable, Received, peerVars
<1>2. /\ Sequences /\ Off /\ told = {} /\ Reading /\ p \in Peers /\ Other(p) # p
      /\ Other(p) \in Peers
  BY <1>1, InFunction
<1>3. PICK S : S = PacketsFrom(p) /\ wire[p] \in Seq(S)
  BY <1>2 DEF Sequences
<1>4. PICK y \in S : y = x
  BY <1>1, <1>3, HeadTailProperties
<1>5. left' \in Seq(PacketsFrom(call.from)) /\ Len(left') = 1 /\ left' # <<>>
  BY <1>1, <1>3, <1>4, Single
<1>6. held[p] = <<>> /\ Append(held[p], x) = <<x>>
  <2>1. held[p] = <<>>
    BY <1>1, <1>2 DEF Reading
  <2> HIDE DEF p, x
  <2>2. Append(<<>>, x) = <<x>>
    OBVIOUS
  <2> QED
    BY <2>1, <2>2
<1>7. held' = [held EXCEPT ![p] = Append(held[p], x)]
  BY <1>1, <1>6
<1>8. Sequences' /\ Quietly
  BY <1>1, <1>2, <1>5, <1>7, MoveStep
<1>9. held'[p] = <<x>> /\ held'[Other(p)] = held[Other(p)]
  BY <1>1, <1>2 DEF Sequences
<1>10. Writing'
  BY <1>1, <1>2, <1>5, <1>9 DEF Reading, Writing
<1>11. Off'
  BY <1>1, <1>2 DEF Off
<1> QED
  BY <1>1, <1>2, <1>8, <1>10, <1>11 DEF Places, Effect

(* An error leaves every packet where it is. *)
LEMMA FunctionErrorStep ==
  ASSUME Inv, ReadError \/ WriteError
  PROVE  Sequences' /\ Places' /\ Effect
<1>1. /\ pc \in {"reading", "writing"} /\ pc' = "ending"
      /\ UNCHANGED <<asked, executed, told, rest, wire, out, held, call, left, copier>>
  BY DEF ReadError, WriteError, peerVars
<1>2. Sequences /\ Off /\ told = {}
  BY <1>1, InFunction
<1>3. Sequences' /\ Quietly
  BY <1>1, <1>2, StillStep
<1>4. Off'
  BY <1>1, <1>2 DEF Off
<1> QED
  BY <1>1, <1>2, <1>3, <1>4 DEF Places, Effect

(* A packet that is not the last is written; the message is still held. *)
LEMMA WritePartStep ==
  ASSUME Inv, WritePart
  PROVE  Sequences' /\ Places' /\ Effect
<1> DEFINE p == call.from
<1>1. /\ pc = "writing" /\ Len(left) > 1
      /\ out' = [out EXCEPT ![Other(p)] = Append(@, Head(left))] /\ left' = Tail(left)
      /\ UNCHANGED <<asked, executed, told, rest, wire, held, call, copier, pc>>
  BY DEF WritePart, Wrote, peerVars
<1>2. /\ Sequences /\ Off /\ told = {} /\ Writing /\ p \in Peers /\ Other(p) # p
      /\ Other(p) \in Peers
  BY <1>1, InFunction
<1>3. call.fn \notin {"Relay", "RelayUntilEOM"}
  <2>1. Len(left) # 1
    <3>1. left \in Seq(PacketsFrom(p))
      BY <1>2 DEF Sequences
    <3>2. PICK n \in Nat : n = Len(left) /\ n > 1
      BY <1>1, <3>1, LenProperties
    <3> QED
      BY <3>2, SMTT(20)
  <2> QED
    BY <1>2, <2>1 DEF Writing
<1>4. /\ Whole(held[p]) /\ Whole(left)
      /\ Assemble(Unfinished(out[Other(p)]) \o left) = Assemble(held[p])
      /\ held[Other(p)] = <<>> /\ Unfinished(out[p]) = <<>>
  BY <1>2, <1>3 DEF Writing
<1>5. /\ Sequences' /\ Quietly /\ Whole(left') /\ out'[p] = out[p]
      /\ Unfinished(out'[Other(p)]) \o left' = Unfinished(out[Other(p)]) \o left
  BY <1>1, <1>2, <1>3, <1>4, PartStep
<1>6. left' # <<>>
  BY <1>5 DEF Whole
<1>7. Writing'
  BY <1>1, <1>3, <1>4, <1>5, <1>6 DEF Writing
<1>8. Off'
  BY <1>1, <1>2 DEF Off
<1> QED
  BY <1>1, <1>2, <1>5, <1>7, <1>8 DEF Places, Effect

(* The last packet is written, and the message has been passed on. *)
LEMMA WriteLastStep ==
  ASSUME Inv, WriteLast
  PROVE  Sequences' /\ Places' /\ Effect
<1>0. PICK p : p = call.from
  OBVIOUS
<1>1. /\ pc = "writing" /\ Len(left) = 1
      /\ out' = [out EXCEPT ![Other(p)] = Append(@, Head(left))] /\ left' = <<>>
      /\ held' = [held EXCEPT ![p] = <<>>]
      /\ UNCHANGED <<asked, executed, told, rest, wire, copier>>
      /\ IF call.fn \in Exchanges /\ p = "client"
         THEN pc' = "reading" /\ call' = [call EXCEPT !.from = "backend"]
         ELSE /\ pc' = IF call.fn = "RelayUntilEOM" /\ ~ Head(left).eom THEN "reading" ELSE "idle"
              /\ call' = call
  BY <1>0 DEF WriteLast, Wrote, peerVars
<1>2. /\ Sequences /\ Off /\ told = {} /\ Writing /\ p \in Peers /\ Other(p) # p
      /\ Other(p) \in Peers /\ OneMessage(p) /\ call \in AllCalls /\ Other(Other(p)) = p
      /\ \A q \in Peers : q = p \/ q = Other(p)
  BY <1>0, <1>1, InFunction, OtherPeer
<1>3. PICK S : S = PacketsFrom(p) /\ left \in Seq(S)
  BY <1>0, <1>2 DEF Sequences
<1>4. PICK x \in S : x = Head(left) /\ left = <<x>>
  <2>1. left # <<>>
    BY <1>1, <1>3
  <2>2. Len(<<Head(left)>>) = 1 /\ <<Head(left)>>[1] = Head(left) /\ Head(left) = left[1]
    OBVIOUS
  <2>3. PICK x \in S : x = Head(left)
    BY <1>3, <2>1, HeadTailProperties
  <2>4. <<x>> \in Seq(S) /\ Len(<<x>>) = 1 /\ <<x>>[1] = x /\ left[1] = x
    BY <2>1, <2>3
  <2>5. left = <<x>>
    BY <1>1, <1>3, <2>4, SeqEqual
  <2> QED
    BY <2>3, <2>5
<1>5. out' = [out EXCEPT ![Other(p)] = Append(@, x)]
  BY <1>1, <1>4
<1>6. Off'
  BY <1>1, <1>2 DEF Off
<1>7. call.fn # "Relay" /\ held[Other(p)] = <<>> /\ Unfinished(out[p]) = <<>>
  BY <1>0, <1>2 DEF Writing
<1>8. CASE call.fn = "RelayUntilEOM"
  <2>1. /\ call' = call /\ pc' = IF ~ x.eom THEN "reading" ELSE "idle"
    BY <1>1, <1>4, <1>8 DEF Exchanges
  <2>2. held[p] = <<x>>
    BY <1>0, <1>2, <1>4, <1>8 DEF Writing
  <2>3. Streaming(p)
    <3>1. call = [fn |-> "RelayUntilEOM", from |-> p]
      BY <1>0, <1>2, <1>8 DEF AllCalls
    <3> QED
      BY <3>1 DEF Streaming
  <2>4. left' \in Seq(PacketsFrom(call.from))
    BY <1>1, EmptySeq
  <2>5. /\ Sequences'
        /\ x.eom => Passing(p) /\ Unfinished(out'[Other(p)]) = <<>>
        /\ ~ x.eom => Quietly
        /\ out'[p] = out[p] /\ held'[p] = <<>> /\ held'[Other(p)] = held[Other(p)]
    BY <1>1, <1>2, <1>5, <2>1, <2>2, <2>3, <2>4, StreamStep
  <2>6. CASE x.eom
    <3>1. Resting'
      BY <1>1, <1>2, <1>7, <2>5, <2>6 DEF Resting
    <3>2. Places'
      BY <1>1, <1>2, <1>6, <2>1, <2>6, <3>1 DEF Places
    <3> QED
      BY <1>2, <2>5, <2>6, <3>2 DEF Effect
  <2>7. CASE ~ x.eom
    <3>1. Reading'
      BY <1>0, <1>1, <1>7, <1>8, <2>1, <2>5 DEF Reading
    <3>2. Places'
      BY <1>1, <1>2, <1>6, <2>1, <2>7, <3>1 DEF Places
    <3> QED
      BY <2>5, <2>7, <3>2 DEF Effect
  <2> QED
    BY <2>6, <2>7
<1>9. CASE call.fn # "RelayUntilEOM"
  <2>1. /\ Whole(held[p]) /\ Whole(left)
        /\ Assemble(Unfinished(out[Other(p)]) \o left) = Assemble(held[p])
    BY <1>0, <1>2, <1>9 DEF Writing
  <2>2. x.eom
    <3>1. Len(<<x>>) = 1 /\ <<x>>[1] = x /\ 1 \in 1 .. 1
      OBVIOUS
    <3> QED
      BY <1>4, <2>1, <3>1 DEF Whole
  <2>3. call'.fn = call.fn
    BY <1>1, <1>2 DEF AllCalls
  <2>4. call.fn \notin {"Relay", "RelayUntilEOM"}
    BY <1>7, <1>9
  <2>5. /\ Sequences' /\ Passing(p) /\ Unfinished(out'[Other(p)]) = <<>>
        /\ out'[p] = out[p] /\ held'[p] = <<>> /\ held'[Other(p)] = held[Other(p)]
    BY <1>0, <1>1, <1>2, <1>4, <1>5, <2>1, <2>2, <2>3, <2>4, WholeStep
  <2>6. Resting'
    BY <1>1, <1>2, <1>7, <2>5 DEF Resting
  <2>7. CASE pc' = "idle"
    <3>1. Places'
      BY <1>1, <1>2, <1>6, <2>6, <2>7 DEF Places
    <3> QED
      BY <1>2, <2>5, <3>1 DEF Effect
  <2>8. CASE pc' = "reading"
    <3>1. call'.from \in Peers
      BY <1>0, <1>1, <1>2, <1>9, <2>8 DEF AllCalls, Peers
    <3>2. Other(call'.from) \in Peers
      BY <3>1, OtherPeer
    <3>3. NoEom(<<>>)
      BY DEF NoEom
    <3>4. Reading'
      BY <2>3, <2>4, <2>6, <3>1, <3>2, <3>3 DEF Reading, Resting
    <3>5. Places'
      BY <1>1, <1>2, <1>6, <2>8, <3>4 DEF Places
    <3> QED
      BY <1>2, <2>5, <3>5 DEF Effect
  <2> QED
    BY <1>1, <1>9, <2>7, <2>8
<1> QED
  BY <1>8, <1>9

(* The error response is one message of the proxy's own. *)
LEMMA RefusalFacts ==
  ASSUME NEW message \in Refusals
  PROVE  /\ BuildErrorResponse(message) \in Seq(PacketsFrom("backend"))
         /\ Whole(BuildErrorResponse(message))
         /\ Assemble(BuildErrorResponse(message)) \in AnyRefusal
<1>1. PICK text \in ErrorTexts, name \in BucketNames : message = Joined(text, name)
  BY DEF Refusals
<1>2. text \in Nat /\ name \in [runes : Nat, bytes : Nat, units : Nat]
  BY ConstantsAssumption DEF ErrorTexts
<1>3. message.units \in Nat
  BY <1>1, <1>2 DEF Joined
<1>4. PICK size \in Nat : size = TokenSize(ErrorFor(message)) + DoneSize
  <2>1. 2 * message.units \in Nat
    BY <1>3
  <2>2. ErrorFor(message).msgText = 2 * message.units /\ ErrorFor(message).serverName = 10
    BY DEF ErrorFor, ErrorToken, Proxy
  <2> QED
    BY <2>1, <2>2 DEF TokenSize, DoneSize
<1>5. PICK b : b = BuildErrorResponse(message)
  OBVIOUS
<1>6. PICK type \in Types, of \in Nat, v \in Views("backend"), packetSize \in Int :
         type = "reply" /\ of = Own /\ v = Blank /\ packetSize = DefaultPacketSize
  <2>1. Own \in Nat
    BY Constants DEF Own
  <2> QED
    BY <2>1, Constants
<1>7. b = BuildPackets([type |-> type, of |-> of, size |-> size, view |-> v, later |-> v],
                       packetSize)
  BY <1>4, <1>5, <1>6 DEF BuildErrorResponse
<1>8. /\ b \in Seq(PacketsOf(Types, Views("backend"))) /\ Whole(b)
      /\ Assemble(b) = [type |-> type, of |-> of, size |-> size]
  BY <1>7, BuiltMessage
<1>9. Assemble(b) \in AnyRefusal
  <2>1. size \in {TokenSize(ErrorFor(m)) + DoneSize : m \in Refusals}
    BY <1>4
  <2> QED
    BY <1>6, <1>8, <2>1 DEF AnyRefusal
<1> QED
  BY <1>5, <1>8, <1>9 DEF PacketsFrom

(* The client's message is given up and the error response written in its  *)
(* place.                                                                  *)
LEMMA RefuseStep ==
  ASSUME Inv, NEW message \in Refusals, RefuseSession(message)
  PROVE  Sequences' /\ Places' /\ Effect
<1>0. PICK p \in Peers : p = "client"
  BY DEF Peers
<1>1. /\ pc = "writing" /\ call = [fn |-> "Handle", from |-> p]
      /\ out' = [out EXCEPT ![p] = @ \o BuildErrorResponse(message)]
      /\ held' = [held EXCEPT ![p] = <<>>] /\ left' = <<>>
      /\ pc' = "ending" /\ told' = {message}
      /\ UNCHANGED <<asked, executed, rest, wire, call, copier>>
  BY <1>0 DEF RefuseSession, peerVars
<1>2. /\ Sequences /\ Off /\ told = {} /\ Writing /\ call.from = p /\ call.fn = "Handle"
      /\ Other(p) \in Peers /\ Other(p) # p /\ OneMessage(p) /\ Other(Other(p)) = p
      /\ \A q \in Peers : q = p \/ q = Other(p)
  BY <1>0, <1>1, InFunction, OtherPeer
<1>3. Whole(held[p]) /\ Unfinished(out[p]) = <<>>
  BY <1>2 DEF Writing
<1>4. PICK b : b = BuildErrorResponse(message)
  OBVIOUS
<1>5. PICK S : S = PacketsFrom(Other(p)) /\ out[p] \in Seq(S) /\ b \in Seq(S)
  <2>1. Other(p) = "backend"
    BY <1>0 DEF Other
  <2>2. b \in Seq(PacketsFrom("backend"))
    BY <1>4, RefusalFacts
  <2> QED
    BY <1>2, <2>1, <2>2 DEF Sequences
<1>6. Whole(b) /\ Assemble(b) \in AnyRefusal
  BY <1>4, RefusalFacts
<1>7. /\ Unfinished(out[p] \o b) = <<>>
      /\ Messages(out[p] \o b) = Append(Messages(out[p]), Assemble(b))
  <2>1. PICK s \in Seq(S) : s = out[p]
    BY <1>5
  <2>2. /\ Unfinished(s \o b) = <<>>
        /\ Messages(s \o b) = Append(Messages(s), Assemble(Unfinished(s) \o b))
    BY <1>5, <1>6, Closing
  <2>3. Unfinished(s) \o b = b
    BY <1>3, <1>5, <2>1, EmptyRow
  <2> QED
    BY <2>1, <2>2, <2>3
<1>8. /\ DOMAIN out' = Peers /\ DOMAIN held' = Peers
      /\ out'[p] = out[p] \o b /\ out'[Other(p)] = out[Other(p)]
      /\ held'[p] = <<>> /\ held'[Other(p)] = held[Other(p)]
  BY <1>1, <1>2, <1>4 DEF Sequences
<1>9. Sequences'
  <2>1. out[p] \o b \in Seq(S)
    BY <1>5, ConcatProperties
  <2>2. /\ held'[p] \in Seq(PacketsFrom(p))
        /\ held'[Other(p)] \in Seq(PacketsFrom(Other(p)))
        /\ out'[Other(p)] \in Seq(PacketsFrom(p))
        /\ out'[Other(Other(p))] \in Seq(PacketsFrom(Other(p)))
    BY <1>2, <1>5, <1>8, <2>1, EmptySeq DEF Sequences
  <2>3. \A q \in Peers : /\ held'[q] \in Seq(PacketsFrom(q))
                         /\ out'[Other(q)] \in Seq(PacketsFrom(q))
    BY <1>2, <2>2
  <2>4. left' \in Seq(PacketsFrom(call'.from))
    BY <1>1, EmptySeq
  <2> QED
    BY <1>1, <1>2, <1>8, <2>3, <2>4 DEF Sequences
<1>10. \A q \in Peers : Streamed(q) = <<>> /\ Streamed(q)' = <<>>
  BY <1>1, <1>2, NotStreaming, NotStreamingNext
<1>11. wire[p] = <<>> /\ rest[p] = <<>> /\ Flow(p) # <<>>
  BY <1>2, <1>3, HeldWhole
<1>12. Flow(p)' = <<>>
  BY <1>1, <1>8, <1>10, <1>11, EmptyRow DEF Flow
<1>13. Same(Other(p))
  BY <1>1, <1>2, <1>8, <1>10 DEF Same, Flow
<1>14. Refusing
  <2>1. Taken(p)
    BY <1>1, <1>2, <1>11, <1>12, <1>13 DEF Taken
  <2>2. Messages(out'[p]) = Append(Messages(out[p]), Assemble(b))
    BY <1>7, <1>8
  <2>3. Other(p) = "backend"
    BY <1>0 DEF Other
  <2> QED
    BY <1>0, <1>1, <1>6, <1>8, <2>1, <2>2, <2>3 DEF Refusing
<1>15. Off'
  BY <1>1, <1>2 DEF Off
<1>16. Places'
  BY <1>1, <1>2, <1>15 DEF Places
<1> QED
  BY <1>9, <1>14, <1>16 DEF Effect

(* Every action of the message functions. *)
LEMMA FunctionStep ==
  ASSUME Inv, MessageFunctions
  PROVE  Sequences' /\ Places' /\ Effect
BY RefuseStep, BeginStep, ReadPartStep, ReadLastStep, DrainStep, ReadOneStep, FunctionErrorStep,
     WritePartStep, WriteLastStep DEF MessageFunctions

-----------------------------------------------------------------------------
(* The actions of Relay. *)

(* Where a copier runs, the session is in Relay or past it. *)
LEMMA InRelay ==
  ASSUME Inv, NEW p \in Peers, copier[p] # "off"
  PROVE  /\ Sequences /\ call = Relaying /\ pc \in {"relaying", "ending", "closed"}
         /\ told = {} /\ \A q \in Peers : Copying(q)
         /\ OneMessage(p) /\ Streaming(p) /\ Other(p) \in Peers /\ Other(p) # p
         /\ copier \in [Peers -> {"off", "reading", "writing", "written", "ended"}]
<1>1. ~ Off
  BY DEF Off
<1>2. Sequences /\ Places /\ OneMessage(p) /\ Scalars
  BY DEF Inv
<1>3. call = Relaying /\ Streaming(p)
  BY <1>1, <1>2 DEF Places, Streaming, Relaying
<1> QED
  BY <1>1, <1>2, <1>3, OtherPeer DEF Places, Scalars

(* Relay starts when nothing is in the proxy. *)
LEMMA StartRelayStep ==
  ASSUME Inv, StartRelay
  PROVE  Sequences' /\ Places' /\ Effect
<1>1. /\ Sequences /\ Places /\ pc = "idle"
      /\ pc' = "relaying" /\ call' = Relaying /\ copier' = [p \in Peers |-> "reading"]
      /\ UNCHANGED <<asked, executed, told, rest, wire, out, held, left>>
  BY DEF StartRelay, Inv, peerVars
<1>2. Resting /\ told = {}
  BY <1>1 DEF Places
<1>3. Sequences' /\ Quietly
  BY <1>1, <1>2, CallStep
<1>4. \A p \in Peers : Copying(p)'
  BY <1>1, <1>2 DEF Copying, Resting
<1>5. Places'
  BY <1>1, <1>2, <1>4 DEF Places
<1> QED
  BY <1>3, <1>5 DEF Effect

(* Relay returns, or the connections are closed. *)
LEMMA EndStep ==
  ASSUME Inv, RelayReturns \/ Cleanup
  PROVE  Sequences' /\ Places' /\ Effect
<1>1. /\ Sequences /\ Places
      /\ \/ pc = "relaying" /\ pc' = "ending"
         \/ pc = "ending" /\ pc' = "closed"
      /\ UNCHANGED <<asked, executed, told, rest, wire, out, held, call, left, copier>>
  <2>1. Sequences /\ Places
    BY DEF Inv
  <2>2. CASE RelayReturns
    BY <2>1, <2>2 DEF RelayReturns, peerVars
  <2>3. CASE Cleanup
    BY <2>1, <2>3 DEF Cleanup, peerVars
  <2> QED
    BY <2>2, <2>3
<1>2. Sequences' /\ Quietly
  BY <1>1, StillStep
<1>3. \A p \in Peers : Copying(p)' <=> Copying(p)
  BY <1>1 DEF Copying
<1>4. Off' <=> Off
  BY <1>1 DEF Off
<1>5. Places'
  BY <1>1, <1>3, <1>4 DEF Places
<1> QED
  BY <1>2, <1>5 DEF Effect

(* A copier holds one packet. *)
LEMMA RelayReadStep ==
  ASSUME Inv, NEW p \in Peers, RelayRead(p)
  PROVE  Sequences' /\ Places' /\ Effect
<1> DEFINE x == Head(wire[p])
<1>1. /\ copier[p] = "reading" /\ wire[p] # <<>>
      /\ wire' = [wire EXCEPT ![p] = Tail(@)]
      /\ held' = [held EXCEPT ![p] = <<x>>]
      /\ copier' = [copier EXCEPT ![p] = "writing"]
      /\ UNCHANGED <<asked, executed, told, rest, out, call, left, pc>>
  BY DEF RelayRead, Readable, Received, peerVars, callVars
<1>2. /\ Sequences /\ call = Relaying /\ pc \in {"relaying", "ending", "closed"}
      /\ told = {} /\ \A q \in Peers : Copying(q)
      /\ copier \in [Peers -> {"off", "reading", "writing", "written", "ended"}]
  BY <1>1, InRelay
<1>3. held[p] = <<>>
  BY <1>1, <1>2 DEF Copying
<1>4. Append(held[p], x) = <<x>>
  <2> HIDE DEF x
  <2>1. Append(<<>>, x) = <<x>>
    OBVIOUS
  <2> QED
    BY <1>3, <2>1
<1>5. held' = [held EXCEPT ![p] = Append(held[p], x)]
  BY <1>1, <1>4
<1>6. left' \in Seq(PacketsFrom(call.from))
  BY <1>1, <1>2 DEF Sequences
<1>7. Sequences' /\ Quietly
  BY <1>1, <1>2, <1>5, <1>6, MoveStep
<1>8. ASSUME NEW q \in Peers PROVE Copying(q)'
  <2>1. CASE q = p
    <3>1. copier'[p] = "writing" /\ held'[p] = <<x>>
      BY <1>1, <1>2 DEF Sequences
    <3>2. Len(<<x>>) = 1
      OBVIOUS
    <3> QED
      BY <2>1, <3>1, <3>2 DEF Copying
  <2>2. CASE q # p
    <3>1. copier'[q] = copier[q] /\ held'[q] = held[q]
      BY <1>1, <1>2, <2>2 DEF Sequences
    <3> QED
      BY <1>2, <3>1 DEF Copying
  <2> QED
    BY <2>1, <2>2
<1>9. Places'
  BY <1>1, <1>2, <1>8 DEF Places
<1> QED
  BY <1>7, <1>9 DEF Effect

(* A copier writes the packet it holds. *)
LEMMA RelayWriteStep ==
  ASSUME Inv, NEW p \in Peers, RelayWrite(p)
  PROVE  Sequences' /\ Places' /\ Effect
<1>1. /\ copier[p] = "writing" /\ held[p] # <<>>
      /\ out' = [out EXCEPT ![Other(p)] = Append(@, Head(held[p]))]
      /\ held' = [held EXCEPT ![p] = <<>>]
      /\ copier' = [copier EXCEPT ![p] = "written"]
      /\ UNCHANGED <<asked, executed, told, rest, wire, call, left, pc>>
  BY DEF RelayWrite, Wrote, peerVars, callVars
<1>2. /\ Sequences /\ call = Relaying /\ pc \in {"relaying", "ending", "closed"}
      /\ told = {} /\ \A q \in Peers : Copying(q)
      /\ OneMessage(p) /\ Streaming(p)
      /\ copier \in [Peers -> {"off", "reading", "writing", "written", "ended"}]
  BY <1>1, InRelay
<1>3. PICK S : held[p] \in Seq(S)
  BY <1>2 DEF Sequences
<1>4. PICK x \in S : x = Head(held[p]) /\ held[p] = <<x>>
  <2>1. Len(held[p]) = 1
    BY <1>1, <1>2 DEF Copying
  <2>2. PICK x \in S : x = Head(held[p])
    BY <1>1, <1>3, HeadTailProperties
  <2>3. <<x>> \in Seq(S) /\ Len(<<x>>) = 1 /\ <<x>>[1] = x /\ held[p][1] = x
    BY <1>1, <2>2
  <2>4. held[p] = <<x>>
    BY <1>3, <2>1, <2>3, SeqEqual
  <2> QED
    BY <2>2, <2>4
<1>5. out' = [out EXCEPT ![Other(p)] = Append(@, x)]
  BY <1>1, <1>4
<1>6. left' \in Seq(PacketsFrom(call.from))
  BY <1>1, <1>2 DEF Sequences
<1>7. /\ Sequences'
      /\ x.eom => Passing(p)
      /\ ~ x.eom => Quietly
      /\ held'[p] = <<>> /\ held'[Other(p)] = held[Other(p)]
  BY <1>1, <1>2, <1>4, <1>5, <1>6, StreamStep
<1>8. ASSUME NEW q \in Peers PROVE Copying(q)'
  <2>1. CASE q = p
    <3>1. copier'[p] = "written"
      BY <1>1, <1>2
    <3> QED
      BY <1>7, <2>1, <3>1 DEF Copying
  <2>2. CASE q # p
    <3>1. copier'[q] = copier[q] /\ held'[q] = held[q]
      BY <1>1, <1>2, <2>2 DEF Sequences
    <3> QED
      BY <1>2, <3>1 DEF Copying
  <2> QED
    BY <2>1, <2>2
<1>9. Places'
  BY <1>1, <1>2, <1>8 DEF Places
<1> QED
  BY <1>7, <1>9 DEF Effect

(* A copier goes on, or ends with what it holds. *)
LEMMA RelayTurnStep ==
  ASSUME Inv, NEW p \in Peers, RelayNext(p) \/ RelayError(p)
  PROVE  Sequences' /\ Places' /\ Effect
<1>1. /\ copier[p] # "off"
      /\ \/ copier[p] = "written" /\ copier' = [copier EXCEPT ![p] = "reading"]
         \/ copier' = [copier EXCEPT ![p] = "ended"]
      /\ UNCHANGED <<asked, executed, told, rest, wire, out, held, call, left, pc>>
  BY DEF RelayNext, RelayError, peerVars, callVars
<1>2. /\ Sequences /\ call = Relaying /\ pc \in {"relaying", "ending", "closed"}
      /\ told = {} /\ \A q \in Peers : Copying(q)
      /\ copier \in [Peers -> {"off", "reading", "writing", "written", "ended"}]
  BY <1>1, InRelay
<1>3. Sequences' /\ Quietly
  BY <1>1, <1>2, StillStep
<1>4. ASSUME NEW q \in Peers PROVE Copying(q)'
  <2>1. CASE q = p
    <3>1. \/ copier'[p] = "reading" /\ held[p] = <<>>
          \/ copier'[p] = "ended"
      BY <1>1, <1>2 DEF Copying
    <3> QED
      BY <1>1, <2>1, <3>1 DEF Copying
  <2>2. CASE q # p
    <3>1. copier'[q] = copier[q]
      BY <1>1, <1>2, <2>2
    <3> QED
      BY <1>1, <1>2, <3>1 DEF Copying
  <2> QED
    BY <2>1, <2>2
<1>5. Places'
  BY <1>1, <1>2, <1>4 DEF Places
<1> QED
  BY <1>3, <1>5 DEF Effect

-----------------------------------------------------------------------------
(* The invariant and what follows from it. *)

(* Nothing is under way when the session starts. *)
LEMMA InitInv == Init => Inv
<1> SUFFICES ASSUME Init PROVE Inv
  OBVIOUS
<1>1. /\ asked = <<>> /\ executed = 0 /\ txn = 0 /\ prepared = 0
      /\ opened = 0
      /\ \A p \in Peers : /\ rest[p] = <<>> /\ wire[p] = <<>> /\ out[p] = <<>>
                          /\ held[p] = <<>> /\ copier[p] = "off"
      /\ DOMAIN rest = Peers /\ DOMAIN wire = Peers
      /\ DOMAIN out = Peers /\ DOMAIN held = Peers
      /\ up = Peers /\ expired = FALSE /\ sockets = TRUE
      /\ pc = "idle" /\ call = Relaying /\ left = <<>>
      /\ copier \in [Peers -> {"off"}] /\ pinReason = "" /\ told = {}
  BY DEF Init
<1>2. Scalars
  <2>1. opened \in 0 .. executed /\ executed \in Nat /\ txn \in Nat /\ prepared \in Nat
    <3>1. opened = 0 /\ executed = 0 /\ txn = 0 /\ prepared = 0
      BY <1>1, Zenon
    <3> QED
      BY <3>1
  <2>2. asked \in Seq(ClientSends) /\ call \in AllCalls /\ pinReason \in PinReasons
    BY <1>1, CallTypes, EmptySeq DEF PinReasons
  <2> QED
    BY <1>1, <2>1, <2>2 DEF Scalars
<1>3. Sequences
  <2>1. ASSUME NEW p \in Peers
        PROVE  /\ rest[p] \in Seq(PacketsFrom(p)) /\ wire[p] \in Seq(PacketsFrom(p))
               /\ held[p] \in Seq(PacketsFrom(p))
               /\ out[Other(p)] \in Seq(PacketsFrom(p))
    <3>1. \A S : <<>> \in Seq(S)
      OBVIOUS
    <3>2. Other(p) \in Peers
      BY OtherPeer
    <3> QED
      BY <1>1, <3>1, <3>2
  <2>2. left \in Seq(PacketsFrom(call.from))
    BY <1>1, EmptySeq
  <2> QED
    BY <1>1, <2>1, <2>2 DEF Sequences
<1>4. Places
  BY <1>1, UnfinishedEmpty DEF Places, Off, Resting
<1>5. \A p \in Peers : OnTheWay(p) = <<>>
  <2>1. ASSUME NEW p \in Peers PROVE OnTheWay(p) = <<>>
    <3>1. Streamed(p) = <<>>
      BY <1>1, OtherPeer, UnfinishedEmpty DEF Streamed
    <3>2. ((<<>> \o <<>>) \o <<>>) \o <<>> = <<>>
      OBVIOUS
    <3> QED
      BY <1>1, <3>1, <3>2 DEF OnTheWay, Flow
  <2> QED
    BY <2>1
<1>6. \A p \in Peers : OneMessage(p)
  BY <1>5 DEF OneMessage
<1>7. Books
  <2>1. Answers = 0 /\ Requests = 0 /\ Refused = 0 /\ Len(asked) = 0
    <3>1. Len(Messages(<<>>)) = 0
      BY MessagesEmpty
    <3> QED
      BY <1>1, <3>1 DEF Answers, Requests, Refused, Peers
  <2>2. OnTheWay("client") = <<>> /\ OnTheWay("backend") = <<>>
    BY <1>5 DEF Peers
  <2>3. 0 <= MaxMessages
    BY Constants
  <2>4. told = {} /\ executed = 0
    BY <1>1
  <2> QED
    BY <2>1, <2>2, <2>3, <2>4 DEF Books
<1> QED
  BY <1>2, <1>3, <1>4, <1>6, <1>7 DEF Inv

(* Every action. *)
LEMMA NextStep ==
  ASSUME Inv, Next
  PROVE  Scalars' /\ Sequences' /\ Places' /\ Effect
<1>1. CASE Environment
  BY <1>1, EnvironmentScalars, EnvironmentStep
<1>2. CASE MessageFunctions
  BY <1>2, FunctionScalars, FunctionStep
<1>3. CASE StartRelay \/ RelayReturns \/ Cleanup
  BY <1>3, RelayScalars, StartRelayStep, EndStep
<1>4. ASSUME NEW p \in Peers, RelayStep(p)
      PROVE  Scalars' /\ Sequences' /\ Places' /\ Effect
  <2>1. Scalars'
    BY <1>4, RelayScalars
  <2> QED
    BY <1>4, <2>1, RelayReadStep, RelayWriteStep, RelayTurnStep DEF RelayStep
<1> QED
  BY <1>1, <1>2, <1>3, <1>4 DEF Next

(* Inv is inductive. *)
LEMMA InvStep == Inv /\ [Next]_vars => Inv' /\ (Next => Effect)
<1> SUFFICES ASSUME Inv, [Next]_vars PROVE Inv' /\ (Next => Effect)
  OBVIOUS
<1>1. CASE Next
  <2>1. Scalars' /\ Sequences' /\ Places' /\ Effect
    BY <1>1, NextStep
  <2>2. Books' /\ \A p \in Peers : OneMessage(p)'
    BY <2>1, BooksStep
  <2> QED
    BY <2>1, <2>2 DEF Inv
<1>2. CASE UNCHANGED vars
  <2>1. UNCHANGED <<asked, executed, told, rest, wire, out, held, call, left, copier, pc>>
    BY <1>2 DEF vars, peerVars, callVars
  <2>2. UNCHANGED <<txn, prepared, opened, up, expired, sockets, pinReason>>
    BY <1>2 DEF vars, peerVars
  <2>3. Scalars'
    BY <2>1, <2>2 DEF Inv, Scalars
  <2>4. Sequences' /\ Places' /\ Quietly
    BY <2>1, StillStep, PlacesKept DEF Inv
  <2>5. Books' /\ \A p \in Peers : OneMessage(p)'
    BY <2>4, BooksStep DEF Effect
  <2> QED
    BY <2>3, <2>4, <2>5 DEF Inv, Effect
<1> QED
  BY <1>1, <1>2

(* The messages of a session are accounted for wherever its packets are.   *)
THEOREM Invariant == Spec => []Inv
BY InitInv, InvStep, PTL DEF Spec

(* It gives the type invariant. *)
LEMMA InvTypes == Inv => TypeOK
<1> SUFFICES ASSUME Inv PROVE TypeOK
  OBVIOUS
<1>1. Scalars /\ Sequences /\ Places /\ Books
  BY DEF Inv
<1>2. executed \in 0 .. MaxMessages
  <2>1. Requests \in Nat /\ Refused \in Nat /\ Len(asked) \in Nat /\ executed \in Nat
    BY <1>1, OutTypes DEF Scalars, Refused
  <2>2. executed <= Requests /\ Requests + Refused <= Len(asked) /\ Len(asked) <= MaxMessages
    BY <1>1 DEF Books
  <2> QED
    BY <2>1, <2>2, Constants
<1>3. call.from \in Peers
  BY <1>1 DEF Scalars, AllCalls
<1>4. pc = "reading" => call.fn # "Relay"
  BY <1>1 DEF Places, Reading
<1>5. asked \in Seq(PreLogins \union Login7s \union Statements)
  BY <1>1 DEF Scalars, ClientSends
<1>6. told \subseteq Refusals
  BY <1>1 DEF Scalars
<1>7. pinReason \in {"", "transaction", "prepared", "temp_table", "bulk_load"}
  BY <1>1 DEF Scalars, PinReasons
<1>8. /\ txn \in Nat /\ prepared \in Nat /\ opened \in 0 .. executed
      /\ up \subseteq Peers /\ expired \in BOOLEAN /\ sockets \in BOOLEAN
  BY <1>1 DEF Scalars
<1>9. /\ pc \in {"idle", "reading", "writing", "relaying", "ending", "closed"}
      /\ copier \in [Peers -> {"off", "reading", "writing", "written", "ended"}]
  BY <1>1 DEF Scalars
<1> QED
  BY <1>2, <1>3, <1>4, <1>5, <1>6, <1>7, <1>8, <1>9 DEF TypeOK

(* Every variable keeps its type, whichever function the session is in.    *)
THEOREM TdsTypeCorrect == Spec => []TypeOK
BY Invariant, InvTypes, PTL

(* An ERROR token whose length fits its field of 16 bits. *)
Fitting(message) == 2 * message.units + 24 < 65536

(* Then the three length fields agree with what follows them. *)
LEMMA FittingReadable ==
  ASSUME NEW message \in Refusals, Fitting(message), message.bytes = message.units
  PROVE  Decodable(ErrorFor(message))
<1>1. PICK text \in ErrorTexts, name \in BucketNames : message = Joined(text, name)
  BY DEF Refusals
<1>2. text \in Nat /\ name \in [runes : Nat, bytes : Nat, units : Nat]
  BY ConstantsAssumption DEF ErrorTexts
<1>3. PICK u \in Nat : message.units = u /\ message.bytes = u
  BY <1>1, <1>2 DEF Joined
<1>4. u < 65536 /\ 2 * u + 24 < 65536
  BY <1>3 DEF Fitting
<1>5. /\ ErrorFor(message).msgTextLength = u % 65536
      /\ ErrorFor(message).msgText = 2 * u
      /\ ErrorFor(message).serverNameLength = 5 % 256
      /\ ErrorFor(message).serverName = 10
      /\ ErrorFor(message).length = (4 + 1 + 1 + 2 + 2 * u + 1 + 10 + 1 + 4) % 65536
  BY <1>3 DEF ErrorFor, ErrorToken, Proxy, MsgTextLength, Uint16, Uint8
<1>6. u % 65536 = u /\ 5 % 256 = 5
      /\ (4 + 1 + 1 + 2 + 2 * u + 1 + 10 + 1 + 4) % 65536 = 2 * u + 24
  BY <1>4
<1>7. TokenSize(ErrorFor(message)) = 3 + 4 + 1 + 1 + 2 + 2 * u + 1 + 10 + 1 + 4
  BY <1>5 DEF TokenSize
<1> QED
  BY <1>5, <1>6, <1>7 DEF Decodable

(* A client that is refused can decode the error if the ID of its bucket   *)
(* is plain ASCII and no longer than the length field of the token allows  *)
(* (the configuration bounds neither; error.go cuts the length to 16 bits).*)
THEOREM RefusalsAreReadable ==
  ASSUME \A message \in Refusals : Fitting(message)
  PROVE  Spec => []ErrorReadable
<1>1. Inv => ErrorReadable
  <2> SUFFICES ASSUME Inv PROVE ErrorReadable
    OBVIOUS
  <2>1. told \subseteq Refusals
    BY DEF Inv, Scalars
  <2> QED
    BY <2>1, FittingReadable DEF ErrorReadable
<1> QED
  BY <1>1, Invariant, PTL

(* The courier starts with nothing. *)
LEMMA CourierInit == Init => Abstract!Init
<1> SUFFICES ASSUME Init PROVE Abstract!Init
  OBVIOUS
<1>1. \A p \in Peers : out[p] = <<>> /\ held[p] = <<>> /\ wire[p] = <<>>
  BY DEF Init
<1>2. ASSUME NEW p \in Peers PROVE Pending(p) = <<>> /\ Messages(out[p]) = <<>>
  <2>1. Streamed(p) = <<>>
    BY <1>1, OtherPeer, UnfinishedEmpty DEF Streamed
  <2>2. Pending(p) = Messages((<<>> \o <<>>) \o <<>>)
    BY <1>1, <2>1 DEF Pending, Streamed
  <2> QED
    BY <1>1, <2>2, EmptyRow, MessagesEmpty
<1>3. \A p \in Abstract!Peers : p \in Peers
  BY DEF Peers, Abstract!Peers
<1> QED
  BY <1>2, <1>3 DEF Abstract!Init, Peers, Abstract!Peers

(* The functions that read, cut, inspect and write packets together pass   *)
(* messages on whole, unchanged and in order, for any messages, packet     *)
(* sizes and order of calls, although either peer may leave at any time.   *)
THEOREM MessagesTravelWhole == Spec => ImplementsCourier
<1>1. Inv /\ Inv' /\ [Next]_vars => [Abstract!Next]_(Abstract!vars)
  <2> SUFFICES ASSUME Inv, Inv', [Next]_vars PROVE [Abstract!Next]_(Abstract!vars)
    OBVIOUS
  <2>1. Sequences' /\ \A p \in Peers : OneMessage(p)'
    BY DEF Inv
  <2>2. CASE Next
    BY <2>1, <2>2, InvStep, CourierStep
  <2>3. CASE UNCHANGED vars
    <3>1. UNCHANGED <<asked, executed, told, rest, wire, out, held, call, left>>
      BY <2>3 DEF vars, peerVars, callVars
    <3>2. Effect
      BY <3>1, StillStep DEF Inv, Effect
    <3> QED
      BY <2>1, <3>2, CourierStep
  <2> QED
    BY <2>2, <2>3
<1> QED
  BY <1>1, CourierInit, Invariant, PTL DEF Spec, ImplementsCourier, Abstract!Spec

-----------------------------------------------------------------------------
(* What inspections find. *)

(* The packets after the first of a message show nothing, but a bulk load   *)
(* pins with each of them.                                                  *)
LEMMA BlankShows ==
  ASSUME NEW type
  PROVE  InspectPacket(type, Blank) =
            IF type = "bulk_load" THEN Pin("bulk_load") ELSE NoChange
<1>1. Blank.words = <<>> /\ Blank.proc = "" /\ Blank.request = 0
  BY DEF Blank
<1>2. \A p \in StartPrefixes \union EndPrefixes : ~ HasPrefix(<<>>, p)
  <2>1. \A p \in StartPrefixes \union EndPrefixes : Len(p) >= 1 /\ Len(p) \in Nat
    BY DEF StartPrefixes, EndPrefixes
  <2>2. Len(<<>>) = 0
    OBVIOUS
  <2> QED
    BY <2>1, <2>2 DEF HasPrefix
<1>3. \A p : ~ HasPhrase(<<>>, p)
  <2>1. 1 .. Len(<<>>) = {}
    OBVIOUS
  <2> QED
    BY <2>1 DEF HasPhrase
<1>4. InspectSQLBatch(<<>>) = NoChange
  BY <1>2, <1>3 DEF InspectSQLBatch
<1>5. InspectRPC("") = NoChange
  BY DEF InspectRPC
<1>6. InspectTransactionManager(0) = NoChange
  BY DEF InspectTransactionManager, TmBeginXact, TmCommitXact, TmRollbackXact
<1> QED
  BY <1>1, <1>4, <1>5, <1>6 DEF InspectPacket

(* An answer that begins with a token that is not understood says nothing.  *)
LEMMA FirstTokenStops ==
  ASSUME NEW tokens, Len(tokens) \in Nat \ {0}, tokens[1] \notin Understood
  PROVE  InspectResponse(tokens) = NoChange
<1>1. Scanned(tokens) = {}
  <2> SUFFICES ASSUME NEW i \in Scanned(tokens) PROVE FALSE
    OBVIOUS
  <2>1. i \in 1 .. Len(tokens) /\ \A j \in 1 .. i : tokens[j] \in Understood
    BY DEF Scanned
  <2>2. 1 \in 1 .. i
    BY <2>1
  <2> QED
    BY <2>1, <2>2
<1> QED
  BY <1>1 DEF InspectResponse

(* An answer that is understood and has one change of the transaction says  *)
(* this one.                                                                *)
LEMMA OneChange ==
  ASSUME NEW tokens, Len(tokens) \in Nat, NEW k \in 1 .. Len(tokens),
         tokens[k] \in DOMAIN Transitions,
         \A i \in 1 .. Len(tokens) : tokens[i] \in Understood,
         \A i \in 1 .. Len(tokens) : tokens[i] \in DOMAIN Transitions => i = k
  PROVE  InspectResponse(tokens) = Transitions[tokens[k]]
<1> DEFINE C == {i \in Scanned(tokens) : tokens[i] \in DOMAIN Transitions}
           c == CHOOSE i \in C : \A j \in C : j <= i
<1>1. \A i \in 1 .. Len(tokens) : \A j \in 1 .. i : j \in 1 .. Len(tokens)
  OBVIOUS
<1>2. Scanned(tokens) = 1 .. Len(tokens)
  BY <1>1 DEF Scanned
<1>3. C = {k}
  BY <1>2
<1>4. c = k
  <2>1. k \in C /\ \A j \in C : j <= k
    BY <1>3
  <2>2. c \in C
    <3> HIDE DEF C
    <3> QED
      BY <2>1
  <2> HIDE DEF c
  <2> QED
    BY <1>3, <2>2
<1>5. InspectResponse(tokens) = Transitions[tokens[c]]
  BY <1>3 DEF InspectResponse
<1> HIDE DEF c
<1> QED
  BY <1>4, <1>5

(* The answers of the backend. *)
LEMMA AnswersShow ==
  /\ InspectResponse(<<"begin", "done">>) = Pin("transaction")
  /\ InspectResponse(<<"done", "begin", "done">>) = Pin("transaction")
  /\ InspectResponse(<<"commit", "done">>) = Unpin("transaction")
  /\ InspectResponse(<<"rollback", "done">>) = Unpin("transaction")
  /\ InspectResponse(<<"done">>) = NoChange
  /\ InspectResponse(<<"done", "done">>) = NoChange
  /\ InspectResponse(<<"result">>) = NoChange
  /\ InspectResponse(<<"error">>) = NoChange
  /\ InspectResponse(<<"error", "rollback", "done">>) = NoChange
<1>1. /\ DOMAIN Transitions = {"begin", "commit", "rollback"}
      /\ Understood = {"begin", "commit", "rollback", "done", "envchange"}
      /\ Transitions["begin"] = Pin("transaction")
      /\ Transitions["commit"] = Unpin("transaction")
      /\ Transitions["rollback"] = Unpin("transaction")
  BY DEF Transitions, Understood
<1>2. ASSUME NEW token \in {"begin", "commit", "rollback"}
      PROVE  InspectResponse(<<token, "done">>) = Transitions[token]
  <2>1. PICK t : t = <<token, "done">>
    OBVIOUS
  <2>2. Len(t) = 2 /\ t[1] = token /\ t[2] = "done"
    BY <2>1
  <2>3. \A i \in 1 .. 2 : i = 1 \/ i = 2
    OBVIOUS
  <2>4. InspectResponse(t) = Transitions[t[1]]
    BY <1>1, <2>2, <2>3, OneChange
  <2> QED
    BY <2>1, <2>2, <2>4
<1>3. InspectResponse(<<"done", "begin", "done">>) = Pin("transaction")
  <2>1. PICK t : t = <<"done", "begin", "done">>
    OBVIOUS
  <2>2. Len(t) = 3 /\ t[1] = "done" /\ t[2] = "begin" /\ t[3] = "done"
    BY <2>1
  <2>3. \A i \in 1 .. 3 : i = 1 \/ i = 2 \/ i = 3
    OBVIOUS
  <2>4. InspectResponse(t) = Transitions[t[2]]
    BY <1>1, <2>2, <2>3, OneChange
  <2> QED
    BY <1>1, <2>1, <2>2, <2>4
<1>4. ASSUME NEW t, t \in {<<"result">>, <<"error">>, <<"error", "rollback", "done">>}
      PROVE  InspectResponse(t) = NoChange
  <2>1. Len(t) \in Nat \ {0} /\ t[1] \in {"result", "error"}
    BY <1>4
  <2> QED
    BY <1>1, <2>1, FirstTokenStops
<1>5. InspectResponse(<<"done">>) = NoChange
  <2>1. PICK t : t = <<"done">>
    OBVIOUS
  <2>2. Len(t) = 1 /\ t[1] = "done" /\ \A i \in Scanned(t) : i = 1
    BY <2>1 DEF Scanned
  <2>3. {i \in Scanned(t) : t[i] \in DOMAIN Transitions} = {}
    BY <1>1, <2>2
  <2> QED
    BY <2>1, <2>3 DEF InspectResponse
<1>6. InspectResponse(<<"done", "done">>) = NoChange
  <2>1. PICK t : t = <<"done", "done">>
    OBVIOUS
  <2>2. \A i \in Scanned(t) : t[i] = "done"
    <3>1. \A i \in 1 .. 2 : i = 1 \/ i = 2
      OBVIOUS
    <3> QED
      BY <2>1, <3>1 DEF Scanned
  <2>3. {i \in Scanned(t) : t[i] \in DOMAIN Transitions} = {}
    BY <1>1, <2>2
  <2> QED
    BY <2>1, <2>3 DEF InspectResponse
<1> QED
  BY <1>1, <1>2, <1>3, <1>4, <1>5, <1>6

-----------------------------------------------------------------------------
(* What the pin must be at each point of an exchange. *)

(* The message the client sent last. *)
Current == asked[Len(asked)]

(* The pin after the request m was inspected, which is not executed yet.    *)
Suits(m, pin) ==
    /\ Open /\ Shown => pin # ""
    /\ m.effect = "prepare" /\ Request(m).action = "pin" => pin # ""
    /\ EndsRecognised /\ m.effect \in Ends => pin = ""

(* The pin after its answer was inspected.                                  *)
Settled(m, pin) ==
    /\ Open /\ Shown => pin # ""
    /\ EndsRecognised /\ m.effect \in Ends /\ txn = 0 => pin = ""

(* The packets of a side that the proxy has read, but not whole.            *)
Passed(p) == Streamed(p) \o held[p]

(* A message is under way and the proxy has read nothing of it.             *)
Unseen(p) == OnTheWay(p) # <<>> /\ Passed(p) = <<>>

Inspection(p, packet) ==
    IF p = "client" THEN InspectPacket(packet.type, packet.view)
    ELSE InspectResponse(packet.view.tokens)

(* The pin when the first packet of the message under way is inspected.     *)
PinAfter(p) ==
    IF Unseen(p) THEN ApplyPinResult(pinReason, Inspection(p, OnTheWay(p)[1]))
    ELSE pinReason

(* Messages are numbered in the order in which the client sends them.       *)
Numbered ==
    /\ OnTheWay("client") # <<>> => Assemble(OnTheWay("client")).of = Len(asked)
    /\ \A k \in 1 .. Requests : Messages(out["backend"])[k].of = k

(* The first packet of a message shows what it is, the others nothing.      *)
Showing ==
    /\ \A i \in 1 .. Len(OnTheWay("client")) :
          /\ OnTheWay("client")[i].type = Current.type
          /\ OnTheWay("client")[i].view = IF i = 1 THEN Current.view ELSE Blank
    /\ \A i \in 1 .. Len(OnTheWay("backend")) :
          i # 1 => OnTheWay("backend")[i].view = Response(<<"result">>)

(* What is open was opened by a message.                                    *)
Marked == Open => opened # 0

(* Before Relay the backend's session holds nothing.                        *)
Calm ==
    /\ txn = 0 /\ prepared = 0
    /\ \A i \in 1 .. Len(asked) : asked[i].effect = "login"

(* Until the request is executed the pin suits what the request will do,    *)
(* once it is inspected; then it suits what the session is, once the answer *)
(* is inspected.                                                            *)
Plan ==
    /\ asked = <<>> => ~ Open
    /\ asked # <<>> /\ executed < Len(asked) =>
          Suits(Current, PinAfter("client"))
    /\ asked # <<>> /\ executed = Len(asked) =>
          Settled(Current, PinAfter("backend"))

PinInv == Numbered /\ Showing /\ Marked /\ (Off => Calm) /\ Plan

(* No result leaves the pin. *)
LEMMA AppliedNothing ==
  ASSUME NEW pin PROVE ApplyPinResult(pin, NoChange) = pin
BY DEF ApplyPinResult, NoChange

(* An unpin ends it. *)
LEMMA AppliedUnpin ==
  ASSUME NEW pin, NEW r, r.action = "unpin" PROVE ApplyPinResult(pin, r) = ""
BY DEF ApplyPinResult

(* A pin with a reason pins. *)
LEMMA AppliedPin ==
  ASSUME NEW pin, NEW r, r.action = "pin", r.reason # ""
  PROVE  ApplyPinResult(pin, r) # ""
BY DEF ApplyPinResult

(* Nothing but an unpin ends a pin. *)
LEMMA AppliedKeeps ==
  ASSUME NEW pin, NEW r, r.action # "unpin", pin # ""
  PROVE  ApplyPinResult(pin, r) # ""
BY DEF ApplyPinResult

(* A pin that an inspection sets has a reason.                              *)
LEMMA PinsHaveReasons ==
  ASSUME NEW type, NEW view, InspectPacket(type, view).action = "pin"
  PROVE  InspectPacket(type, view).reason # ""
<1> DEFINE Reasoned(r) == r.action = "pin" => r.reason # ""
<1>1. /\ Reasoned(NoChange) /\ Reasoned(Pin("transaction")) /\ Reasoned(Pin("temp_table"))
      /\ Reasoned(Pin("prepared")) /\ Reasoned(Pin("bulk_load"))
      /\ Reasoned(Unpin("transaction")) /\ Reasoned(Unpin("prepared"))
  BY DEF NoChange, Pin, Unpin
<1> HIDE DEF Reasoned
<1>2. Reasoned(InspectSQLBatch(view.words))
  BY <1>1 DEF InspectSQLBatch
<1>3. Reasoned(InspectRPC(view.proc))
  BY <1>1 DEF InspectRPC
<1>4. Reasoned(InspectTransactionManager(view.request))
  BY <1>1 DEF InspectTransactionManager
<1>5. Reasoned(InspectPacket(type, view))
  BY <1>1, <1>2, <1>3, <1>4 DEF InspectPacket
<1> QED
  BY <1>5 DEF Reasoned

(* What the inspection of a request does to the pin.                        *)
LEMMA RequestSuits ==
  ASSUME NEW m \in ClientSends, NEW pin, NEW after,
         after = ApplyPinResult(pin, Request(m))
  PROVE  /\ ~ Unpins(m) /\ pin # "" => after # ""
         /\ m.effect = "prepare" /\ Request(m).action = "pin" => after # ""
         /\ EndsRecognised /\ m.effect \in Ends => after = ""
<1>1. ~ Unpins(m) /\ pin # "" => after # ""
  BY AppliedKeeps DEF Unpins
<1>2. Request(m).action = "pin" => after # ""
  BY PinsHaveReasons, AppliedPin DEF Request
<1>3. ASSUME EndsRecognised, m.effect \in Ends
      PROVE  after = ""
  <2>1. m \in Statements
    BY <1>3, ConstantsAssumption DEF ClientSends, Ends
  <2>2. Request(m).action = "unpin"
    BY <1>3, <2>1 DEF EndsRecognised
  <2> QED
    BY <2>2, AppliedUnpin
<1> QED
  BY <1>1, <1>2, <1>3

(* What the tokens of an answer say: those of a statement that ends nothing *)
(* do not unpin, and what opens a session in which nothing was open is a    *)
(* begin, which its answer tells, or a preparation.                         *)
LEMMA OutcomesTell ==
  ASSUME txn \in Nat, prepared \in Nat, NEW effect, NEW o \in Outcomes(effect)
  PROVE  /\ effect \notin Ends =>
               InspectResponse(o.tokens) \in {NoChange, Pin("transaction")}
         /\ txn = 0 /\ prepared = 0 /\ (o.txn > 0 \/ o.prepared > 0) =>
               \/ InspectResponse(o.tokens) = Pin("transaction")
               \/ effect = "prepare" /\ InspectResponse(o.tokens) = NoChange
<1> DEFINE Kept(tokens) == [txn |-> txn, prepared |-> prepared, tokens |-> tokens]
           Is(r, t, p, tokens) == r.txn = t /\ r.prepared = p /\ r.tokens = tokens
<1>1. /\ \A tokens : Is(Kept(tokens), txn, prepared, tokens)
      /\ \A tokens, t : Is([Kept(tokens) EXCEPT !.txn = t], t, prepared, tokens)
      /\ \A tokens, p : Is([Kept(tokens) EXCEPT !.prepared = p], txn, p, tokens)
  OBVIOUS
<1>2. CASE effect \in {"begin", "insert and begin"}
  <2>1. \/ txn = 0 /\ o.tokens \in {<<"begin", "done">>, <<"done", "begin", "done">>}
        \/ txn # 0 /\ o.tokens \in {<<"done">>, <<"done", "done">>}
    BY <1>1, <1>2 DEF Outcomes
  <2> QED
    BY <2>1, AnswersShow
<1>3. CASE effect = "prepare"
  <2>1. o.tokens \in {<<"result">>, <<"error">>}
    BY <1>1, <1>3 DEF Outcomes
  <2> QED
    BY <1>3, <2>1, AnswersShow
<1>4. CASE effect = "query"
  <2>1. /\ o.tokens \in {<<"result">>, <<"error", "rollback", "done">>}
        /\ o.txn \in {txn, 0} /\ o.prepared = prepared
    BY <1>1, <1>4 DEF Outcomes
  <2>2. InspectResponse(o.tokens) = NoChange
    BY <2>1, AnswersShow
  <2>3. txn = 0 /\ prepared = 0 => ~ (o.txn > 0 \/ o.prepared > 0)
    BY <2>1
  <2> QED
    BY <2>2, <2>3
<1>5. CASE effect \in Ends /\ (txn # 0 \/ prepared # 0)
  BY <1>5
<1>6. CASE effect \in Ends /\ txn = 0 /\ prepared = 0
  <2>1. ~ (txn > 0) /\ ~ (prepared > 0)
    BY <1>6
  <2>2. o = Kept(<<"error">>)
    <3>1. CASE effect = "commit"
      BY <2>1, <3>1, Zenon DEF Outcomes
    <3>2. CASE effect = "rollback"
      BY <2>1, <3>2, Zenon DEF Outcomes
    <3>3. CASE effect = "unprepare"
      BY <2>1, <3>3, Zenon DEF Outcomes
    <3> QED
      BY <1>6, <3>1, <3>2, <3>3 DEF Ends
  <2>3. Is(o, txn, prepared, <<"error">>)
    BY <1>1, <2>2, Zenon
  <2> QED
    BY <1>6, <2>3
<1>7. CASE effect \notin Ends \union {"begin", "insert and begin", "prepare", "query"}
  <2>1. o = Kept(<<"error">>)
    BY <1>7 DEF Outcomes, Ends
  <2>2. Is(o, txn, prepared, <<"error">>)
    BY <1>1, <2>1, Zenon
  <2> QED
    BY <2>2, AnswersShow
<1> QED
  BY <1>2, <1>3, <1>4, <1>5, <1>6, <1>7

(* The backend executes a request for which the pin suits; the inspection   *)
(* of the answer makes it right again.                                      *)
LEMMA ExecutionSettles ==
  ASSUME Scalars, Marked, asked # <<>>, executed + 1 = Len(asked),
         NEW m, m = Current, NEW pin, Suits(m, pin),
         NEW o \in Outcomes(m.effect), txn' = o.txn, prepared' = o.prepared,
         asked' = asked,
         opened' = IF o.txn = 0 /\ o.prepared = 0 THEN 0
                   ELSE IF Open THEN opened ELSE executed + 1
  PROVE  /\ Marked'
         /\ Open' /\ Shown' => ApplyPinResult(pin, InspectResponse(o.tokens)) # ""
<1>1. /\ txn \in Nat /\ prepared \in Nat /\ executed \in Nat /\ opened \in 0 .. executed
      /\ o.txn \in Nat /\ o.prepared \in Nat /\ Len(asked) \in Nat
  BY OutcomesTypes DEF Scalars
<1>2. Marked'
  BY <1>1 DEF Marked, Open
<1>3. Pin("transaction").action = "pin" /\ Pin("transaction").reason # ""
  BY DEF Pin
<1> SUFFICES ASSUME Open', Shown'
             PROVE  ApplyPinResult(pin, InspectResponse(o.tokens)) # ""
  BY <1>2
<1>4. CASE Open
  <2>1. opened' = opened
    BY <1>1, <1>4 DEF Open
  <2>2. Shown
    BY <2>1 DEF Shown
  <2>3. pin # ""
    BY <1>4, <2>2 DEF Suits
  <2>4. Len(asked) \in opened + 1 .. Len(asked)
    BY <1>1
  <2>5. m.effect \notin Ends
    BY <2>2, <2>4 DEF Shown, Unpins, Current
  <2>6. InspectResponse(o.tokens) \in {NoChange, Pin("transaction")}
    BY <1>1, <2>5, OutcomesTell
  <2> QED
    BY <1>3, <2>3, <2>6, AppliedNothing, AppliedPin
<1>5. CASE ~ Open
  <2>1. txn = 0 /\ prepared = 0 /\ (o.txn > 0 \/ o.prepared > 0)
    BY <1>1, <1>5 DEF Open
  <2>2. opened' = Len(asked)
    BY <1>1, <1>5, <2>1
  <2>3. m.effect = "prepare" => Request(m).action = "pin"
    BY <2>2 DEF Shown, Current
  <2>4. m.effect = "prepare" => pin # ""
    BY <2>3 DEF Suits
  <2>5. \/ InspectResponse(o.tokens) = Pin("transaction")
        \/ m.effect = "prepare" /\ InspectResponse(o.tokens) = NoChange
    BY <1>1, <2>1, OutcomesTell
  <2> QED
    BY <1>3, <2>4, <2>5, AppliedNothing, AppliedPin
<1> QED
  BY <1>4, <1>5

(* The answer to an end never pins.                                         *)
LEMMA EndsSettle ==
  ASSUME txn \in Nat, prepared \in Nat, NEW effect \in Ends, NEW o \in Outcomes(effect)
  PROVE  ApplyPinResult("", InspectResponse(o.tokens)) = ""
<1> DEFINE Kept(tokens) == [txn |-> txn, prepared |-> prepared, tokens |-> tokens]
<1>1. /\ \A tokens : Kept(tokens).tokens = tokens
      /\ \A tokens, t : [Kept(tokens) EXCEPT !.txn = t].tokens = tokens
      /\ \A tokens, v : [Kept(tokens) EXCEPT !.prepared = v].tokens = tokens
  OBVIOUS
<1>2. o.tokens \in {<<"commit", "done">>, <<"done">>, <<"rollback", "done">>, <<"error">>,
                    <<"result">>}
  <2>1. CASE effect = "commit" /\ txn > 0
    BY <1>1, <2>1 DEF Outcomes
  <2>2. CASE effect = "rollback" /\ txn > 0
    BY <1>1, <2>2 DEF Outcomes
  <2>3. CASE effect = "unprepare" /\ prepared > 0
    BY <1>1, <2>3 DEF Outcomes
  <2>4. CASE /\ ~ (effect = "commit" /\ txn > 0) /\ ~ (effect = "rollback" /\ txn > 0)
             /\ ~ (effect = "unprepare" /\ prepared > 0)
    <3>1. o = Kept(<<"error">>)
      BY <2>4 DEF Outcomes, Ends
    <3> QED
      BY <1>1, <3>1
  <2> QED
    BY <2>1, <2>2, <2>3, <2>4 DEF Ends
<1>3. InspectResponse(o.tokens) \in {NoChange, Unpin("transaction")}
  BY <1>2, AnswersShow
<1>4. Unpin("transaction").action = "unpin"
  BY DEF Unpin
<1> QED
  BY <1>3, <1>4, AppliedNothing, AppliedUnpin

-----------------------------------------------------------------------------
(* What the steps do to what the invariant speaks of. *)

(* The peers alone change what was asked and what the backend's session is. *)
LEMMA PeersAlone ==
  ASSUME Next
  PROVE  \/ \E m \in ClientSends : ClientAsks(m)
         \/ BackendExecutes
         \/ UNCHANGED <<asked, executed, txn, prepared, opened>>
<1>1. CASE Environment
  <2>1. ASSUME NEW p \in Peers, Transmit(p) \/ HangUp(p)
        PROVE  UNCHANGED <<asked, executed, txn, prepared, opened>>
    BY <2>1 DEF Transmit, HangUp
  <2>2. ASSUME Deadline PROVE UNCHANGED <<asked, executed, txn, prepared, opened>>
    BY <2>2 DEF Deadline, peerVars
  <2> QED
    BY <1>1, <2>1, <2>2 DEF Environment, ClientSends
<1>2. CASE MessageFunctions
  <2>1. UNCHANGED peerVars
    BY <1>2 DEF MessageFunctions, Begin, ReadPart, ReadLast, Drain, ReadOne, ReadError,
                WritePart, WriteLast, WriteError, RefuseSession
  <2> QED
    BY <2>1 DEF peerVars
<1>3. CASE StartRelay \/ RelayReturns \/ Cleanup
  BY <1>3 DEF StartRelay, RelayReturns, Cleanup, peerVars
<1>4. ASSUME NEW p \in Peers, RelayStep(p)
      PROVE  UNCHANGED <<asked, executed, txn, prepared, opened>>
  BY <1>4 DEF RelayStep, RelayRead, RelayWrite, RelayNext, RelayError, peerVars
<1> QED
  BY <1>1, <1>2, <1>3, <1>4 DEF Next

(* Relay is called once: the session does not return from it.               *)
LEMMA RelayStaysOn ==
  ASSUME Inv, Next, ~ Off
  PROVE  /\ ~ Off'
         /\ ~ MessageFunctions /\ ~ StartRelay
<1>1. PICK q \in Peers : copier[q] # "off"
  BY DEF Off
<1>2. /\ pc \in {"relaying", "ending", "closed"}
      /\ copier \in [Peers -> {"off", "reading", "writing", "written", "ended"}]
  BY <1>1, InRelay
<1>3. ~ MessageFunctions
  <2>1. MessageFunctions => pc \in {"idle", "reading", "writing"}
    BY DEF MessageFunctions, Begin, ReadPart, ReadLast, Drain, ReadOne, ReadError,
           WritePart, WriteLast, WriteError, RefuseSession
  <2> QED
    BY <1>2, <2>1
<1>4. ~ StartRelay
  BY <1>2 DEF StartRelay
<1>5. copier'[q] # "off"
  <2>1. CASE copier' = copier
    BY <1>1, <2>1
  <2>2. ASSUME NEW p \in Peers, RelayStep(p) PROVE copier'[q] # "off"
    <3>1. \E to \in {"reading", "writing", "written", "ended"} :
             copier' = [copier EXCEPT ![p] = to]
      BY <2>2 DEF RelayStep, RelayRead, RelayWrite, RelayNext, RelayError
    <3> QED
      BY <1>1, <1>2, <3>1
  <2>3. ASSUME Environment \/ RelayReturns \/ Cleanup PROVE copier' = copier
    BY <2>3 DEF Environment, ClientAsks, BackendExecutes, Deadline, Transmit, HangUp,
                RelayReturns, Cleanup
  <2> QED
    BY <1>3, <1>4, <2>1, <2>2, <2>3 DEF Next
<1> QED
  BY <1>3, <1>4, <1>5 DEF Off

(* When neither peer changes anything, a message under way goes on, is      *)
(* passed, or is refused.                                                   *)
LEMMA Carries ==
  ASSUME Inv, Effect, UNCHANGED <<asked, executed>>
  PROVE  /\ \A p \in Peers : OnTheWay(p)' = OnTheWay(p) \/ OnTheWay(p)' = <<>>
         /\ \/ Messages(out'["backend"]) = Messages(out["backend"])
            \/ /\ OnTheWay("client") # <<>> /\ Requests + 1 = Len(asked)
               /\ OnTheWay("client")' = <<>>
               /\ Messages(out'["backend"]) =
                     Append(Messages(out["backend"]), Assemble(OnTheWay("client")))
<1>0. /\ Sequences /\ Books /\ \A p \in Peers : OneMessage(p)
      /\ Len(asked) \in Nat /\ executed \in Nat /\ Requests \in Nat
      /\ "client" \in Peers /\ "backend" \in Peers /\ Other("client") = "backend"
      /\ Other("backend") = "client" /\ \A p \in Peers : p = "client" \/ p = "backend"
  BY OutTypes DEF Inv, Scalars, Peers, Other
<1>1. CASE Quietly
  BY <1>0, <1>1, SameKeeps DEF Quietly, SameOut
<1>2. ~ Asking /\ ~ Executing
  BY <1>0 DEF Asking, Executing
<1>3. ASSUME NEW p \in Peers, Taken(p)
      PROVE  \A q \in Peers : OnTheWay(q)' = OnTheWay(q) \/ OnTheWay(q)' = <<>>
  BY <1>3, TakenEmpties, OtherPeer
<1>4. CASE Dropping
  BY <1>0, <1>3, <1>4 DEF Dropping, SameOut
<1>5. CASE Refusing
  BY <1>0, <1>3, <1>5 DEF Refusing
<1>6. ASSUME NEW p \in Peers, Sending(p)
      PROVE  /\ \A q \in Peers : OnTheWay(q)' = OnTheWay(q) \/ OnTheWay(q)' = <<>>
             /\ Messages(out'["backend"]) = Messages(out["backend"])
  BY <1>0, <1>6, SendingKeeps, OtherPeer DEF SameOut
<1>7. CASE Passing("backend")
  BY <1>0, <1>3, <1>7 DEF Passing
<1>8. CASE Passing("client")
  <2>1. Taken("client")
    BY <1>8 DEF Passing
  <2>2. OnTheWay("client") # <<>> /\ OnTheWay("client")' = <<>> /\ told = {}
    BY <1>0, <2>1, TakenEmpties
  <2>3. OnTheWay("client") = Flow("client")
    BY <1>0, <2>1, PendingIs DEF Taken
  <2>4. Requests + 1 = Len(asked)
    BY <1>0, <2>2 DEF Books, Refused
  <2>5. Messages(out'["backend"]) =
           Append(Messages(out["backend"]), Assemble(OnTheWay("client")))
    BY <1>0, <1>8, <2>3 DEF Passing
  <2> QED
    BY <1>0, <1>3, <2>1, <2>2, <2>4, <2>5
<1> QED
  BY <1>0, <1>1, <1>2, <1>4, <1>5, <1>6, <1>7, <1>8 DEF Effect

(* The client asks: its message is all that is under way.                   *)
LEMMA AskedIs ==
  ASSUME Inv, NEW m \in ClientSends, ClientAsks(m)
  PROVE  /\ OnTheWay("client") = <<>> /\ OnTheWay("backend") = <<>>
         /\ asked' = Append(asked, m) /\ asked' # <<>> /\ Len(asked') = Len(asked) + 1
         /\ Current' = m
         /\ OnTheWay("client")' # <<>> /\ OnTheWay("backend")' = <<>>
         /\ Assemble(OnTheWay("client")').of = Len(asked')
         /\ \A i \in 1 .. Len(OnTheWay("client")') :
               /\ OnTheWay("client")'[i].type = m.type
               /\ OnTheWay("client")'[i].view = IF i = 1 THEN m.view ELSE Blank
         /\ Messages(out'["backend"]) = Messages(out["backend"])
<1>0. /\ Sequences /\ Books /\ asked \in Seq(ClientSends) /\ Len(asked) \in Nat
      /\ executed \in Nat /\ Requests \in Nat /\ Answers \in Nat
      /\ "client" \in Peers /\ "backend" \in Peers /\ Other("client") = "backend"
  BY OutTypes DEF Inv, Scalars, Peers, Other
<1>1. Asking
  BY AsksStep
<1>2. OnTheWay("client") = <<>> /\ OnTheWay("backend") = <<>>
  BY <1>0, <1>1 DEF Asking, Books
<1>3. asked' = Append(asked, m) /\ rest' = [rest EXCEPT !["client"] = Cut(m, Len(asked) + 1)]
  BY DEF ClientAsks
<1>4. asked' # <<>> /\ Len(asked') = Len(asked) + 1 /\ asked'[Len(asked')] = m
  BY <1>0, <1>3
<1>5. /\ OnTheWay("client")' = rest'["client"] /\ OnTheWay("client")' # <<>>
      /\ OnTheWay("backend")' = <<>>
  BY <1>0, <1>1, <1>2, StartsFills DEF Asking
<1>6. PICK b : b = Cut(m, Len(asked) + 1)
  OBVIOUS
<1>7. OnTheWay("client")' = b
  BY <1>0, <1>3, <1>5, <1>6 DEF Sequences
<1>8. /\ Assemble(b).of = Len(asked) + 1
      /\ \A i \in 1 .. Len(b) :
            b[i].type = m.type /\ b[i].view = IF i = 1 THEN m.view ELSE Blank
  <2>1. Len(asked) + 1 \in Nat
    BY <1>0
  <2>2. /\ Assemble(b) = [type |-> m.type, of |-> Len(asked) + 1, size |-> m.payload.size]
        /\ \A i \in 1 .. Len(b) :
              b[i].type = m.type /\ b[i].view = IF i = 1 THEN m.view ELSE Blank
    BY <1>6, <2>1, CutIs
  <2> QED
    BY <2>2
<1>9. Messages(out'["backend"]) = Messages(out["backend"])
  BY DEF ClientAsks
<1> QED
  BY <1>2, <1>3, <1>4, <1>5, <1>7, <1>8, <1>9 DEF Current

(* The backend executes the client's last message, and its answer is all    *)
(* that is under way.                                                       *)
LEMMA ExecutedIs ==
  ASSUME Inv, Numbered, BackendExecutes
  PROVE  /\ OnTheWay("client") = <<>> /\ OnTheWay("backend") = <<>>
         /\ asked' = asked /\ asked # <<>> /\ Current' = Current
         /\ executed + 1 = Len(asked) /\ executed' = Len(asked)
         /\ OnTheWay("client")' = <<>> /\ OnTheWay("backend")' # <<>>
         /\ Messages(out'["backend"]) = Messages(out["backend"])
         /\ \E o \in Outcomes(Current.effect) :
               /\ txn' = o.txn /\ prepared' = o.prepared
               /\ opened' = IF o.txn = 0 /\ o.prepared = 0 THEN 0
                            ELSE IF Open THEN opened ELSE executed + 1
               /\ \A i \in 1 .. Len(OnTheWay("backend")') :
                     OnTheWay("backend")'[i].view =
                        IF i = 1 THEN Response(o.tokens) ELSE Response(<<"result">>)
<1>0. /\ Scalars /\ Sequences /\ Books /\ asked \in Seq(ClientSends) /\ Len(asked) \in Nat
      /\ executed \in Nat /\ Requests \in Nat /\ Answers \in Nat
      /\ "client" \in Peers /\ "backend" \in Peers /\ Other("backend") = "client"
  BY OutTypes DEF Inv, Scalars, Peers, Other
<1>1. Executing
  BY ExecutesStep
<1>2. /\ told = {} /\ executed + 1 = Requests /\ Requests = Len(asked)
      /\ Len(asked) = Answers + 1
  BY <1>0, <1>1 DEF Executing, Books, Refused
<1>3. OnTheWay("client") = <<>> /\ OnTheWay("backend") = <<>>
  BY <1>0, <1>2 DEF Books, Refused
<1>4. /\ asked' = asked /\ executed' = Len(asked)
      /\ Messages(out'["backend"]) = Messages(out["backend"])
  BY <1>2 DEF BackendExecutes
<1>5. asked # <<>>
  BY <1>0, <1>2
<1>6. /\ OnTheWay("backend")' = rest'["backend"] /\ OnTheWay("backend")' # <<>>
      /\ OnTheWay("client")' = <<>>
  BY <1>0, <1>1, <1>3, StartsFills DEF Executing
<1>7. Messages(out["backend"])[executed + 1].of = Len(asked)
  <2>1. executed + 1 \in 1 .. Requests
    BY <1>0, <1>2
  <2>2. Messages(out["backend"])[executed + 1].of = executed + 1
    BY <2>1 DEF Numbered
  <2> QED
    BY <1>2, <2>2
<1>8. PICK size \in ReplySizes, o \in Outcomes(Current.effect) :
         /\ txn' = o.txn /\ prepared' = o.prepared
         /\ opened' = IF o.txn = 0 /\ o.prepared = 0 THEN 0
                      ELSE IF Open THEN opened ELSE executed + 1
         /\ rest' = [rest EXCEPT !["backend"] =
               BuildPackets([type |-> "reply", of |-> executed + 1, size |-> size,
                             view |-> Response(o.tokens), later |-> Response(<<"result">>)],
                            DefaultPacketSize)]
  <2>1. Outcomes(asked[Messages(out["backend"])[executed + 1].of].effect)
          = Outcomes(Current.effect)
    BY <1>7, Zenon DEF Current
  <2> QED
    BY <2>1, Zenon DEF BackendExecutes
<1>9. PICK b : b = BuildPackets([type |-> "reply", of |-> executed + 1, size |-> size,
                                 view |-> Response(o.tokens), later |-> Response(<<"result">>)],
                                DefaultPacketSize)
  OBVIOUS
<1>10. OnTheWay("backend")' = b
  BY <1>0, <1>6, <1>8, <1>9 DEF Sequences
<1>11. \A i \in 1 .. Len(b) :
          b[i].view = IF i = 1 THEN Response(o.tokens) ELSE Response(<<"result">>)
  <2>1. executed + 1 \in Nat /\ size \in Nat /\ o.tokens \in Seq(Tokens)
    BY <1>0, Constants, OutcomesTypes
  <2> QED
    BY <1>9, <2>1, AnswerIs
<1> QED
  BY <1>2, <1>3, <1>4, <1>5, <1>6, <1>8, <1>10, <1>11, Zenon DEF Current

-----------------------------------------------------------------------------
(* The parts of the invariant. *)

(* Messages keep their numbers. *)
LEMMA NumberedStep ==
  ASSUME Inv, Numbered, Effect,
         \/ \E m \in ClientSends : ClientAsks(m)
         \/ BackendExecutes
         \/ UNCHANGED <<asked, executed>>
  PROVE  Numbered'
<1>0. Sequences /\ Requests \in Nat /\ Requests = Len(Messages(out["backend"]))
  BY OutTypes DEF Inv, Requests
<1>1. ASSUME Messages(out'["backend"]) = Messages(out["backend"]),
             OnTheWay("client")' # <<>> => Assemble(OnTheWay("client")').of = Len(asked')
      PROVE  Numbered'
  BY <1>1 DEF Numbered, Requests
<1>2. ASSUME NEW m \in ClientSends, ClientAsks(m) PROVE Numbered'
  BY <1>1, <1>2, AskedIs
<1>3. CASE BackendExecutes
  BY <1>1, <1>3, ExecutedIs
<1>4. CASE UNCHANGED <<asked, executed>>
  <2>1. OnTheWay("client")' = OnTheWay("client") \/ OnTheWay("client")' = <<>>
    BY <1>4, Carries DEF Peers
  <2>2. OnTheWay("client")' # <<>> => Assemble(OnTheWay("client")').of = Len(asked')
    BY <1>4, <2>1 DEF Numbered
  <2>3. CASE Messages(out'["backend"]) = Messages(out["backend"])
    BY <1>1, <2>2, <2>3
  <2>4. CASE /\ OnTheWay("client") # <<>> /\ Requests + 1 = Len(asked)
             /\ Messages(out'["backend"]) =
                   Append(Messages(out["backend"]), Assemble(OnTheWay("client")))
    <3>1. PICK S : Messages(out["backend"]) \in Seq(S)
      BY <1>0, OutTypes DEF Peers
    <3>2. PICK s : s = Messages(out["backend"])
      OBVIOUS
    <3>3. PICK a : a = Assemble(OnTheWay("client"))
      OBVIOUS
    <3>4. s \in Seq(S) /\ Len(s) = Requests /\ a.of = Requests + 1
          /\ \A k \in 1 .. Requests : s[k].of = k
      BY <1>0, <2>4, <3>1, <3>2, <3>3 DEF Numbered
    <3>5. /\ Len(Append(s, a)) = Requests + 1 /\ Append(s, a)[Requests + 1] = a
          /\ \A k \in 1 .. Requests : Append(s, a)[k] = s[k]
      BY <3>4
    <3>6. \A k \in 1 .. Requests + 1 : k \in 1 .. Requests \/ k = Requests + 1
      BY <1>0
    <3>7. \A k \in 1 .. Requests + 1 : Append(s, a)[k].of = k
      BY <3>4, <3>5, <3>6
    <3>8. Messages(out'["backend"]) = Append(s, a) /\ Requests' = Requests + 1
      BY <2>4, <3>2, <3>3, <3>5 DEF Requests
    <3> QED
      BY <2>2, <3>7, <3>8 DEF Numbered
  <2> QED
    BY <1>4, <2>3, <2>4, Carries
<1> QED
  BY <1>2, <1>3, <1>4

(* What is under way shows what it is. *)
LEMMA ShowingStep ==
  ASSUME Inv, Numbered, Showing, Effect,
         \/ \E m \in ClientSends : ClientAsks(m)
         \/ BackendExecutes
         \/ UNCHANGED <<asked, executed>>
  PROVE  Showing'
<1>0. Len(<<>>) = 0 /\ \A i : i \notin 1 .. 0
  OBVIOUS
<1>1. ASSUME NEW m \in ClientSends, ClientAsks(m) PROVE Showing'
  BY <1>0, <1>1, AskedIs DEF Showing
<1>2. CASE BackendExecutes
  BY <1>0, <1>2, ExecutedIs DEF Showing
<1>3. CASE UNCHANGED <<asked, executed>>
  <2>1. \A p \in {"client", "backend"} :
           OnTheWay(p)' = OnTheWay(p) \/ OnTheWay(p)' = <<>>
    BY <1>3, Carries DEF Peers
  <2>2. Current' = Current
    BY <1>3 DEF Current
  <2>3. OnTheWay("client")' = OnTheWay("client") \/ OnTheWay("client")' = <<>>
    BY <2>1
  <2>4. OnTheWay("backend")' = OnTheWay("backend") \/ OnTheWay("backend")' = <<>>
    BY <2>1
  <2> QED
    BY <1>0, <2>2, <2>3, <2>4 DEF Showing
<1> QED
  BY <1>1, <1>2, <1>3

(* Before Relay the client logs in and no state is opened.                  *)
LEMMA CalmStep ==
  ASSUME Inv, Numbered, Off, Calm, Next
  PROVE  Calm'
<1>0. asked \in Seq(ClientSends) /\ Len(asked) \in Nat /\ pc # "relaying"
  BY DEF Inv, Scalars, Places, Off, Copying, Peers
<1>1. ASSUME NEW m \in ClientSends, ClientAsks(m) PROVE Calm'
  <2>1. m \in PreLogins \union Login7s
    BY <1>0, <1>1 DEF ClientAsks, Sendable
  <2>2. m.effect = "login"
    BY <2>1, ConstantsAssumption
  <2>3. asked' = Append(asked, m) /\ txn' = txn /\ prepared' = prepared
    BY <1>1 DEF ClientAsks
  <2>4. \A i \in 1 .. Len(asked') : asked'[i].effect = "login"
    <3>1. /\ Len(asked') = Len(asked) + 1 /\ asked'[Len(asked) + 1] = m
          /\ \A i \in 1 .. Len(asked) : asked'[i] = asked[i]
      BY <1>0, <2>3
    <3>2. \A i \in 1 .. Len(asked) + 1 : i \in 1 .. Len(asked) \/ i = Len(asked) + 1
      BY <1>0
    <3> QED
      BY <2>2, <3>1, <3>2 DEF Calm
  <2> QED
    BY <2>3, <2>4, Zenon DEF Calm
<1>2. CASE BackendExecutes
  <2>1. PICK o \in Outcomes(Current.effect) : txn' = o.txn /\ prepared' = o.prepared
    BY <1>2, ExecutedIs
  <2>2. asked' = asked /\ asked # <<>>
    BY <1>2, ExecutedIs
  <2>3. Len(asked) \in 1 .. Len(asked)
    BY <1>0, <2>2
  <2>4. Current.effect = "login"
    BY <2>3, Zenon DEF Calm, Current
  <2>5. o = [txn |-> txn, prepared |-> prepared, tokens |-> <<"error">>]
    BY <2>1, <2>4 DEF Outcomes
  <2>6. txn' = txn /\ prepared' = prepared
    BY <2>1, <2>5
  <2> QED
    BY <2>2, <2>6, Zenon DEF Calm
<1>3. CASE UNCHANGED <<asked, executed, txn, prepared, opened>>
  BY <1>3, Zenon DEF Calm
<1> QED
  BY <1>1, <1>2, <1>3, PeersAlone

(* Then the plan holds whatever the pin is. *)
LEMMA CalmPlan ==
  ASSUME Scalars, Calm
  PROVE  Marked /\ Plan
<1>1. txn = 0 /\ prepared = 0
  BY Zenon DEF Calm
<1>2. ~ Open
  BY <1>1 DEF Open
<1>3. asked # <<>> => Current.effect = "login"
  <2>1. asked # <<>> => Len(asked) \in 1 .. Len(asked)
    BY DEF Scalars
  <2> QED
    BY <2>1, Zenon DEF Calm, Current
<1>4. "login" \notin Ends /\ "login" # "prepare"
  BY DEF Ends
<1>5. asked # <<>> => \A pin : Suits(Current, pin) /\ Settled(Current, pin)
  BY <1>2, <1>3, <1>4 DEF Suits, Settled
<1> QED
  BY <1>2, <1>5, Zenon DEF Plan, Marked

(* The same for the next state. *)
LEMMA CalmPlanNext == (Scalars /\ Calm => Marked /\ Plan)'
<1>1. Scalars /\ Calm => Marked /\ Plan
  BY CalmPlan
<1> QED
  BY <1>1, PTL

-----------------------------------------------------------------------------
(* The plan, while packets are copied. *)

(* What Relay finds, whichever side it copies. *)
LEMMA Copied ==
  ASSUME Inv, ~ Off
  PROVE  /\ Scalars /\ Sequences /\ Books /\ told = {} /\ Refused = 0
         /\ call = Relaying /\ \A p \in Peers : Copying(p) /\ Streaming(p)
         /\ asked \in Seq(ClientSends) /\ Len(asked) \in Nat /\ executed \in Nat
         /\ Requests \in Nat /\ Answers \in Nat
         /\ "client" \in Peers /\ "backend" \in Peers
<1>1. PICK q \in Peers : copier[q] # "off"
  BY DEF Off
<1>2. told = {} /\ call = Relaying /\ \A p \in Peers : Copying(p)
  BY <1>1, InRelay
<1> QED
  BY <1>2, OutTypes DEF Inv, Scalars, Refused, Streaming, Relaying, Peers

(* Packets keep their types.                                                *)
LEMMA FlowTypesNext ==
  (Sequences => \A p \in Peers : /\ OnTheWay(p) \in Seq(PacketsFrom(p))
                                 /\ Passed(p) \in Seq(PacketsFrom(p))
                                 /\ wire[p] \in Seq(PacketsFrom(p)))'
<1>1. Sequences => \A p \in Peers : /\ OnTheWay(p) \in Seq(PacketsFrom(p))
                                    /\ Passed(p) \in Seq(PacketsFrom(p))
                                    /\ wire[p] \in Seq(PacketsFrom(p))
  BY FlowTypes DEF Passed
<1> QED
  BY <1>1, PTL

(* Nothing of a side is under way: nothing of it is in the proxy either.    *)
LEMMA NothingPassed ==
  ASSUME Sequences, NEW p \in Peers, OnTheWay(p) = <<>>
  PROVE  Passed(p) = <<>> /\ wire[p] = <<>> /\ rest[p] = <<>>
<1>1. PICK S : /\ rest[p] \in Seq(S) /\ wire[p] \in Seq(S) /\ Flow(p) \in Seq(S)
               /\ Passed(p) \in Seq(S)
  BY FlowTypes DEF Passed
<1>2. Flow(p) = <<>> /\ rest[p] = <<>>
  BY <1>1, ConcatEqualIffEmpty DEF OnTheWay
<1>3. PICK u, w : u = Passed(p) /\ w = wire[p]
  OBVIOUS
<1>4. u \o w = <<>>
  BY <1>2, <1>3 DEF Flow, Passed
<1>5. u = <<>> /\ w = <<>>
  BY <1>1, <1>3, <1>4, ConcatEqualIffEmpty
<1> QED
  BY <1>2, <1>3, <1>5

(* A side has something under way until the request is executed, the other  *)
(* one afterwards.                                                          *)
LEMMA OneSideAtATime ==
  ASSUME Inv, ~ Off
  PROVE  /\ OnTheWay("client") # <<>> => executed < Len(asked)
         /\ OnTheWay("backend") # <<>> => executed = Len(asked)
<1>1. /\ Books /\ Refused = 0 /\ Len(asked) \in Nat /\ executed \in Nat
      /\ Requests \in Nat /\ Answers \in Nat
  BY Copied
<1> QED
  BY <1>1 DEF Books

(* A step that does not touch the session leaves what is said of it.        *)
LEMMA SessionKept ==
  ASSUME UNCHANGED <<asked, txn, prepared, opened>>
  PROVE  /\ Open' <=> Open
         /\ Shown' <=> Shown
         /\ \A m, pin : /\ Suits(m, pin)' <=> Suits(m, pin)
                        /\ Settled(m, pin)' <=> Settled(m, pin)
<1>1. Open' <=> Open
  BY DEF Open
<1>2. Shown' <=> Shown
  BY Zenon DEF Shown
<1> QED
  BY <1>1, <1>2, Zenon DEF Suits, Settled

(* The plan depends on the pin of one side only.                            *)
LEMMA PlanKept ==
  ASSUME Plan, UNCHANGED <<asked, executed, txn, prepared, opened>>,
         asked # <<>> /\ executed < Len(asked) /\ Suits(Current, PinAfter("client")) =>
            Suits(Current, PinAfter("client")'),
         asked # <<>> /\ executed = Len(asked) /\ Settled(Current, PinAfter("backend")) =>
            Settled(Current, PinAfter("backend")')
  PROVE  Plan'
<1>1. Current' = Current /\ (Open' <=> Open)
  BY DEF Current, Open
<1>2. \A m, pin : /\ Suits(m, pin)' <=> Suits(m, pin)
                  /\ Settled(m, pin)' <=> Settled(m, pin)
  BY <1>1, SessionKept
<1> QED
  BY <1>1, <1>2, Zenon DEF Plan

(* The client asks while the pin is right: once its request is inspected,   *)
(* the pin will suit it.                                                    *)
LEMMA PlanAsks ==
  ASSUME Inv, Marked, ~ Off, Plan, NEW m \in ClientSends, ClientAsks(m)
  PROVE  Plan'
<1>0. /\ Scalars /\ Sequences /\ Books /\ told = {} /\ Refused = 0
      /\ asked \in Seq(ClientSends) /\ Len(asked) \in Nat /\ executed \in Nat
      /\ Requests \in Nat /\ Answers \in Nat /\ "client" \in Peers /\ "backend" \in Peers
  BY Copied
<1>1. /\ OnTheWay("client") = <<>> /\ OnTheWay("backend") = <<>>
      /\ asked' # <<>> /\ Len(asked') = Len(asked) + 1 /\ Current' = m
      /\ OnTheWay("client")' # <<>>
      /\ \A i \in 1 .. Len(OnTheWay("client")') :
            /\ OnTheWay("client")'[i].type = m.type
            /\ OnTheWay("client")'[i].view = IF i = 1 THEN m.view ELSE Blank
  BY AskedIs
<1>2. UNCHANGED <<executed, txn, prepared, opened, out, held, call, pinReason>>
  BY DEF ClientAsks, callVars
<1>3. executed = Len(asked)
  <2>1. Answers = Len(asked)
    BY DEF ClientAsks, Answered, Answers
  <2> QED
    BY <1>0, <2>1 DEF Books
<1>4. Open /\ Shown => pinReason # ""
  <2>1. CASE asked = <<>>
    BY <2>1, Zenon DEF Plan
  <2>2. CASE asked # <<>>
    <3>1. PinAfter("backend") = pinReason
      BY <1>1 DEF PinAfter, Unseen
    <3>2. Settled(Current, PinAfter("backend"))
      BY <1>3, <2>2, Zenon DEF Plan
    <3> QED
      BY <3>1, <3>2, Zenon DEF Settled
  <2> QED
    BY <2>1, <2>2
<1>5. PICK pin : pin = ApplyPinResult(pinReason, Request(m))
  OBVIOUS
<1>6. PinAfter("client")' = pin
  <2>1. Passed("client") = <<>>
    BY <1>0, <1>1, NothingPassed
  <2>2. Passed("client")' = <<>>
    BY <1>2, <2>1 DEF Passed, Streamed, Streaming
  <2>3. Unseen("client")'
    BY <1>1, <2>2 DEF Unseen
  <2>4. 1 \in 1 .. Len(OnTheWay("client")')
    <3>1. Sequences'
      BY AsksStep
    <3>2. OnTheWay("client")' \in Seq(PacketsFrom("client"))
      BY <1>0, <3>1, FlowTypesNext
    <3> QED
      BY <1>1, <3>2
  <2>5. PICK x : x = OnTheWay("client")'[1]
    OBVIOUS
  <2>6. x.type = m.type /\ x.view = m.view
    BY <1>1, <2>4, <2>5
  <2>7. Inspection("client", x) = Request(m)
    BY <2>6 DEF Inspection, Request
  <2> QED
    BY <1>2, <1>5, <2>3, <2>5, <2>7 DEF PinAfter, Inspection
<1>7. Suits(m, pin)'
  <2>1. ASSUME Open', Shown' PROVE Open /\ Shown /\ ~ Unpins(m)
    <3>1. Open /\ opened' = opened /\ asked' = Append(asked, m)
      BY <1>2, <2>1 DEF ClientAsks, Open
    <3>2. opened \in 1 .. Len(asked)
      BY <1>0, <1>3, <3>1 DEF Marked, Scalars
    <3>3. /\ asked'[Len(asked) + 1] = m
          /\ \A k \in 1 .. Len(asked) : asked'[k] = asked[k]
      BY <1>0, <3>1
    <3>4. /\ Len(asked) + 1 \in opened + 1 .. Len(asked')
          /\ \A k \in opened + 1 .. Len(asked) :
                k \in opened + 1 .. Len(asked') /\ k \in 1 .. Len(asked)
      BY <1>0, <1>1, <3>2
    <3>5. ~ Unpins(m)
      BY <2>1, <3>1, <3>3, <3>4 DEF Shown
    <3>6. Shown
      BY <2>1, <3>1, <3>2, <3>3, <3>4 DEF Shown
    <3> QED
      BY <3>1, <3>5, <3>6
  <2>2. /\ ~ Unpins(m) /\ pinReason # "" => pin # ""
        /\ m.effect = "prepare" /\ Request(m).action = "pin" => pin # ""
        /\ EndsRecognised /\ m.effect \in Ends => pin = ""
    BY <1>5, RequestSuits
  <2> QED
    BY <1>4, <2>1, <2>2, Zenon DEF Suits
<1>8. executed' < Len(asked') /\ executed' # Len(asked')
  BY <1>0, <1>1, <1>2, <1>3
<1> QED
  BY <1>1, <1>6, <1>7, <1>8, Zenon DEF Plan

(* The backend executes: once its answer is inspected, the pin will be      *)
(* right again.                                                             *)
LEMMA PlanExecutes ==
  ASSUME Inv, Numbered, Marked, ~ Off, Plan, BackendExecutes
  PROVE  Marked' /\ Plan'
<1>0. /\ Scalars /\ Sequences /\ Len(asked) \in Nat /\ executed \in Nat
      /\ "client" \in Peers /\ "backend" \in Peers
  BY Copied
<1>1. /\ OnTheWay("client") = <<>> /\ OnTheWay("backend") = <<>>
      /\ asked' = asked /\ asked # <<>> /\ Current' = Current
      /\ executed + 1 = Len(asked) /\ executed' = Len(asked)
      /\ OnTheWay("backend")' # <<>>
  BY ExecutedIs
<1>2. PICK o \in Outcomes(Current.effect) :
         /\ txn' = o.txn /\ prepared' = o.prepared
         /\ opened' = IF o.txn = 0 /\ o.prepared = 0 THEN 0
                      ELSE IF Open THEN opened ELSE executed + 1
         /\ \A i \in 1 .. Len(OnTheWay("backend")') :
               OnTheWay("backend")'[i].view =
                  IF i = 1 THEN Response(o.tokens) ELSE Response(<<"result">>)
  BY ExecutedIs
<1>3. UNCHANGED <<out, held, call, pinReason>>
  BY DEF BackendExecutes, callVars
<1>4. PICK pin : pin = pinReason /\ Suits(Current, pin)
  <2>1. executed < Len(asked)
    BY <1>0, <1>1
  <2>2. Suits(Current, PinAfter("client"))
    BY <1>1, <2>1, Zenon DEF Plan
  <2>3. PinAfter("client") = pinReason
    BY <1>1 DEF PinAfter, Unseen
  <2> QED
    BY <2>2, <2>3, Zenon
<1>5. PICK m : m = Current
  OBVIOUS
<1>6. /\ Marked'
      /\ Settled(m, ApplyPinResult(pin, InspectResponse(o.tokens)))'
  <2>1. o \in Outcomes(m.effect) /\ Suits(m, pin)
    BY <1>4, <1>5
  <2>2. /\ Marked'
        /\ Open' /\ Shown' => ApplyPinResult(pin, InspectResponse(o.tokens)) # ""
    BY <1>0, <1>1, <1>2, <1>5, <2>1, ExecutionSettles
  <2>3. ASSUME EndsRecognised, m.effect \in Ends
        PROVE  ApplyPinResult(pin, InspectResponse(o.tokens)) = ""
    <3>1. pin = ""
      BY <2>1, <2>3, Zenon DEF Suits
    <3>2. txn \in Nat /\ prepared \in Nat
      BY <1>0 DEF Scalars
    <3> QED
      BY <2>1, <2>3, <3>1, <3>2, EndsSettle
  <2> QED
    BY <2>2, <2>3, Zenon DEF Settled
<1>7. PinAfter("backend")' = ApplyPinResult(pin, InspectResponse(o.tokens))
  <2>1. Passed("backend") = <<>>
    BY <1>0, <1>1, NothingPassed
  <2>2. Passed("backend")' = <<>>
    BY <1>3, <2>1 DEF Passed, Streamed, Streaming
  <2>3. Unseen("backend")'
    BY <1>1, <2>2 DEF Unseen
  <2>4. 1 \in 1 .. Len(OnTheWay("backend")')
    <3>1. Sequences'
      BY ExecutesStep
    <3>2. OnTheWay("backend")' \in Seq(PacketsFrom("backend"))
      BY <1>0, <3>1, FlowTypesNext
    <3> QED
      BY <1>1, <3>2
  <2>5. PICK x : x = OnTheWay("backend")'[1]
    OBVIOUS
  <2>6. x.view = Response(o.tokens)
    BY <1>2, <2>4, <2>5
  <2>7. x.view.tokens = o.tokens
    BY <2>6 DEF Response, Blank
  <2>8. Inspection("backend", x) = InspectResponse(o.tokens)
    BY <2>7 DEF Inspection
  <2> QED
    BY <1>3, <1>4, <2>3, <2>5, <2>8 DEF PinAfter, Inspection
<1>8. asked' # <<>> /\ ~ (executed' < Len(asked')) /\ Current' = m
  BY <1>0, <1>1, <1>5
<1> QED
  BY <1>6, <1>7, <1>8, Zenon DEF Plan

(* What has been sent is written on. *)
LEMMA PlanSends ==
  ASSUME Inv, Plan, NEW p \in Peers, Transmit(p)
  PROVE  Plan'
<1>0. Sequences
  BY DEF Inv
<1>1. /\ rest[p] # <<>>
      /\ wire' = [wire EXCEPT ![p] = Append(@, Head(rest[p]))]
      /\ rest' = [rest EXCEPT ![p] = Tail(@)]
      /\ UNCHANGED <<asked, executed, told, out, held, call, left, txn, prepared, opened, pinReason>>
  BY DEF Transmit, callVars
<1>2. Sending(p)
  BY <1>0, <1>1, SendStep
<1>3. \A q \in Peers : OnTheWay(q)' = OnTheWay(q)
  BY <1>2, SendingKeeps, OtherPeer
<1>4. \A q \in Peers : Passed(q)' = Passed(q)
  BY <1>1 DEF Passed, Streamed, Streaming
<1>5. \A q \in Peers : PinAfter(q)' = PinAfter(q)
  BY <1>1, <1>3, <1>4 DEF PinAfter, Unseen, Inspection
<1> QED
  BY <1>1, <1>5, PlanKept, Zenon DEF Peers

(* No packet moves. *)
LEMMA PlanStays ==
  ASSUME Plan, UNCHANGED <<asked, executed, txn, prepared, opened, rest, wire, out, held, call, pinReason>>
  PROVE  Plan'
<1>1. \A p \in Peers : PinAfter(p)' = PinAfter(p)
  BY DEF PinAfter, Unseen, Inspection, OnTheWay, Flow, Passed, Streamed, Streaming
<1> QED
  BY <1>1, PlanKept, Zenon DEF Peers

(* The packet that is read next comes after those that were read.           *)
LEMMA NextOnTheWay ==
  ASSUME Sequences, NEW p \in Peers, wire[p] # <<>>
  PROVE  /\ Len(Passed(p)) \in Nat
         /\ Passed(p) = <<>> <=> Len(Passed(p)) = 0
         /\ Len(Passed(p)) + 1 \in 1 .. Len(OnTheWay(p))
         /\ OnTheWay(p)[Len(Passed(p)) + 1] = Head(wire[p])
         /\ OnTheWay(p) # <<>>
<1>1. PICK S : /\ rest[p] \in Seq(S) /\ wire[p] \in Seq(S) /\ Passed(p) \in Seq(S)
               /\ Flow(p) \in Seq(S)
  BY FlowTypes DEF Passed
<1>2. PICK u, w, r : u = Passed(p) /\ w = wire[p] /\ r = rest[p]
  OBVIOUS
<1>3. /\ u \in Seq(S) /\ w \in Seq(S) /\ r \in Seq(S) /\ u \o w \in Seq(S)
      /\ w # <<>> /\ OnTheWay(p) = (u \o w) \o r
  BY <1>1, <1>2, ConcatProperties DEF OnTheWay, Flow, Passed
<1>4. /\ Len(u) \in Nat /\ Len(w) \in Nat \ {0} /\ Len(r) \in Nat
      /\ Len(u \o w) = Len(u) + Len(w)
      /\ Len((u \o w) \o r) = Len(u) + Len(w) + Len(r)
  BY <1>3, LenProperties, EmptySeq, ConcatProperties
<1>5. (u \o w)[Len(u) + 1] = w[1]
  BY <1>3, <1>4
<1>6. ((u \o w) \o r)[Len(u) + 1] = (u \o w)[Len(u) + 1]
  <2>1. PICK v \in Seq(S) : v = u \o w
    BY <1>3
  <2>2. Len(u) + 1 \in 1 .. Len(v)
    BY <1>4, <2>1
  <2>3. (v \o r)[Len(u) + 1] = v[Len(u) + 1]
    BY <1>3, <2>2
  <2> QED
    BY <2>1, <2>3
<1>7. Head(w) = w[1]
  BY <1>3
<1>8. Len(u) + 1 \in 1 .. Len(u) + Len(w) + Len(r) /\ (u = <<>> <=> Len(u) = 0)
  BY <1>3, <1>4, EmptySeq
<1>9. OnTheWay(p) # <<>>
  BY <1>3, <1>4
<1> QED
  BY <1>2, <1>3, <1>4, <1>5, <1>6, <1>7, <1>8, <1>9

(* The first packet of a message is inspected: the pin is what the plan     *)
(* expects.  A later one changes nothing, or is of a bulk load and pins.    *)
LEMMA PlanReads ==
  ASSUME Inv, Showing, ~ Off, Plan, NEW p \in Peers, RelayRead(p)
  PROVE  Plan'
<1>0. /\ Sequences /\ Copying(p) /\ Streaming(p) /\ call = Relaying
      /\ asked \in Seq(ClientSends) /\ Len(asked) \in Nat /\ executed \in Nat
  BY Copied
<1>1. PICK x : x = Head(wire[p])
  OBVIOUS
<1>2. /\ wire[p] # <<>> /\ copier[p] = "reading" /\ held' = [held EXCEPT ![p] = <<x>>]
      /\ pinReason' = ApplyPinResult(pinReason, Inspection(p, x))
      /\ UNCHANGED <<asked, executed, txn, prepared, opened, out, call>>
  BY <1>1 DEF RelayRead, Readable, Callback, CallbackAt, Inspection, peerVars, callVars
<1>3. PinAfter(p)' = pinReason'
  <2>1. held'[p] = <<x>>
    BY <1>0, <1>2 DEF Sequences
  <2>2. Streamed(p)' = Streamed(p)
    BY <1>2 DEF Streamed, Streaming
  <2>3. PICK S : Streamed(p) \in Seq(S)
    BY <1>0, FlowTypes
  <2>4. Streamed(p) \o <<x>> # <<>>
    <3>1. PICK T : T = S \union {x}
      OBVIOUS
    <3>2. Streamed(p) \in Seq(T) /\ <<x>> \in Seq(T) /\ <<x>> # <<>>
      BY <2>3, <3>1
    <3> QED
      BY <3>2, ConcatEqualIffEmpty
  <2>5. Passed(p)' # <<>>
    BY <2>1, <2>2, <2>4 DEF Passed
  <2> QED
    BY <2>5 DEF PinAfter, Unseen
<1>4. PICK k \in 1 .. Len(OnTheWay(p)) :
         x = OnTheWay(p)[k] /\ (Passed(p) = <<>> <=> k = 1)
  <2>1. PICK n \in Nat : n = Len(Passed(p))
    BY <1>0, <1>2, NextOnTheWay
  <2>2. n = 0 <=> n + 1 = 1
    OBVIOUS
  <2> QED
    BY <1>0, <1>1, <1>2, <2>1, <2>2, NextOnTheWay
<1>5. OnTheWay(p) # <<>>
  BY <1>0, <1>2, NextOnTheWay
<1>6. CASE Passed(p) = <<>>
  <2>1. PinAfter(p) = pinReason'
    BY <1>2, <1>4, <1>5, <1>6 DEF PinAfter, Unseen
  <2>2. PinAfter(p)' = PinAfter(p)
    BY <1>3, <2>1
  <2>3. CASE p = "client"
    <3>1. executed # Len(asked)
      BY <1>0, <1>5, <2>3, OneSideAtATime
    <3> QED
      BY <1>2, <2>2, <2>3, <3>1, PlanKept, Zenon
  <2>4. CASE p = "backend"
    <3>1. ~ (executed < Len(asked))
      BY <1>0, <1>5, <2>4, OneSideAtATime
    <3> QED
      BY <1>2, <2>2, <2>4, <3>1, PlanKept, Zenon
  <2> QED
    BY <2>3, <2>4 DEF Peers
<1>7. CASE Passed(p) # <<>>
  <2>1. PinAfter(p) = pinReason /\ k # 1
    BY <1>4, <1>7 DEF PinAfter, Unseen
  <2>2. CASE p = "backend"
    <3>1. x.view.tokens = <<"result">>
      BY <1>4, <2>1, <2>2 DEF Showing, Response, Blank
    <3>2. Inspection(p, x) = NoChange
      BY <2>2, <3>1, AnswersShow DEF Inspection
    <3>3. PinAfter(p)' = PinAfter(p)
      BY <1>2, <1>3, <2>1, <3>2, AppliedNothing
    <3>4. ~ (executed < Len(asked))
      BY <1>0, <1>5, <2>2, OneSideAtATime
    <3> QED
      BY <1>2, <2>2, <3>3, <3>4, PlanKept, Zenon
  <2>3. CASE p = "client"
    <3>1. x.type = Current.type /\ x.view = Blank
      BY <1>4, <2>1, <2>3 DEF Showing
    <3>2. Inspection(p, x) = IF Current.type = "bulk_load" THEN Pin("bulk_load") ELSE NoChange
      BY <2>3, <3>1, BlankShows DEF Inspection
    <3>3. executed < Len(asked) /\ executed # Len(asked)
      BY <1>0, <1>5, <2>3, OneSideAtATime
    <3>4. CASE Current.type # "bulk_load"
      <4>1. PinAfter(p)' = PinAfter(p)
        BY <1>2, <1>3, <2>1, <3>2, <3>4, AppliedNothing
      <4> QED
        BY <1>2, <2>3, <3>3, <4>1, PlanKept, Zenon
    <3>5. CASE Current.type = "bulk_load"
      <4>1. pinReason' # ""
        <5>1. Pin("bulk_load").action = "pin" /\ Pin("bulk_load").reason # ""
          BY DEF Pin
        <5> QED
          BY <1>2, <3>2, <3>5, <5>1, AppliedPin
      <4>2. ~ (EndsRecognised /\ Current.effect \in Ends)
        <5>1. Current \in ClientSends
          <6>1. Len(asked) \in 1 .. Len(asked)
            BY <1>0, <3>3
          <6> QED
            BY <1>0, <6>1, ElementOfSeq DEF Current
        <5>2. CASE Current \in Statements
          <6>1. Request(Current).action = "pin"
            BY <3>5 DEF Request, InspectPacket, Pin
          <6> QED
            BY <5>2, <6>1 DEF EndsRecognised
        <5>3. CASE Current \in PreLogins \union Login7s
          <6>1. Current.effect = "login"
            BY <5>3, ConstantsAssumption
          <6> QED
            BY <6>1 DEF Ends
        <5> QED
          BY <5>1, <5>2, <5>3 DEF ClientSends
      <4>3. PICK pin : pin = PinAfter(p)' /\ pin # ""
        BY <1>3, <4>1
      <4>4. Suits(Current, pin)
        BY <4>2, <4>3, Zenon DEF Suits
      <4> QED
        BY <1>2, <2>3, <3>3, <4>3, <4>4, PlanKept, Zenon
    <3> QED
      BY <3>4, <3>5
  <2> QED
    BY <2>2, <2>3 DEF Peers
<1> QED
  BY <1>6, <1>7

(* What was read of the packets under way, by their number.                 *)
LEMMA PassedLength ==
  ASSUME Sequences, NEW p \in Peers
  PROVE  /\ Len(OnTheWay(p)) = Len(Passed(p)) + Len(wire[p]) + Len(rest[p])
         /\ Len(wire[p]) \in Nat /\ Len(rest[p]) \in Nat /\ Len(Passed(p)) \in Nat
         /\ Passed(p) = <<>> <=> Len(Passed(p)) = 0
<1>1. PICK S : /\ rest[p] \in Seq(S) /\ wire[p] \in Seq(S) /\ Passed(p) \in Seq(S)
  BY FlowTypes DEF Passed
<1>2. PICK u, w, r : u = Passed(p) /\ w = wire[p] /\ r = rest[p]
  OBVIOUS
<1>3. /\ u \in Seq(S) /\ w \in Seq(S) /\ r \in Seq(S) /\ u \o w \in Seq(S)
      /\ OnTheWay(p) = (u \o w) \o r
  BY <1>1, <1>2, ConcatProperties DEF OnTheWay, Flow, Passed
<1>4. /\ Len(u) \in Nat /\ Len(w) \in Nat /\ Len(r) \in Nat
      /\ Len((u \o w) \o r) = Len(u) + Len(w) + Len(r)
  BY <1>3, LenProperties, ConcatProperties
<1>5. u = <<>> <=> Len(u) = 0
  BY <1>3, EmptySeq
<1> QED
  BY <1>2, <1>3, <1>4, <1>5

(* The same for the next state. *)
LEMMA PassedLengthNext ==
  (Sequences => \A p \in Peers :
      /\ Len(OnTheWay(p)) = Len(Passed(p)) + Len(wire[p]) + Len(rest[p])
      /\ Len(wire[p]) \in Nat /\ Len(rest[p]) \in Nat /\ Len(Passed(p)) \in Nat
      /\ Passed(p) = <<>> <=> Len(Passed(p)) = 0)'
<1>1. Sequences => \A p \in Peers :
         /\ Len(OnTheWay(p)) = Len(Passed(p)) + Len(wire[p]) + Len(rest[p])
         /\ Len(wire[p]) \in Nat /\ Len(rest[p]) \in Nat /\ Len(Passed(p)) \in Nat
         /\ Passed(p) = <<>> <=> Len(Passed(p)) = 0
  BY PassedLength
<1> QED
  BY <1>1, PTL

(* A packet that is written was inspected before.                           *)
LEMMA PlanWrites ==
  ASSUME Inv, ~ Off, Plan, NEW p \in Peers, RelayWrite(p)
  PROVE  Plan'
<1>0. Sequences /\ Len(asked) \in Nat /\ executed \in Nat
  BY Copied
<1>1. /\ held[p] # <<>>
      /\ UNCHANGED <<asked, executed, rest, wire, txn, prepared, opened, pinReason>>
  BY DEF RelayWrite, peerVars
<1>2. /\ OnTheWay(p)' = OnTheWay(p) \/ OnTheWay(p)' = <<>>
      /\ Sequences'
  BY <1>1, RelayWriteStep, Carries
<1>3. Passed(p) # <<>>
  <2>1. PICK S : Streamed(p) \in Seq(S) /\ held[p] \in Seq(S)
    BY <1>0, FlowTypes
  <2> QED
    BY <1>1, <2>1, ConcatEqualIffEmpty DEF Passed
<1>4. OnTheWay(p) # <<>>
  BY <1>0, <1>3, NothingPassed
<1>5. PinAfter(p) = pinReason
  BY <1>3 DEF PinAfter, Unseen
<1>6. ~ Unseen(p)'
  <2>1. CASE OnTheWay(p)' = <<>>
    BY <2>1 DEF Unseen
  <2>2. CASE OnTheWay(p)' = OnTheWay(p)
    <3>1. PICK a, b, c, d :
             /\ a = Len(Passed(p)) /\ b = Len(wire[p]) /\ c = Len(rest[p])
             /\ d = Len(Passed(p)')
      OBVIOUS
    <3>2. /\ a \in Nat /\ b \in Nat /\ c \in Nat /\ a # 0
          /\ Len(OnTheWay(p)) = a + b + c
      BY <1>0, <1>3, <3>1, PassedLength
    <3>3. d \in Nat /\ Len(OnTheWay(p)') = d + b + c /\ (Passed(p)' = <<>> <=> d = 0)
      BY <1>1, <1>2, <3>1, PassedLengthNext
    <3>4. d # 0
      BY <2>2, <3>2, <3>3
    <3> QED
      BY <3>3, <3>4 DEF Unseen
  <2> QED
    BY <1>2, <2>1, <2>2
<1>7. PinAfter(p)' = PinAfter(p)
  BY <1>1, <1>5, <1>6 DEF PinAfter
<1>8. CASE p = "client"
  <2>1. executed # Len(asked)
    BY <1>0, <1>4, <1>8, OneSideAtATime
  <2> QED
    BY <1>1, <1>7, <1>8, <2>1, PlanKept, Zenon
<1>9. CASE p = "backend"
  <2>1. ~ (executed < Len(asked))
    BY <1>0, <1>4, <1>9, OneSideAtATime
  <2> QED
    BY <1>1, <1>7, <1>9, <2>1, PlanKept, Zenon
<1> QED
  BY <1>8, <1>9 DEF Peers

(* Every step while packets are copied. *)
LEMMA PlanStep ==
  ASSUME Inv, Numbered, Showing, Marked, ~ Off, Plan, Next
  PROVE  Marked' /\ Plan'
<1>1. ASSUME UNCHANGED <<txn, prepared, opened>> PROVE Marked'
  BY <1>1 DEF Marked, Open
<1>2. ASSUME NEW m \in ClientSends, ClientAsks(m) PROVE Marked' /\ Plan'
  <2>2. Plan'
    BY <1>2, PlanAsks
  <2>3. UNCHANGED <<txn, prepared, opened>>
    BY <1>2 DEF ClientAsks
  <2> QED
    BY <1>1, <2>2, <2>3
<1>3. CASE BackendExecutes
  BY <1>3, PlanExecutes
<1>4. ASSUME NEW p \in Peers, Transmit(p) PROVE Marked' /\ Plan'
  <2>1. UNCHANGED <<txn, prepared, opened>>
    BY <1>4 DEF Transmit
  <2> QED
    BY <1>1, <1>4, <2>1, PlanSends
<1>5. ASSUME NEW p \in Peers, RelayRead(p) PROVE Marked' /\ Plan'
  <2>1. UNCHANGED <<txn, prepared, opened>>
    BY <1>5 DEF RelayRead, peerVars
  <2> QED
    BY <1>1, <1>5, <2>1, PlanReads
<1>6. ASSUME NEW p \in Peers, RelayWrite(p) PROVE Marked' /\ Plan'
  <2>1. UNCHANGED <<txn, prepared, opened>>
    BY <1>6 DEF RelayWrite, peerVars
  <2> QED
    BY <1>1, <1>6, <2>1, PlanWrites
<1>7. ASSUME \/ Deadline \/ RelayReturns \/ Cleanup
             \/ \E p \in Peers : HangUp(p) \/ RelayNext(p) \/ RelayError(p)
      PROVE  Marked' /\ Plan'
  <2>1. UNCHANGED <<asked, executed, txn, prepared, opened, rest, wire, out, held, call, pinReason>>
    BY <1>7 DEF Deadline, RelayReturns, Cleanup, HangUp, RelayNext, RelayError, Callback,
                CallbackAt, peerVars, callVars
  <2> QED
    BY <1>1, <2>1, PlanStays
<1>8. ~ MessageFunctions /\ ~ StartRelay
  BY RelayStaysOn
<1> QED
  BY <1>2, <1>3, <1>4, <1>5, <1>6, <1>7, <1>8, Zenon
     DEF Next, Environment, RelayStep, ClientSends

(* A session that starts has no state. *)
LEMMA InitPin == Init => PinInv
<1> SUFFICES ASSUME Init PROVE PinInv
  OBVIOUS
<1>1. Inv
  BY InitInv
<1>2. asked = <<>> /\ txn = 0 /\ prepared = 0
  BY Zenon DEF Init
<1>3. Calm
  <2>1. \A i : i \notin 1 .. Len(<<>>)
    OBVIOUS
  <2> QED
    BY <1>2, <2>1, Zenon DEF Calm
<1>4. Scalars
  BY <1>1 DEF Inv
<1>5. Marked /\ Plan
  BY <1>3, <1>4, CalmPlan
<1>6. OnTheWay("client") = <<>> /\ OnTheWay("backend") = <<>>
  <2>1. Len(asked) = 0
    BY <1>2
  <2>2. /\ Books /\ Requests \in Nat /\ Refused \in Nat /\ Answers \in Nat /\ executed \in Nat
    BY <1>1, OutTypes DEF Inv, Scalars, Refused
  <2> QED
    BY <2>1, <2>2 DEF Books
<1>7. Numbered
  <2>1. Requests = 0
    <3>1. out["backend"] = <<>>
      BY DEF Init, Peers
    <3>2. Len(Messages(<<>>)) = 0
      BY MessagesEmpty
    <3> QED
      BY <3>1, <3>2 DEF Requests
  <2> QED
    BY <1>6, <2>1 DEF Numbered
<1>8. Showing
  BY <1>6 DEF Showing
<1> QED
  BY <1>3, <1>5, <1>7, <1>8 DEF PinInv

(* PinInv is inductive whatever the client sends.                           *)
LEMMA PinStep == Inv /\ PinInv /\ [Next]_vars => PinInv'
<1> SUFFICES ASSUME Inv, PinInv, [Next]_vars PROVE PinInv'
  OBVIOUS
<1>0. Numbered /\ Showing /\ Marked /\ (Off => Calm) /\ Plan
  BY DEF PinInv
<1>1. CASE Next
  <2>1. Effect /\ Scalars'
    BY <1>1, InvStep DEF Inv
  <2>2. \/ \E m \in ClientSends : ClientAsks(m)
        \/ BackendExecutes
        \/ UNCHANGED <<asked, executed>>
    BY <1>1, PeersAlone
  <2>3. Numbered'
    BY <1>0, <2>1, <2>2, NumberedStep
  <2>4. Showing'
    BY <1>0, <2>1, <2>2, ShowingStep
  <2>5. CASE Off
    <3>1. Calm'
      BY <1>0, <1>1, <2>5, CalmStep
    <3>2. Marked' /\ Plan'
      BY <2>1, <3>1, CalmPlanNext
    <3> QED
      BY <2>3, <2>4, <3>1, <3>2 DEF PinInv
  <2>6. CASE ~ Off
    <3>1. Marked' /\ Plan'
      BY <1>0, <1>1, <2>6, PlanStep
    <3>2. ~ Off'
      BY <1>1, <2>6, RelayStaysOn
    <3> QED
      BY <2>3, <2>4, <3>1, <3>2 DEF PinInv
  <2> QED
    BY <2>5, <2>6
<1>2. CASE UNCHANGED vars
  <2>1. UNCHANGED <<asked, executed, txn, prepared, opened, rest, wire, out, held, call, pinReason,
                    copier>>
    BY <1>2 DEF vars, peerVars, callVars
  <2>2. \A p \in {"client", "backend"} : OnTheWay(p)' = OnTheWay(p)
    BY <2>1 DEF OnTheWay, Flow, Streamed, Streaming
  <2>3. Numbered'
    BY <1>0, <2>1, <2>2 DEF Numbered, Requests
  <2>4. Showing'
    BY <1>0, <2>1, <2>2 DEF Showing, Current
  <2>5. Marked'
    BY <1>0, <2>1 DEF Marked, Open
  <2>6. Off' => Calm'
    BY <1>0, <2>1, Zenon DEF Off, Calm
  <2>7. Plan'
    BY <1>0, <2>1, PlanStays
  <2> QED
    BY <2>3, <2>4, <2>5, <2>6, <2>7 DEF PinInv
<1> QED
  BY <1>1, <1>2

(* When nothing is under way the last answer was inspected.                 *)
LEMMA QuietSettled ==
  ASSUME Inv, PinInv, Quiet
  PROVE  Settled(Last(asked), pinReason)
<1>1. /\ asked # <<>> /\ executed = Len(asked) /\ Answers = Len(asked)
  BY DEF Quiet, Answered, Answers
<1>2. /\ Books /\ Len(asked) \in Nat
  BY DEF Inv, Scalars
<1>3. OnTheWay("backend") = <<>>
  BY <1>1, <1>2 DEF Books
<1>4. PinAfter("backend") = pinReason
  BY <1>3 DEF PinAfter, Unseen
<1>5. Settled(Current, PinAfter("backend"))
  BY <1>1, Zenon DEF PinInv, Plan
<1> QED
  BY <1>4, <1>5, Zenon DEF Current, Last

(* The pin is right whenever nothing is under way. *)
LEMMA PinSettled ==
  ASSUME Inv, PinInv
  PROVE  OpenStatePinned /\ (EndsRecognised => EndUnpins)
<1>1. ASSUME Quiet PROVE Settled(Last(asked), pinReason)
  BY <1>1, QuietSettled
<1>2. OpenStatePinned
  BY <1>1, Zenon DEF OpenStatePinned, Settled
<1>3. EndsRecognised => EndUnpins
  BY <1>1, Zenon DEF EndUnpins, Settled
<1> QED
  BY <1>2, <1>3

(* Whatever clients send, a session that holds a transaction or a prepared  *)
(* statement is pinned from the message that opened it to the first one     *)
(* that ends either: however many packets requests and answers have, and in *)
(* whichever order the two goroutines of Relay read and write them.         *)
THEOREM OpenStateIsPinned == Spec => []OpenStatePinned
<1>1. Init => Inv /\ PinInv
  BY InitInv, InitPin
<1>2. Inv /\ PinInv /\ [Next]_vars => (Inv /\ PinInv)'
  BY InvStep, PinStep
<1>3. Inv /\ PinInv => OpenStatePinned
  BY PinSettled
<1> QED
  BY <1>1, <1>2, <1>3, PTL DEF Spec

(* And when the last statement ended what it found, the session is not      *)
(* pinned any more, if ends are recognised: no result is applied after that *)
(* of a later packet, and no answer to an end pins.                         *)
THEOREM EndsUnpin ==
  ASSUME EndsRecognised
  PROVE  Spec => []EndUnpins
<1>1. Init => Inv /\ PinInv
  BY InitInv, InitPin
<1>2. Inv /\ PinInv /\ [Next]_vars => (Inv /\ PinInv)'
  BY InvStep, PinStep
<1>3. Inv /\ PinInv => EndUnpins
  BY PinSettled
<1> QED
  BY <1>1, <1>2, <1>3, PTL DEF Spec
=============================================================================
