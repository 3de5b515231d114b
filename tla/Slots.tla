------------------------------- MODULE Slots -------------------------------
(***************************************************************************)
(* What the distributed semaphore of one bucket promises to its callers: a *)
(* set of sessions that each hold one slot, never more of them than the    *)
(* limit of the bucket, whichever proxy instance they run on.  WaitQueue   *)
(* is shown to implement it; nothing of how the slots are counted, waited  *)
(* for or announced appears here.                                          *)
(***************************************************************************)
EXTENDS Integers, FiniteSets

CONSTANTS Sessions, MaxConnections

VARIABLE holders

Init == holders = {}

Take(s) == /\ s \notin holders
           /\ Cardinality(holders) < MaxConnections
           /\ holders' = holders \union {s}

Give(s) == /\ s \in holders
           /\ holders' = holders \ {s}

Next == \E s \in Sessions : Take(s) \/ Give(s)

Spec == Init /\ [][Next]_holders
=============================================================================
