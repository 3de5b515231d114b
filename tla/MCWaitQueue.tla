---------------------------- MODULE MCWaitQueue ----------------------------
(* Finite instances of WaitQueue for TLC.                                  *)
EXTENDS WaitQueue, TLC

CONSTANTS p1, p2, a, b, d

(* Two sessions on one instance and one on another. *)
TwoProxies   == {p1, p2}
ThreeClients == {a, b, d}
ThreeHomes   == (a :> p1) @@ (b :> p1) @@ (d :> p2)
=============================================================================
