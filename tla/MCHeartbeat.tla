---------------------------- MODULE MCHeartbeat ----------------------------
(* Finite instances of Heartbeat for TLC.                                  *)
EXTENDS Heartbeat

CONSTANTS p1, p2, p3

TwoProxies   == {p1, p2}
ThreeProxies == {p1, p2, p3}
=============================================================================
