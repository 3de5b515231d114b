------------------------------ MODULE MCServer ------------------------------
(* Finite instances of Server for TLC.                                     *)
EXTENDS Server

CONSTANTS a, b, c

TwoClients   == {a, b}
ThreeClients == {a, b, c}
=============================================================================
