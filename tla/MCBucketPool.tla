---------------------------- MODULE MCBucketPool ----------------------------
(* Finite instances of BucketPool for TLC.                                 *)
EXTENDS BucketPool

CONSTANTS a, b, c

TwoClients   == {a, b}
ThreeClients == {a, b, c}

SixConns == 1 .. 6
=============================================================================
