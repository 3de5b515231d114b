----------------------------- MODULE MCFallback -----------------------------
(* Finite instances of Fallback for TLC.                                   *)
EXTENDS Fallback, TLC

CONSTANTS p1, p2, a, b, c

TwoProxies   == {p1, p2}

(* The instance that receives a stop. *)
OneProxy == {p1}

(* Enough sessions to see AllInFallbackWithinLimit fail. *)
ThreeClients == {a, b, c}
ThreeHomes   == (a :> p1) @@ (b :> p1) @@ (c :> p2)

TwoClients == {a, b}
TwoHomes   == (a :> p1) @@ (b :> p2)
=============================================================================
