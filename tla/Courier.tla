------------------------------ MODULE Courier ------------------------------
(***************************************************************************)
(* What the message functions of package tds promise together: messages    *)
(* travel whole, unchanged and in order.  A message that waits on one side *)
(* is passed to the other, or thrown away, or the client gets an answer of *)
(* the proxy in its place; nothing else arrives anywhere.                  *)
(***************************************************************************)
EXTENDS Integers, Sequences, SequencesExt

CONSTANTS Message, Refusal   \* what peers send, what the proxy says itself

VARIABLES
    pending,    \* messages on their way to the proxy and in it, by sender
    delivered   \* messages the proxy has written, by receiver

vars == <<pending, delivered>>

Peers == {"client", "backend"}

Other(p) == IF p = "client" THEN "backend" ELSE "client"

Init == pending = [p \in Peers |-> <<>>] /\ delivered = [p \in Peers |-> <<>>]

Send(p) ==
    /\ Len(pending'[p]) = Len(pending[p]) + 1
    /\ LET m == Last(pending'[p])
       IN  m \in Message /\ pending' = [pending EXCEPT ![p] = Append(@, m)]
    /\ UNCHANGED delivered

Take(p) == pending[p] # <<>> /\ pending' = [pending EXCEPT ![p] = Tail(@)]

Pass(p) == delivered' = [delivered EXCEPT ![Other(p)] = Append(@, Head(pending[p]))]

ThrowAway == UNCHANGED delivered

Refuse(p) ==
    /\ p = "client"
    /\ \E m \in Refusal : delivered' = [delivered EXCEPT !["client"] = Append(@, m)]

Next ==
    \E p \in Peers :
        \/ Send(p)
        \/ Take(p) /\ (Pass(p) \/ ThrowAway \/ Refuse(p))

Spec == Init /\ [][Next]_vars
=============================================================================
