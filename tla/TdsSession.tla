----------------------------- MODULE TdsSession -----------------------------
(***************************************************************************)
(* A session served with the functions of package tds: the message         *)
(* functions of the login phase and Relay with its callback                *)
(* (internal/tds/relay.go, prelogin.go), and the Pre-Login and the errors  *)
(* of Session.Handle (internal/proxy/handler.go).                          *)
(*                                                                         *)
(* The binary itself runs Handle, which copies bytes after the Pre-Login   *)
(* (module Server); Relay with the inspection of Pinning as its callback   *)
(* is the documented way to switch pinning on.  Before Relay the caller    *)
(* may call any function in any order.                                     *)
(*                                                                         *)
(* A client sends a message when its last one is answered; the backend     *)
(* answers a message when it has all of it.  Either may leave at any time. *)
(***************************************************************************)
EXTENDS Packets, Pinning

CONSTANTS
    PreLogins, Login7s,   \* what a client may send while it logs in
    Statements,           \* and afterwards
    ReplySizes,           \* sizes of the backend's answers
    BucketNames,          \* texts that may be the ID of the bucket
    MaxLogins,            \* messages of the client before Relay
    MaxMessages,          \* and in the whole session
    MaxFailures           \* peers that leave, or the deadline

ASSUME ConstantsAssumption ==
    /\ \A m \in PreLogins : m.type = "prelogin" /\ m.effect = "login"
    /\ \A m \in Login7s : m.type = "login7" /\ m.effect = "login"
    /\ \A m \in PreLogins \union Login7s \union Statements :
          m.payload.size \in Nat /\ m.packetSize \in Int
    /\ ReplySizes \subseteq Nat
    /\ BucketNames \subseteq [runes : Nat, bytes : Nat, units : Nat]
    /\ MaxMessages \in Nat \ {0} /\ MaxLogins \in 0 .. MaxMessages /\ MaxFailures \in Nat

VARIABLES
    asked,        \* the messages of the client so far
    executed,     \* how many of them the backend has executed
    txn,          \* @@TRANCOUNT of the backend's session
    prepared,     \* prepared statements that are open there
    opened,       \* history: the message since which one or the other is,
                  \* 0 while nothing is open
    rest,         \* packets each peer is about to send
    wire,         \* packets sent to the proxy and not yet read, by sender
    up,           \* peers that have not left
    out,          \* packets the proxy has written, by receiver
    expired,      \* the deadline of the client's connection has passed
    sockets,      \* the proxy's two connections are open
    pc,           \* where the session's goroutine is
    call,         \* the function it is in and the side that function reads
    held,         \* packets read and not yet disposed of, by sender
    left,         \* packets WritePackets has yet to write
    copier,       \* the two goroutines of Relay, by the side they read
    pinReason,    \* s.pinReason; s.pinned is pinReason # ""
    told          \* texts of the error the client was refused with

peerVars == <<asked, executed, txn, prepared, opened, rest, up>>
callVars == <<pc, call, left>>
vars == <<peerVars, wire, out, expired, sockets, callVars, held, copier, pinReason, told>>

-----------------------------------------------------------------------------
Peers == {"client", "backend"}

Other(p) == IF p = "client" THEN "backend" ELSE "client"

Checking  == {"Handle", "ForwardPreLogin", "ForwardLogin7"}
Exchanges == {"Handle", "ForwardPreLogin"}   \* they also pass the answer on

Calls ==
    [fn : Checking, from : {"client"}]
        \union [fn : {"RelayMessage", "RelayUntilEOM"}, from : Peers]
        \union {[fn |-> "DrainResponse", from |-> "backend"]}

Relaying == [fn |-> "Relay", from |-> "client"]

Own == MaxMessages + 1   \* the number of the proxy's own message

Proxy == [runes |-> 5, bytes |-> 5, units |-> 5]   \* the server name "proxy"

(* Fixed characters of ErrQueueFull, ErrQueueTimeout, ErrBackendUnavailable. *)
ErrorTexts == {95, 118, 48}

(* What a client is told, with the ID of its bucket. *)
Refusals == {Joined(text, name) : text \in ErrorTexts, name \in BucketNames}

ErrorFor(message) == ErrorToken(message, Proxy)

(* BuildErrorResponse: the tokens ERROR and DONE in packets of 4096. *)
BuildErrorResponse(message) ==
    BuildPackets([type |-> "reply", of |-> Own, view |-> Blank, later |-> Blank,
                  size |-> TokenSize(ErrorFor(message)) + DoneSize], DefaultPacketSize)

Init ==
    /\ asked = <<>> /\ executed = 0 /\ txn = 0 /\ prepared = 0 /\ opened = 0
    /\ rest = [p \in Peers |-> <<>>] /\ wire = [p \in Peers |-> <<>>]
    /\ up = Peers /\ out = [p \in Peers |-> <<>>]
    /\ expired = FALSE /\ sockets = TRUE
    /\ pc = "idle" /\ call = Relaying
    /\ held = [p \in Peers |-> <<>>] /\ left = <<>>
    /\ copier = [p \in Peers |-> "off"]
    /\ pinReason = "" /\ told = {}

-----------------------------------------------------------------------------
(* The peers. *)

Answered == Len(Messages(out["client"])) = Len(asked) /\ rest["client"] = <<>>

Sendable == IF pc = "relaying" THEN Statements ELSE PreLogins \union Login7s

Cut(m, number) ==
    BuildPackets([type |-> m.type, of |-> number, size |-> m.payload.size,
                  view |-> m.view, later |-> Blank], m.packetSize)

ClientAsks(m) ==
    /\ "client" \in up
    /\ Answered
    /\ Len(asked) < IF pc = "relaying" THEN MaxMessages ELSE MaxLogins
    /\ m \in Sendable
    /\ asked' = Append(asked, m)
    /\ rest' = [rest EXCEPT !["client"] = Cut(m, Len(asked) + 1)]
    /\ UNCHANGED <<executed, txn, prepared, opened, up, wire, out, expired, sockets,
                   callVars, held, copier, pinReason, told>>

(* What a statement does to the backend's session, and the tokens it gives.  *)
(* An unprepare names an open handle, or is refused.                        *)
Outcomes(effect) ==
    LET Same(tokens) == [txn |-> txn, prepared |-> prepared, tokens |-> tokens]
    IN CASE effect = "begin" ->
              {[Same(IF txn = 0 THEN <<"begin", "done">> ELSE <<"done">>)
                   EXCEPT !.txn = txn + 1]}
         [] effect = "commit" /\ txn > 0 ->
              {[Same(IF txn = 1 THEN <<"commit", "done">> ELSE <<"done">>)
                   EXCEPT !.txn = txn - 1]}
         [] effect = "rollback" /\ txn > 0 ->
              {[Same(<<"rollback", "done">>) EXCEPT !.txn = 0]}
         [] effect = "insert and begin" ->
              {[Same(IF txn = 0 THEN <<"done", "begin", "done">> ELSE <<"done", "done">>)
                   EXCEPT !.txn = txn + 1]}
         [] effect = "prepare" ->
              {[Same(<<"result">>) EXCEPT !.prepared = prepared + 1], Same(<<"error">>)}
         [] effect = "unprepare" /\ prepared > 0 ->
              {[Same(<<"result">>) EXCEPT !.prepared = prepared - 1]}
         [] effect = "query" ->
              {Same(<<"result">>), [Same(<<"error", "rollback", "done">>) EXCEPT !.txn = 0]}
         [] OTHER -> {Same(<<"error">>)}

(* The session cannot be given to another client. *)
Open == txn > 0 \/ prepared > 0

BackendExecutes ==
    /\ "backend" \in up /\ rest["backend"] = <<>>
    /\ executed < Len(Messages(out["backend"]))
    /\ \E size \in ReplySizes,
          o \in Outcomes(asked[Messages(out["backend"])[executed + 1].of].effect) :
          /\ txn' = o.txn /\ prepared' = o.prepared
          /\ opened' = IF o.txn = 0 /\ o.prepared = 0 THEN 0
                       ELSE IF Open THEN opened ELSE executed + 1
          /\ rest' = [rest EXCEPT !["backend"] =
                BuildPackets([type |-> "reply", of |-> executed + 1, size |-> size,
                              view |-> Response(o.tokens), later |-> Response(<<"result">>)],
                             DefaultPacketSize)]
    /\ executed' = executed + 1
    /\ UNCHANGED <<asked, up, wire, out, expired, sockets, callVars, held, copier,
                   pinReason, told>>

Transmit(p) ==
    /\ p \in up /\ rest[p] # <<>>
    /\ wire' = [wire EXCEPT ![p] = Append(@, Head(rest[p]))]
    /\ rest' = [rest EXCEPT ![p] = Tail(@)]
    /\ UNCHANGED <<asked, executed, txn, prepared, opened, up, out, expired, sockets,
                   callVars, held, copier, pinReason, told>>

Failures == Cardinality(Peers \ up) + IF expired THEN 1 ELSE 0

HangUp(p) ==
    /\ p \in up /\ Failures < MaxFailures
    /\ up' = up \ {p}
    /\ UNCHANGED <<asked, executed, txn, prepared, opened, rest, wire, out, expired,
                   sockets, callVars, held, copier, pinReason, told>>

(* session_timeout, set on the client's connection when the session starts. *)
Deadline ==
    /\ sockets /\ ~expired /\ Failures < MaxFailures
    /\ expired' = TRUE
    /\ UNCHANGED <<peerVars, wire, out, sockets, callVars, held, copier, pinReason, told>>

-----------------------------------------------------------------------------
(* Reading and writing one packet. *)

Readable(p) ==
    /\ sockets /\ ~(p = "client" /\ expired)
    /\ wire[p] # <<>> /\ ParseHeader(Head(wire[p]))

ReadFails(p) ==
    \/ ~sockets \/ (p = "client" /\ expired)
    \/ wire[p] # <<>> /\ ~ParseHeader(Head(wire[p]))
    \/ wire[p] = <<>> /\ p \notin up

Writable(p) == sockets /\ ~(p = "client" /\ expired)

WriteFails(p) == ~Writable(p) \/ p \notin up

Received(p) == wire' = [wire EXCEPT ![p] = Tail(@)]

Wrote(p, packet) == out' = [out EXCEPT ![p] = Append(@, packet)]

-----------------------------------------------------------------------------
(* The message functions. *)

Begin(c) ==
    /\ pc = "idle" /\ c \in Calls
    /\ pc' = "reading" /\ call' = c
    /\ UNCHANGED <<peerVars, wire, out, expired, sockets, held, left, copier, pinReason, told>>

(* The type and the parse that come before anything is forwarded. *)
Approved(packets) ==
    call.fn \in Checking /\ call.from = "client" =>
        LET m == asked[Assemble(packets).of] IN
        IF call.fn = "ForwardLogin7"
        THEN m.type = "login7" /\ ParseLogin7(m.payload)
        ELSE m.type = "prelogin" /\ ParsePreLogin(m.payload)

(* ForwardPreLogin cuts the client's payload into packets of its own. *)
Outgoing(packets) ==
    IF call = [fn |-> "ForwardPreLogin", from |-> "client"]
    THEN LET m == Assemble(packets)
         IN  BuildPackets([type |-> m.type, of |-> m.of, size |-> m.size,
                           view |-> Blank, later |-> Blank], DefaultPacketSize)
    ELSE packets

(* ReadMessage, while the message goes on. *)
ReadPart ==
    /\ pc = "reading" /\ call.fn # "RelayUntilEOM"
    /\ Readable(call.from) /\ ~Head(wire[call.from]).eom
    /\ Received(call.from)
    /\ held' = [held EXCEPT ![call.from] = Append(@, Head(wire[call.from]))]
    /\ UNCHANGED <<peerVars, out, expired, sockets, callVars, copier, pinReason, told>>

(* ReadMessage ends; the message is checked and its packets are prepared. *)
ReadLast ==
    /\ pc = "reading" /\ call.fn \notin {"RelayUntilEOM", "DrainResponse"}
    /\ Readable(call.from) /\ Head(wire[call.from]).eom
    /\ Received(call.from)
    /\ LET packets == Append(held[call.from], Head(wire[call.from])) IN
       /\ held' = [held EXCEPT ![call.from] = packets]
       /\ IF Approved(packets)
          THEN pc' = "writing" /\ left' = Outgoing(packets)
          ELSE pc' = "ending" /\ UNCHANGED left
    /\ UNCHANGED <<peerVars, out, expired, sockets, call, copier, pinReason, told>>

(* Mutant of DrainedAt: the first packet is taken for the whole answer. *)
DrainedAtOnce(packet) == TRUE

DrainedAt(packet) == packet.eom

(* DrainResponse: every packet up to EOM is read and thrown away. *)
Drain ==
    /\ pc = "reading" /\ call.fn = "DrainResponse"
    /\ Readable("backend") /\ DrainedAt(Head(wire["backend"]))
    /\ Received("backend")
    /\ held' = [held EXCEPT !["backend"] = <<>>]
    /\ pc' = "idle"
    /\ UNCHANGED <<peerVars, out, expired, sockets, call, left, copier, pinReason, told>>

(* RelayUntilEOM reads one packet and writes it. *)
ReadOne ==
    /\ pc = "reading" /\ call.fn = "RelayUntilEOM"
    /\ Readable(call.from)
    /\ Received(call.from)
    /\ held' = [held EXCEPT ![call.from] = <<Head(wire[call.from])>>]
    /\ left' = <<Head(wire[call.from])>>
    /\ pc' = "writing"
    /\ UNCHANGED <<peerVars, out, expired, sockets, call, copier, pinReason, told>>

ReadError ==
    /\ pc = "reading" /\ ReadFails(call.from)
    /\ pc' = "ending"
    /\ UNCHANGED <<peerVars, wire, out, expired, sockets, call, left, held, copier,
                   pinReason, told>>

(* WritePackets, one packet. *)
WritePart ==
    /\ pc = "writing" /\ Len(left) > 1
    /\ Writable(Other(call.from))
    /\ Wrote(Other(call.from), Head(left))
    /\ left' = Tail(left)
    /\ UNCHANGED <<peerVars, wire, expired, sockets, pc, call, held, copier, pinReason, told>>

(* The last one: the function goes on with the answer, or returns. *)
WriteLast ==
    /\ pc = "writing" /\ Len(left) = 1
    /\ Writable(Other(call.from))
    /\ Wrote(Other(call.from), Head(left))
    /\ left' = <<>> /\ held' = [held EXCEPT ![call.from] = <<>>]
    /\ IF call.fn \in Exchanges /\ call.from = "client"
       THEN pc' = "reading" /\ call' = [call EXCEPT !.from = "backend"]
       ELSE /\ pc' = IF call.fn = "RelayUntilEOM" /\ ~Head(left).eom THEN "reading" ELSE "idle"
            /\ UNCHANGED call
    /\ UNCHANGED <<peerVars, wire, expired, sockets, copier, pinReason, told>>

WriteError ==
    /\ pc = "writing" /\ WriteFails(Other(call.from))
    /\ pc' = "ending"
    /\ UNCHANGED <<peerVars, wire, out, expired, sockets, call, left, held, copier,
                   pinReason, told>>

(* Handle has the Pre-Login but no slot, or no backend: the client is told, *)
(* in a text with the ID of the bucket.                                     *)
RefuseSession(message) ==
    /\ pc = "writing" /\ call = [fn |-> "Handle", from |-> "client"]
    /\ left = held["client"] /\ Writable("client")
    /\ out' = [out EXCEPT !["client"] = @ \o BuildErrorResponse(message)]
    /\ held' = [held EXCEPT !["client"] = <<>>] /\ left' = <<>>
    /\ pc' = "ending" /\ told' = {message}
    /\ UNCHANGED <<peerVars, wire, expired, sockets, call, copier, pinReason>>

-----------------------------------------------------------------------------
(* Relay. *)

StartRelay ==
    /\ pc = "idle"
    /\ pc' = "relaying" /\ call' = Relaying
    /\ copier' = [p \in Peers |-> "reading"]
    /\ UNCHANGED <<peerVars, wire, out, expired, sockets, left, held, pinReason, told>>

(* Mutant of CallbackAt: a packet is inspected after it was forwarded. *)
CallbackAfterWrite == "written"

(* relayDirection invokes the callback between the read and the write. *)
CallbackAt == "read"

(* The callback, if this is the point where it is invoked. *)
Callback(point, p, packet) ==
    pinReason' =
        IF point # CallbackAt THEN pinReason
        ELSE ApplyPinResult(pinReason,
                 IF p = "client" THEN InspectPacket(packet.type, packet.view)
                 ELSE InspectResponse(packet.view.tokens))

RelayRead(p) ==
    /\ copier[p] = "reading" /\ Readable(p)
    /\ Received(p)
    /\ held' = [held EXCEPT ![p] = <<Head(wire[p])>>]
    /\ Callback("read", p, Head(wire[p]))
    /\ copier' = [copier EXCEPT ![p] = "writing"]
    /\ UNCHANGED <<peerVars, out, expired, sockets, callVars, told>>

RelayWrite(p) ==
    /\ copier[p] = "writing" /\ held[p] # <<>> /\ Writable(Other(p))
    /\ Wrote(Other(p), Head(held[p]))
    /\ held' = [held EXCEPT ![p] = <<>>]
    /\ copier' = [copier EXCEPT ![p] = "written"]
    /\ UNCHANGED <<peerVars, wire, expired, sockets, callVars, pinReason, told>>

(* The next round of the loop; the last packet is the one just written. *)
RelayNext(p) ==
    /\ copier[p] = "written"
    /\ Callback("written", p, Last(out[Other(p)]))
    /\ copier' = [copier EXCEPT ![p] = "reading"]
    /\ UNCHANGED <<peerVars, wire, out, expired, sockets, callVars, held, told>>

(* An error ends this direction; the first one to end ends Relay. *)
RelayError(p) ==
    /\ \/ copier[p] = "reading" /\ ReadFails(p)
       \/ copier[p] = "writing" /\ WriteFails(Other(p))
    /\ copier' = [copier EXCEPT ![p] = "ended"]
    /\ UNCHANGED <<peerVars, wire, out, expired, sockets, callVars, held, pinReason, told>>

RelayReturns ==
    /\ pc = "relaying" /\ \E p \in Peers : copier[p] = "ended"
    /\ pc' = "ending"
    /\ UNCHANGED <<peerVars, wire, out, expired, sockets, call, left, held, copier,
                   pinReason, told>>

(* Mutant of Closed: the clean-up leaves the connections open. *)
NeverClosed == sockets

(* The connections after cleanup. *)
Closed == FALSE

Cleanup ==
    /\ pc = "ending"
    /\ pc' = "closed" /\ sockets' = Closed
    /\ UNCHANGED <<peerVars, wire, out, expired, call, left, held, copier, pinReason, told>>

-----------------------------------------------------------------------------
MessageFunctions ==
    \/ \E c \in Calls : Begin(c)
    \/ ReadPart \/ ReadLast \/ Drain \/ ReadOne \/ ReadError
    \/ WritePart \/ WriteLast \/ WriteError
    \/ \E message \in Refusals : RefuseSession(message)

RelayStep(p) == RelayRead(p) \/ RelayWrite(p) \/ RelayNext(p) \/ RelayError(p)

Environment ==
    \/ \E m \in PreLogins \union Login7s : ClientAsks(m)
    \/ \E m \in Statements : ClientAsks(m)
    \/ BackendExecutes \/ Deadline
    \/ \E p \in Peers : Transmit(p) \/ HangUp(p)

Next ==
    \/ Environment \/ MessageFunctions
    \/ StartRelay \/ RelayReturns \/ Cleanup
    \/ \E p \in Peers : RelayStep(p)

Spec == Init /\ [][Next]_vars

(* The goroutines run, the deadline passes, and the backend takes what is   *)
(* written to it; neither peer has to say anything, or to leave.            *)
Fairness ==
    /\ WF_vars(Deadline)
    /\ WF_vars(RelayReturns) /\ WF_vars(Cleanup)
    /\ \A p \in Peers : WF_vars(RelayStep(p))

FairSpec == Spec /\ Fairness

-----------------------------------------------------------------------------
(* Properties. *)

(* The type invariant. *)
TypeOK ==
    /\ asked \in Seq(PreLogins \union Login7s \union Statements)
    /\ executed \in 0 .. MaxMessages
    /\ txn \in Nat /\ prepared \in Nat /\ opened \in 0 .. executed
    /\ up \subseteq Peers /\ expired \in BOOLEAN /\ sockets \in BOOLEAN
    /\ pc \in {"idle", "reading", "writing", "relaying", "ending", "closed"}
    /\ call.from \in Peers /\ (pc = "reading" => call.fn # "Relay")
    /\ copier \in [Peers -> {"off", "reading", "writing", "written", "ended"}]
    /\ pinReason \in {"", "transaction", "prepared", "temp_table", "bulk_load"}
    /\ told \subseteq Refusals

(* In a stream what was written is done; elsewhere the function still has   *)
(* the whole message until the last packet is written.                      *)
Streaming(p) == call.fn = "Relay" \/ call = [fn |-> "RelayUntilEOM", from |-> p]

Pending(p) ==
    Messages((IF Streaming(p) THEN Unfinished(out[Other(p)]) ELSE <<>>) \o held[p] \o wire[p])

AnyMessage ==
    [type : {m.type : m \in PreLogins \union Login7s} \union {m.type : m \in Statements}
                \union {"reply"},
     of : 1 .. MaxMessages,
     size : {m.payload.size : m \in PreLogins \union Login7s}
                \union {m.payload.size : m \in Statements} \union ReplySizes]

AnyRefusal ==
    [type : {"reply"}, of : {Own},
     size : {TokenSize(ErrorFor(message)) + DoneSize : message \in Refusals}]

Abstract ==
    INSTANCE Courier WITH
        Message <- AnyMessage, Refusal <- AnyRefusal,
        pending <- [p \in Peers |-> Pending(p)],
        delivered <- [p \in Peers |-> Messages(out[p])]

(* Messages arrive whole, unchanged and in order although they are read,    *)
(* cut anew, inspected and written packet by packet, and although a peer    *)
(* may leave in the middle of one (relay.go and prelogin.go: "mensagem      *)
(* completa").                                                              *)
ImplementsCourier == Abstract!Spec

(* What the inspection of a request says. *)
Request(m) == InspectPacket(m.type, m.view)

Ends == {"commit", "rollback", "unprepare"}

(* After this message pinning.go may unpin: it ends a transaction or a     *)
(* prepared statement, or is taken for one that does.                      *)
Unpins(m) == m.effect \in Ends \/ Request(m).action = "unpin"

(* The inspection had its chance: no such message came after the one that  *)
(* opened what is open, and if that was a preparation, which no answer     *)
(* tells, the request showed it.                                           *)
Shown ==
    LET first == asked[opened] IN
    /\ first.effect = "prepare" => Request(first).action = "pin"
    /\ \A k \in opened + 1 .. Len(asked) : ~Unpins(asked[k])

(* Every end is seen in the request. *)
EndsRecognised ==
    \A m \in Statements : m.effect \in Ends => Request(m).action = "unpin"

(* Nothing is under way: the client has the answer to all it asked. *)
Quiet ==
    /\ pc = "relaying" /\ asked # <<>>
    /\ Answered /\ executed = Len(asked)

(* From the message that opens a transaction or prepares a statement up to *)
(* the first one that ends either, the session is pinned whenever the      *)
(* client has its answers: a begin that only the answer tells is seen, no  *)
(* other statement and no refused one unpins, and no packet is inspected   *)
(* too late, however those of both directions were interleaved (relay.go   *)
(* inspects before it forwards).  After the first end it does not hold     *)
(* (PinnedWhileOpen below).                                                *)
OpenStatePinned == Quiet /\ Open /\ Shown => pinReason # ""

(* And when its end has been confirmed, the session is not pinned any more: *)
(* no inspection of an earlier packet is applied after that of a later one. *)
EndUnpins ==
    Quiet /\ Last(asked).effect \in Ends /\ txn = 0
        => pinReason = ""

(* A client that is refused can decode the error: the length fields agree   *)
(* with what follows them, for a bucket whose ID is plain ASCII.            *)
ErrorReadable ==
    \A message \in told :
        message.bytes = message.units => Decodable(ErrorFor(message))

(* Relay ends when either side ends or the session's deadline passes, and   *)
(* once the connections are closed neither of its goroutines stays behind.  *)
RelayEnds ==
    pc = "relaying" ~> pc = "closed" /\ \A p \in Peers : copier[p] = "ended"

-----------------------------------------------------------------------------
(* Statements of the repository that the code does not keep. *)

(* 01-ENTENDIMENTO-TECNICO.md:151-152, 268-305: a transaction is pinned up *)
(* to its COMMIT or ROLLBACK and a prepared statement up to its            *)
(* sp_unprepare, each for itself.  s.pinned is a single flag, which the    *)
(* end of either takes away.                                               *)
PinnedWhileOpen == Quiet /\ Open => pinReason # ""

(* error.go:51, MsgTextLength counts characters; a bucket whose ID is not   *)
(* ASCII gives a text with more bytes than characters.                      *)
ErrorAlwaysReadable == \A message \in told : Decodable(ErrorFor(message))
=============================================================================
