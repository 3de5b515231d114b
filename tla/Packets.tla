------------------------------ MODULE Packets ------------------------------
(***************************************************************************)
(* The formats of package tds as operators: packets and messages           *)
(* (internal/tds/packet.go), the option table of a Pre-Login               *)
(* (prelogin.go), the field table of a Login7 (login7.go) and the ERROR    *)
(* token (error.go).                                                       *)
(*                                                                         *)
(* Lengths, offsets and counters have their real widths.  The bytes they   *)
(* delimit do not appear: a packet says which part of the payload of which *)
(* message it carries (of, from, size), and what an inspection of its      *)
(* payload finds (view).                                                   *)
(***************************************************************************)
EXTENDS Integers, Sequences, SequencesExt

HeaderSize        == 8
MaxPacketSize     == 32768
DefaultPacketSize == 4096

Uint8(n)  == n % 256
Uint16(n) == n % 65536

Least(m, n) == IF m < n THEN m ELSE n

-----------------------------------------------------------------------------
(* Packets *)

(* What a reader does with a header; the Length field includes the header. *)
ParseHeader(packet) ==
    HeaderSize <= packet.length /\ packet.length <= MaxPacketSize

(* The payload of a message cut into packets; an empty one gives one packet. *)
BuildPackets(message, packetSize) ==
    LET most == (IF packetSize <= HeaderSize THEN DefaultPacketSize
                 ELSE packetSize) - HeaderSize
        Packet(i) ==
            LET from  == (i - 1) * most
                left  == message.size - from
                chunk == Least(most, left)
            IN  [type |-> message.type, id |-> Uint8(i - 1),
                 eom |-> chunk >= left,
                 length |-> Uint16(HeaderSize + chunk),
                 of |-> message.of, from |-> from, size |-> chunk,
                 view |-> IF i = 1 THEN message.view ELSE message.later]
        number == IF message.size = 0 THEN 1 ELSE (message.size + most - 1) \div most
    IN  [i \in 1 .. number |-> Packet(i)]

(* The payload that ReadMessage puts together is one payload, whole. *)
Contiguous(packets) ==
    \A i \in 1 .. Len(packets) :
        /\ packets[i].of = packets[1].of
        /\ packets[i].from = IF i = 1 THEN 0
                             ELSE packets[i - 1].from + packets[i - 1].size

(* ReadMessage: the type of the first packet and the payloads in a row. *)
Assemble(packets) ==
    [type |-> packets[1].type,
     of   |-> IF Contiguous(packets) THEN packets[1].of ELSE 0,
     size |-> Last(packets).from + Last(packets).size]

(* The packets of a stream after its last complete message. *)
Unfinished(stream) ==
    LET begun[n \in 0 .. Len(stream)] ==
            IF n = 0 \/ stream[n].eom THEN <<>> ELSE Append(begun[n - 1], stream[n])
    IN  begun[Len(stream)]

(* The complete messages of a stream. *)
Messages(stream) ==
    LET Ending(n) == Append(Unfinished(SubSeq(stream, 1, n - 1)), stream[n])
        complete[n \in 0 .. Len(stream)] ==
            IF n = 0 THEN <<>>
            ELSE IF stream[n].eom THEN Append(complete[n - 1], Assemble(Ending(n)))
            ELSE complete[n - 1]
    IN  complete[Len(stream)]

-----------------------------------------------------------------------------
(* Pre-Login.  An option is [token, offset, length]: where its data lies.  *)
(* A payload is [size, options, terminated].                               *)

OptionSize == 5

(* ParsePreLogin: a table cut short and data out of bounds are errors. *)
ParsePreLogin(payload) ==
    /\ payload.size >= 1
    /\ IF payload.terminated
       THEN OptionSize * Len(payload.options) + 1 <= payload.size
       ELSE OptionSize * Len(payload.options) = payload.size
    /\ \A i \in 1 .. Len(payload.options) :
           payload.options[i].offset + payload.options[i].length <= payload.size

-----------------------------------------------------------------------------
(* Login7.  A payload is [size, fields]: for each field that is read, its  *)
(* offset and its number of UTF-16 characters.                             *)

MinLogin7Size == 72

(* HostName, UserName, AppName, ServerName, CltIntName, Database. *)
FieldPositions == {36, 40, 48, 52, 60, 68}

(* readField: an empty field is not looked up, whatever its offset. *)
ReadField(payload, position) ==
    \/ payload.fields[position].cch = 0
    \/ payload.fields[position].ib + 2 * payload.fields[position].cch <= payload.size

ParseLogin7(payload) ==
    /\ payload.size >= MinLogin7Size
    /\ \A position \in FieldPositions : ReadField(payload, position)

-----------------------------------------------------------------------------
(* The ERROR token.  A text is [runes, bytes, units]: its length in        *)
(* characters, in bytes of UTF-8 and in units of UTF-16.                   *)

DoneSize == 13

Joined(text, name) ==
    [runes |-> text + name.runes, bytes |-> text + name.bytes, units |-> text + name.units]

(* Mutant of MsgTextLength: the length in bytes of what is written. *)
MsgTextLengthInBytes(message) == Uint16(2 * message.units)

(* MsgTextLength as the code computes it, from the bytes of the Go string. *)
MsgTextLength(message) == Uint16(message.bytes)

(* buildErrorToken: the three length fields, and what is written after them. *)
ErrorToken(message, serverName) ==
    [length |-> Uint16(4 + 1 + 1 + 2 + 2 * message.units + 1 + 2 * serverName.units + 1 + 4),
     msgTextLength |-> MsgTextLength(message), msgText |-> 2 * message.units,
     serverNameLength |-> Uint8(serverName.runes), serverName |-> 2 * serverName.units]

TokenSize(token) == 3 + 4 + 1 + 1 + 2 + token.msgText + 1 + token.serverName + 1 + 4

(* A client that follows the length fields ends where the token ends. *)
Decodable(token) ==
    /\ 2 * token.msgTextLength = token.msgText
    /\ 2 * token.serverNameLength = token.serverName
    /\ token.length = TokenSize(token) - 3
=============================================================================
