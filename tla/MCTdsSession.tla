---------------------------- MODULE MCTdsSession ----------------------------
(* Finite instances of TdsSession. *)
EXTENDS TdsSession

LoginMessage(type, payload, packetSize) ==
    [type |-> type, payload |-> payload, packetSize |-> packetSize,
     view |-> Blank, effect |-> "login"]

Option(token, offset, length) == [token |-> token, offset |-> offset, length |-> length]

(* One that the proxy cuts in two full packets, and one out of bounds.      *)
MCPreLogins ==
    {LoginMessage("prelogin",
         [size |-> 8176, terminated |-> TRUE,
          options |-> <<Option(0, 11, 6), Option(1, 17, 8159)>>], 32768),
     LoginMessage("prelogin",
         [size |-> 20, terminated |-> FALSE, options |-> <<Option(0, 16, 6)>>], 4096)}

Fields(ib, cch) == [position \in FieldPositions |-> [ib |-> ib, cch |-> cch]]

(* One in two packets that are full, one with a field beyond its end, one   *)
(* in a packet larger than the proxy reads.                                 *)
MCLogin7s ==
    {LoginMessage("login7", [size |-> 8176, fields |-> Fields(94, 20)], 4096),
     LoginMessage("login7", [size |-> 94, fields |-> Fields(94, 1)], 4096),
     LoginMessage("login7", [size |-> 33000, fields |-> Fields(94, 20)], 40000)}

Statement(type, view, effect, size) ==
    [type |-> type, payload |-> [size |-> size], packetSize |-> 4096,
     view |-> view, effect |-> effect]

SQL(words, effect, size) == Statement("sql_batch", Batch(words), effect, size)
RPC(id, effect)          == Statement("rpc_request", CallById(id), effect, 40)
TM(request, effect)      == Statement("trans_mgr", Manager(request), effect, 24)

(* Begins the proxy sees in the request and begins it sees in the answer.   *)
MCStatements ==
    {SQL(<<"BEGIN", "TRAN">>, "begin", 50),
     SQL(<<"BEGIN", "TRANSACTION">>, "begin", 60),
     SQL(<<"INSERT", "BEGIN", "TRAN">>, "insert and begin", 5000),
     SQL(<<"COMMIT">>, "commit", 40), TM(TmRollbackXact, "rollback"),
     RPC(11, "prepare"), RPC(15, "unprepare"), RPC(10, "query")}

(* ASCII, accented and outside the basic plane. *)
MCBucketNames ==
    {[runes |-> 10, bytes |-> 10, units |-> 10],
     [runes |-> 10, bytes |-> 11, units |-> 10],
     [runes |-> 1, bytes |-> 4, units |-> 2]}

(* The ordinary use of both kinds of state.                                 *)
MCOrdinary ==
    {SQL(<<"BEGIN", "TRAN">>, "begin", 50), SQL(<<"COMMIT">>, "commit", 40),
     RPC(11, "prepare"), RPC(15, "unprepare")}

(* The hypothesis of TdsProofs on the statements, which these satisfy.      *)
ASSUME RequestsRecognised == EndsRecognised
=============================================================================
