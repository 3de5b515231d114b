------------------------------ MODULE Pinning ------------------------------
(***************************************************************************)
(* The detection of connection pinning: InspectPacket and InspectResponse  *)
(* (internal/tds/pinning.go) and Session.applyPinResult                    *)
(* (internal/proxy/handler.go).                                            *)
(*                                                                         *)
(* The text of a batch is the sequence of the words in its first 256       *)
(* characters, in capitals, with one space between the words of a prefix;  *)
(* a response is the sequence of its tokens.                               *)
(***************************************************************************)
EXTENDS Integers, Sequences

NoChange      == [action |-> "none", reason |-> ""]
Pin(reason)   == [action |-> "pin", reason |-> reason]
Unpin(reason) == [action |-> "unpin", reason |-> reason]

(* What a payload looks like; an inspection reads the part of its type. *)
Blank             == [words |-> <<>>, proc |-> "", request |-> 0, tokens |-> <<>>]
Batch(words)      == [Blank EXCEPT !.words = words]
Call(proc)        == [Blank EXCEPT !.proc = proc]
Manager(request)  == [Blank EXCEPT !.request = request]
Response(tokens)  == [Blank EXCEPT !.tokens = tokens]

-----------------------------------------------------------------------------
(* SQL_BATCH *)

StartPrefixes ==
    {<<"BEGIN", "TRAN">>, <<"BEGIN", "DISTRIBUTED", "TRAN">>,
     <<"SET", "IMPLICIT_TRANSACTIONS", "ON">>, <<"SET", "XACT_ABORT">>}

EndPrefixes == {<<"COMMIT">>, <<"ROLLBACK">>}

TempTables == {<<"CREATE", "TABLE", "#">>, <<"SELECT", "INTO", "#">>}

(* hasPrefix ends at the end of a word: BEGIN TRANSACTION is not BEGIN TRAN. *)
HasPrefix(words, prefix) ==
    Len(prefix) <= Len(words) /\ SubSeq(words, 1, Len(prefix)) = prefix

HasPhrase(words, phrase) ==
    \E i \in 1 .. Len(words) : HasPrefix(SubSeq(words, i, Len(words)), phrase)

InspectSQLBatch(words) ==
    CASE \E p \in StartPrefixes : HasPrefix(words, p) -> Pin("transaction")
      [] \E p \in EndPrefixes : HasPrefix(words, p)   -> Unpin("transaction")
      [] \E p \in TempTables : HasPhrase(words, p)     -> Pin("temp_table")
      [] OTHER                                        -> NoChange

-----------------------------------------------------------------------------
(* RPC_REQUEST *)

WellKnownProcName ==
    <<"sp_cursor", "sp_cursoropen", "sp_cursorprepare", "sp_cursorexecute",
      "sp_cursorprepexec", "sp_cursorunprepare", "sp_cursorfetch", "sp_cursoroption",
      "sp_cursorclose", "sp_executesql", "sp_prepare", "sp_execute",
      "sp_prepexec", "sp_prepexecrpc", "sp_unprepare">>

(* A procedure called by number; an unknown number has no name. *)
CallById(id) ==
    Call(IF id \in DOMAIN WellKnownProcName THEN WellKnownProcName[id] ELSE "")

InspectRPC(proc) ==
    CASE proc \in {"sp_prepare", "sp_cursoropen", "sp_cursorprepare"} -> Pin("prepared")
      [] proc \in {"sp_unprepare", "sp_cursorclose"}                  -> Unpin("prepared")
      [] OTHER                                                        -> NoChange

-----------------------------------------------------------------------------
(* TRANSACTION_MANAGER *)

TmBeginXact == 5
TmCommitXact == 7
TmRollbackXact == 8
TmSavepoint == 9

InspectTransactionManager(request) ==
    CASE request = TmBeginXact                      -> Pin("transaction")
      [] request \in {TmCommitXact, TmRollbackXact} -> Unpin("transaction")
      [] OTHER                                      -> NoChange

-----------------------------------------------------------------------------
(* Every packet is inspected by itself, also one that continues a message. *)
InspectPacket(type, view) ==
    CASE type = "sql_batch"    -> InspectSQLBatch(view.words)
      [] type = "rpc_request"  -> InspectRPC(view.proc)
      [] type = "trans_mgr"    -> InspectTransactionManager(view.request)
      [] type = "bulk_load"    -> Pin("bulk_load")
      [] OTHER                 -> NoChange

(* ENVCHANGE of the types 8, 9 and 10. *)
Transitions ==
    [begin    |-> Pin("transaction"),
     commit   |-> Unpin("transaction"),
     rollback |-> Unpin("transaction")]

Understood == DOMAIN Transitions \union {"done", "envchange"}

(* Mutant of Scanned: the scan ends at the first DONE token. *)
ScannedToFirstDone(tokens) ==
    {i \in 1 .. Len(tokens) : \A j \in 1 .. i : tokens[j] \in Understood \ {"done"}}

(* The scan ends at the first token it does not understand. *)
Scanned(tokens) ==
    {i \in 1 .. Len(tokens) : \A j \in 1 .. i : tokens[j] \in Understood}

(* The last change of the transaction in the part that is scanned. *)
InspectResponse(tokens) ==
    LET changes == {i \in Scanned(tokens) : tokens[i] \in DOMAIN Transitions}
    IN  IF changes = {} THEN NoChange
        ELSE Transitions[tokens[CHOOSE i \in changes : \A j \in changes : j <= i]]

(* Mutant of ApplyPinResult: the action is kept in place of the reason. *)
KeepAction(pinReason, result) ==
    CASE result.action = "pin"   -> IF pinReason = "" THEN result.action ELSE pinReason
      [] result.action = "unpin" -> ""
      [] OTHER                   -> pinReason

(* pinReason after a result; it is empty exactly when pinned is false. *)
ApplyPinResult(pinReason, result) ==
    CASE result.action = "pin"   -> IF pinReason = "" THEN result.reason ELSE pinReason
      [] result.action = "unpin" -> ""
      [] OTHER                   -> pinReason
=============================================================================
