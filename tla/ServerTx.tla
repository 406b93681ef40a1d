------------------------------ MODULE ServerTx ------------------------------
(***************************************************************************)
(* The server transaction of pkg/transaction/server.go: INVITE (IST) and   *)
(* non-INVITE (NIST), over a datagram or a stream transport.               *)
(*                                                                         *)
(* Every method of ServerTx runs under tx.mu from its first to its last    *)
(* statement, so each is one step: an operator from the record before to   *)
(* the record after.  Only the timers are finer: time.AfterFunc starts a   *)
(* goroutine (`Expire') that later takes tx.mu and runs the callback       *)
(* (`RunTimer'), and Timer.Stop does not recall a goroutine already        *)
(* started.                                                                *)
(***************************************************************************)
EXTENDS Naturals

CONSTANT Codes  \* the status codes a response may carry

ASSUME CodesAssumption == Codes \subseteq Nat /\ 100 \in Codes

NoResponse == 0  \* lastResponse == nil, or nothing sent yet

Transports == {"UDP", "TCP"}
ServerTypes == {"IST", "NIST"}
ServerTimers == {"G", "H", "I", "J"}
ServerStates == {"Trying", "Proceeding", "Completed", "Confirmed", "Terminated"}

\* `sent' is the last response handed to sendFunc, the wire as the peer sees it.
\* `armed' are the running timers, `fired' the callbacks waiting for tx.mu.
ServerTransactions ==
  [type : ServerTypes, transport : Transports, state : ServerStates,
   lastResponse : Codes \cup {NoResponse}, armed : SUBSET ServerTimers,
   fired : SUBSET ServerTimers, done : BOOLEAN, sent : Codes \cup {NoResponse}]

IsProvisional(code) == code >= 100 /\ code < 200
IsSuccess(code) == code >= 200 /\ code < 300
IsFinal(code) == code >= 200

------------------------------------------------------------------------------
(* What the methods are built from. *)

Send(tx, code) == [tx EXCEPT !.sent = code]
StartTimers(tx, names) == [tx EXCEPT !.armed = @ \cup names]
CancelTimers(tx, names) == [tx EXCEPT !.armed = @ \ names]
Terminate(tx) == [tx EXCEPT !.done = TRUE]

\* slip: the client transaction's first state
NewServerTxCalling(type, transport) ==
  [type |-> type, transport |-> transport, state |-> "Calling",
   lastResponse |-> NoResponse, armed |-> {}, fired |-> {}, done |-> FALSE,
   sent |-> NoResponse]

(* A new INVITE transaction answers 100 at once, without recording it as   *)
(* lastResponse; a non-INVITE transaction stays silent.                    *)
NewServerTx(type, transport) ==
  [type |-> type, transport |-> transport,
   state |-> IF type = "IST" THEN "Proceeding" ELSE "Trying",
   lastResponse |-> NoResponse, armed |-> {}, fired |-> {}, done |-> FALSE,
   sent |-> IF type = "IST" THEN 100 ELSE NoResponse]

------------------------------------------------------------------------------
(* Responses of the transaction user. *)

\* slip: a response is sent whatever was sent before
IstRespondAgain(tx, code) ==
  IF code >= 300 /\ tx.state # "Terminated"
  THEN StartTimers(Send([tx EXCEPT !.state = "Completed", !.lastResponse = code], code), {"H"})
  ELSE Send(tx, code)

IstRespond(tx, code) ==
  CASE tx.state # "Proceeding" -> tx
    [] tx.state = "Proceeding" /\ IsProvisional(code) -> Send(tx, code)
    [] tx.state = "Proceeding" /\ IsSuccess(code) ->
         Terminate(CancelTimers(Send([tx EXCEPT !.state = "Terminated"], code),
                                ServerTimers))
    [] tx.state = "Proceeding" /\ code >= 300 ->
         StartTimers(Send([tx EXCEPT !.state = "Completed", !.lastResponse = code], code),
                     IF tx.transport = "UDP" THEN {"G", "H"} ELSE {"H"})
    [] OTHER -> tx

\* slip: the answer is not kept for retransmissions
NistCompleteForgets(tx, code) ==
  LET answered == Send([tx EXCEPT !.state = "Completed"], code)
  IN  IF tx.transport = "UDP" THEN StartTimers(answered, {"J"}) ELSE Terminate(answered)

(* A final answer: kept for retransmissions while timer J runs, or, on a   *)
(* stream, the end of the transaction at once.                             *)
NistComplete(tx, code) ==
  LET answered == Send([tx EXCEPT !.state = "Completed", !.lastResponse = code], code)
  IN  IF tx.transport = "UDP" THEN StartTimers(answered, {"J"}) ELSE Terminate(answered)

NistRespond(tx, code) ==
  CASE tx.state \notin {"Trying", "Proceeding"} -> tx
    [] tx.state \in {"Trying", "Proceeding"} /\ IsProvisional(code) ->
         Send([tx EXCEPT !.state = "Proceeding"], code)
    [] tx.state \in {"Trying", "Proceeding"} /\ IsFinal(code) -> NistComplete(tx, code)
    [] OTHER -> tx

Respond(tx, code) ==
  CASE tx.state = "Terminated" -> tx
    [] tx.state # "Terminated" /\ tx.type = "IST" -> IstRespond(tx, code)
    [] OTHER -> NistRespond(tx, code)

------------------------------------------------------------------------------
(* Messages of the peer: a retransmission of the request, and the ACK. *)

(* `Proceeding' has no lastResponse to repeat: a non-INVITE transaction    *)
(* stays silent, an INVITE transaction repeats 100 and not the ringing.    *)
ReceiveRequest(tx) ==
  CASE tx.type = "IST" /\ tx.state = "Proceeding" ->
         Send(tx, IF tx.lastResponse # NoResponse THEN tx.lastResponse ELSE 100)
    [] tx.type = "IST" /\ tx.state = "Completed" /\ tx.lastResponse # NoResponse ->
         Send(tx, tx.lastResponse)
    [] tx.type = "NIST" /\ tx.state \in {"Proceeding", "Completed"}
                        /\ tx.lastResponse # NoResponse -> Send(tx, tx.lastResponse)
    [] OTHER -> tx

\* slip: timer I is not started
ReceiveACKNoLinger(tx) ==
  IF tx.type = "IST" /\ tx.state = "Completed"
  THEN CancelTimers([tx EXCEPT !.state = "Confirmed"], {"G", "H"})
  ELSE tx

\* slip: a late ACK confirms a transaction that is over
ReceiveACKAnyState(tx) ==
  IF tx.type = "IST" THEN CancelTimers([tx EXCEPT !.state = "Confirmed"], {"G", "H"}) ELSE tx

ReceiveACK(tx) ==
  LET confirmed == CancelTimers([tx EXCEPT !.state = "Confirmed"], {"G", "H"})
  IN  CASE tx.type = "IST" /\ tx.state = "Completed" /\ tx.transport = "UDP" ->
             StartTimers(confirmed, {"I"})
        [] tx.type = "IST" /\ tx.state = "Completed" /\ tx.transport = "TCP" ->
             Terminate(confirmed)
        [] OTHER -> tx

------------------------------------------------------------------------------
(* Timers.  G repeats the final response, H gives up waiting for the ACK,  *)
(* I and J end the time in which retransmissions are absorbed.             *)

Expire(tx, name) == [tx EXCEPT !.armed = @ \ {name}, !.fired = @ \cup {name}]

TimerG(tx) ==
  IF tx.state = "Completed" /\ tx.lastResponse # NoResponse
  THEN StartTimers(Send(tx, tx.lastResponse), {"G"})
  ELSE tx

TimerH(tx) ==
  IF tx.state = "Completed"
  THEN Terminate(CancelTimers([tx EXCEPT !.state = "Terminated"], ServerTimers))
  ELSE tx

TimerIJ(tx) == Terminate([tx EXCEPT !.state = "Terminated"])

RunTimer(tx, name) ==
  LET run == [tx EXCEPT !.fired = @ \ {name}]
  IN  CASE name = "G" -> TimerG(run)
        [] name = "H" -> TimerH(run)
        [] OTHER -> TimerIJ(run)
==============================================================================
