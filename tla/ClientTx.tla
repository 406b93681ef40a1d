------------------------------ MODULE ClientTx ------------------------------
(***************************************************************************)
(* The client transaction of pkg/transaction/client.go: INVITE (ICT) and   *)
(* non-INVITE (NICT).  As in ServerTx, every method runs under tx.mu and   *)
(* is one operator from the record before to the record after, and a timer *)
(* is armed, then fired, then run.                                         *)
(*                                                                         *)
(* onResp is called while tx.mu is held; `delivered' is the last response  *)
(* it was given and `finals' counts the final ones.                        *)
(***************************************************************************)
EXTENDS Naturals

CONSTANT Codes  \* the status codes a response may carry

ASSUME CodesAssumption == Codes \subseteq Nat /\ 408 \in Codes

NoResponse == 0

Transports == {"UDP", "TCP"}
ClientTypes == {"ICT", "NICT"}
ClientTimers == {"A", "B", "D", "E", "F", "K"}
ClientStates == {"Trying", "Calling", "Proceeding", "Completed", "Terminated"}

\* `acked' is the final response ACKed last.
ClientTransactions ==
  [type : ClientTypes, transport : Transports, state : ClientStates,
   armed : SUBSET ClientTimers, fired : SUBSET ClientTimers, done : BOOLEAN,
   delivered : Codes \cup {NoResponse}, finals : Nat,
   acked : Codes \cup {NoResponse}]

IsProvisional(code) == code >= 100 /\ code < 200
IsSuccess(code) == code >= 200 /\ code < 300
IsFinal(code) == code >= 200

------------------------------------------------------------------------------
(* What the methods are built from. *)

StartTimers(tx, names) == [tx EXCEPT !.armed = @ \cup names]
CancelTimers(tx, names) == [tx EXCEPT !.armed = @ \ names]
Terminate(tx) == [tx EXCEPT !.done = TRUE]
OnResp(tx, code) ==
  [tx EXCEPT !.delivered = code, !.finals = IF IsFinal(code) THEN @ + 1 ELSE @]
SendACK(tx, code) == [tx EXCEPT !.acked = code]

\* slip: nothing ends the lingering
LingerForEver(tx, timer) == IF tx.transport = "UDP" THEN tx ELSE Terminate(tx)

(* Linger on a datagram transport to absorb retransmissions, for as long   *)
(* as the given timer runs; on a stream the transaction is over.           *)
Linger(tx, timer) ==
  IF tx.transport = "UDP" THEN StartTimers(tx, {timer}) ELSE Terminate(tx)

(* The constructors send the request, start the retransmission timer on a  *)
(* datagram transport and always the timer that gives up.                  *)
NewClientTx(type, transport) ==
  LET retransmit == IF type = "ICT" THEN "A" ELSE "E"
      giveUp == IF type = "ICT" THEN "B" ELSE "F"
  IN  [type |-> type, transport |-> transport,
       state |-> IF type = "ICT" THEN "Calling" ELSE "Trying",
       armed |-> IF transport = "UDP" THEN {retransmit, giveUp} ELSE {giveUp},
       fired |-> {}, done |-> FALSE, delivered |-> NoResponse, finals |-> 0,
       acked |-> NoResponse]

------------------------------------------------------------------------------
(* Responses from the network. *)

\* slip: a 2xx is ACKed like a failure
IctAnswerACKsAll(tx, code) ==
  Linger(SendACK(OnResp(CancelTimers([tx EXCEPT !.state = "Completed"], ClientTimers),
                        code), code), "D")

IctAnswer(tx, code) ==
  IF IsSuccess(code)
  THEN Terminate(OnResp(CancelTimers([tx EXCEPT !.state = "Terminated"], ClientTimers), code))
  ELSE Linger(SendACK(OnResp(CancelTimers([tx EXCEPT !.state = "Completed"], ClientTimers),
                             code), code), "D")

IctReceiveResponse(tx, code) ==
  CASE tx.state = "Calling" /\ IsProvisional(code) ->
         OnResp(CancelTimers([tx EXCEPT !.state = "Proceeding"], {"A", "B"}), code)
    [] tx.state = "Proceeding" /\ IsProvisional(code) -> OnResp(tx, code)
    [] tx.state \in {"Calling", "Proceeding"} /\ IsFinal(code) -> IctAnswer(tx, code)
    [] tx.state = "Completed" /\ code >= 300 -> SendACK(tx, code)
    [] OTHER -> tx

\* slip: a provisional response stops timer F, as it stops B of an INVITE
NictReceiveResponseStopsF(tx, code) ==
  CASE tx.state \in {"Trying", "Proceeding"} /\ IsProvisional(code) ->
         OnResp(CancelTimers([tx EXCEPT !.state = "Proceeding"], {"E", "F"}), code)
    [] tx.state \in {"Trying", "Proceeding"} /\ IsFinal(code) ->
         Linger(OnResp(CancelTimers([tx EXCEPT !.state = "Completed"], ClientTimers), code), "K")
    [] OTHER -> tx

NictReceiveResponse(tx, code) ==
  CASE tx.state \in {"Trying", "Proceeding"} /\ IsProvisional(code) ->
         OnResp([tx EXCEPT !.state = "Proceeding"], code)
    [] tx.state \in {"Trying", "Proceeding"} /\ IsFinal(code) ->
         Linger(OnResp(CancelTimers([tx EXCEPT !.state = "Completed"], ClientTimers), code), "K")
    [] OTHER -> tx

(* Whether the response reaches onResp, or is absorbed. *)
Delivers(tx, code) == tx.state \in {"Trying", "Calling", "Proceeding"} /\ code >= 100

ReceiveResponse(tx, code) ==
  CASE tx.state = "Terminated" -> tx
    [] tx.state # "Terminated" /\ tx.type = "ICT" -> IctReceiveResponse(tx, code)
    [] OTHER -> NictReceiveResponse(tx, code)

------------------------------------------------------------------------------
(* Timers.  A and E retransmit, B and F give up and report 408, D and K    *)
(* end the time in which retransmitted responses are absorbed.             *)

Expire(tx, name) == [tx EXCEPT !.armed = @ \ {name}, !.fired = @ \cup {name}]

Retransmit(tx, name, waiting) ==
  IF tx.state \in waiting THEN StartTimers(tx, {name}) ELSE tx

\* slip: a callback that comes late reports 408 after the answer
GiveUpAnyState(tx, waiting) ==
  Terminate(OnResp(CancelTimers([tx EXCEPT !.state = "Terminated"], ClientTimers), 408))

GiveUp(tx, waiting) ==
  IF tx.state \in waiting
  THEN Terminate(OnResp(CancelTimers([tx EXCEPT !.state = "Terminated"], ClientTimers), 408))
  ELSE tx

GivesUp(tx, name) == \/ name = "B" /\ tx.state = "Calling"
                     \/ name = "F" /\ tx.state \in {"Trying", "Proceeding"}

TimerDK(tx) == Terminate([tx EXCEPT !.state = "Terminated"])

RunTimer(tx, name) ==
  LET run == [tx EXCEPT !.fired = @ \ {name}]
  IN  CASE name = "A" -> Retransmit(run, "A", {"Calling"})
        [] name = "B" -> GiveUp(run, {"Calling"})
        [] name = "E" -> Retransmit(run, "E", {"Trying", "Proceeding"})
        [] name = "F" -> GiveUp(run, {"Trying", "Proceeding"})
        [] OTHER -> TimerDK(run)
==============================================================================
