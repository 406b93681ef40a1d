-------------------------- MODULE ClientTransaction --------------------------
(***************************************************************************)
(* One client transaction of the layer in its environment: the upstream    *)
(* peer may answer anything, repeat it, reorder it or stay silent; timers  *)
(* expire and their callbacks wait for tx.mu.                              *)
(***************************************************************************)
EXTENDS ClientTx

VARIABLE tx

Init == \E type \in ClientTypes, transport \in Transports :
          tx = NewClientTx(type, transport)

ResponseReceived == \E code \in Codes : tx' = ReceiveResponse(tx, code)
TimerExpires(name) == name \in tx.armed /\ tx' = Expire(tx, name)
TimerRuns(name) == name \in tx.fired /\ tx' = RunTimer(tx, name)

Next ==
  \/ ResponseReceived
  \/ \E name \in ClientTimers : TimerExpires(name) \/ TimerRuns(name)

(* Time passes and goroutines run; the peer owes nothing. *)
Fairness == \A name \in ClientTimers :
              WF_tx(TimerExpires(name)) /\ WF_tx(TimerRuns(name))

SafeSpec == Init /\ [][Next]_tx
Spec == SafeSpec /\ Fairness

------------------------------------------------------------------------------
(* Properties *)

TypeOK == tx \in ClientTransactions

Pending == tx.armed \cup tx.fired
RingsForEver == tx.type = "ICT" /\ tx.state = "Proceeding"

(* The answer function (forwardResponse, or the local callback) is called  *)
(* with a final response at most once: a real answer and the 408 of timer  *)
(* B or F, or two real answers, exclude each other.                        *)
OneFinalDelivered == tx.finals <= 1 /\ (tx.delivered >= 200 <=> tx.finals = 1)

(* An INVITE's failure is ACKed, and nothing else is: not a 2xx, whose ACK *)
(* is the caller's, and not the 408 the transaction made up itself.        *)
ACKsExactlyFailures ==
  /\ tx.acked # NoResponse => tx.type = "ICT" /\ tx.acked >= 300 /\ tx.delivered >= 300
  /\ tx.type = "ICT" /\ tx.state = "Completed" => tx.acked # NoResponse
  /\ tx.type = "ICT" /\ tx.state = "Terminated" /\ tx.acked = NoResponse =>
       IsSuccess(tx.delivered) \/ tx.delivered = 408

(* Until done is closed, a timer that ends the transaction is running or   *)
(* about to run -- in every state but the INVITE transaction's Proceeding. *)
(* Afterwards no timer runs: only callbacks already started are left.      *)
SomeTimerEndsIt ==
  IF tx.done THEN tx.armed = {}
  ELSE \/ RingsForEver
       \/ tx.type = "ICT" /\ tx.state = "Calling" /\ "B" \in Pending
       \/ tx.type = "NICT" /\ tx.state \in {"Trying", "Proceeding"} /\ "F" \in Pending
       \/ tx.state = "Completed" /\ {"D", "K"} \cap Pending # {}

(* A non-INVITE transaction ends, whatever the peer does; an INVITE one    *)
(* ends or reaches Proceeding, where only the peer can end it: no timer    *)
(* bounds the ringing.                                                     *)
EndsOrRings == <>(tx.done \/ RingsForEver)

(* The waiting function sees a response stream.                            *)
Promise == INSTANCE ResponseStream
             WITH Responses <- Codes, latest <- tx.delivered, over <- tx.done
ImplementsPromise == Promise!Spec
==============================================================================
