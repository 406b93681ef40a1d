-------------------------- MODULE ServerTransaction --------------------------
(***************************************************************************)
(* One server transaction of the layer in its environment: the proxy, the  *)
(* script, CANCEL and the invite timeout call Respond from goroutines of   *)
(* their own, with any code and at any time; the peer retransmits its      *)
(* request and sends ACKs, wanted or stray; timers expire and their        *)
(* callbacks wait for tx.mu behind all of these.                           *)
(***************************************************************************)
EXTENDS ServerTx

VARIABLE tx

Init == \E type \in ServerTypes, transport \in Transports :
          tx = NewServerTx(type, transport)

RespondStep == \E code \in Codes : tx' = Respond(tx, code)
RequestRetransmitted == tx' = ReceiveRequest(tx)
ACKReceived == tx' = ReceiveACK(tx)
TimerExpires(name) == name \in tx.armed /\ tx' = Expire(tx, name)
TimerRuns(name) == name \in tx.fired /\ tx' = RunTimer(tx, name)

Next ==
  \/ RespondStep
  \/ RequestRetransmitted
  \/ ACKReceived
  \/ \E name \in ServerTimers : TimerExpires(name) \/ TimerRuns(name)

(* Time passes and goroutines run; nobody owes the transaction a response, *)
(* a retransmission or an ACK.  A timer that stays armed expires, and a    *)
(* callback that waits for the mutex gets it: a Go mutex does not starve.  *)
Fairness == \A name \in ServerTimers :
              WF_tx(TimerExpires(name)) /\ WF_tx(TimerRuns(name))

SafeSpec == Init /\ [][Next]_tx
Spec == SafeSpec /\ Fairness

------------------------------------------------------------------------------
(* Properties *)

TypeOK == tx \in ServerTransactions

Answered == IsFinal(tx.sent)
Pending == tx.armed \cup tx.fired

(* A final response stays reproducible until the transaction is over: what *)
(* a retransmission (ReceiveRequest) or timer G repeats is exactly the     *)
(* final response the peer was sent, and G exists only where one is kept.  *)
RepeatsWhatWasSent ==
  /\ tx.lastResponse # NoResponse => tx.lastResponse = tx.sent /\ Answered
  /\ tx.state \in {"Completed", "Confirmed"} => tx.lastResponse = tx.sent
  /\ "G" \in Pending => Answered

(* No answered transaction is forgotten: until done is closed, which is    *)
(* what gc waits for, a timer that ends it is running or about to run,     *)
(* whichever of Respond, ACK and the timers came first.                    *)
AnsweredTxEnds ==
  Answered /\ ~tx.done =>
    \/ tx.type = "IST" /\ tx.state = "Completed" /\ "H" \in Pending
    \/ tx.type = "IST" /\ tx.state = "Confirmed" /\ "I" \in Pending
    \/ tx.type = "NIST" /\ tx.state = "Completed" /\ "J" \in Pending

(* A finished transaction holds no running timer: nothing of it but a      *)
(* callback already started survives close(done).                          *)
DoneHoldsNoTimer == tx.done => tx.armed = {}

(* No step moves the state machine back, in particular not a timer         *)
(* callback that was cancelled too late to be stopped.                     *)
Rank == [Trying |-> 0, Proceeding |-> 1, Completed |-> 2, Confirmed |-> 3, Terminated |-> 4]
NeverGoesBack == [][Rank[tx'.state] >= Rank[tx.state]]_tx

(* The peer sees a response stream: provisional responses, one final       *)
(* response however many Respond calls race for it, and an end.            *)
Promise == INSTANCE ResponseStream
             WITH Responses <- Codes, latest <- tx.sent, over <- tx.done
ImplementsPromise == Promise!Spec
==============================================================================
