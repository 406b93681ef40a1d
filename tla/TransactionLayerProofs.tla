----------------------- MODULE TransactionLayerProofs -----------------------
(***************************************************************************)
(* Proofs about the transaction layer.                                     *)
(*                                                                         *)
(* InviteProxy, for every set of branches and of codes, over UDP and TCP:  *)
(* the caller gets no answer that nobody gave, an answered call is         *)
(* reported, and a CANCEL or the watchdog forgets no branch.  First what   *)
(* the methods of one server and one client transaction keep, then the     *)
(* invariant, then the steps: those that leave the transactions alone,     *)
(* those of the script, of the INVITE's server transaction, and of a       *)
(* branch.                                                                 *)
(*                                                                         *)
(* LayerLocks, for any number of threads on each path: nobody waits in a   *)
(* circle, as long as nobody lists transactions.                           *)
(***************************************************************************)
EXTENDS InviteProxy, LayerLocks, SequenceTheorems, TLAPS

------------------------------------------------------------------------------
(* The methods of the transactions. *)

(* The INVITE's server transaction: past Trying, and holding as last response *)
(* what it has sent or nothing.                                            *)
Served(t) ==
  /\ t \in S!ServerTransactions
  /\ t.type = "IST" /\ t.state # "Trying"
  /\ t.lastResponse \in {NoResponse, t.sent}
  /\ t.state = "Proceeding" => t.lastResponse = NoResponse /\ ~t.done

(* A client transaction that may still get a final response. *)
Rings(t) == t.state \in {"Calling", "Proceeding"}

(* A branch's client transaction: an ICT that has delivered no final response *)
(* as long as it rings.                                                    *)
Offered(t) ==
  /\ t \in C!ClientTransactions
  /\ t.type = "ICT" /\ t.state # "Trying"
  /\ Rings(t) => ~t.done /\ ~C!IsFinal(t.delivered)

(* The status codes are numbers, the layer's own among them. *)
LEMMA CodesAreNat ==
  Codes \subseteq Nat /\ {100, 180, 200, 408, 483, 487, 500} \subseteq Codes
BY CodesAssumption DEF Codes

(* NewServerTx makes an INVITE's transaction that has answered 100. *)
LEMMA NewInvite ==
  ASSUME NEW transport \in {"UDP", "TCP"}
  PROVE  /\ Served(S!NewServerTx("IST", transport))
         /\ S!NewServerTx("IST", transport).sent = 100
BY CodesAreNat
   DEF Served, S!NewServerTx, S!ServerTransactions, S!ServerTypes, S!Transports,
       S!ServerStates, S!NoResponse, NoResponse

(* Respond keeps it well formed, sends nothing but its argument, and never goes *)
(* back to Proceeding.                                                     *)
LEMMA RespondServes ==
  ASSUME NEW t, Served(t), NEW code \in Codes, NEW r, r = S!Respond(t, code)
  PROVE  /\ Served(r)
         /\ r.sent \in {t.sent, code}
         /\ r.state = "Proceeding" => t.state = "Proceeding"
<1>1. /\ t \in S!ServerTransactions /\ t.type = "IST"
      /\ t.state # "Trying" /\ t.lastResponse \in {NoResponse, t.sent}
      /\ t.state = "Proceeding" => t.lastResponse = NoResponse /\ ~t.done
  BY DEF Served
<1>2. code \in Nat
  BY CodesAreNat
<1>3. CASE r = t
  BY <1>3
<1>4. CASE t.state = "Proceeding" /\ r = [t EXCEPT !.sent = code]
  BY <1>1, <1>4 DEF Served, S!ServerTransactions
<1>5. CASE /\ t.state = "Proceeding"
          /\ r = [t EXCEPT !.state = "Terminated", !.sent = code,
                           !.armed = @ \ S!ServerTimers, !.done = TRUE]
  <2>1. r \in S!ServerTransactions
    BY <1>1, <1>2, <1>5 DEF S!ServerTransactions, S!ServerStates
  <2>2. /\ r.type = t.type /\ r.state = "Terminated"
        /\ r.lastResponse = t.lastResponse /\ r.sent = code
    BY <1>1, <1>5 DEF S!ServerTransactions
  <2> QED
    BY <1>1, <1>5, <2>1, <2>2 DEF Served
<1>6. CASE /\ t.state = "Proceeding"
          /\ \E names \in {{"G", "H"}, {"H"}} :
               r = [t EXCEPT !.state = "Completed", !.lastResponse = code, !.sent = code,
                             !.armed = @ \cup names]
  <2>1. PICK names \in {{"G", "H"}, {"H"}} :
          r = [t EXCEPT !.state = "Completed", !.lastResponse = code, !.sent = code,
                        !.armed = @ \cup names]
    BY <1>6
  <2>2. r \in S!ServerTransactions
    <3>1. t.armed \cup names \subseteq S!ServerTimers
      BY <1>1 DEF S!ServerTransactions, S!ServerTimers
    <3> QED
      BY <1>1, <2>1, <3>1 DEF S!ServerTransactions, S!ServerStates
  <2>3. r.type = t.type /\ r.state = "Completed" /\ r.lastResponse = code /\ r.sent = code
    BY <1>1, <2>1 DEF S!ServerTransactions
  <2> QED
    BY <1>1, <2>2, <2>3 DEF Served
<1> QED
  <2>1. CASE t.state # "Proceeding"
    BY <1>1, <1>3, <2>1 DEF S!Respond, S!IstRespond
  <2>2. CASE t.state = "Proceeding"
    <3>1. r = S!IstRespond(t, code)
      BY <1>1, <2>2 DEF S!Respond
    <3>2. CASE code < 100
      BY <1>1, <1>3, <1>2, <2>2, <3>1, <3>2
         DEF S!IstRespond, S!IsProvisional, S!IsSuccess
    <3>3. CASE S!IsProvisional(code)
      <4>1. S!IstRespond(t, code) = S!Send(t, code)
        BY <1>2, <2>2, <3>3 DEF S!IstRespond, S!IsProvisional, S!IsSuccess
      <4> QED
        BY <1>4, <2>2, <3>1, <4>1 DEF S!Send
    <3>4. CASE S!IsSuccess(code)
      BY <1>1, <1>5, <1>2, <2>2, <3>1, <3>4
         DEF S!IstRespond, S!IsProvisional, S!IsSuccess, S!Send, S!Terminate,
             S!CancelTimers, S!ServerTransactions
    <3>5. CASE code >= 300
      <4>1. PICK names \in {{"G", "H"}, {"H"}} :
              r = S!StartTimers(
                    S!Send([t EXCEPT !.state = "Completed", !.lastResponse = code], code),
                    names)
        BY <1>2, <2>2, <3>1, <3>5 DEF S!IstRespond, S!IsProvisional, S!IsSuccess
      <4>2. r = [t EXCEPT !.state = "Completed", !.lastResponse = code, !.sent = code,
                          !.armed = @ \cup names]
        BY <1>1, <4>1 DEF S!Send, S!StartTimers, S!ServerTransactions
      <4> QED
        BY <1>6, <2>2, <4>2
    <3> QED
      BY <1>2, <3>2, <3>3, <3>4, <3>5 DEF S!IsProvisional, S!IsSuccess
  <2> QED
    BY <2>1, <2>2

(* So do the caller's retransmission and ACK, which bring nothing but 100. *)
LEMMA PeerServes ==
  ASSUME NEW t, Served(t), NEW r, r \in {S!ReceiveRequest(t), S!ReceiveACK(t)}
  PROVE  /\ Served(r)
         /\ r.sent \in {t.sent, 100}
         /\ r.state = "Proceeding" => t.state = "Proceeding"
<1>1. /\ t \in S!ServerTransactions /\ t.type = "IST"
      /\ t.state # "Trying" /\ t.lastResponse \in {NoResponse, t.sent}
      /\ t.state = "Proceeding" => t.lastResponse = NoResponse /\ ~t.done
  BY DEF Served
<1>2. CASE r = t
  BY <1>2
<1>3. CASE r = [t EXCEPT !.sent = 100] /\ t.state = "Proceeding"
  BY <1>1, <1>3, CodesAreNat DEF Served, S!ServerTransactions
<1>4. CASE r = [t EXCEPT !.sent = t.sent]
  BY <1>1, <1>4 DEF Served, S!ServerTransactions
<1>5. CASE \E names \in {{"I"}, {}}, over \in {t.done, TRUE} :
             r = [t EXCEPT !.state = "Confirmed", !.armed = (@ \ {"G", "H"}) \cup names,
                           !.done = over]
  <2>1. PICK names \in {{"I"}, {}}, over \in {t.done, TRUE} :
             r = [t EXCEPT !.state = "Confirmed", !.armed = (@ \ {"G", "H"}) \cup names,
                           !.done = over]
    BY <1>5
  <2>2. r \in S!ServerTransactions
    <3>1. (t.armed \ {"G", "H"}) \cup names \subseteq S!ServerTimers /\ over \in BOOLEAN
      BY <1>1 DEF S!ServerTransactions, S!ServerTimers
    <3> QED
      BY <1>1, <2>1, <3>1 DEF S!ServerTransactions, S!ServerStates
  <2>3. /\ r.type = t.type /\ r.state = "Confirmed" /\ r.lastResponse = t.lastResponse
        /\ r.sent = t.sent
    BY <1>1, <2>1 DEF S!ServerTransactions
  <2> QED
    BY <1>1, <2>2, <2>3 DEF Served
<1>6. CASE r = S!ReceiveRequest(t)
  <2>1. CASE t.state = "Proceeding"
    BY <1>1, <1>3, <1>6, <2>1 DEF S!ReceiveRequest, S!Send, S!NoResponse, NoResponse
  <2>2. CASE t.state = "Completed" /\ t.lastResponse # NoResponse
    BY <1>1, <1>4, <1>6, <2>2 DEF S!ReceiveRequest, S!Send, S!NoResponse, NoResponse
  <2>3. CASE /\ ~(t.state = "Proceeding")
            /\ ~(t.state = "Completed" /\ t.lastResponse # NoResponse)
    BY <1>1, <1>2, <1>6, <2>3 DEF S!ReceiveRequest, S!NoResponse, NoResponse
  <2> QED
    BY <2>1, <2>2, <2>3
<1>7. CASE r = S!ReceiveACK(t)
  <2>1. CASE t.state = "Completed" /\ t.transport = "UDP"
    BY <1>1, <1>5, <1>7, <2>1
       DEF S!ReceiveACK, S!StartTimers, S!CancelTimers, S!ServerTransactions
  <2>2. CASE t.state = "Completed" /\ t.transport = "TCP"
    BY <1>1, <1>5, <1>7, <2>2
       DEF S!ReceiveACK, S!Terminate, S!CancelTimers, S!ServerTransactions
  <2>3. CASE t.state # "Completed"
    BY <1>1, <1>2, <1>7, <2>3 DEF S!ReceiveACK
  <2> QED
    BY <1>1, <2>1, <2>2, <2>3 DEF S!ServerTransactions, S!Transports
<1> QED
  BY <1>6, <1>7

(* So do its timers, which bring nothing at all. *)
LEMMA TimerServes ==
  ASSUME NEW t, Served(t), NEW name \in S!ServerTimers, NEW r,
         r = S!RunTimer(S!Expire(t, name), name)
  PROVE  /\ Served(r)
         /\ r.sent = t.sent
         /\ r.state = "Proceeding" => t.state = "Proceeding"
<1>1. /\ t \in S!ServerTransactions /\ t.type = "IST"
      /\ t.state # "Trying" /\ t.lastResponse \in {NoResponse, t.sent}
      /\ t.state = "Proceeding" => t.lastResponse = NoResponse /\ ~t.done
  BY DEF Served
<1> DEFINE u == [t EXCEPT !.armed = @ \ {name}, !.fired = (@ \cup {name}) \ {name}]
<1>2. /\ Served(u) /\ u.sent = t.sent /\ u.state = t.state /\ u \in S!ServerTransactions
      /\ u.lastResponse = t.lastResponse
  BY <1>1 DEF Served, S!ServerTransactions
<1>3. r = CASE name = "G" -> S!TimerG(u)
            [] name = "H" -> S!TimerH(u)
            [] OTHER -> S!TimerIJ(u)
  <2>1. u = [S!Expire(t, name) EXCEPT !.fired = @ \ {name}]
    BY <1>1 DEF S!Expire, S!ServerTransactions
  <2> QED
    BY <2>1 DEF S!RunTimer
<1> HIDE DEF u
<1>4. CASE r = u
  BY <1>2, <1>4
<1>5. CASE /\ r = [u EXCEPT !.sent = u.lastResponse, !.armed = @ \cup {"G"}]
          /\ u.lastResponse # NoResponse
  <2>1. r \in S!ServerTransactions
    BY <1>2, <1>5 DEF S!ServerTransactions, S!ServerTimers
  <2>2. /\ r.type = u.type /\ r.state = u.state /\ r.done = u.done
        /\ r.lastResponse = u.lastResponse /\ r.sent = u.lastResponse
    BY <1>2, <1>5 DEF S!ServerTransactions
  <2> QED
    BY <1>1, <1>2, <1>5, <2>1, <2>2 DEF Served
<1>6. CASE \E names \in {{}, S!ServerTimers} :
            r = [u EXCEPT !.state = "Terminated", !.armed = @ \ names, !.done = TRUE]
  <2> PICK names \in {{}, S!ServerTimers} :
        r = [u EXCEPT !.state = "Terminated", !.armed = @ \ names, !.done = TRUE]
    BY <1>6
  <2>1. r \in S!ServerTransactions
    BY <1>2 DEF S!ServerTransactions, S!ServerStates
  <2>2. /\ r.type = u.type /\ r.state = "Terminated"
        /\ r.lastResponse = u.lastResponse /\ r.sent = u.sent
    BY <1>2 DEF S!ServerTransactions
  <2> QED
    BY <1>2, <2>1, <2>2 DEF Served
<1>7. CASE name = "G"
  BY <1>2, <1>3, <1>4, <1>5, <1>7
     DEF S!TimerG, S!StartTimers, S!Send, S!NoResponse, NoResponse, S!ServerTransactions
<1>8. CASE name = "H"
  BY <1>2, <1>3, <1>4, <1>6, <1>8
     DEF S!TimerH, S!Terminate, S!CancelTimers, S!ServerTransactions
<1>9. CASE name \notin {"G", "H"}
  <2>1. r = [[u EXCEPT !.state = "Terminated"] EXCEPT !.done = TRUE]
    BY <1>3, <1>9 DEF S!TimerIJ, S!Terminate
  <2>2. u.armed \ {} = u.armed
    OBVIOUS
  <2>3. r = [u EXCEPT !.state = "Terminated", !.armed = @ \ {}, !.done = TRUE]
    BY <1>2, <2>1, <2>2 DEF S!ServerTransactions
  <2> QED
    BY <1>6, <2>3
<1> QED
  BY <1>7, <1>8, <1>9

(* NewClientTx makes a branch that rings. *)
LEMMA NewBranch ==
  ASSUME NEW transport \in {"UDP", "TCP"}
  PROVE  Offered(C!NewClientTx("ICT", transport))
<1> DEFINE t == C!NewClientTx("ICT", transport)
<1>1. /\ t.type = "ICT" /\ t.state = "Calling" /\ ~t.done /\ t.delivered = 0
  BY DEF C!NewClientTx, C!NoResponse
<1>2. t \in C!ClientTransactions
  BY CodesAreNat
     DEF C!NewClientTx, C!ClientTransactions, C!ClientTypes, C!Transports,
         C!ClientStates, C!ClientTimers, C!NoResponse
<1> QED
  BY <1>1, <1>2 DEF Offered, C!IsFinal

(* Everything a method of a client transaction may change but `fired' and  *)
(* `done'.                                                                 *)
Changed(t, state, armed, code, finals, acked) ==
  [t EXCEPT !.state = state, !.armed = armed, !.delivered = code, !.finals = finals,
            !.acked = acked]

(* What such a change leaves alone. *)
LEMMA ChangedIs ==
  ASSUME NEW t \in C!ClientTransactions, NEW state \in C!ClientStates,
         NEW armed \in SUBSET C!ClientTimers,
         NEW code \in Codes \cup {C!NoResponse}, NEW finals \in Nat,
         NEW acked \in Codes \cup {C!NoResponse}, NEW r,
         r = Changed(t, state, armed, code, finals, acked)
  PROVE  /\ r \in C!ClientTransactions /\ r.type = t.type
         /\ r.state = state /\ r.done = t.done /\ r.delivered = code
BY DEF Changed, C!ClientTransactions

(* Terminate keeps what was delivered. *)
LEMMA TerminateIs ==
  ASSUME NEW t \in C!ClientTransactions, NEW r, r = C!Terminate(t)
  PROVE  /\ r \in C!ClientTransactions /\ r.type = t.type
         /\ r.state = t.state /\ r.delivered = t.delivered
BY DEF C!Terminate, C!ClientTransactions

(* ReceiveResponse keeps a branch well formed, and it delivers what Delivers says. *)
LEMMA ResponseOffered ==
  ASSUME NEW t, Offered(t), NEW code \in Codes, NEW r, r = C!ReceiveResponse(t, code)
  PROVE  /\ Offered(r)
         /\ Rings(r) => Rings(t)
         /\ r.delivered = IF C!Delivers(t, code) THEN code ELSE t.delivered
         /\ C!Delivers(t, code) => Rings(t)
<1>1. t \in C!ClientTransactions /\ t.type = "ICT" /\ t.state # "Trying"
  BY DEF Offered
<1>2. code \in Nat
  BY CodesAreNat
<1>3. /\ t.armed \in SUBSET C!ClientTimers /\ t.done \in BOOLEAN /\ t.finals \in Nat
      /\ t.delivered \in Codes \cup {C!NoResponse} /\ t.acked \in Codes \cup {C!NoResponse}
      /\ t.state \in C!ClientStates /\ t.transport \in {"UDP", "TCP"}
  BY <1>1 DEF C!ClientTransactions, C!Transports
<1>4. CASE t.state = "Terminated"
  <2>1. r = t /\ ~C!Delivers(t, code)
    BY <1>4 DEF C!ReceiveResponse, C!Delivers
  <2> QED
    BY <2>1
<1>5. CASE t.state # "Terminated"
  <2>1. r = C!IctReceiveResponse(t, code)
    BY <1>1, <1>5 DEF C!ReceiveResponse
  <2>2. CASE t.state = "Completed"
    <3>1. ~C!Delivers(t, code)
      BY <2>2 DEF C!Delivers
    <3>2. CASE code >= 300
      <4>1. r = Changed(t, t.state, t.armed, t.delivered, t.finals, code)
        BY <1>1, <2>1, <2>2, <3>2
           DEF C!IctReceiveResponse, C!SendACK, Changed, C!ClientTransactions
      <4> QED
        BY <1>1, <1>3, <2>2, <3>1, <4>1, ChangedIs, TerminateIs DEF Offered, Rings
    <3>3. CASE ~(code >= 300)
      BY <2>1, <2>2, <3>1, <3>3 DEF C!IctReceiveResponse
    <3> QED
      BY <3>2, <3>3
  <2>3. CASE t.state \in {"Calling", "Proceeding"}
    <3>1. CASE code < 100
      <4>1. r = t /\ ~C!Delivers(t, code)
        BY <1>2, <2>1, <2>3, <3>1
           DEF C!IctReceiveResponse, C!Delivers, C!IsProvisional, C!IsFinal
      <4> QED
        BY <4>1
    <3>2. CASE C!IsProvisional(code)
      <4>1. C!Delivers(t, code) /\ ~C!IsFinal(code) /\ Rings(t) /\ ~t.done
        BY <1>2, <2>3, <3>2 DEF C!Delivers, C!IsProvisional, C!IsFinal, Rings, Offered
      <4>2. CASE t.state = "Calling"
        <5>1. r = C!OnResp(C!CancelTimers([t EXCEPT !.state = "Proceeding"], {"A", "B"}),
                           code)
          BY <2>1, <3>2, <4>1, <4>2 DEF C!IctReceiveResponse
        <5>2. r = Changed(t, "Proceeding", t.armed \ {"A", "B"}, code, t.finals, t.acked)
          BY <1>1, <4>1, <5>1
             DEF C!OnResp, C!CancelTimers, Changed, C!ClientTransactions
        <5> QED
          BY <1>1, <1>3, <4>1, <5>2, ChangedIs, TerminateIs
             DEF Offered, Rings, C!ClientStates
      <4>3. CASE t.state = "Proceeding"
        <5>1. r = C!OnResp(t, code)
          BY <2>1, <3>2, <4>1, <4>3 DEF C!IctReceiveResponse
        <5>2. r = Changed(t, "Proceeding", t.armed, code, t.finals, t.acked)
          BY <1>1, <4>1, <4>3, <5>1 DEF C!OnResp, Changed, C!ClientTransactions
        <5> QED
          BY <1>1, <1>3, <4>1, <5>2, ChangedIs, TerminateIs
             DEF Offered, Rings, C!ClientStates
      <4> QED
        BY <2>3, <4>2, <4>3
    <3>3. CASE C!IsFinal(code)
      <4>1. /\ C!Delivers(t, code) /\ ~C!IsProvisional(code)
            /\ Rings(t) /\ t.finals + 1 \in Nat
            /\ t.armed \ C!ClientTimers \in SUBSET C!ClientTimers
        BY <1>2, <1>3, <2>3, <3>3 DEF C!Delivers, C!IsProvisional, C!IsFinal, Rings
      <4>2. r = C!IctAnswer(t, code)
        BY <2>1, <2>3, <3>3, <4>1 DEF C!IctReceiveResponse
      <4>3. CASE C!IsSuccess(code)
        <5>1. r = C!Terminate(Changed(t, "Terminated", t.armed \ C!ClientTimers, code,
                                      t.finals + 1, t.acked))
          BY <1>1, <3>3, <4>2, <4>3
             DEF C!IctAnswer, C!OnResp, C!CancelTimers, Changed, C!ClientTransactions
        <5> QED
          BY <1>1, <1>3, <4>1, <5>1, ChangedIs, TerminateIs
             DEF Offered, Rings, C!ClientStates
      <4>4. CASE ~C!IsSuccess(code) /\ t.transport = "UDP"
        <5>1. r = Changed(t, "Completed", (t.armed \ C!ClientTimers) \cup {"D"}, code,
                          t.finals + 1, code)
          BY <1>1, <3>3, <4>2, <4>4
             DEF C!IctAnswer, C!Linger, C!StartTimers, C!SendACK, C!OnResp,
                 C!CancelTimers, Changed, C!ClientTransactions
        <5>2. (t.armed \ C!ClientTimers) \cup {"D"} \in SUBSET C!ClientTimers
          BY <1>3 DEF C!ClientTimers
        <5> QED
          BY <1>1, <1>3, <4>1, <5>1, <5>2, ChangedIs, TerminateIs
             DEF Offered, Rings, C!ClientStates
      <4>5. CASE ~C!IsSuccess(code) /\ t.transport = "TCP"
        <5>1. r = C!Terminate(Changed(t, "Completed", t.armed \ C!ClientTimers, code,
                                      t.finals + 1, code))
          BY <1>1, <3>3, <4>2, <4>5
             DEF C!IctAnswer, C!Linger, C!SendACK, C!OnResp, C!CancelTimers, Changed,
                 C!ClientTransactions
        <5> QED
          BY <1>1, <1>3, <4>1, <5>1, ChangedIs, TerminateIs
             DEF Offered, Rings, C!ClientStates
      <4> QED
        BY <1>3, <4>3, <4>4, <4>5
    <3> QED
      BY <1>2, <3>1, <3>2, <3>3 DEF C!IsProvisional, C!IsFinal
  <2> QED
    BY <1>1, <1>3, <1>5, <2>2, <2>3 DEF C!ClientStates
<1> QED
  BY <1>4, <1>5

(* So do its timers; timer B delivers the 408 of the layer. *)
LEMMA TimerOffered ==
  ASSUME NEW t, Offered(t), NEW name \in C!ClientTimers, NEW r,
         r = C!RunTimer(C!Expire(t, name), name)
  PROVE  /\ Offered(r)
         /\ Rings(r) => Rings(t)
         /\ r.delivered = IF C!GivesUp(t, name) THEN 408 ELSE t.delivered
         /\ C!GivesUp(t, name) => Rings(t)
<1>1. t \in C!ClientTransactions /\ t.type = "ICT" /\ t.state # "Trying"
  BY DEF Offered
<1> DEFINE u == [t EXCEPT !.armed = @ \ {name}, !.fired = (@ \cup {name}) \ {name}]
<1>2. /\ u \in C!ClientTransactions /\ u.type = t.type
      /\ u.delivered = t.delivered /\ u.state = t.state /\ u.done = t.done
  BY <1>1 DEF C!ClientTransactions
<1>3. r = CASE name = "A" -> C!Retransmit(u, "A", {"Calling"})
            [] name = "B" -> C!GiveUp(u, {"Calling"})
            [] name = "E" -> C!Retransmit(u, "E", {"Trying", "Proceeding"})
            [] name = "F" -> C!GiveUp(u, {"Trying", "Proceeding"})
            [] OTHER -> C!TimerDK(u)
  <2>1. u = [C!Expire(t, name) EXCEPT !.fired = @ \ {name}]
    BY <1>1 DEF C!Expire, C!ClientTransactions
  <2> QED
    BY <2>1 DEF C!RunTimer
<1> HIDE DEF u
<1>4. Offered(u) /\ (Rings(u) <=> Rings(t))
  BY <1>2 DEF Offered, Rings
<1>5. /\ u.armed \in SUBSET C!ClientTimers /\ u.done \in BOOLEAN /\ u.finals \in Nat
      /\ u.delivered \in Codes \cup {C!NoResponse} /\ u.acked \in Codes \cup {C!NoResponse}
      /\ u.state \in C!ClientStates
  BY <1>2 DEF C!ClientTransactions
<1>6. ASSUME NEW states, r = C!Retransmit(u, name, states)
      PROVE  Offered(r) /\ r.delivered = t.delivered /\ (Rings(r) => Rings(t))
  <2>1. CASE u.state \in states
    <3>1. r = Changed(u, u.state, u.armed \cup {name}, u.delivered, u.finals, u.acked)
      BY <1>2, <1>6, <2>1 DEF C!Retransmit, C!StartTimers, Changed, C!ClientTransactions
    <3>2. u.armed \cup {name} \in SUBSET C!ClientTimers
      BY <1>5
    <3> QED
      BY <1>2, <1>4, <1>5, <3>1, <3>2, ChangedIs, TerminateIs DEF Offered, Rings
  <2>2. CASE u.state \notin states
    <3>1. r = u
      BY <1>6, <2>2 DEF C!Retransmit
    <3> QED
      BY <1>2, <1>4, <3>1
  <2> QED
    BY <2>1, <2>2
<1>7. ASSUME NEW states, r = C!GiveUp(u, states),
             C!GivesUp(t, name) <=> t.state \in states,
             C!GivesUp(t, name) => Rings(t)
      PROVE  /\ Offered(r) /\ (Rings(r) => Rings(t))
             /\ r.delivered = IF C!GivesUp(t, name) THEN 408 ELSE t.delivered
  <2>1. CASE t.state \notin states
    <3>1. r = u
      BY <1>2, <1>7, <2>1 DEF C!GiveUp
    <3> QED
      BY <1>2, <1>4, <1>7, <2>1, <3>1
  <2>2. CASE t.state \in states
    <3>1. r = C!Terminate(C!OnResp(C!CancelTimers([u EXCEPT !.state = "Terminated"],
                                                  C!ClientTimers), 408))
      BY <1>2, <1>7, <2>2 DEF C!GiveUp
    <3>2. r = C!Terminate(Changed(u, "Terminated", u.armed \ C!ClientTimers, 408,
                                  u.finals + 1, u.acked))
      <4>1. PICK code \in Nat : code = 408 /\ C!IsFinal(code)
        BY DEF C!IsFinal
      <4>2. r = C!Terminate(C!OnResp(C!CancelTimers([u EXCEPT !.state = "Terminated"],
                                                    C!ClientTimers), code))
        BY <3>1, <4>1
      <4>3. r = C!Terminate(Changed(u, "Terminated", u.armed \ C!ClientTimers, code,
                                    u.finals + 1, u.acked))
        <5>1. C!CancelTimers([u EXCEPT !.state = "Terminated"], C!ClientTimers)
                = [u EXCEPT !.state = "Terminated", !.armed = u.armed \ C!ClientTimers]
          BY <1>2 DEF C!CancelTimers, C!ClientTransactions
        <5>2. C!OnResp([u EXCEPT !.state = "Terminated",
                                 !.armed = u.armed \ C!ClientTimers], code)
                = Changed(u, "Terminated", u.armed \ C!ClientTimers, code,
                          u.finals + 1, u.acked)
          <6>1. C!OnResp([u EXCEPT !.state = "Terminated",
                                   !.armed = u.armed \ C!ClientTimers], code)
                = [[u EXCEPT !.state = "Terminated", !.armed = u.armed \ C!ClientTimers]
                     EXCEPT !.delivered = code, !.finals = @ + 1]
            BY <4>1, Zenon DEF C!OnResp
          <6>2. @ = Changed(u, "Terminated", u.armed \ C!ClientTimers, code,
                            u.finals + 1, u.acked)
            BY <1>2 DEF Changed, C!ClientTransactions
          <6> QED
            BY <6>1, <6>2
        <5> QED
          BY <4>2, <5>1, <5>2
      <4> QED
        BY <4>1, <4>3
    <3>3. /\ u.finals + 1 \in Nat /\ 408 \in Codes
          /\ u.armed \ C!ClientTimers \in SUBSET C!ClientTimers
      BY <1>5, CodesAreNat
    <3> QED
      BY <1>2, <1>4, <1>5, <1>7, <2>2, <3>2, <3>3, ChangedIs, TerminateIs
         DEF Offered, Rings, C!ClientStates
  <2> QED
    BY <2>1, <2>2
<1>8. CASE name \in {"A", "E"}
  <2>1. ~C!GivesUp(t, name)
    BY <1>8 DEF C!GivesUp
  <2> QED
    BY <1>3, <1>6, <1>8, <2>1
<1>9. CASE name \in {"B", "F"}
  BY <1>1, <1>3, <1>7, <1>9 DEF C!GivesUp, Rings
<1>10. CASE name \notin {"A", "B", "E", "F"}
  <2>1. r = C!TimerDK(u) /\ ~C!GivesUp(t, name)
    BY <1>3, <1>10 DEF C!GivesUp
  <2>2. r = C!Terminate(Changed(u, "Terminated", u.armed, u.delivered, u.finals, u.acked))
    BY <1>2, <2>1 DEF C!TimerDK, Changed, C!ClientTransactions
  <2>3. "Terminated" \in C!ClientStates
    BY DEF C!ClientStates
  <2> QED
    BY <1>2, <1>4, <1>5, <2>1, <2>2, <2>3, ChangedIs, TerminateIs DEF Offered, Rings
<1> QED
  BY <1>8, <1>9, <1>10
------------------------------------------------------------------------------
USE DEF callVars, threadVars, branchVars

(* The event of a 2xx is there, or in the hand of playAudio()'s goroutine. *)
Reported == "call-start" \in events \/ player = "report"

(* A 2xx to the caller is reported, or playAudio()'s goroutine is about to, *)
(* and some callee, the script or its recording gave it; 487 answers a     *)
(* CANCEL or was given.                                                    *)
Justified(code) ==
  /\ S!IsSuccess(code) => Reported /\ Given(code)
  /\ code = 487 => caller.cancels \/ Given(487)

(* The reader is in the middle of answering a CANCEL or the watchdog's alarm. *)
Busy == handler.pc \in {"cancel", "watchdog"}
(* The handler has a response in its hand. *)
Answers == handler.pc \in {"answer", "lastAnswer"}

(* Every branch is well formed. *)
BranchesOffered == \A b \in Branches : branch[b] # None => Offered(branch[b])

(* The handler works on branches and codes that exist. *)
Placed ==
  /\ \A b \in registered : branch[b] # None
  /\ handler.pc \in {"register", "link"} =>
       handler.branch \in Branches /\ branch[handler.branch] # None
  /\ Answers => handler.code \in Codes
  /\ handler.pc = "cancel" => caller.cancels

(* Codes on their way to the caller: sent, taken from a branch, or in the  *)
(* handler's hand.                                                         *)
Told(code) ==
  \/ code = ist.sent
  \/ \E b \in Branches : code = forwarding[b]
  \/ Answers /\ code = handler.code

(* Each of them is justified. *)
AllJustified == \A code \in Codes : Told(code) => Justified(code)

(* A fan-out that starts now finds b, or the reader of the caller is still *)
(* creating it and takes no CANCEL before it has.                          *)
Findable(b) ==
  \/ b \in registered /\ b \in linked
  \/ b = handler.branch /\ handler.pc = "register"
  \/ b = handler.branch /\ handler.pc = "link" /\ b \in registered

(* Every branch that rings can be found, as long as the call is not answered. *)
LiveIsFindable == ist.state = "Proceeding" => \A b \in Branches : Live(b) => Findable(b)

(* The reader fans out only when it is busy with a CANCEL or the watchdog. *)
ReaderFans ==
  /\ fan["reader"].pc # "rest" => Busy
  /\ fan["reader"].pc # "send" => fan["reader"].target = None
  /\ \A f \in Fanners : fan[f].pc = "send" => fan[f].target \in Branches

(* The reader's fan-out has b before it, at hand, or behind it. *)
Fanned(b) == \/ b \in fan["reader"].todo
             \/ b = fan["reader"].target
             \/ b \in cancelled

(* A fan-out of the reader forgets no branch that rings. *)
LiveIsFanned ==
  ist.state = "Proceeding" /\ fan["reader"].pc \in {"check", "send"} =>
    \A b \in Branches : Live(b) => Fanned(b)

(* The inductive invariant. *)
IInv ==
  /\ TypeOK
  /\ Served(ist)
  /\ BranchesOffered
  /\ Placed
  /\ AllJustified
  /\ LiveIsFindable
  /\ ReaderFans
  /\ LiveIsFanned

(* The event of a 2xx is call-start. *)
LEMMA EventForIs ==
  ASSUME NEW code \in Codes
  PROVE  /\ EventFor(code) \subseteq {"auth-failed", "call-start", "call-attempt"}
         /\ S!IsSuccess(code) => "call-start" \in EventFor(code)
<1>1. code \in Nat
  BY CodesAreNat
<1>2. CASE code \in {401, 407}
  BY <1>1, <1>2 DEF EventFor, S!IsSuccess
<1>3. CASE S!IsSuccess(code)
  BY <1>1, <1>3 DEF EventFor, S!IsSuccess
<1>4. CASE code >= 300 /\ code \notin {401, 407}
  BY <1>1, <1>4 DEF EventFor, S!IsSuccess
<1>5. CASE code < 200
  BY <1>1, <1>5 DEF EventFor, S!IsSuccess
<1> QED
  BY <1>1, <1>2, <1>3, <1>4, <1>5 DEF S!IsSuccess

(* The layer's own responses need no justification. *)
LEMMA OwnCodes ==
  ASSUME NEW code \in {NoResponse, 100, 180, 408, 483, 500}
  PROVE  Justified(code) /\ ~S!IsSuccess(code)
BY DEF Justified, S!IsSuccess, NoResponse

(* What justifies a response stays, whatever else happens: events are not  *)
(* taken back, nor is the caller's CANCEL, a branch's final response or a  *)
(* recording's 200, whose event comes.                                     *)
Settled ==
  /\ events \subseteq events'
  /\ player = "report" => player' = "report" \/ "call-start" \in events'
  /\ player \in {"report", "done"} => player' \in {"report", "done"}
  /\ caller.cancels => caller'.cancels
  /\ \A b \in Branches : branch[b] # None =>
       /\ branch'[b] # None
       /\ C!IsFinal(branch[b].delivered) => branch'[b].delivered = branch[b].delivered

(* A response that is justified stays so. *)
LEMMA JustifiedStays ==
  ASSUME NEW code \in Codes, Justified(code), Settled
  PROVE  Justified(code)'
<1>1. CASE ~S!IsSuccess(code) /\ code # 487
  BY <1>1 DEF Justified
<1>2. CASE S!IsSuccess(code) \/ code = 487
  <2>1. C!IsFinal(code)
    BY <1>2, CodesAreNat DEF S!IsSuccess, C!IsFinal
  <2>2. Given(code) => Given(code)'
    BY <2>1 DEF Given, Settled
  <2> QED
    BY <1>2, <2>2 DEF Justified, Reported, Settled
<1> QED
  BY <1>1, <1>2

(* So it is enough to look at the response a step brings.                  *)
LEMMA AllJustifiedStays ==
  ASSUME AllJustified, Settled, NEW news \in Codes, Justified(news) \/ Justified(news)',
         \A code \in Codes : Told(code)' => Told(code) \/ code = news
  PROVE  AllJustified'
<1> SUFFICES ASSUME NEW code \in Codes, Told(code)'
             PROVE  Justified(code)'
  BY DEF AllJustified
<1>1. Told(code) \/ code = news
  OBVIOUS
<1>2. CASE Told(code)
  BY <1>2, JustifiedStays DEF AllJustified
<1>3. CASE code = news
  BY <1>3, JustifiedStays
<1> QED
  BY <1>1, <1>2, <1>3

(* Steps that leave the transactions and what is on the way to the caller  *)
(* alone.                                                                  *)
LEMMA AsideKeeps ==
  ASSUME IInv, UNCHANGED <<ist, branch, forwarding, player, events>>,
         caller.cancels => caller'.cancels,
         Answers' => Answers /\ handler'.code = handler.code
  PROVE  Served(ist)' /\ BranchesOffered' /\ AllJustified'
<1>1. Served(ist)' /\ BranchesOffered'
  BY DEF IInv, BranchesOffered, Offered, Rings, Served
<1>2. Settled
  BY DEF Settled
<1>3. \A code \in Codes : Told(code)' => Told(code) \/ code = 100
  BY DEF Told
<1>4. AllJustified'
  BY <1>2, <1>3, CodesAreNat, OwnCodes, AllJustifiedStays DEF IInv
<1> QED
  BY <1>1, <1>4

(* The layer inserts the transaction and starts the handler. *)
LEMMA HandlerInsertKeeps ==
  ASSUME IInv, HandlerInsert
  PROVE  IInv'
<1>1. Served(ist)' /\ BranchesOffered' /\ AllJustified'
  BY AsideKeeps DEF HandlerInsert, Answers, Idle
<1>2. handler' \in Handlers /\ fan' \in [Fanners -> FanOuts]
  BY NoneAssumption
     DEF IInv, TypeOK, HandlerInsert, Handlers, FanOuts, Codes, Idle, Resting, Fanners
<1>3. TypeOK'
  BY <1>2 DEF IInv, TypeOK, HandlerInsert
<1>4. Placed'
  BY NoneAssumption DEF IInv, TypeOK, HandlerInsert, Placed, Answers, Idle
<1>5. LiveIsFindable'
  BY NoneAssumption
     DEF IInv, TypeOK, HandlerInsert, Idle, LiveIsFindable, Findable, Live
<1>6. ReaderFans'
  BY NoneAssumption
     DEF IInv, TypeOK, HandlerInsert, Idle, Resting, Fanners, FanOuts, ReaderFans, Busy
<1>7. LiveIsFanned'
  BY NoneAssumption
     DEF IInv, TypeOK, HandlerInsert, Idle, Resting, Fanners, LiveIsFanned, Fanned,
         ReaderFans, Busy, Live
<1> QED
  BY <1>1, <1>3, <1>4, <1>5, <1>6, <1>7 DEF IInv

(* The handler arms the invite timeout. *)
LEMMA ArmInviteTimeoutKeeps ==
  ASSUME IInv, ArmInviteTimeout
  PROVE  IInv'
<1>1. Served(ist)' /\ BranchesOffered' /\ AllJustified'
  BY AsideKeeps DEF ArmInviteTimeout, Answers, Idle
<1>2. handler' \in Handlers /\ fan' \in [Fanners -> FanOuts]
  BY NoneAssumption
     DEF IInv, TypeOK, ArmInviteTimeout, Handlers, FanOuts, Codes, Idle, Resting,
         Fanners
<1>3. TypeOK'
  BY <1>2 DEF IInv, TypeOK, ArmInviteTimeout
<1>4. Placed'
  BY NoneAssumption DEF IInv, TypeOK, ArmInviteTimeout, Placed, Answers, Idle
<1>5. LiveIsFindable'
  BY NoneAssumption
     DEF IInv, TypeOK, ArmInviteTimeout, Idle, LiveIsFindable, Findable, Live
<1>6. ReaderFans'
  BY NoneAssumption
     DEF IInv, TypeOK, ArmInviteTimeout, Idle, Resting, Fanners, FanOuts, ReaderFans,
         Busy
<1>7. LiveIsFanned'
  BY NoneAssumption
     DEF IInv, TypeOK, ArmInviteTimeout, Idle, Resting, Fanners, LiveIsFanned, Fanned,
         ReaderFans, Busy, Live
<1> QED
  BY <1>1, <1>3, <1>4, <1>5, <1>6, <1>7 DEF IInv

(* A new branch enters the layer's map, ... *)
LEMMA RegisterBranchKeeps ==
  ASSUME IInv, RegisterBranch
  PROVE  IInv'
<1>1. Served(ist)' /\ BranchesOffered' /\ AllJustified'
  BY AsideKeeps DEF RegisterBranch, Answers, Idle
<1>2. handler' \in Handlers /\ fan' \in [Fanners -> FanOuts]
  BY NoneAssumption
     DEF IInv, TypeOK, RegisterBranch, Handlers, FanOuts, Codes, Idle, Resting, Fanners
<1>3. TypeOK'
  BY <1>2 DEF IInv, TypeOK, Placed, RegisterBranch
<1>4. Placed'
  BY NoneAssumption DEF IInv, TypeOK, RegisterBranch, Placed, Answers, Idle
<1>5. LiveIsFindable'
  BY NoneAssumption
     DEF IInv, TypeOK, RegisterBranch, Idle, LiveIsFindable, Findable, Live
<1>6. ReaderFans'
  BY NoneAssumption
     DEF IInv, TypeOK, RegisterBranch, Idle, Resting, Fanners, FanOuts, ReaderFans, Busy
<1>7. LiveIsFanned'
  BY NoneAssumption
     DEF IInv, TypeOK, RegisterBranch, Idle, Resting, Fanners, LiveIsFanned, Fanned,
         ReaderFans, Busy, Live
<1> QED
  BY <1>1, <1>3, <1>4, <1>5, <1>6, <1>7 DEF IInv

(* ... and is linked to the INVITE. *)
LEMMA LinkBranchKeeps ==
  ASSUME IInv, LinkBranch
  PROVE  IInv'
<1>1. Served(ist)' /\ BranchesOffered' /\ AllJustified'
  BY AsideKeeps DEF LinkBranch, Answers, Idle
<1>2. handler' \in Handlers /\ fan' \in [Fanners -> FanOuts]
  BY NoneAssumption
     DEF IInv, TypeOK, LinkBranch, Handlers, FanOuts, Codes, Idle, Resting, Fanners
<1>3. TypeOK'
  BY <1>2 DEF IInv, TypeOK, Placed, LinkBranch
<1>4. Placed'
  BY NoneAssumption DEF IInv, TypeOK, LinkBranch, Placed, Answers, Idle
<1>5. LiveIsFindable'
  BY NoneAssumption DEF IInv, TypeOK, LinkBranch, Idle, LiveIsFindable, Findable, Live
<1>6. ReaderFans'
  BY NoneAssumption
     DEF IInv, TypeOK, LinkBranch, Idle, Resting, Fanners, FanOuts, ReaderFans, Busy
<1>7. LiveIsFanned'
  BY NoneAssumption
     DEF IInv, TypeOK, LinkBranch, Idle, Resting, Fanners, LiveIsFanned, Fanned,
         ReaderFans, Busy, Live
<1> QED
  BY <1>1, <1>3, <1>4, <1>5, <1>6, <1>7 DEF IInv

(* The script ends, ... *)
LEMMA ScriptReturnsKeeps ==
  ASSUME IInv, ScriptReturns
  PROVE  IInv'
<1>1. Served(ist)' /\ BranchesOffered' /\ AllJustified'
  BY AsideKeeps DEF ScriptReturns, Answers, Idle
<1>2. handler' \in Handlers /\ fan' \in [Fanners -> FanOuts]
  BY NoneAssumption
     DEF IInv, TypeOK, ScriptReturns, Handlers, FanOuts, Codes, Idle, Resting, Fanners
<1>3. TypeOK'
  BY <1>2 DEF IInv, TypeOK, ScriptReturns
<1>4. Placed'
  BY NoneAssumption DEF IInv, TypeOK, ScriptReturns, Placed, Answers, Idle
<1>5. LiveIsFindable'
  BY NoneAssumption
     DEF IInv, TypeOK, ScriptReturns, Idle, LiveIsFindable, Findable, Live
<1>6. ReaderFans'
  BY NoneAssumption
     DEF IInv, TypeOK, ScriptReturns, Idle, Resting, Fanners, FanOuts, ReaderFans, Busy
<1>7. LiveIsFanned'
  BY NoneAssumption
     DEF IInv, TypeOK, ScriptReturns, Idle, Resting, Fanners, LiveIsFanned, Fanned,
         ReaderFans, Busy, Live
<1> QED
  BY <1>1, <1>3, <1>4, <1>5, <1>6, <1>7 DEF IInv

(* ... or its watchdog takes over. *)
LEMMA ScriptTimesOutKeeps ==
  ASSUME IInv, ScriptTimesOut
  PROVE  IInv'
<1>1. Served(ist)' /\ BranchesOffered' /\ AllJustified'
  BY AsideKeeps DEF ScriptTimesOut, Answers, Idle
<1>2. handler' \in Handlers /\ fan' \in [Fanners -> FanOuts]
  BY NoneAssumption
     DEF IInv, TypeOK, ScriptTimesOut, Handlers, FanOuts, Codes, Idle, Resting, Fanners
<1>3. TypeOK'
  BY <1>2 DEF IInv, TypeOK, ScriptTimesOut
<1>4. Placed'
  BY NoneAssumption DEF IInv, TypeOK, ScriptTimesOut, Placed, Answers, Idle
<1>5. LiveIsFindable'
  BY NoneAssumption
     DEF IInv, TypeOK, ScriptTimesOut, Idle, LiveIsFindable, Findable, Live
<1>6. ReaderFans'
  BY NoneAssumption
     DEF IInv, TypeOK, ScriptTimesOut, Idle, Resting, Fanners, FanOuts, ReaderFans, Busy
<1>7. LiveIsFanned'
  BY NoneAssumption
     DEF IInv, TypeOK, ScriptTimesOut, Idle, Resting, Fanners, LiveIsFanned, Fanned,
         ReaderFans, Busy, Live
<1> QED
  BY <1>1, <1>3, <1>4, <1>5, <1>6, <1>7 DEF IInv

(* The reader takes a CANCEL: from here on 487 is justified. *)
LEMMA CancelReceivedKeeps ==
  ASSUME IInv, CancelReceived
  PROVE  IInv'
<1>1. Served(ist)' /\ BranchesOffered' /\ AllJustified'
  BY AsideKeeps DEF CancelReceived, Answers, Idle
<1>2. handler' \in Handlers /\ fan' \in [Fanners -> FanOuts]
  BY NoneAssumption
     DEF IInv, TypeOK, CancelReceived, Handlers, FanOuts, Codes, Idle, Resting, Fanners
<1>3. TypeOK'
  BY <1>2 DEF IInv, TypeOK, CancelReceived
<1>4. Placed'
  BY NoneAssumption DEF IInv, TypeOK, CancelReceived, Placed, Answers, Idle
<1>5. LiveIsFindable'
  BY NoneAssumption
     DEF IInv, TypeOK, CancelReceived, CallerReaderFree, Idle, LiveIsFindable, Findable,
         Live
<1>6. ReaderFans'
  BY NoneAssumption
     DEF IInv, TypeOK, CancelReceived, CallerReaderFree, Idle, Resting, Fanners,
         FanOuts, ReaderFans, Busy
<1>7. LiveIsFanned'
  BY NoneAssumption
     DEF IInv, TypeOK, CancelReceived, Idle, Resting, Fanners, LiveIsFanned, Fanned,
         ReaderFans, Busy, Live
<1> QED
  BY <1>1, <1>3, <1>4, <1>5, <1>6, <1>7 DEF IInv

(* The invite timeout fires. *)
LEMMA InviteTimerFiresKeeps ==
  ASSUME IInv, InviteTimerFires
  PROVE  IInv'
<1>1. Served(ist)' /\ BranchesOffered' /\ AllJustified'
  BY AsideKeeps DEF InviteTimerFires, Answers, Idle
<1>2. handler' \in Handlers /\ fan' \in [Fanners -> FanOuts]
  BY NoneAssumption
     DEF IInv, TypeOK, InviteTimerFires, Handlers, FanOuts, Codes, Idle, Resting,
         Fanners
<1>3. TypeOK'
  BY <1>2 DEF IInv, TypeOK, InviteTimerFires
<1>4. Placed'
  BY NoneAssumption DEF IInv, TypeOK, InviteTimerFires, Placed, Answers, Idle
<1>5. LiveIsFindable'
  BY NoneAssumption
     DEF IInv, TypeOK, InviteTimerFires, Idle, LiveIsFindable, Findable, Live
<1>6. ReaderFans'
  BY NoneAssumption
     DEF IInv, TypeOK, InviteTimerFires, Idle, Resting, Fanners, FanOuts, ReaderFans,
         Busy
<1>7. LiveIsFanned'
  BY NoneAssumption
     DEF IInv, TypeOK, InviteTimerFires, Idle, Resting, Fanners, LiveIsFanned, Fanned,
         ReaderFans, Busy, Live
<1> QED
  BY <1>1, <1>3, <1>4, <1>5, <1>6, <1>7 DEF IInv

(* A fan-out takes its snapshot: every branch that rings is findable, and in it. *)
LEMMA FanScanKeeps ==
  ASSUME IInv, NEW f \in Fanners, FanScan(f)
  PROVE  IInv'
<1>1. Served(ist)' /\ BranchesOffered' /\ AllJustified'
  BY AsideKeeps DEF FanScan, Answers, Idle
<1>2. handler' \in Handlers /\ fan' \in [Fanners -> FanOuts]
  BY NoneAssumption
     DEF IInv, TypeOK, FanScan, Handlers, FanOuts, Codes, Idle, Resting, Fanners
<1>3. TypeOK'
  BY <1>2 DEF IInv, TypeOK, FanScan
<1>4. Placed'
  BY NoneAssumption DEF IInv, TypeOK, FanScan, Placed, Answers, Idle
<1>5. LiveIsFindable'
  BY NoneAssumption DEF IInv, TypeOK, FanScan, Idle, LiveIsFindable, Findable, Live
<1>6. ReaderFans'
  BY NoneAssumption
     DEF IInv, TypeOK, FanScan, Idle, Resting, Fanners, FanOuts, ReaderFans, Busy
<1>7. LiveIsFanned'
  BY NoneAssumption
     DEF IInv, TypeOK, FanScan, Idle, Resting, Fanners, LiveIsFanned, Fanned,
         ReaderFans, Busy, Live, LiveIsFindable, Findable
<1> QED
  BY <1>1, <1>3, <1>4, <1>5, <1>6, <1>7 DEF IInv

(* A fan-out passes over a branch that has gone from the map: it rings no more. *)
LEMMA FanCheckKeeps ==
  ASSUME IInv, NEW f \in Fanners, NEW x \in Branches, FanCheck(f, x)
  PROVE  IInv'
<1>1. Served(ist)' /\ BranchesOffered' /\ AllJustified'
  BY AsideKeeps DEF FanCheck, Answers, Idle
<1>2. handler' \in Handlers /\ fan' \in [Fanners -> FanOuts]
  BY NoneAssumption
     DEF IInv, TypeOK, FanCheck, Handlers, FanOuts, Codes, Idle, Resting, Fanners
<1>3. TypeOK'
  BY <1>2 DEF IInv, TypeOK, FanCheck
<1>4. Placed'
  BY NoneAssumption DEF IInv, TypeOK, FanCheck, Placed, Answers, Idle
<1>5. LiveIsFindable'
  BY NoneAssumption DEF IInv, TypeOK, FanCheck, Idle, LiveIsFindable, Findable, Live
<1>6. ReaderFans'
  BY NoneAssumption
     DEF IInv, TypeOK, FanCheck, Idle, Resting, Fanners, FanOuts, ReaderFans, Busy
<1>7. LiveIsFanned'
  BY NoneAssumption
     DEF IInv, TypeOK, FanCheck, Idle, Resting, Fanners, LiveIsFanned, Fanned,
         ReaderFans, Busy, Live
<1> QED
  BY <1>1, <1>3, <1>4, <1>5, <1>6, <1>7 DEF IInv

(* A fan-out cancels a branch. *)
LEMMA FanSendKeeps ==
  ASSUME IInv, NEW f \in Fanners, FanSend(f)
  PROVE  IInv'
<1>1. Served(ist)' /\ BranchesOffered' /\ AllJustified'
  BY AsideKeeps DEF FanSend, Answers, Idle
<1>2. handler' \in Handlers /\ fan' \in [Fanners -> FanOuts]
  BY NoneAssumption
     DEF IInv, TypeOK, FanSend, Handlers, FanOuts, Codes, Idle, Resting, Fanners
<1>3. TypeOK'
  BY <1>2 DEF IInv, TypeOK, ReaderFans, FanSend
<1>4. Placed'
  BY NoneAssumption DEF IInv, TypeOK, FanSend, Placed, Answers, Idle
<1>5. LiveIsFindable'
  BY NoneAssumption DEF IInv, TypeOK, FanSend, Idle, LiveIsFindable, Findable, Live
<1>6. ReaderFans'
  BY NoneAssumption
     DEF IInv, TypeOK, FanSend, Idle, Resting, Fanners, FanOuts, ReaderFans, Busy
<1>7. LiveIsFanned'
  BY NoneAssumption
     DEF IInv, TypeOK, FanSend, Idle, Resting, Fanners, LiveIsFanned, Fanned,
         ReaderFans, Busy, Live
<1> QED
  BY <1>1, <1>3, <1>4, <1>5, <1>6, <1>7 DEF IInv

(* The goroutine that waits for the transaction's end stops the invite timeout. *)
LEMMA WatcherStopsTimerKeeps ==
  ASSUME IInv, WatcherStopsTimer
  PROVE  IInv'
<1>1. Served(ist)' /\ BranchesOffered' /\ AllJustified'
  BY AsideKeeps DEF WatcherStopsTimer, Answers, Idle
<1>2. handler' \in Handlers /\ fan' \in [Fanners -> FanOuts]
  BY NoneAssumption
     DEF IInv, TypeOK, WatcherStopsTimer, Handlers, FanOuts, Codes, Idle, Resting,
         Fanners
<1>3. TypeOK'
  BY <1>2 DEF IInv, TypeOK, WatcherStopsTimer
<1>4. Placed'
  BY NoneAssumption DEF IInv, TypeOK, WatcherStopsTimer, Placed, Answers, Idle
<1>5. LiveIsFindable'
  BY NoneAssumption
     DEF IInv, TypeOK, WatcherStopsTimer, Idle, LiveIsFindable, Findable, Live
<1>6. ReaderFans'
  BY NoneAssumption
     DEF IInv, TypeOK, WatcherStopsTimer, Idle, Resting, Fanners, FanOuts, ReaderFans,
         Busy
<1>7. LiveIsFanned'
  BY NoneAssumption
     DEF IInv, TypeOK, WatcherStopsTimer, Idle, Resting, Fanners, LiveIsFanned, Fanned,
         ReaderFans, Busy, Live
<1> QED
  BY <1>1, <1>3, <1>4, <1>5, <1>6, <1>7 DEF IInv

(* The collector drops transactions that are done: a branch that rings is not. *)
LEMMA GCKeeps ==
  ASSUME IInv, GC
  PROVE  IInv'
<1>1. Served(ist)' /\ BranchesOffered' /\ AllJustified'
  BY AsideKeeps DEF GC, Answers, Idle
<1>2. handler' \in Handlers /\ fan' \in [Fanners -> FanOuts]
  BY NoneAssumption
     DEF IInv, TypeOK, GC, Handlers, FanOuts, Codes, Idle, Resting, Fanners
<1>3. TypeOK'
  BY <1>2 DEF IInv, TypeOK, GC
<1>4. Placed'
  BY NoneAssumption DEF IInv, TypeOK, GC, Placed, Answers, Idle
<1>5. LiveIsFindable'
  BY NoneAssumption
     DEF IInv, TypeOK, GC, Idle, LiveIsFindable, Findable, Live, BranchesOffered,
         Offered, Rings, Served
<1>6. ReaderFans'
  BY NoneAssumption
     DEF IInv, TypeOK, GC, Idle, Resting, Fanners, FanOuts, ReaderFans, Busy
<1>7. LiveIsFanned'
  BY NoneAssumption
     DEF IInv, TypeOK, GC, Idle, Resting, Fanners, LiveIsFanned, Fanned, ReaderFans,
         Busy, Live
<1> QED
  BY <1>1, <1>3, <1>4, <1>5, <1>6, <1>7 DEF IInv

------------------------------------------------------------------------------
(* The script creates a branch, or has an answer ready. *)

(* The script forwards: a new branch, which the handler is about to register. *)
LEMMA ScriptForwardsKeeps ==
  ASSUME IInv, NEW x \in Branches, ScriptForwards(x)
  PROVE  IInv'
<1>1. PICK t : t = C!NewClientTx("ICT", CalleeTransport) /\ Offered(t) /\ t # None
  BY NewBranch, TransportAssumption, NoneAssumption DEF Offered
<1>2. branch' = [branch EXCEPT ![x] = t] /\ branch[x] = None
  BY <1>1 DEF ScriptForwards
<1>3. handler' = [handler EXCEPT !.pc = "register", !.branch = x] /\ handler.pc = "script"
  BY DEF ScriptForwards
<1>4. UNCHANGED <<ist, fan, registered, linked, forwarding, cancelled, caller, player,
                  events>>
  BY DEF ScriptForwards
<1>5. handler' \in Handlers /\ branch' \in [Branches -> C!ClientTransactions \cup {None}]
  BY <1>1, <1>2, <1>3 DEF IInv, TypeOK, Handlers, Offered
<1>6. TypeOK'
  BY <1>4, <1>5 DEF IInv, TypeOK, ScriptForwards
<1>7. Served(ist)' /\ BranchesOffered'
  BY <1>1, <1>2, <1>4 DEF IInv, TypeOK, BranchesOffered, Offered, Rings, Served
<1>8. Placed'
  BY <1>1, <1>2, <1>3, <1>4 DEF IInv, TypeOK, Handlers, Placed, Answers
<1>9. AllJustified'
  <2>1. Settled
    BY <1>1, <1>2, <1>4 DEF IInv, TypeOK, Settled
  <2>2. \A code \in Codes : Told(code)' => Told(code) \/ code = 100
    BY <1>3, <1>4 DEF IInv, TypeOK, Handlers, Told, Answers
  <2> QED
    BY <2>1, <2>2, CodesAreNat, OwnCodes, AllJustifiedStays DEF IInv
<1>10. LiveIsFindable'
  BY <1>1, <1>2, <1>3, <1>4 DEF IInv, TypeOK, Handlers, LiveIsFindable, Findable, Live
<1>11. ReaderFans'
  BY <1>3, <1>4 DEF IInv, TypeOK, Handlers, ReaderFans, Busy
<1>12. LiveIsFanned'
  BY <1>3, <1>4 DEF IInv, TypeOK, Handlers, ReaderFans, Busy, LiveIsFanned
<1> QED
  BY <1>6, <1>7, <1>8, <1>9, <1>10, <1>11, <1>12 DEF IInv

(* The answers of the script and of the handler that ends: the event comes *)
(* with the step that decides the code.                                    *)
LEMMA AnswerPrepared ==
  ASSUME IInv, NEW code \in Codes,
         code \in LocalCodes \/ (~S!IsSuccess(code) /\ code # 487),
         events' = events \cup EventFor(code),
         NEW place \in {"answer", "lastAnswer"},
         handler' = [handler EXCEPT !.pc = place, !.code = code],
         \/ handler.pc = "script" /\ fan' = fan
         \/ handler.pc = "watchdog" /\ fan' = [fan EXCEPT !["reader"] = Resting],
         UNCHANGED <<callVars, reading, branchVars, caller, player>>
  PROVE  IInv'
<1>1. handler \in Handlers /\ fan \in [Fanners -> FanOuts]
  BY DEF IInv, TypeOK
<1>2. /\ handler' \in Handlers
      /\ handler'.pc = place /\ handler'.code = code /\ handler'.branch = handler.branch
  BY <1>1 DEF Handlers
<1>3. /\ fan' \in [Fanners -> FanOuts] /\ fan'["reader"] \in {fan["reader"], Resting}
      /\ handler.pc = "watchdog" => fan'["reader"] = Resting
  BY <1>1 DEF FanOuts, Resting, Fanners
<1>4. TypeOK'
  <2>1. events' \subseteq {"auth-failed", "call-start", "call-attempt"}
    BY EventForIs DEF IInv, TypeOK
  <2> QED
    BY <1>2, <1>3, <2>1 DEF IInv, TypeOK
<1>5. Served(ist)' /\ BranchesOffered'
  BY DEF IInv, BranchesOffered, Offered, Rings, Served
<1>6. Placed'
  BY <1>2 DEF IInv, Placed, Answers
<1>7. AllJustified'
  <2>1. Settled
    BY DEF Settled
  <2>2. Justified(code)'
    BY EventForIs DEF Justified, Reported, Given
  <2>3. \A c \in Codes : Told(c)' => Told(c) \/ c = code
    BY <1>2 DEF Told, Answers
  <2> QED
    BY <2>1, <2>2, <2>3, AllJustifiedStays DEF IInv
<1>8. LiveIsFindable'
  BY DEF IInv, LiveIsFindable, Findable, Live
<1>9. ReaderFans'
  <2>1. fan'["reader"].pc = "rest" /\ fan'["reader"].target = None
    BY <1>1, <1>3 DEF IInv, ReaderFans, Busy, Resting, FanOuts, Fanners
  <2>2. \A f \in Fanners : fan'[f] \in {fan[f], Resting}
    BY <1>1 DEF Fanners
  <2> QED
    BY <2>1, <2>2 DEF IInv, ReaderFans, Resting
<1>10. LiveIsFanned'
  BY <1>1, <1>3 DEF IInv, ReaderFans, Busy, LiveIsFanned, Resting
<1> QED
  BY <1>4, <1>5, <1>6, <1>7, <1>8, <1>9, <1>10 DEF IInv

(* The script answers. *)
LEMMA ScriptAnswersKeeps ==
  ASSUME IInv, NEW code \in LocalCodes, ScriptAnswers(code)
  PROVE  IInv'
<1>1. code \in Codes
  BY DEF Codes
<1>2. /\ handler' = [handler EXCEPT !.pc = "answer", !.code = code]
      /\ handler.pc = "script" /\ fan' = fan
      /\ events' = events \cup EventFor(code)
      /\ UNCHANGED <<callVars, reading, branchVars, caller, player>>
  BY DEF ScriptAnswers
<1> QED
  BY <1>1, <1>2, AnswerPrepared

(* The script fails: 500. *)
LEMMA ScriptFailsKeeps ==
  ASSUME IInv, ScriptFails
  PROVE  IInv'
<1>1. PICK code \in Codes : code = 500 /\ code # 487 /\ ~S!IsSuccess(code)
  BY OwnCodes, CodesAreNat
<1>2. /\ handler' = [handler EXCEPT !.pc = "lastAnswer", !.code = code]
      /\ handler.pc = "script" /\ fan' = fan
      /\ events' = events \cup EventFor(code)
      /\ UNCHANGED <<callVars, reading, branchVars, caller, player>>
  BY <1>1 DEF ScriptFails
<1>3. code \in Codes /\ code # 487 /\ ~S!IsSuccess(code)
  BY <1>1
<1> QED
  BY <1>2, <1>3, AnswerPrepared

(* The watchdog has cancelled the branches: 408 is next. *)
LEMMA WatchdogAnswersKeeps ==
  ASSUME IInv, WatchdogAnswers
  PROVE  IInv'
<1>1. PICK code \in Codes : code = 408 /\ code # 487 /\ ~S!IsSuccess(code)
  BY OwnCodes, CodesAreNat
<1>2. /\ handler' = [handler EXCEPT !.pc = "lastAnswer", !.code = code]
      /\ handler.pc = "watchdog" /\ fan' = [fan EXCEPT !["reader"] = Resting]
      /\ events' = events \cup EventFor(code)
      /\ UNCHANGED <<callVars, reading, branchVars, caller, player>>
  BY <1>1 DEF WatchdogAnswers
<1>3. code \in Codes /\ code # 487 /\ ~S!IsSuccess(code)
  BY <1>1
<1> QED
  BY <1>2, <1>3, AnswerPrepared

------------------------------------------------------------------------------
(* The server transaction takes a response, a message of the caller or a   *)
(* timer.                                                                  *)

(* A step of it: what is sent is what was sent before or a response that   *)
(* is justified, and nothing makes it wait for an answer again.            *)
Moves ==
  /\ Served(ist')
  /\ ist'.state = "Proceeding" => ist.state = "Proceeding"
  /\ \E news \in Codes :
       (Justified(news) \/ Justified(news)') /\ ist'.sent \in {ist.sent, news}

(* Handing a justified response to RespondToRequest is such a step. *)
LEMMA RespondMoves ==
  ASSUME IInv, NEW code \in Codes, Justified(code) \/ Justified(code)',
         RespondToRequest(code)
  PROVE  Moves /\ stateless' \in Codes \cup {NoResponse}
<1>1. CASE ist' = S!Respond(ist, code) /\ UNCHANGED stateless
  BY <1>1, RespondServes DEF IInv, TypeOK, Moves
<1>2. CASE ist' = ist /\ stateless' = code
  BY <1>2 DEF IInv, Moves
<1> QED
  BY <1>1, <1>2 DEF RespondToRequest

(* What such a step keeps, when nothing but the handler, the fan-out and   *)
(* playAudio()'s goroutine moves with it.                                  *)
LEMMA MovesKeep ==
  ASSUME IInv, Moves, Settled,
         UNCHANGED <<branch, registered, linked, cancelled, caller>>,
         \A b \in Branches : forwarding'[b] \in {forwarding[b], NoResponse},
         Answers' => Answers /\ handler' = handler,
         \/ handler' \in {handler, Idle, [Idle EXCEPT !.pc = "script"]}
         \/ handler'.pc = "watchdog",
         handler.pc \notin {"register", "link"} \/ handler' = handler,
         fan'["reader"] = fan["reader"] \/ fan'["reader"].pc \in {"rest", "scan"}
  PROVE  /\ Served(ist)' /\ BranchesOffered' /\ Placed' /\ AllJustified'
         /\ LiveIsFindable' /\ LiveIsFanned'
<1>1. Served(ist)' /\ BranchesOffered'
  BY DEF IInv, BranchesOffered, Offered, Rings, Served, Moves
<1>2. Placed'
  BY DEF IInv, Placed, Answers, Idle
<1>3. AllJustified'
  <2>1. PICK news \in Codes :
          (Justified(news) \/ Justified(news)') /\ ist'.sent \in {ist.sent, news}
    BY DEF Moves
  <2>2. Settled
    OBVIOUS
  <2>3. \A c \in Codes : Told(c)' => Told(c) \/ c \in {news, NoResponse}
    BY <2>1 DEF Told
  <2>4. \A c \in Codes : Told(c)' => Justified(c)'
    BY <2>1, <2>2, <2>3, JustifiedStays, OwnCodes DEF IInv, AllJustified
  <2> QED
    BY <2>4 DEF AllJustified
<1>4. LiveIsFindable'
  BY DEF IInv, Moves, LiveIsFindable, Findable, Live, Idle
<1>5. LiveIsFanned'
  BY DEF IInv, Moves, LiveIsFanned, Fanned, Live, Resting
<1> QED
  BY <1>1, <1>2, <1>3, <1>4, <1>5

(* The forwarder refuses: 483, past the handler. *)
LEMMA ScriptTooManyHopsKeeps ==
  ASSUME IInv, ScriptTooManyHops
  PROVE  IInv'
<1>1. Moves /\ stateless' \in Codes \cup {NoResponse}
  BY CodesAreNat, OwnCodes, RespondMoves DEF ScriptTooManyHops
<1>2. TypeOK'
  BY <1>1 DEF IInv, TypeOK, ScriptTooManyHops, Moves, Served
<1>3. ReaderFans'
  BY DEF IInv, ReaderFans, Busy, ScriptTooManyHops
<1>4. /\ UNCHANGED <<threadVars, branchVars, caller, player, events>>
      /\ \A b \in Branches : forwarding'[b] \in {forwarding[b], NoResponse}
  BY DEF ScriptTooManyHops
<1> QED
  BY <1>1, <1>2, <1>3, <1>4, MovesKeep DEF IInv, Answers, Settled

(* playAudio() rings: 180, and the script is over, in time or for the watchdog. *)
LEMMA ScriptPlaysKeeps ==
  ASSUME IInv, ScriptPlays
  PROVE  IInv'
<1>1. Moves /\ stateless' \in Codes \cup {NoResponse}
  <2>1. PICK code \in Codes : code = 180 /\ Justified(code)
    BY CodesAreNat, OwnCodes
  <2> QED
    BY <2>1, RespondMoves DEF ScriptPlays
<1>2. Settled
  BY DEF ScriptPlays, Settled
<1>3. handler \in Handlers /\ fan \in [Fanners -> FanOuts]
  BY DEF IInv, TypeOK
<1>4. /\ handler' \in Handlers
      /\ handler' = Idle \/ handler'.pc = "watchdog"
      /\ handler'.pc \in {"idle", "watchdog"}
  BY <1>3 DEF ScriptPlays, Idle, Handlers
<1>5. /\ fan' \in [Fanners -> FanOuts]
      /\ fan'["reader"] = fan["reader"] \/ fan'["reader"].pc = "scan"
      /\ fan'["timer"] = fan["timer"]
      /\ fan' = fan \/ (handler'.pc = "watchdog" /\ fan'["reader"].pc = "scan")
      /\ fan'["reader"].target = fan["reader"].target
  BY <1>3 DEF ScriptPlays, FanOuts, Fanners, Handlers
<1>6. TypeOK'
  BY <1>1, <1>4, <1>5 DEF IInv, TypeOK, ScriptPlays, Moves, Served
<1>7. ReaderFans'
  <2>1. fan["reader"].pc = "rest" /\ fan["reader"].target = None
    BY DEF IInv, ReaderFans, Busy, ScriptPlays
  <2> QED
    BY <1>5, <2>1 DEF IInv, ReaderFans, Busy, Fanners
<1>8. /\ ~Answers' /\ handler.pc = "script"
      /\ UNCHANGED <<branch, registered, linked, cancelled, caller, forwarding>>
  BY <1>4 DEF ScriptPlays, Answers
<1> QED
  BY <1>1, <1>2, <1>4, <1>5, <1>6, <1>7, <1>8, MovesKeep DEF IInv

(* Its goroutine answers 200: from now on the event is in its hand. *)
LEMMA PlayerAnswersKeeps ==
  ASSUME IInv, PlayerAnswers
  PROVE  IInv'
<1>1. Moves /\ stateless' \in Codes \cup {NoResponse}
  <2>1. PICK code \in Codes : code = 200
    BY CodesAreNat
  <2>2. Justified(code)'
    BY <2>1 DEF PlayerAnswers, Justified, Reported, Given
  <2> QED
    BY <2>1, <2>2, RespondMoves DEF PlayerAnswers
<1>2. Settled
  BY DEF PlayerAnswers, Settled
<1>3. TypeOK'
  BY <1>1 DEF IInv, TypeOK, PlayerAnswers, Moves, Served
<1>4. ReaderFans'
  BY DEF IInv, ReaderFans, Busy, PlayerAnswers
<1>5. UNCHANGED <<threadVars, branchVars, caller>>
  BY DEF PlayerAnswers
<1> QED
  BY <1>1, <1>2, <1>3, <1>4, <1>5, MovesKeep DEF IInv, Answers

(* ... and then sends it. *)
LEMMA PlayerReportsKeeps ==
  ASSUME IInv, PlayerReports
  PROVE  IInv'
<1>1. Settled
  BY DEF PlayerReports, Settled
<1>2. TypeOK'
  BY DEF IInv, TypeOK, PlayerReports
<1>3. Moves
  BY CodesAreNat, OwnCodes DEF IInv, PlayerReports, Moves
<1>4. ReaderFans'
  BY DEF IInv, ReaderFans, Busy, PlayerReports
<1>5. UNCHANGED <<callVars, threadVars, branchVars, caller>>
  BY DEF PlayerReports
<1> QED
  BY <1>1, <1>2, <1>3, <1>4, <1>5, MovesKeep DEF IInv, Answers

(* The handler hands over its response. *)
LEMMA HandlerAnswersKeeps ==
  ASSUME IInv, HandlerAnswers
  PROVE  IInv'
<1>1. Moves /\ stateless' \in Codes \cup {NoResponse}
  <2>1. PICK code \in Codes : code = handler.code /\ Justified(code)
    BY DEF HandlerAnswers, IInv, Placed, AllJustified, Told, Answers
  <2> QED
    BY <2>1, RespondMoves DEF HandlerAnswers
<1>2. handler' \in {Idle, [Idle EXCEPT !.pc = "script"]} /\ handler' \in Handlers
  BY NoneAssumption DEF HandlerAnswers, Idle, Handlers
<1>3. TypeOK'
  BY <1>1, <1>2 DEF IInv, TypeOK, HandlerAnswers, Moves, Served
<1>4. ReaderFans'
  BY DEF IInv, ReaderFans, Busy, HandlerAnswers
<1> QED
  BY <1>1, <1>2, <1>3, <1>4, MovesKeep DEF HandlerAnswers, IInv, Answers, Idle, Settled

(* The CANCEL is answered: 487. *)
LEMMA CancelAnswersKeeps ==
  ASSUME IInv, CancelAnswers
  PROVE  IInv'
<1>1. Moves
  <2>1. Justified(487) /\ 487 \in Codes
    BY CodesAreNat DEF CancelAnswers, IInv, Placed, Justified, S!IsSuccess
  <2>2. CASE ist' = ist
    BY <2>1, <2>2 DEF IInv, Moves
  <2>3. CASE ist' = S!Respond(ist, 487)
    BY <2>1, <2>3, RespondServes DEF IInv, Moves
  <2> QED
    BY <2>2, <2>3 DEF CancelAnswers
<1>2. handler' \in Handlers /\ fan' \in [Fanners -> FanOuts] /\ fan'["reader"] = Resting
  BY DEF CancelAnswers, Idle, Handlers, IInv, TypeOK, FanOuts, Resting, Fanners
<1>3. TypeOK'
  BY <1>1, <1>2 DEF IInv, TypeOK, CancelAnswers, Moves, Served
<1>4. ReaderFans'
  BY NoneAssumption DEF IInv, TypeOK, ReaderFans, Busy, CancelAnswers, Resting, Fanners
<1> QED
  BY <1>1, <1>2, <1>3, <1>4, MovesKeep DEF CancelAnswers, IInv, Answers, Idle, Settled, Resting

(* The invite timeout has cancelled the branches: 408. *)
LEMMA TimeoutAnswersKeeps ==
  ASSUME IInv, TimeoutAnswers
  PROVE  IInv'
<1>1. Moves
  <2>1. PICK code \in Codes : code = 408 /\ Justified(code)
    BY OwnCodes, CodesAreNat
  <2>2. ist' = S!Respond(ist, code)
    BY <2>1 DEF TimeoutAnswers
  <2> QED
    BY <2>1, <2>2, RespondServes DEF IInv, Moves
<1>2. fan' \in [Fanners -> FanOuts] /\ fan'["reader"] = fan["reader"]
  BY DEF TimeoutAnswers, IInv, TypeOK, FanOuts, Resting, Fanners
<1>3. TypeOK'
  BY <1>1, <1>2 DEF IInv, TypeOK, TimeoutAnswers, Moves, Served
<1>4. ReaderFans'
  BY NoneAssumption DEF IInv, TypeOK, ReaderFans, Busy, TimeoutAnswers, Resting, Fanners
<1>5. /\ UNCHANGED <<handler, branchVars, caller, player, events>>
      /\ \A b \in Branches : forwarding'[b] \in {forwarding[b], NoResponse}
  BY DEF TimeoutAnswers
<1> QED
  BY <1>1, <1>2, <1>3, <1>4, <1>5, MovesKeep DEF IInv, Answers, Settled

(* The forwarder hands a branch's response to the INVITE. *)
LEMMA ForwardResponseKeeps ==
  ASSUME IInv, NEW x \in Branches, ForwardResponse(x)
  PROVE  IInv'
<1>1. Moves /\ stateless' \in Codes \cup {NoResponse}
  <2>1. PICK code \in Codes : code = forwarding[x] /\ Justified(code)
    BY DEF ForwardResponse, Unlocked, IInv, TypeOK, AllJustified, Told
  <2> QED
    BY <2>1, RespondMoves DEF ForwardResponse
<1>2. /\ forwarding' \in [Branches -> Codes \cup {NoResponse}]
      /\ \A b \in Branches : forwarding'[b] \in {forwarding[b], NoResponse}
  BY DEF ForwardResponse, IInv, TypeOK
<1>3. TypeOK'
  BY <1>1, <1>2 DEF IInv, TypeOK, ForwardResponse, Moves, Served
<1>4. ReaderFans'
  BY DEF IInv, ReaderFans, Busy, ForwardResponse
<1>5. UNCHANGED <<handler, fan, branch, registered, linked, cancelled, caller, player,
                  events>>
  BY DEF ForwardResponse
<1> QED
  BY <1>1, <1>2, <1>3, <1>4, <1>5, MovesKeep DEF IInv, Answers, Settled

(* The caller's own messages and the transaction's timers bring nothing    *)
(* but 100 again.                                                          *)
LEMMA CallerKeeps ==
  ASSUME IInv,
         \/ InviteRetransmitted \/ ACKReceived
         \/ \E name \in S!ServerTimers : InviteTxTimer(name)
  PROVE  IInv'
<1>1. Moves /\ reborn' \in BOOLEAN
      /\ UNCHANGED <<tracked, inviteTimer, stateless, threadVars, branchVars, caller,
                     player, events>>
  <2>1. CASE InviteRetransmitted
    <3>1. CASE ist' = ist /\ reborn' = TRUE
      BY <2>1, <3>1, CodesAreNat, OwnCodes DEF InviteRetransmitted, IInv, Moves
    <3>2. CASE ist' = S!ReceiveRequest(ist) /\ reborn' = reborn
      BY <2>1, <3>2, CodesAreNat, OwnCodes, PeerServes
         DEF InviteRetransmitted, IInv, TypeOK, Moves
    <3> QED
      BY <2>1, <3>1, <3>2 DEF InviteRetransmitted
  <2>2. CASE ACKReceived
    BY <2>2, CodesAreNat, OwnCodes, PeerServes DEF ACKReceived, IInv, TypeOK, Moves
  <2>3. CASE \E name \in S!ServerTimers : InviteTxTimer(name)
    BY <2>3, CodesAreNat, OwnCodes, TimerServes DEF InviteTxTimer, IInv, TypeOK, Moves
  <2> QED
    BY <2>1, <2>2, <2>3
<1>2. TypeOK'
  BY <1>1 DEF IInv, TypeOK, Moves, Served
<1>3. ReaderFans'
  BY <1>1 DEF IInv, ReaderFans, Busy
<1> QED
  BY <1>1, <1>2, <1>3, MovesKeep DEF IInv, Answers, Settled

------------------------------------------------------------------------------
(* A branch takes a response or a timer. *)

(* What a branch's step keeps: the branch stays well formed, rings no more than *)
(* before, and what it delivers is forwarded and justified.                *)
LEMMA BranchMovesKeep ==
  ASSUME IInv, NEW x \in Branches, branch[x] # None, NEW r, Offered(r),
         Rings(r) => Rings(branch[x]), branch' = [branch EXCEPT ![x] = r],
         NEW code \in Codes,
         \/ /\ Rings(branch[x]) /\ r.delivered = code
            /\ forwarding' = [forwarding EXCEPT ![x] = code]
            /\ events' = events \cup EventFor(code)
         \/ r.delivered = branch[x].delivered /\ UNCHANGED <<forwarding, events>>,
         reading' \subseteq Branches,
         UNCHANGED <<callVars, handler, fan, registered, linked, cancelled, caller, player>>
  PROVE  IInv'
<1>1. r # None /\ r \in C!ClientTransactions
  BY NoneAssumption DEF Offered
<1>2. TypeOK'
  <2>1. branch' \in [Branches -> C!ClientTransactions \cup {None}]
    BY <1>1 DEF IInv, TypeOK
  <2>2. forwarding' \in [Branches -> Codes \cup {NoResponse}]
    BY DEF IInv, TypeOK
  <2>3. events' \subseteq {"auth-failed", "call-start", "call-attempt"}
    BY EventForIs DEF IInv, TypeOK
  <2> QED
    BY <2>1, <2>2, <2>3 DEF IInv, TypeOK
<1>3. Served(ist)' /\ BranchesOffered'
  BY DEF IInv, TypeOK, BranchesOffered, Served, Offered, Rings
<1>4. Placed'
  BY <1>1 DEF IInv, TypeOK, Placed, Answers
<1>5. AllJustified'
  <2>1. Settled
    BY <1>1 DEF IInv, TypeOK, Settled, BranchesOffered, Offered
  <2>2. CASE UNCHANGED forwarding
    <3>1. \A c \in Codes : Told(c)' => Told(c) \/ c = 100
      BY <2>2 DEF Told, Answers
    <3> QED
      BY <2>1, <3>1, CodesAreNat, OwnCodes, AllJustifiedStays DEF IInv
  <2>3. CASE /\ r.delivered = code
             /\ forwarding' = [forwarding EXCEPT ![x] = code]
             /\ events' = events \cup EventFor(code)
    <3>1. Justified(code)'
      <4>1. Given(code)'
        BY <1>1, <2>3 DEF IInv, TypeOK, Given
      <4>2. S!IsSuccess(code) => "call-start" \in events'
        BY <2>3, EventForIs
      <4> QED
        BY <4>1, <4>2 DEF Justified, Reported
    <3>2. \A c \in Codes : Told(c)' => Told(c) \/ c = code
      BY <2>3 DEF IInv, TypeOK, Told, Answers
    <3> QED
      BY <2>1, <3>1, <3>2, AllJustifiedStays DEF IInv
  <2> QED
    BY <2>2, <2>3
<1>6. \A b \in Branches : Live(b)' => Live(b)
  BY DEF IInv, TypeOK, Live, Rings
<1>7. LiveIsFindable'
  BY <1>6 DEF IInv, LiveIsFindable, Findable
<1>8. ReaderFans'
  BY DEF IInv, ReaderFans, Busy
<1>9. LiveIsFanned'
  BY <1>6 DEF IInv, LiveIsFanned, Fanned
<1> QED
  BY <1>2, <1>3, <1>4, <1>5, <1>7, <1>8, <1>9 DEF IInv

(* A callee responds: what it delivers is reported and forwarded in one step. *)
LEMMA BranchResponseKeeps ==
  ASSUME IInv, NEW x \in Branches, NEW code \in UpstreamCodes, BranchResponse(x, code)
  PROVE  IInv'
<1>1. code \in Codes /\ branch[x] # None /\ Offered(branch[x])
  BY DEF BranchResponse, IInv, Placed, BranchesOffered, Codes
<1>2. PICK r : r = C!ReceiveResponse(branch[x], code)
  OBVIOUS
<1>3. /\ Offered(r) /\ (Rings(r) => Rings(branch[x]))
      /\ C!Delivers(branch[x], code) => Rings(branch[x]) /\ r.delivered = code
      /\ ~C!Delivers(branch[x], code) => r.delivered = branch[x].delivered
  BY <1>1, <1>2, ResponseOffered
<1>4. branch' = [branch EXCEPT ![x] = r]
  BY <1>2 DEF BranchResponse
<1>5. reading' \subseteq Branches
  BY DEF BranchResponse, IInv, TypeOK
<1>6. UNCHANGED <<callVars, handler, fan, registered, linked, cancelled, caller, player>>
  BY DEF BranchResponse
<1>7. \/ /\ Rings(branch[x]) /\ r.delivered = code
         /\ forwarding' = [forwarding EXCEPT ![x] = code]
         /\ events' = events \cup EventFor(code)
      \/ r.delivered = branch[x].delivered /\ UNCHANGED <<forwarding, events>>
  BY <1>3 DEF BranchResponse
<1> QED
  BY <1>1, <1>3, <1>4, <1>5, <1>6, <1>7, BranchMovesKeep

(* A timer of a branch. *)
LEMMA BranchTimerKeeps ==
  ASSUME IInv, NEW x \in Branches, NEW name \in C!ClientTimers, BranchTimer(x, name)
  PROVE  IInv'
<1>1. branch[x] # None /\ Offered(branch[x])
  BY DEF BranchTimer, IInv, BranchesOffered
<1>2. PICK code \in Codes : code = 408
  BY CodesAreNat
<1>3. PICK r : r = C!RunTimer(C!Expire(branch[x], name), name)
  OBVIOUS
<1>4. /\ Offered(r) /\ (Rings(r) => Rings(branch[x]))
      /\ C!GivesUp(branch[x], name) => Rings(branch[x]) /\ r.delivered = code
      /\ ~C!GivesUp(branch[x], name) => r.delivered = branch[x].delivered
  BY <1>1, <1>3, <1>2, TimerOffered
<1>5. branch' = [branch EXCEPT ![x] = r]
  BY <1>3 DEF BranchTimer
<1>6. /\ reading' \subseteq Branches
      /\ UNCHANGED <<callVars, handler, fan, registered, linked, cancelled, caller, player>>
  BY DEF BranchTimer, IInv, TypeOK
<1>7. \/ /\ Rings(branch[x]) /\ r.delivered = code
         /\ forwarding' = [forwarding EXCEPT ![x] = code]
         /\ events' = events \cup EventFor(code)
      \/ r.delivered = branch[x].delivered /\ UNCHANGED <<forwarding, events>>
  BY <1>4, <1>2 DEF BranchTimer
<1> QED
  BY <1>1, <1>4, <1>5, <1>6, <1>7, BranchMovesKeep

------------------------------------------------------------------------------
(* Theorems *)

(* The invariant holds at the start, *)
LEMMA Initially == Init => IInv
<1> SUFFICES ASSUME Init
             PROVE  IInv
  OBVIOUS
<1>1. Served(ist) /\ ist.sent = 100
  BY NewInvite, TransportAssumption DEF Init
<1>2. TypeOK
  <2>1. handler \in Handlers /\ fan \in [Fanners -> FanOuts]
    BY DEF Init, Idle, Resting, Handlers, FanOuts, Fanners
  <2> QED
    BY <1>1, <2>1 DEF Init, TypeOK, Served
<1>3. BranchesOffered /\ Placed
  BY DEF Init, BranchesOffered, Placed, Answers, Idle
<1>4. AllJustified
  <2>1. \A code \in Codes : Told(code) => code \in {100, NoResponse}
    BY <1>1 DEF Init, Told, Answers, Idle
  <2> QED
    BY <2>1, OwnCodes DEF AllJustified
<1>5. LiveIsFindable /\ ReaderFans /\ LiveIsFanned
  BY NoneAssumption
     DEF Init, LiveIsFindable, Live, ReaderFans, LiveIsFanned, Resting, Fanners, Idle
<1> QED
  BY <1>1, <1>2, <1>3, <1>4, <1>5 DEF IInv

(* ... and every step keeps it. *)
LEMMA NextKeeps == IInv /\ [Next]_vars => IInv'
<1> SUFFICES ASSUME IInv, [Next]_vars
             PROVE  IInv'
  OBVIOUS
<1>1. CASE HandlerStep
  BY <1>1, HandlerInsertKeeps, ArmInviteTimeoutKeeps, RegisterBranchKeeps,
     LinkBranchKeeps, HandlerAnswersKeeps, CancelAnswersKeeps, WatchdogAnswersKeeps
     DEF HandlerStep
<1>2. CASE ScriptStep \/ ScriptTimesOut
  BY <1>2, ScriptForwardsKeeps, ScriptAnswersKeeps, ScriptTooManyHopsKeeps,
     ScriptFailsKeeps, ScriptReturnsKeeps, ScriptTimesOutKeeps, ScriptPlaysKeeps
     DEF ScriptStep
<1>3. CASE \E f \in Fanners : FanStep(f)
  BY <1>3, FanScanKeeps, FanCheckKeeps, FanSendKeeps DEF FanStep
<1>4. CASE InviteTimerFires \/ TimeoutAnswers \/ WatcherStopsTimer \/ GC
  BY <1>4, InviteTimerFiresKeeps, TimeoutAnswersKeeps, WatcherStopsTimerKeeps, GCKeeps
<1>5. CASE \E b \in Branches : ForwardResponse(b)
  BY <1>5, ForwardResponseKeeps
<1>6. CASE TimerStep
  BY <1>6, CallerKeeps, BranchTimerKeeps DEF TimerStep
<1>7. CASE PeerStep
  BY <1>7, BranchResponseKeeps, CancelReceivedKeeps, CallerKeeps DEF PeerStep
<1>8. CASE PlayerAnswers \/ PlayerReports
  BY <1>8, PlayerAnswersKeeps, PlayerReportsKeeps
<1>9. CASE UNCHANGED vars
  <2>1. Served(ist)' /\ BranchesOffered' /\ AllJustified'
    BY <1>9, AsideKeeps DEF vars, Answers
  <2>2. TypeOK' /\ Placed' /\ LiveIsFindable' /\ ReaderFans' /\ LiveIsFanned'
    BY <1>9
       DEF vars, IInv, TypeOK, Placed, Answers, LiveIsFindable, Findable, Live,
           ReaderFans, Busy, LiveIsFanned, Fanned
  <2> QED
    BY <2>1, <2>2 DEF IInv
<1> QED
  BY <1>1, <1>2, <1>3, <1>4, <1>5, <1>6, <1>7, <1>8, <1>9 DEF Next

(* For any set of branches, codes and transports, the invariant holds in every *)
(* state of a call.                                                        *)
THEOREM InviteInvariance == SafeSpec => []IInv
BY Initially, NextKeeps, PTL DEF SafeSpec

(* TypeOK, the record types of the transactions included. *)
THEOREM TypeCorrectness == SafeSpec => []TypeOK
<1>1. IInv => TypeOK
  BY DEF IInv
<1> QED
  BY <1>1, InviteInvariance, PTL

(* AnswerIsGenuine (transaction/layer.go, forwarding of responses): the caller *)
(* never sees a 2xx that no callee and no script gave, nor a 487 without CANCEL. *)
THEOREM AnswersAreGenuine == SafeSpec => []AnswerIsGenuine
<1>1. IInv => AnswerIsGenuine
  <2> SUFFICES ASSUME IInv
               PROVE  AnswerIsGenuine
    OBVIOUS
  <2>1. CASE ist.sent \in Codes
    <3>1. Justified(ist.sent)
      BY <2>1 DEF IInv, AllJustified, Told
    <3> QED
      BY <3>1 DEF Justified, AnswerIsGenuine
  <2>2. CASE ist.sent = NoResponse
    BY <2>2, OwnCodes DEF AnswerIsGenuine, NoResponse
  <2> QED
    BY <2>1, <2>2 DEF IInv, TypeOK, S!ServerTransactions, S!NoResponse, NoResponse
<1> QED
  BY <1>1, InviteInvariance, PTL

(* AnsweredCallIsReported (emitResponseEvent, PlayAudio): whoever is answered *)
(* has been reported, or playAudio()'s goroutine has the event in hand; no  *)
(* path of the forwarder gets past the event.                              *)
THEOREM AnsweredCallsAreReported == SafeSpec => []AnsweredCallIsReported
<1>1. IInv => AnsweredCallIsReported
  <2> SUFFICES ASSUME IInv
               PROVE  AnsweredCallIsReported
    OBVIOUS
  <2>1. CASE ist.sent \in Codes
    <3>1. Justified(ist.sent)
      BY <2>1 DEF IInv, AllJustified, Told
    <3> QED
      BY <3>1 DEF Justified, Reported, AnsweredCallIsReported
  <2>2. CASE ist.sent = NoResponse
    BY <2>2, OwnCodes DEF AnsweredCallIsReported, NoResponse
  <2> QED
    BY <2>1, <2>2 DEF IInv, TypeOK, S!ServerTransactions, S!NoResponse, NoResponse
<1> QED
  BY <1>1, InviteInvariance, PTL

(* When the reader's fan-out is done, every branch that rings was cancelled. *)
LEMMA FannedOut ==
  ASSUME IInv, FanDone("reader"), ist.state = "Proceeding"
  PROVE  \A b \in Branches : Live(b) => b \in cancelled
BY NoneAssumption
   DEF IInv, TypeOK, FanDone, FanOuts, Fanners, LiveIsFanned, Fanned, ReaderFans

(* The fan-out of the reader ends only by the answer it was made for.       *)
LEMMA FanOutEnds ==
  ASSUME IInv, Next, Busy, handler'.pc # handler.pc
  PROVE  \/ handler.pc = "cancel" /\ CancelAnswers
         \/ handler.pc = "watchdog" /\ WatchdogAnswers
<1>1. CASE HandlerStep
  BY <1>1
     DEF HandlerStep, HandlerInsert, ArmInviteTimeout, RegisterBranch, LinkBranch,
         HandlerAnswers, CancelAnswers, WatchdogAnswers, Busy
<1>2. CASE ScriptStep \/ ScriptTimesOut
  BY <1>2
     DEF ScriptStep, ScriptForwards, ScriptAnswers, ScriptTooManyHops, ScriptFails,
         ScriptReturns, ScriptPlays, ScriptTimesOut, Busy
<1>3. CASE \E f \in Fanners : FanStep(f)
  BY <1>3 DEF FanStep, FanScan, FanCheck, FanSend
<1>4. CASE InviteTimerFires \/ TimeoutAnswers \/ WatcherStopsTimer \/ GC
  BY <1>4 DEF InviteTimerFires, TimeoutAnswers, WatcherStopsTimer, GC
<1>5. CASE \E b \in Branches : ForwardResponse(b)
  BY <1>5 DEF ForwardResponse
<1>6. CASE PlayerAnswers \/ PlayerReports
  BY <1>6 DEF PlayerAnswers, PlayerReports
<1>7. CASE TimerStep
  BY <1>7 DEF TimerStep, InviteTxTimer, BranchTimer
<1>8. CASE PeerStep
  BY <1>8
     DEF PeerStep, BranchResponse, CancelReceived, CallerReaderFree,
         InviteRetransmitted, ACKReceived, Busy
<1> QED
  BY <1>1, <1>2, <1>3, <1>4, <1>5, <1>6, <1>7, <1>8 DEF Next

(* CancelLeavesNoBranch (layer.go, CANCEL): when the reader answers the CANCEL, *)
(* every branch that still rings has been sent one.                        *)
THEOREM CancelMissesNoBranch == SafeSpec => CancelLeavesNoBranch
<1>1. IInv /\ [Next]_vars
        => [LeavesNoBranch(handler.pc = "cancel" /\ handler'.pc = "idle")]_vars
  <2> SUFFICES ASSUME IInv, Next, handler.pc = "cancel", handler'.pc = "idle",
                      ist.state = "Proceeding"
               PROVE  \A b \in Branches : Live(b) => b \in cancelled'
    BY DEF LeavesNoBranch
  <2> QED
    BY FanOutEnds, FannedOut DEF CancelAnswers, Busy
<1> QED
  BY <1>1, InviteInvariance, PTL DEF SafeSpec, CancelLeavesNoBranch

(* WatchdogLeavesNoBranch: the same when the script's watchdog fires. *)
THEOREM WatchdogMissesNoBranch == SafeSpec => WatchdogLeavesNoBranch
<1>1. IInv /\ [Next]_vars
        => [LeavesNoBranch(handler.pc = "watchdog" /\ handler'.pc = "lastAnswer")]_vars
  <2> SUFFICES ASSUME IInv, Next, handler.pc = "watchdog", handler'.pc = "lastAnswer",
                      ist.state = "Proceeding"
               PROVE  \A b \in Branches : Live(b) => b \in cancelled'
    BY DEF LeavesNoBranch
  <2> QED
    BY FanOutEnds, FannedOut DEF WatchdogAnswers, Busy
<1> QED
  BY <1>1, InviteInvariance, PTL DEF SafeSpec, WatchdogLeavesNoBranch

------------------------------------------------------------------------------
(* The locks of the layer (LayerLocks), for any number of threads on each path. *)

(* The operations of the paths. *)
Ops == {<<"rlock">>, <<"runlock">>, <<"wlock">>, <<"wunlock">>,
        <<"lock", "ICT">>, <<"unlock", "ICT">>, <<"lock", "IST">>, <<"unlock", "IST">>}

(* No operation is mistaken for another. *)
LEMMA OpsDiffer ==
  /\ <<"rlock">> \notin {<<"runlock">>, <<"wlock">>, <<"wunlock">>,
        <<"lock", "ICT">>, <<"unlock", "ICT">>, <<"lock", "IST">>, <<"unlock", "IST">>}
  /\ <<"wlock">> \notin {<<"runlock">>, <<"wunlock">>,
        <<"lock", "ICT">>, <<"unlock", "ICT">>, <<"lock", "IST">>, <<"unlock", "IST">>}
  /\ <<"lock", "IST">> \notin {<<"runlock">>, <<"wunlock">>,
        <<"lock", "ICT">>, <<"unlock", "ICT">>, <<"unlock", "IST">>}
  /\ <<"lock", "ICT">> \notin {<<"runlock">>, <<"wunlock">>,
        <<"unlock", "ICT">>, <<"unlock", "IST">>}
OBVIOUS

(* In s, operation a is always followed by b. *)
Follows(s, a, b) == \A i \in 1..Len(s) : s[i] = a => i < Len(s) /\ s[i + 1] = b

(* What follows in two paths follows in the one after the other. *)
LEMMA FollowsCat ==
  ASSUME NEW Elements, NEW s \in Seq(Elements), NEW t \in Seq(Elements), NEW a, NEW b,
         Follows(s, a, b), Follows(t, a, b)
  PROVE  Follows(s \o t, a, b)
<1> DEFINE r == s \o t
<1>1. /\ Len(s) \in Nat /\ Len(t) \in Nat /\ Len(r) = Len(s) + Len(t)
      /\ \A i \in 1..Len(r) : r[i] = IF i <= Len(s) THEN s[i] ELSE t[i - Len(s)]
  BY ConcatProperties, LenProperties
<1> HIDE DEF r
<1>2. ASSUME NEW i \in 1..Len(r), r[i] = a PROVE i < Len(r) /\ r[i + 1] = b
  <2>1. CASE i <= Len(s)
    <3>1. s[i] = a /\ i \in 1..Len(s)
      BY <1>1, <1>2, <2>1
    <3>2. i < Len(s) /\ s[i + 1] = b
      BY <3>1 DEF Follows
    <3>3. i + 1 \in 1..Len(r) /\ i + 1 <= Len(s)
      BY <1>1, <3>1, <3>2
    <3> QED
      BY <1>1, <3>2, <3>3
  <2>2. CASE i > Len(s)
    <3>1. i - Len(s) \in 1..Len(t) /\ t[i - Len(s)] = a
      BY <1>1, <1>2, <2>2
    <3>2. i - Len(s) < Len(t) /\ t[(i - Len(s)) + 1] = b
      BY <3>1 DEF Follows
    <3>3. i + 1 \in 1..Len(r) /\ ~(i + 1 <= Len(s)) /\ (i + 1) - Len(s) = (i - Len(s)) + 1
      BY <1>1, <3>1, <3>2, <2>2
    <3> QED
      BY <1>1, <3>2, <3>3
  <2> QED
    BY <1>1, <2>1, <2>2
<1> QED
  BY <1>2 DEF Follows, r

(* The branch's lock is held before operation i of s. *)
Inside(s, i) ==
  \E j \in 1..(i - 1) : /\ s[j] = <<"lock", "ICT">>
                        /\ \A k \in (j + 1)..(i - 1) : s[k] # <<"unlock", "ICT">>

(* The branch's lock is not taken twice, and is given back before the path ends. *)
Sections(s) ==
  \A i \in 1..Len(s) :
    /\ Inside(s, i) => s[i] # <<"lock", "ICT">>
    /\ Inside(s, i) \/ s[i] = <<"lock", "ICT">> => i < Len(s) \/ s[i] = <<"unlock", "ICT">>

(* Sections of two paths stay apart in the one after the other. *)
LEMMA SectionsCat ==
  ASSUME NEW Elements, NEW s \in Seq(Elements), NEW t \in Seq(Elements),
         Sections(s), Sections(t)
  PROVE  Sections(s \o t)
<1> DEFINE r == s \o t
           L == <<"lock", "ICT">>
           U == <<"unlock", "ICT">>
<1>1. /\ Len(s) \in Nat /\ Len(t) \in Nat /\ Len(r) = Len(s) + Len(t)
      /\ \A i \in 1..Len(r) : r[i] = IF i <= Len(s) THEN s[i] ELSE t[i - Len(s)]
  BY ConcatProperties, LenProperties
<1>2. \A i \in 1..Len(s) : r[i] = s[i]
  BY <1>1
<1>3. \A i \in 1..Len(t) : r[Len(s) + i] = t[i]
  BY <1>1
<1>4. L # U
  BY OpsDiffer
<1> HIDE DEF r, L, U
<1>5. ASSUME NEW i \in 1..Len(r), NEW j \in 1..(i - 1),
             r[j] = L, \A k \in (j + 1)..(i - 1) : r[k] # U, j <= Len(s)
      PROVE  i <= Len(s) /\ Inside(s, i)
  <2>1. s[j] = L /\ j \in 1..Len(s)
    BY <1>1, <1>2, <1>5
  <2>2. CASE i <= Len(s)
    <3>1. \A k \in (j + 1)..(i - 1) : k \in 1..Len(s) /\ s[k] # U
      BY <1>1, <1>2, <1>5, <2>2
    <3> QED
      BY <2>1, <2>2, <3>1, <1>5 DEF Inside, L, U
  <2>3. CASE i > Len(s)
    <3>1. \A k \in (j + 1)..Len(s) : s[k] # U
      BY <1>1, <1>2, <1>5, <2>3
    <3>2. CASE j = Len(s)
      BY <1>4, <2>1, <3>2 DEF Sections, L, U
    <3>3. CASE j < Len(s)
      <4>1. Len(s) \in 1..Len(s) /\ j \in 1..(Len(s) - 1)
        BY <1>1, <2>1, <3>3
      <4>2. Inside(s, Len(s))
        <5>1. \A k \in (j + 1)..(Len(s) - 1) : s[k] # U
          BY <1>1, <3>1
        <5> QED
          BY <2>1, <4>1, <5>1 DEF Inside, L, U
      <4>3. s[Len(s)] # U
        BY <3>1, <3>3, <4>1
      <4> QED
        BY <4>1, <4>2, <4>3 DEF Sections, U
    <3> QED
      BY <2>1, <3>2, <3>3
  <2> QED
    BY <1>1, <2>2, <2>3
<1>6. ASSUME NEW i \in 1..Len(r), NEW j \in 1..(i - 1),
             r[j] = L, \A k \in (j + 1)..(i - 1) : r[k] # U, j > Len(s)
      PROVE  i > Len(s) /\ Inside(t, i - Len(s))
  <2> DEFINE m == i - Len(s)
             l == j - Len(s)
  <2>1. m \in 1..Len(t) /\ l \in 1..(m - 1) /\ i = Len(s) + m /\ j = Len(s) + l
    BY <1>1, <1>6
  <2> HIDE DEF m, l
  <2>2. t[l] = L
    BY <1>1, <1>3, <1>6, <2>1
  <2>3. ASSUME NEW k \in (l + 1)..(m - 1) PROVE t[k] # U
    <3>1. Len(s) + k \in (j + 1)..(i - 1) /\ k \in 1..Len(t)
      BY <1>1, <2>1
    <3> QED
      BY <1>3, <1>6, <3>1
  <2>4. Inside(t, m)
    BY <2>1, <2>2, <2>3 DEF Inside, L, U
  <2> QED
    BY <1>1, <1>6, <2>4 DEF m
<1>7. ASSUME NEW i \in 1..Len(r), Inside(r, i)
      PROVE  \/ i <= Len(s) /\ Inside(s, i)
             \/ i > Len(s) /\ Inside(t, i - Len(s))
  <2>1. PICK j \in 1..(i - 1) : r[j] = L /\ \A k \in (j + 1)..(i - 1) : r[k] # U
    BY <1>7 DEF Inside, L, U
  <2> QED
    BY <1>1, <1>5, <1>6, <2>1
<1>8. ASSUME NEW i \in 1..Len(r)
      PROVE  /\ Inside(r, i) => r[i] # L
             /\ Inside(r, i) \/ r[i] = L => i < Len(r) \/ r[i] = U
  <2>1. CASE i <= Len(s)
    <3>1. i \in 1..Len(s) /\ r[i] = s[i] /\ (i < Len(s) => i < Len(r))
      BY <1>1, <1>2, <2>1
    <3> QED
      BY <1>1, <1>7, <2>1, <3>1 DEF Sections, L, U
  <2>2. CASE i > Len(s)
    <3>1. i - Len(s) \in 1..Len(t) /\ r[i] = t[i - Len(s)]
          /\ (i - Len(s) < Len(t) => i < Len(r))
      BY <1>1, <2>2
    <3> QED
      BY <1>1, <1>7, <2>2, <3>1 DEF Sections, L, U
  <2> QED
    BY <1>1, <2>1, <2>2
<1> QED
  BY <1>8 DEF Sections, r, L, U

(* What a path must be for the locks to be ordered: the layer's lock and the *)
(* INVITE's are given back by the operation after the one that takes them.   *)
Orderly(s) ==
  /\ s \in Seq(Ops) /\ Len(s) > 0
  /\ Follows(s, <<"rlock">>, <<"runlock">>)
  /\ Follows(s, <<"wlock">>, <<"wunlock">>)
  /\ Follows(s, <<"lock", "IST">>, <<"unlock", "IST">>)
  /\ Sections(s)

(* Orderly paths may follow each other. *)
LEMMA OrderlyCat ==
  ASSUME NEW s, NEW t, Orderly(s), Orderly(t)
  PROVE  Orderly(s \o t)
<1>1. /\ s \in Seq(Ops) /\ t \in Seq(Ops) /\ s \o t \in Seq(Ops)
      /\ Len(s) > 0 /\ Len(t) > 0 /\ Len(s) \in Nat /\ Len(t) \in Nat
      /\ Len(s \o t) = Len(s) + Len(t)
  BY ConcatProperties, LenProperties DEF Orderly
<1>2. Follows(s \o t, <<"rlock">>, <<"runlock">>)
  BY <1>1, FollowsCat DEF Orderly
<1>3. Follows(s \o t, <<"wlock">>, <<"wunlock">>)
  BY <1>1, FollowsCat DEF Orderly
<1>4. Follows(s \o t, <<"lock", "IST">>, <<"unlock", "IST">>)
  BY <1>1, FollowsCat DEF Orderly
<1>5. Sections(s \o t)
  BY <1>1, SectionsCat DEF Orderly
<1> QED
  BY <1>1, <1>2, <1>3, <1>4, <1>5 DEF Orderly

(* To take a lock and give it back is orderly. *)
LEMMA PairIsOrderly ==
  ASSUME NEW s,
         \/ s = <<<<"rlock">>, <<"runlock">>>>
         \/ s = <<<<"wlock">>, <<"wunlock">>>>
         \/ s = <<<<"lock", "IST">>, <<"unlock", "IST">>>>
         \/ s = <<<<"lock", "ICT">>, <<"unlock", "ICT">>>>
  PROVE  Orderly(s)
<1>1. s \in Seq(Ops) /\ Len(s) = 2
  <2>1. CASE s = <<<<"rlock">>, <<"runlock">>>>
    BY <2>1 DEF Ops
  <2>2. CASE s = <<<<"wlock">>, <<"wunlock">>>>
    BY <2>2 DEF Ops
  <2>3. CASE s = <<<<"lock", "IST">>, <<"unlock", "IST">>>>
    BY <2>3 DEF Ops
  <2>4. CASE s = <<<<"lock", "ICT">>, <<"unlock", "ICT">>>>
    BY <2>4 DEF Ops
  <2> QED
    BY <2>1, <2>2, <2>3, <2>4
<1>2. Follows(s, <<"rlock">>, <<"runlock">>)
  BY OpsDiffer DEF Follows
<1>3. Follows(s, <<"wlock">>, <<"wunlock">>)
  BY OpsDiffer DEF Follows
<1>4. Follows(s, <<"lock", "IST">>, <<"unlock", "IST">>)
  BY OpsDiffer DEF Follows
<1>5. Sections(s)
  BY <1>1, OpsDiffer DEF Sections, Inside
<1> QED
  BY <1>1, <1>2, <1>3, <1>4, <1>5 DEF Orderly

(* So is anything orderly done under the branch's lock, if it is left alone. *)
LEMMA BracketIsOrderly ==
  ASSUME NEW s, Orderly(s),
         \A i \in 1..Len(s) : s[i] \notin {<<"lock", "ICT">>, <<"unlock", "ICT">>}
  PROVE  Orderly((<<<<"lock", "ICT">>>> \o s) \o <<<<"unlock", "ICT">>>>)
<1> DEFINE L == <<"lock", "ICT">>
           U == <<"unlock", "ICT">>
           l == <<L>>
           u == <<U>>
           r == (l \o s) \o u
<1>1. /\ l \in Seq(Ops) /\ Len(l) = 1 /\ l[1] = L
      /\ u \in Seq(Ops) /\ Len(u) = 1 /\ u[1] = U
      /\ s \in Seq(Ops) /\ Len(s) \in Nat
  BY LenProperties DEF Ops, Orderly
<1>2. \A x \in {l, u} : /\ Follows(x, <<"rlock">>, <<"runlock">>)
                        /\ Follows(x, <<"wlock">>, <<"wunlock">>)
                        /\ Follows(x, <<"lock", "IST">>, <<"unlock", "IST">>)
  BY OpsDiffer DEF Follows
<1> HIDE DEF l, u
<1>3. /\ Follows(l \o s, <<"rlock">>, <<"runlock">>)
      /\ Follows(l \o s, <<"wlock">>, <<"wunlock">>)
      /\ Follows(l \o s, <<"lock", "IST">>, <<"unlock", "IST">>)
  BY <1>1, <1>2, FollowsCat DEF Orderly
<1>4. /\ l \o s \in Seq(Ops) /\ Len(l \o s) = 1 + Len(s)
      /\ \A i \in 1..(1 + Len(s)) : (l \o s)[i] = IF i <= 1 THEN l[i] ELSE s[i - 1]
  <2>1. /\ l \o s \in Seq(Ops)
        /\ Len(l \o s) = Len(l) + Len(s)
        /\ \A i \in 1..(Len(l) + Len(s)) :
             (l \o s)[i] = IF i <= Len(l) THEN l[i] ELSE s[i - Len(l)]
    BY <1>1, ConcatProperties
  <2> QED
    BY <1>1, <2>1
<1>5. /\ Follows(r, <<"rlock">>, <<"runlock">>)
      /\ Follows(r, <<"wlock">>, <<"wunlock">>)
      /\ Follows(r, <<"lock", "IST">>, <<"unlock", "IST">>)
  BY <1>1, <1>2, <1>3, <1>4, FollowsCat
<1>6. /\ r \in Seq(Ops) /\ Len(r) = Len(s) + 2
      /\ \A i \in 1..(Len(s) + 2) :
           r[i] = IF i <= 1 + Len(s) THEN (l \o s)[i] ELSE u[i - (1 + Len(s))]
  BY <1>1, <1>4, ConcatProperties
<1> HIDE DEF r
<1>7. r[Len(s) + 2] = U
  BY <1>1, <1>6
<1>8. \A i \in 2..(Len(s) + 1) : r[i] # L /\ r[i] # U
  <2> SUFFICES ASSUME NEW i \in 2..(Len(s) + 1) PROVE r[i] # L /\ r[i] # U
    OBVIOUS
  <2>1. i - 1 \in 1..Len(s) /\ r[i] = s[i - 1]
    BY <1>1, <1>4, <1>6
  <2> QED
    BY <2>1
<1>9. L # U
  BY OpsDiffer
<1> HIDE DEF L, U
<1>10. Sections(r)
  <2>1. ASSUME NEW i \in 1..Len(r)
        PROVE  /\ Inside(r, i) => r[i] # L
               /\ i < Len(r) \/ r[i] = U
    <3>1. CASE i = 1
      BY <1>1, <1>6, <3>1 DEF Inside
    <3>2. CASE i \in 2..(Len(s) + 1)
      BY <1>1, <1>6, <1>8, <3>2
    <3>3. CASE i = Len(s) + 2
      BY <1>1, <1>6, <1>7, <1>9, <3>3
    <3> QED
      BY <1>1, <1>6, <3>1, <3>2, <3>3
  <2> QED
    BY <2>1 DEF Sections, L, U
<1>11. Orderly(r)
  BY <1>5, <1>6, <1>10 DEF Orderly
<1> QED
  BY <1>11 DEF r, l, u, L, U

(* Every path but that of GET /transactions is orderly: it takes transactions' *)
(* mutexes while it holds the layer's lock.                                     *)
LEMMA PathsAreOrderly ==
  ASSUME NEW t \in Threads, Path[t] # "list"
  PROVE  Orderly(Program(t))
<1>1. Orderly(Reading) /\ Orderly(Writing) /\ Orderly(Using("IST")) /\ Orderly(Using("ICT"))
  BY PairIsOrderly DEF Reading, Writing, Using
<1>2. Orderly(Forwarding)
  <2> DEFINE L == <<<<"lock", "ICT">>>>
             U == <<<<"unlock", "ICT">>>>
             s == Reading \o Using("IST")
  <2>1. Orderly(s)
    BY <1>1, OrderlyCat
  <2>2. \A i \in 1..Len(s) : s[i] \notin {<<"lock", "ICT">>, <<"unlock", "ICT">>}
    <3>1. /\ Reading \in Seq(Ops) /\ Len(Reading) = 2
          /\ Using("IST") \in Seq(Ops) /\ Len(Using("IST")) = 2
      BY DEF Reading, Using, Ops
    <3>2. /\ Len(s) = 4
          /\ \A i \in 1..4 : s[i] = IF i <= 2 THEN Reading[i] ELSE Using("IST")[i - 2]
      BY <3>1, ConcatProperties
    <3>3. \A i \in 1..2 : /\ Reading[i] \notin {<<"lock", "ICT">>, <<"unlock", "ICT">>}
                          /\ Using("IST")[i] \notin {<<"lock", "ICT">>, <<"unlock", "ICT">>}
      BY OpsDiffer DEF Reading, Using
    <3> HIDE DEF s
    <3> QED
      BY <3>2, <3>3
  <2>3. Orderly((L \o s) \o U)
    BY <2>1, <2>2, BracketIsOrderly
  <2>4. Forwarding = (L \o s) \o U
    <3>1. /\ Reading \in Seq(Ops) /\ Using("IST") \in Seq(Ops)
          /\ L \in Seq(Ops) /\ U \in Seq(Ops)
      BY DEF Reading, Using, Ops
    <3>2. (L \o Reading) \o Using("IST") = L \o s
      BY <3>1, ConcatAssociative
    <3> QED
      BY <3>2 DEF Forwarding
  <2> QED
    BY <2>3, <2>4
<1>3. Orderly(Response) /\ Orderly(ClientTimer) /\ Orderly(Retransmission)
  BY <1>1, <1>2, OrderlyCat DEF Response, ClientTimer, Retransmission
<1>4. Orderly(Cancel)
  <2>1. Orderly(Reading \o Using("ICT"))
    BY <1>1, OrderlyCat
  <2>2. Orderly((Reading \o Using("ICT")) \o Writing)
    BY <1>1, <2>1, OrderlyCat
  <2>3. Orderly(((Reading \o Using("ICT")) \o Writing) \o Using("IST"))
    BY <1>1, <2>2, OrderlyCat
  <2> QED
    BY <2>3 DEF Cancel
<1>5. Orderly(Timeout)
  BY <1>1, <1>4, OrderlyCat DEF Timeout
<1>6. Path[t] \in Paths
  BY ThreadsAssumption
<1> QED
  BY <1>1, <1>2, <1>3, <1>4, <1>5, <1>6 DEF Program, Paths, Gc, ServerTimer

(* Nobody lists transactions. *)
SipOnly == \A t \in Threads : Path[t] # "list"

(* The inductive invariant: whoever holds a lock is about to give it back, but *)
(* for the branch's lock, under which other locks are taken.                   *)
LockInv ==
  /\ LocksTypeOK
  /\ \A t \in Threads : owner["IST"] = t => Op(t) = <<"unlock", "IST">>
  /\ \A t \in Threads : owner["ICT"] = t => Inside(Program(t), pc[t])
  /\ \A t \in readers : Op(t) = <<"runlock">>
  /\ \A t \in waiting : Op(t) = <<"wlock">>
  /\ \A t \in Threads : writer = t => Op(t) = <<"wunlock">>

(* The next operation of a thread is one of Ops, and takes no lock twice. *)
LEMMA OpsAre ==
  ASSUME LocksTypeOK, NEW t \in Threads, Path[t] # "list"
  PROVE  /\ Op(t) \in Ops
         /\ Inside(Program(t), pc[t]) => Op(t) # <<"lock", "ICT">>
<1>1. Orderly(Program(t)) /\ pc[t] \in 1..Len(Program(t))
  BY PathsAreOrderly DEF LocksTypeOK
<1> QED
  BY <1>1, ElementOfSeq DEF Orderly, Op, Sections

(* What a thread that goes on has before it. *)
LEMMA Advances ==
  ASSUME LocksTypeOK, NEW t \in Threads, Path[t] # "list", Advance(t)
  PROVE  /\ pc' \in [Threads -> Nat] /\ \A u \in Threads : pc'[u] \in 1..Len(Program(u))
         /\ \A u \in Threads : u # t => pc'[u] = pc[u] /\ Op(u)' = Op(u)
         /\ Op(t) = <<"rlock">> => Op(t)' = <<"runlock">>
         /\ Op(t) = <<"wlock">> => Op(t)' = <<"wunlock">>
         /\ Op(t) = <<"lock", "IST">> => Op(t)' = <<"unlock", "IST">>
         /\ /\ Op(t) = <<"lock", "ICT">> \/ Inside(Program(t), pc[t])
            /\ Op(t) # <<"unlock", "ICT">>
            => Inside(Program(t), pc'[t])
<1> DEFINE s == Program(t)
           n == pc[t]
<1>1. /\ Orderly(s) /\ n \in 1..Len(s) /\ pc \in [Threads -> Nat]
      /\ \A u \in Threads : pc[u] \in 1..Len(Program(u))
  BY PathsAreOrderly DEF LocksTypeOK
<1>2. Len(s) \in Nat
  BY <1>1, LenProperties DEF Orderly
<1>3. /\ pc' \in [Threads -> Nat] /\ pc'[t] \in 1..Len(s)
      /\ pc'[t] = IF n = Len(s) THEN 1 ELSE n + 1
      /\ \A u \in Threads : u # t => pc'[u] = pc[u]
  BY <1>1, <1>2 DEF Advance
<1>4. \A u \in Threads : u # t => Op(u)' = Op(u)
  BY <1>3 DEF Op
<1>5. Op(t) = s[n] /\ Op(t)' = s[pc'[t]]
  BY DEF Op
<1> HIDE DEF s, n
<1>6. ASSUME NEW a, NEW b, Follows(s, a, b), s[n] = a
      PROVE  s[pc'[t]] = b
  <2>1. n < Len(s) /\ s[n + 1] = b
    BY <1>1, <1>6 DEF Follows
  <2> QED
    BY <1>1, <1>2, <1>3, <2>1
<1>7. ASSUME s[n] = <<"lock", "ICT">> \/ Inside(s, n), s[n] # <<"unlock", "ICT">>
      PROVE  Inside(s, pc'[t])
  <2>1. Inside(s, n) \/ s[n] = <<"lock", "ICT">> => n < Len(s) \/ s[n] = <<"unlock", "ICT">>
    BY <1>1 DEF Orderly, Sections
  <2>2. n < Len(s) /\ pc'[t] = n + 1
    BY <1>1, <1>2, <1>3, <1>7, <2>1
  <2>3. CASE s[n] = <<"lock", "ICT">>
    <3>1. n \in 1..((n + 1) - 1) /\ \A k \in (n + 1)..((n + 1) - 1) : FALSE
      BY <1>1, <1>2
    <3> QED
      BY <2>2, <2>3, <3>1 DEF Inside
  <2>4. CASE Inside(s, n)
    <3>1. PICK j \in 1..(n - 1) : /\ s[j] = <<"lock", "ICT">>
                                 /\ \A k \in (j + 1)..(n - 1) : s[k] # <<"unlock", "ICT">>
      BY <2>4 DEF Inside
    <3>2. /\ j \in 1..((n + 1) - 1)
          /\ \A k \in (j + 1)..((n + 1) - 1) : k = n \/ k \in (j + 1)..(n - 1)
      BY <1>1, <1>2
    <3> QED
      BY <1>7, <2>2, <3>1, <3>2 DEF Inside
  <2> QED
    BY <1>7, <2>3, <2>4
<1>8. /\ Op(t) = <<"rlock">> => Op(t)' = <<"runlock">>
      /\ Op(t) = <<"wlock">> => Op(t)' = <<"wunlock">>
      /\ Op(t) = <<"lock", "IST">> => Op(t)' = <<"unlock", "IST">>
  BY <1>1, <1>5, <1>6 DEF Orderly
<1> QED
  BY <1>1, <1>3, <1>4, <1>5, <1>7, <1>8 DEF s, n

(* Nobody holds a lock at first. *)
LEMMA LocksInitially ==
  ASSUME SipOnly, LocksInit
  PROVE  LockInv
<1>1. \A t \in Threads : Len(Program(t)) \in Nat /\ Len(Program(t)) > 0
  BY PathsAreOrderly, LenProperties DEF SipOnly, Orderly
<1>2. LocksTypeOK
  BY <1>1 DEF LocksInit, LocksTypeOK
<1>3. \A t \in Threads : Nobody # t
  BY ThreadsAssumption
<1> QED
  BY <1>2, <1>3 DEF LocksInit, LockInv, Mutexes

(* The operations, one by one. *)
LEMMA LockKeeps ==
  ASSUME SipOnly, LockInv, NEW t \in Threads, NEW m \in Mutexes, Lock(t, m)
  PROVE  LockInv'
<1>1. LocksTypeOK /\ Path[t] # "list" /\ Advance(t) /\ Op(t) = <<"lock", m>>
  BY DEF LockInv, SipOnly, Lock
<1>2. /\ pc' \in [Threads -> Nat] /\ \A u \in Threads : pc'[u] \in 1..Len(Program(u))
      /\ \A u \in Threads : u # t => pc'[u] = pc[u] /\ Op(u)' = Op(u)
      /\ m = "IST" => Op(t)' = <<"unlock", "IST">>
      /\ m = "ICT" \/ Inside(Program(t), pc[t]) => Inside(Program(t), pc'[t])
  BY <1>1, Advances, OpsDiffer DEF Mutexes
<1>3. /\ owner' \in [Mutexes -> Threads \cup {Nobody}] /\ owner'[m] = t
      /\ \A x \in Mutexes : x # m => owner'[x] = owner[x]
      /\ UNCHANGED <<readers, writer, waiting>>
  BY <1>1 DEF Lock, LocksTypeOK
<1>4. LocksTypeOK'
  BY <1>1, <1>2, <1>3 DEF LocksTypeOK
<1>5. /\ Op(t) # <<"unlock", "IST">> /\ Op(t) # <<"runlock">>
      /\ Op(t) # <<"wlock">> /\ Op(t) # <<"wunlock">>
  BY <1>1, OpsDiffer DEF Mutexes
<1>6. \A u \in Threads : owner'["IST"] = u => Op(u)' = <<"unlock", "IST">>
  BY <1>2, <1>3, <1>5 DEF LockInv, Mutexes
<1>7. \A u \in Threads : owner'["ICT"] = u => Inside(Program(u), pc'[u])
  BY <1>2, <1>3 DEF LockInv, Mutexes
<1>8. /\ \A u \in readers : u # t /\ Op(u)' = Op(u)
      /\ \A u \in waiting : u # t /\ Op(u)' = Op(u)
      /\ \A u \in Threads : writer = u => u # t /\ Op(u)' = Op(u)
  BY <1>1, <1>2, <1>5 DEF LockInv, LocksTypeOK
<1> QED
  BY <1>3, <1>4, <1>6, <1>7, <1>8 DEF LockInv

(* A mutex given back is nobody's, and its last holder no longer inside. *)
LEMMA UnlockKeeps ==
  ASSUME SipOnly, LockInv, NEW t \in Threads, NEW m \in Mutexes, Unlock(t, m)
  PROVE  LockInv'
<1>1. LocksTypeOK /\ Path[t] # "list" /\ Advance(t) /\ Op(t) = <<"unlock", m>>
  BY DEF LockInv, SipOnly, Unlock
<1>2. /\ pc' \in [Threads -> Nat] /\ \A u \in Threads : pc'[u] \in 1..Len(Program(u))
      /\ \A u \in Threads : u # t => pc'[u] = pc[u] /\ Op(u)' = Op(u)
      /\ m = "IST" /\ Inside(Program(t), pc[t]) => Inside(Program(t), pc'[t])
  BY <1>1, Advances, OpsDiffer DEF Mutexes
<1>3. /\ owner' \in [Mutexes -> Threads \cup {Nobody}] /\ owner'[m] = Nobody
      /\ \A x \in Mutexes : x # m => owner'[x] = owner[x]
      /\ UNCHANGED <<readers, writer, waiting>>
  BY <1>1 DEF Unlock, LocksTypeOK
<1>4. LocksTypeOK'
  BY <1>1, <1>2, <1>3 DEF LocksTypeOK
<1>5. /\ m = "ICT" => Op(t) # <<"unlock", "IST">>
      /\ Op(t) # <<"runlock">> /\ Op(t) # <<"wlock">> /\ Op(t) # <<"wunlock">>
  BY <1>1, OpsDiffer DEF Mutexes
<1>6. \A u \in Threads : owner'["IST"] = u => Op(u)' = <<"unlock", "IST">>
  BY <1>2, <1>3, <1>5, ThreadsAssumption DEF LockInv, Mutexes
<1>7. \A u \in Threads : owner'["ICT"] = u => Inside(Program(u), pc'[u])
  BY <1>2, <1>3, ThreadsAssumption DEF LockInv, Mutexes
<1>8. /\ \A u \in readers : u # t /\ Op(u)' = Op(u)
      /\ \A u \in waiting : u # t /\ Op(u)' = Op(u)
      /\ \A u \in Threads : writer = u => u # t /\ Op(u)' = Op(u)
  BY <1>1, <1>2, <1>5 DEF LockInv, LocksTypeOK
<1> QED
  BY <1>3, <1>4, <1>6, <1>7, <1>8 DEF LockInv

(* On the layer's lock the mutexes keep their owners. *)
LEMMA LayerLockKeeps ==
  ASSUME SipOnly, LockInv, NEW t \in Threads, Advance(t), UNCHANGED owner,
         Op(t) \in {<<"rlock">>, <<"runlock">>, <<"wlock">>, <<"wunlock">>}
  PROVE  /\ pc' \in [Threads -> Nat] /\ \A u \in Threads : pc'[u] \in 1..Len(Program(u))
         /\ \A u \in Threads : u # t => Op(u)' = Op(u)
         /\ \A u \in Threads : owner'["IST"] = u => Op(u)' = <<"unlock", "IST">>
         /\ \A u \in Threads : owner'["ICT"] = u => Inside(Program(u), pc'[u])
<1>1. LocksTypeOK /\ Path[t] # "list"
  BY DEF LockInv, SipOnly
<1>2. /\ pc' \in [Threads -> Nat] /\ \A u \in Threads : pc'[u] \in 1..Len(Program(u))
      /\ \A u \in Threads : u # t => pc'[u] = pc[u] /\ Op(u)' = Op(u)
      /\ Inside(Program(t), pc[t]) => Inside(Program(t), pc'[t])
  BY <1>1, Advances, OpsDiffer
<1>3. Op(t) # <<"unlock", "IST">>
  BY OpsDiffer
<1> QED
  BY <1>2, <1>3 DEF LockInv

(* Readers come while nobody writes, and leave with the next operation. *)
LEMMA ReadKeeps ==
  ASSUME SipOnly, LockInv, NEW t \in Threads, RLock(t) \/ RUnlock(t)
  PROVE  LockInv'
<1>1. /\ LocksTypeOK /\ Path[t] # "list" /\ Advance(t)
      /\ UNCHANGED <<owner, writer, waiting>>
      /\ Op(t) \in {<<"rlock">>, <<"runlock">>}
  BY DEF LockInv, SipOnly, RLock, RUnlock
<1>2. /\ pc' \in [Threads -> Nat] /\ \A u \in Threads : pc'[u] \in 1..Len(Program(u))
      /\ \A u \in Threads : u # t => Op(u)' = Op(u)
      /\ \A u \in Threads : owner'["IST"] = u => Op(u)' = <<"unlock", "IST">>
      /\ \A u \in Threads : owner'["ICT"] = u => Inside(Program(u), pc'[u])
  BY <1>1, LayerLockKeeps
<1>3. Op(t) # <<"wlock">> /\ Op(t) # <<"wunlock">>
  BY <1>1, OpsDiffer
<1>4. /\ readers' \subseteq readers \cup {t}
      /\ t \in readers' => Op(t)' = <<"runlock">>
      /\ writer # Nobody => readers' = {}
  <2>1. CASE RLock(t)
    BY <1>1, <2>1, Advances DEF RLock
  <2>2. CASE RUnlock(t)
    BY <1>1, <2>2 DEF RUnlock, LocksTypeOK
  <2> QED
    BY <2>1, <2>2
<1>5. LocksTypeOK'
  BY <1>1, <1>2, <1>4 DEF LocksTypeOK
<1>6. \A u \in readers' : Op(u)' = <<"runlock">>
  BY <1>1, <1>2, <1>4 DEF LockInv, LocksTypeOK
<1>7. /\ \A u \in waiting : u # t /\ Op(u)' = Op(u)
      /\ \A u \in Threads : writer = u => u # t /\ Op(u)' = Op(u)
  BY <1>1, <1>2, <1>3 DEF LockInv, LocksTypeOK
<1> QED
  BY <1>1, <1>2, <1>5, <1>6, <1>7 DEF LockInv

(* A writer that announces itself has taken nothing yet. *)
LEMMA AnnounceKeeps ==
  ASSUME SipOnly, LockInv, NEW t \in Threads, WAnnounce(t)
  PROVE  LockInv'
<1>1. /\ Op(t) = <<"wlock">> /\ waiting' = waiting \cup {t}
      /\ UNCHANGED <<pc, owner, readers, writer>>
  BY DEF WAnnounce
<1>2. \A u \in Threads : Op(u)' = Op(u)
  BY <1>1 DEF Op
<1>3. LocksTypeOK'
  BY <1>1 DEF LockInv, LocksTypeOK
<1>4. readers \subseteq Threads /\ waiting' \subseteq Threads
  BY <1>3, <1>1 DEF LocksTypeOK
<1> QED
  BY <1>1, <1>2, <1>3, <1>4 DEF LockInv

(* A writer comes while nobody reads or writes. *)
LEMMA WriteKeeps ==
  ASSUME SipOnly, LockInv, NEW t \in Threads, WLock(t) \/ WUnlock(t)
  PROVE  LockInv'
<1>1. /\ LocksTypeOK /\ Path[t] # "list" /\ Advance(t)
      /\ UNCHANGED <<owner, readers>>
      /\ Op(t) \in {<<"wlock">>, <<"wunlock">>}
  BY DEF LockInv, SipOnly, WLock, WUnlock
<1>2. /\ pc' \in [Threads -> Nat] /\ \A u \in Threads : pc'[u] \in 1..Len(Program(u))
      /\ \A u \in Threads : u # t => Op(u)' = Op(u)
      /\ \A u \in Threads : owner'["IST"] = u => Op(u)' = <<"unlock", "IST">>
      /\ \A u \in Threads : owner'["ICT"] = u => Inside(Program(u), pc'[u])
  BY <1>1, LayerLockKeeps
<1>3. Op(t) # <<"runlock">>
  BY <1>1, OpsDiffer
<1>4. /\ waiting' \subseteq waiting /\ t \notin waiting'
      /\ writer' \in {t, Nobody}
      /\ writer' = t => Op(t)' = <<"wunlock">>
      /\ writer' # Nobody => readers = {}
  <2>1. CASE WLock(t)
    <3>1. Op(t) = <<"wlock">>
      BY <2>1 DEF WLock, LockInv
    <3> QED
      BY <1>1, <2>1, <3>1, Advances DEF WLock
  <2>2. CASE WUnlock(t)
    <3>1. Op(t) # <<"wlock">>
      BY <2>2, OpsDiffer DEF WUnlock
    <3> QED
      BY <1>1, <2>2, <3>1, ThreadsAssumption DEF WUnlock, LockInv
  <2> QED
    BY <2>1, <2>2
<1>5. LocksTypeOK'
  BY <1>1, <1>2, <1>4 DEF LocksTypeOK
<1>6. /\ \A u \in readers : u # t /\ Op(u)' = Op(u)
      /\ \A u \in waiting' : u # t /\ Op(u)' = Op(u)
  BY <1>1, <1>2, <1>3, <1>4 DEF LockInv, LocksTypeOK
<1>7. \A u \in Threads : writer' = u => Op(u)' = <<"wunlock">>
  BY <1>4, ThreadsAssumption
<1> QED
  BY <1>1, <1>2, <1>4, <1>5, <1>6, <1>7 DEF LockInv

(* The invariant holds in every behaviour of the SIP paths. *)
THEOREM LocksInvariance == ASSUME SipOnly PROVE LocksSafeSpec => []LockInv
<1>1. LocksInit => LockInv
  BY LocksInitially
<1>2. LockInv /\ [LocksNext]_lockVars => LockInv'
  <2>1. CASE LockInv /\ LocksNext
    BY <2>1, LockKeeps, UnlockKeeps, ReadKeeps, AnnounceKeeps, WriteKeeps
       DEF LocksNext, Acquire, Release
  <2>2. CASE LockInv /\ UNCHANGED lockVars
    <3>1. UNCHANGED <<pc, owner, readers, writer, waiting>>
      BY <2>2 DEF lockVars
    <3>2. \A t \in Threads : Op(t)' = Op(t)
      BY <3>1 DEF Op
    <3> QED
      BY <2>2, <3>1, <3>2 DEF LockInv, LocksTypeOK
  <2> QED
    BY <2>1, <2>2
<1> QED
  BY <1>1, <1>2, PTL DEF LocksSafeSpec

(* The order of the locks: how many others a thread may be waiting for. *)
Level(t) ==
  CASE Op(t) = <<"lock", "ICT">> -> 3
    [] Op(t) = <<"rlock">> -> 2
    [] Op(t) \in {<<"wlock">>, <<"lock", "IST">>} -> 1
    [] OTHER -> 0

(* Whoever is waited for waits, if at all, for a lock of a lower level. *)
LEMMA BlockersAreLower ==
  ASSUME SipOnly, LockInv, NEW t \in Threads, NEW u \in BlockedBy(t)
  PROVE  u \in Threads /\ Level(u) < Level(t)
<1>1. Op(t) \in Ops
  BY OpsAre DEF LockInv, SipOnly
<1>2. LocksTypeOK
  BY DEF LockInv
<1>3. CASE Op(t) = <<"lock", "ICT">>
  <2>1. u = owner["ICT"] /\ u # Nobody
    BY <1>3 DEF BlockedBy
  <2>2. u \in Threads
    BY <1>2, <2>1 DEF LocksTypeOK, Mutexes
  <2>3. Op(u) # <<"lock", "ICT">>
    BY <1>2, <2>1, <2>2, OpsAre DEF LockInv, SipOnly
  <2> QED
    BY <1>3, <2>2, <2>3 DEF Level
<1>4. CASE Op(t) = <<"lock", "IST">>
  <2>1. u = owner["IST"] /\ u # Nobody
    BY <1>4 DEF BlockedBy
  <2>2. u \in Threads
    BY <1>2, <2>1 DEF LocksTypeOK, Mutexes
  <2>3. Op(u) = <<"unlock", "IST">>
    BY <2>1, <2>2 DEF LockInv
  <2> QED
    BY <1>4, <2>2, <2>3, OpsDiffer DEF Level
<1>5. CASE Op(t) = <<"rlock">>
  <2>1. (u = writer /\ u # Nobody) \/ u \in waiting
    BY <1>5 DEF BlockedBy
  <2>2. u \in Threads
    BY <1>2, <2>1 DEF LocksTypeOK
  <2>3. Op(u) \in {<<"wunlock">>, <<"wlock">>}
    BY <2>1, <2>2 DEF LockInv
  <2> QED
    BY <1>5, <2>2, <2>3, OpsDiffer DEF Level
<1>6. CASE Op(t) = <<"wlock">>
  <2>1. (u = writer /\ u # Nobody) \/ u \in readers
    BY <1>6 DEF BlockedBy
  <2>2. u \in Threads
    BY <1>2, <2>1 DEF LocksTypeOK
  <2>3. Op(u) \in {<<"wunlock">>, <<"runlock">>}
    BY <2>1, <2>2 DEF LockInv
  <2> QED
    BY <1>6, <2>2, <2>3, OpsDiffer DEF Level
<1>7. CASE Op(t) \in {<<"runlock">>, <<"wunlock">>,
                      <<"unlock", "ICT">>, <<"unlock", "IST">>}
  <2>1. BlockedBy(t) = {}
    BY <1>7 DEF BlockedBy
  <2> QED
    BY <2>1
<1> QED
  BY <1>1, <1>3, <1>4, <1>5, <1>6, <1>7 DEF Ops

(* Any number of threads on any of the SIP paths, responses, CANCELs, timeouts, *)
(* retransmissions, timers and gc, never wait in a circle.                      *)
THEOREM SipPathsNeverDeadlock == ASSUME SipOnly PROVE LocksSafeSpec => []NoWaitCycle
<1>1. LockInv => NoWaitCycle
  <2> SUFFICES ASSUME LockInv, NEW stuck \in (SUBSET Threads) \ {{}}
               PROVE  \E t \in stuck : BlockedBy(t) \cap stuck = {}
    BY DEF NoWaitCycle
  <2>1. \A t \in Threads : Level(t) \in 0..3
    BY DEF Level
  <2>2. \E t \in stuck : TRUE
    <3>1. stuck # {}
      OBVIOUS
    <3> QED
      BY <3>1
  <2>3. PICK t \in stuck : \A u \in stuck : Level(u) >= Level(t)
    <3>1. CASE \E t \in stuck : Level(t) = 0
      BY <2>1, <3>1
    <3>2. CASE (\A t \in stuck : Level(t) # 0) /\ \E t \in stuck : Level(t) = 1
      BY <2>1, <3>2
    <3>3. CASE (\A t \in stuck : Level(t) \notin {0, 1}) /\ \E t \in stuck : Level(t) = 2
      BY <2>1, <3>3
    <3>4. CASE \A t \in stuck : Level(t) \notin {0, 1, 2}
      <4>1. \A t \in stuck : Level(t) = 3
        BY <2>1, <3>4
      <4>2. PICK t \in stuck : TRUE
        BY <2>2
      <4>3. \A u \in stuck : Level(u) >= Level(t)
        BY <4>1
      <4> QED
        BY <4>3
    <3> QED
      BY <3>1, <3>2, <3>3, <3>4
  <2>4. \A u \in BlockedBy(t) \cap stuck : FALSE
    BY <2>1, <2>3, BlockersAreLower
  <2> QED
    BY <2>4
<1> QED
  BY <1>1, LocksInvariance, PTL
==============================================================================
