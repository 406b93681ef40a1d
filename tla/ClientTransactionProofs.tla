----------------------- MODULE ClientTransactionProofs -----------------------
(***************************************************************************)
(* Proofs about ClientTransaction, for every set of status codes.          *)
(***************************************************************************)
EXTENDS ClientTransaction, TLAPS

------------------------------------------------------------------------------
(* The inductive invariant: what each state says about the rest of the     *)
(* record.  Callbacks of A, B, E and F may be left over in any later state;*)
(* those of D and K, which test no state, only where they do no harm.      *)

Unanswered ==
  tx.state \in {"Trying", "Calling", "Proceeding"} =>
    tx.finals = 0 /\ ~IsFinal(tx.delivered) /\ tx.acked = NoResponse /\ ~tx.done

AnsweredOnce ==
  tx.state \in {"Completed", "Terminated"} => tx.finals = 1 /\ IsFinal(tx.delivered)

OverWhenTerminated ==
  tx.state = "Terminated" => tx.done /\ tx.armed = {} /\ tx.fired \cap {"D", "K"} = {}

InviteTimers ==
  tx.type = "ICT" =>
    /\ tx.state # "Trying"
    /\ tx.state = "Calling" =>
         /\ tx.armed \cup tx.fired \subseteq {"A", "B"}
         /\ "B" \in tx.armed \cup tx.fired
    /\ tx.state = "Proceeding" => tx.armed = {} /\ tx.fired \subseteq {"A", "B"}
    /\ tx.state = "Completed" =>
         /\ tx.armed \subseteq {"D"} /\ tx.fired \subseteq {"A", "B", "D"}
         /\ tx.done <=> "D" \notin tx.armed \cup tx.fired

InviteACKs ==
  tx.type = "ICT" =>
    /\ tx.acked # NoResponse => tx.acked >= 300 /\ tx.delivered >= 300
    /\ tx.state = "Completed" => tx.acked # NoResponse
    /\ tx.state = "Terminated" /\ tx.acked = NoResponse =>
         IsSuccess(tx.delivered) \/ tx.delivered = 408

NonInvite ==
  tx.type = "NICT" =>
    /\ tx.state # "Calling" /\ tx.acked = NoResponse
    /\ tx.state \in {"Trying", "Proceeding"} =>
         /\ tx.armed \cup tx.fired \subseteq {"E", "F"}
         /\ "F" \in tx.armed \cup tx.fired
    /\ tx.state = "Completed" =>
         /\ tx.armed \subseteq {"K"} /\ tx.fired \subseteq {"E", "F", "K"}
         /\ tx.done <=> "K" \notin tx.armed \cup tx.fired

IInv ==
  /\ TypeOK
  /\ tx.armed \cap tx.fired = {}
  /\ Unanswered /\ AnsweredOnce /\ OverWhenTerminated
  /\ InviteTimers /\ InviteACKs /\ NonInvite

(* What a step does to what the waiting function can see. *)
Progresses == ~IsFinal(tx.delivered) /\ tx'.delivered \in Codes /\ ~IsFinal(tx'.delivered)
              /\ tx'.done = tx.done
Answers == ~IsFinal(tx.delivered) /\ tx'.delivered \in Codes /\ IsFinal(tx'.delivered)
           /\ tx'.done \in BOOLEAN
Finishes == IsFinal(tx.delivered) /\ ~tx.done /\ tx'.done = TRUE
            /\ tx'.delivered = tx.delivered
Stutters == tx'.delivered = tx.delivered /\ tx'.done = tx.done
Shows == Progresses \/ Answers \/ Finishes \/ Stutters

------------------------------------------------------------------------------
(* The classes of status codes. *)
LEMMA CodeClasses ==
  ASSUME NEW code \in Codes
  PROVE  /\ code \in Nat
         /\ code < 100 \/ IsProvisional(code) \/ IsSuccess(code) \/ code >= 300
         /\ code < 100 => ~IsProvisional(code) /\ ~IsFinal(code) /\ ~(code >= 300)
         /\ IsProvisional(code) => ~IsFinal(code) /\ ~(code >= 300)
         /\ IsSuccess(code) => IsFinal(code) /\ ~IsProvisional(code)
         /\ code >= 300 => IsFinal(code) /\ ~IsSuccess(code) /\ ~IsProvisional(code)
         /\ IsFinal(code) => IsSuccess(code) \/ code >= 300
<1>1. code \in Nat
  BY CodesAssumption
<1> QED
  BY <1>1 DEF IsProvisional, IsSuccess, IsFinal

(* A step given by the fields it leads to.                                 *)
Leads(state, armed, fired, done, delivered, finals, acked) ==
  /\ tx'.type = tx.type /\ tx'.transport = tx.transport
  /\ tx'.state = state /\ tx'.armed = armed /\ tx'.fired = fired /\ tx'.done = done
  /\ tx'.delivered = delivered /\ tx'.finals = finals /\ tx'.acked = acked

(* The final response that the transaction makes up itself. *)
MadeUp(code) == code = 408

(* The three kinds of steps that change more than one field. *)
GoesOn(code, stopped) ==
  tx' = [tx EXCEPT !.state = "Proceeding", !.armed = @ \ stopped, !.delivered = code]
AnswersWith(code, state, armed, fired, done, acked) ==
  tx' = [tx EXCEPT !.state = state, !.armed = armed, !.fired = fired, !.done = done,
                   !.delivered = code, !.finals = @ + 1, !.acked = acked]
Rearms(name, again) ==
  tx' = [tx EXCEPT !.fired = @ \ {name}, !.armed = @ \cup again]

(* A call the transaction ignores preserves the invariant.                 *)
LEMMA UnchangedPreserves ==
  ASSUME IInv, tx' = tx
  PROVE  IInv' /\ Shows
BY DEF IInv, TypeOK, Unanswered, AnsweredOnce, OverWhenTerminated, InviteTimers, InviteACKs,
       NonInvite, Shows, Stutters

(* A provisional response: Calling goes on to Proceeding and its timers    *)
(* stop; otherwise only what was delivered changes.                        *)
LEMMA ProvisionalPreserves ==
  ASSUME IInv, NEW code \in Codes, IsProvisional(code),
         tx.state \in {"Trying", "Calling", "Proceeding"},
         NEW stopped \in SUBSET ClientTimers,
         stopped = IF tx.state = "Calling" THEN {"A", "B"} ELSE {},
         GoesOn(code, stopped)
  PROVE  IInv' /\ Shows
<1>0. tx \in ClientTransactions
  BY DEF IInv, TypeOK
<1>1. Leads("Proceeding", tx.armed \ stopped, tx.fired, tx.done, code, tx.finals, tx.acked)
  BY <1>0 DEF GoesOn, Leads, ClientTransactions
<1>2. tx' \in ClientTransactions
  BY <1>0 DEF GoesOn, ClientTransactions, ClientStates
<1>3. ~IsFinal(code)
  BY CodeClasses
<1>4. Unanswered' /\ AnsweredOnce' /\ OverWhenTerminated'
  BY <1>1, <1>3 DEF Leads, IInv, Unanswered, AnsweredOnce, OverWhenTerminated
<1>5. InviteTimers' /\ InviteACKs'
  BY <1>1 DEF Leads, IInv, Unanswered, InviteTimers, InviteACKs
<1>6. NonInvite'
  BY <1>1 DEF Leads, IInv, NonInvite
<1>7. (tx.armed \cap tx.fired = {})'
  BY <1>1 DEF Leads, IInv
<1>8. Shows
  BY <1>1, <1>3 DEF Leads, IInv, Unanswered, Shows, Progresses
<1> QED
  BY <1>2, <1>4, <1>5, <1>6, <1>7, <1>8 DEF IInv, TypeOK

(* A final response, or the 408 of B and F: every timer stops, and it      *)
(* leads to Completed, with or without lingering, or to Terminated.        *)
LEMMA AnswerPreserves ==
  ASSUME IInv, NEW code \in Codes, IsFinal(code),
         tx.state \in {"Trying", "Calling", "Proceeding"},
         NEW state \in {"Completed", "Terminated"}, NEW armed \in SUBSET {"D", "K"},
         NEW fired \in SUBSET tx.fired, NEW done \in BOOLEAN, NEW acked \in {NoResponse, code},
         state = "Terminated" => armed = {} /\ done,
         tx.type = "ICT" /\ state = "Completed" =>
           armed \subseteq {"D"} /\ (done <=> "D" \notin armed) /\ acked = code,
         tx.type = "ICT" /\ state = "Terminated" =>
           acked = NoResponse /\ (IsSuccess(code) \/ MadeUp(code)),
         tx.type = "ICT" /\ acked = code => code >= 300,
         tx.type = "NICT" =>
           /\ acked = NoResponse
           /\ state = "Completed" => armed \subseteq {"K"} /\ (done <=> "K" \notin armed),
         AnswersWith(code, state, armed, fired, done, acked)
  PROVE  IInv' /\ Shows
<1>0. tx \in ClientTransactions
  BY DEF IInv, TypeOK
<1>1. Leads(state, armed, fired, done, code, tx.finals + 1, acked)
  BY <1>0 DEF AnswersWith, Leads, ClientTransactions
<1>2. tx' \in ClientTransactions
  <2>1. /\ armed \in SUBSET ClientTimers /\ fired \in SUBSET ClientTimers
        /\ acked \in Codes \cup {NoResponse} /\ state \in ClientStates /\ tx.finals + 1 \in Nat
    BY <1>0 DEF ClientTransactions, ClientTimers, ClientStates
  <2> QED
    BY <1>0, <2>1 DEF AnswersWith, ClientTransactions
<1>3. tx.type \in {"ICT", "NICT"} /\ tx.fired \subseteq {"A", "B", "E", "F"}
  <2>1. tx.type \in {"ICT", "NICT"}
    BY <1>0 DEF ClientTransactions, ClientTypes
  <2> QED
    BY <2>1 DEF IInv, InviteTimers, NonInvite
<1>4. Unanswered' /\ AnsweredOnce'
  BY <1>1 DEF Leads, IInv, Unanswered, AnsweredOnce
<1>5. OverWhenTerminated'
  BY <1>1, <1>3 DEF Leads, OverWhenTerminated
<1>6. InviteTimers'
  <2>1. tx.type = "ICT" => fired \subseteq {"A", "B"}
    BY DEF IInv, InviteTimers
  <2> QED
    BY <1>1, <2>1 DEF Leads, InviteTimers
<1>7. InviteACKs'
  <2>1. code # NoResponse
    BY CodeClasses DEF IsFinal, NoResponse
  <2> QED
    BY <1>1, <2>1 DEF Leads, InviteACKs, MadeUp
<1>8. NonInvite'
  <2>1. tx.type = "NICT" => fired \subseteq {"E", "F"}
    BY DEF IInv, NonInvite
  <2> QED
    BY <1>1, <2>1 DEF Leads, IInv, NonInvite
<1>9. (tx.armed \cap tx.fired = {})'
  BY <1>1, <1>3 DEF Leads
<1>10. Shows
  BY <1>1 DEF Leads, IInv, Unanswered, Shows, Answers
<1> QED
  BY <1>2, <1>4, <1>5, <1>6, <1>7, <1>8, <1>9, <1>10 DEF IInv, TypeOK

------------------------------------------------------------------------------
(* Responses from the network. *)

(* An INVITE transaction's response, in whichever state it arrives.        *)
LEMMA IctResponsePreserves ==
  ASSUME IInv, tx.type = "ICT", NEW code \in Codes, tx' = IctReceiveResponse(tx, code)
  PROVE  IInv' /\ Shows
<1>0. tx \in ClientTransactions /\ tx.state \in {"Calling", "Proceeding", "Completed", "Terminated"}
  BY DEF IInv, TypeOK, InviteTimers, ClientTransactions, ClientStates
<1>1. CASE tx.state \in {"Calling", "Proceeding"} /\ IsProvisional(code)
  <2> DEFINE stopped == IF tx.state = "Calling" THEN {"A", "B"} ELSE {}
  <2>1. stopped \in SUBSET ClientTimers
    BY DEF ClientTimers
  <2>2. GoesOn(code, stopped)
    <3>1. CASE tx.state = "Calling"
      BY <1>0, <1>1, <3>1, CodeClasses
      DEF IctReceiveResponse, OnResp, CancelTimers, GoesOn, ClientTransactions
    <3>2. CASE tx.state = "Proceeding"
      <4>1. tx' = OnResp(tx, code)
        BY <1>1, <3>2, CodeClasses DEF IctReceiveResponse
      <4> QED
        BY ZenonT(60), <1>0, <1>1, <3>2, <4>1, CodeClasses DEF OnResp, GoesOn, ClientTransactions
    <3> QED
      BY <1>1, <3>1, <3>2
  <2> HIDE DEF stopped
  <2>3. stopped = IF tx.state = "Calling" THEN {"A", "B"} ELSE {}
    BY DEF stopped
  <2> QED
    BY <1>1, <2>1, <2>2, <2>3, ProvisionalPreserves
<1>2. CASE tx.state \in {"Calling", "Proceeding"} /\ IsFinal(code)
  <2>1. tx' = IctAnswer(tx, code)
    BY <1>2, CodeClasses DEF IctReceiveResponse
  <2>2. CASE IsSuccess(code)
    <3>1. AnswersWith(code, "Terminated", {}, tx.fired, TRUE, NoResponse)
      <4>1. tx.armed \ ClientTimers = {} /\ tx.acked = NoResponse
        BY <1>0, <1>2 DEF IInv, Unanswered, ClientTransactions
      <4> QED
        BY ZenonT(60), <1>0, <1>2, <2>1, <2>2, <4>1
        DEF IctAnswer, Terminate, OnResp, CancelTimers, AnswersWith, ClientTransactions
    <3>2. IsFinal(code) /\ code # NoResponse
      BY <1>2, CodeClasses DEF IsFinal, NoResponse
    <3> QED
      BY <1>2, <2>2, <3>1, <3>2, AnswerPreserves
  <2>3. CASE code >= 300
    <3> DEFINE armed == IF tx.transport = "UDP" THEN {"D"} ELSE {}
               done == tx.transport # "UDP"
    <3>1. AnswersWith(code, "Completed", armed, tx.fired, done, code)
      <4>1. tx.armed \ ClientTimers = {} /\ ~tx.done /\ ~IsSuccess(code)
        BY <1>0, <1>2, <2>3, CodeClasses DEF IInv, Unanswered, ClientTransactions
      <4> DEFINE quiet == SendACK(OnResp(CancelTimers([tx EXCEPT !.state = "Completed"],
                                                      ClientTimers), code), code)
      <4>2. /\ tx' = Linger(quiet, "D")
            /\ quiet = [tx EXCEPT !.state = "Completed", !.armed = {}, !.delivered = code,
                                  !.finals = @ + 1, !.acked = code]
        BY <1>0, <1>2, <2>1, <4>1
        DEF IctAnswer, SendACK, OnResp, CancelTimers, ClientTransactions
      <4> HIDE DEF quiet
      <4>3. CASE tx.transport = "UDP"
        <5>1. quiet.transport = "UDP" /\ quiet.armed = {}
          BY <1>0, <4>2, <4>3 DEF ClientTransactions
        <5>2. tx' = [quiet EXCEPT !.armed = {"D"}]
          BY <4>2, <5>1 DEF Linger, StartTimers
        <5>3. armed = {"D"} /\ done = FALSE /\ tx.done = FALSE
          BY <1>0, <4>1, <4>3 DEF ClientTransactions
        <5> HIDE DEF armed, done
        <5> QED
          BY ZenonT(60), <1>0, <4>2, <5>2, <5>3 DEF AnswersWith, ClientTransactions
      <4>4. CASE tx.transport # "UDP"
        BY <1>0, <4>1, <4>2, <4>4 DEF Linger, Terminate, AnswersWith, ClientTransactions
      <4> QED
        BY <4>3, <4>4
    <3>2. /\ armed \in SUBSET {"D", "K"} /\ armed \subseteq {"D"} /\ done \in BOOLEAN
          /\ done <=> "D" \notin armed
      OBVIOUS
    <3> HIDE DEF armed, done
    <3> QED
      BY <1>2, <2>3, <3>1, <3>2, AnswerPreserves, CodeClasses
  <2> QED
    BY <1>2, <2>2, <2>3, CodeClasses
<1>3. CASE tx.state = "Completed" /\ code >= 300
  <2>1. tx' = [tx EXCEPT !.acked = code]
    BY <1>3, CodeClasses DEF IctReceiveResponse, SendACK
  <2>2. /\ Leads(tx.state, tx.armed, tx.fired, tx.done, tx.delivered, tx.finals, code)
        /\ tx' \in ClientTransactions
    BY <1>0, <2>1 DEF Leads, ClientTransactions
  <2>3. code # NoResponse /\ tx.delivered >= 300
    <3>1. code # NoResponse
      BY <1>3, CodeClasses DEF NoResponse
    <3> QED
      BY <1>3, <3>1 DEF IInv, InviteACKs
  <2> QED
    BY <1>3, <2>2, <2>3
    DEF Leads, IInv, TypeOK, Unanswered, AnsweredOnce, OverWhenTerminated, InviteTimers,
        InviteACKs, NonInvite, Shows, Stutters
<1>4. CASE /\ ~(tx.state \in {"Calling", "Proceeding"} /\ IsProvisional(code))
           /\ ~(tx.state \in {"Calling", "Proceeding"} /\ IsFinal(code))
           /\ ~(tx.state = "Completed" /\ code >= 300)
  <2>1. tx' = tx
    BY <1>4 DEF IctReceiveResponse
  <2> QED
    BY <2>1, UnchangedPreserves
<1> QED
  BY <1>1, <1>2, <1>3, <1>4

(* A non-INVITE transaction's response.                                    *)
LEMMA NictResponsePreserves ==
  ASSUME IInv, tx.type = "NICT", NEW code \in Codes, tx' = NictReceiveResponse(tx, code)
  PROVE  IInv' /\ Shows
<1>0. tx \in ClientTransactions
  BY DEF IInv, TypeOK
<1>1. CASE tx.state \in {"Trying", "Proceeding"} /\ IsProvisional(code)
  <2>1. GoesOn(code, {})
    BY <1>0, <1>1, CodeClasses DEF NictReceiveResponse, OnResp, GoesOn, ClientTransactions
  <2>2. {} \in SUBSET ClientTimers /\ {} = IF tx.state = "Calling" THEN {"A", "B"} ELSE {}
    BY <1>1
  <2> QED
    BY <1>1, <2>1, <2>2, ProvisionalPreserves
<1>2. CASE tx.state \in {"Trying", "Proceeding"} /\ IsFinal(code)
  <2> DEFINE armed == IF tx.transport = "UDP" THEN {"K"} ELSE {}
             done == tx.transport # "UDP"
  <2>1. AnswersWith(code, "Completed", armed, tx.fired, done, NoResponse)
    <3>1. /\ tx.armed \ ClientTimers = {} /\ ~tx.done /\ ~IsProvisional(code)
          /\ tx.acked = NoResponse
      BY <1>0, <1>2, CodeClasses DEF IInv, Unanswered, ClientTransactions
    <3>2. CASE tx.transport = "UDP"
      BY ZenonT(60), <1>0, <1>2, <3>1, <3>2
      DEF NictReceiveResponse, Linger, StartTimers, OnResp, CancelTimers, AnswersWith,
          ClientTransactions
    <3>3. CASE tx.transport # "UDP"
      BY <1>0, <1>2, <3>1, <3>3
      DEF NictReceiveResponse, Linger, Terminate, OnResp, CancelTimers, AnswersWith,
          ClientTransactions
    <3> QED
      BY <3>2, <3>3
  <2>2. /\ armed \in SUBSET {"D", "K"} /\ armed \subseteq {"K"} /\ done \in BOOLEAN
        /\ done <=> "K" \notin armed
    OBVIOUS
  <2> HIDE DEF armed, done
  <2> QED
    BY <1>2, <2>1, <2>2, AnswerPreserves
<1>3. CASE tx.state \notin {"Trying", "Proceeding"} \/ (~IsProvisional(code) /\ ~IsFinal(code))
  <2>1. tx' = tx
    BY <1>3 DEF NictReceiveResponse
  <2> QED
    BY <2>1, UnchangedPreserves
<1> QED
  BY <1>1, <1>2, <1>3

(* Hence every response preserves it.                                      *)
LEMMA ReceiveResponsePreserves ==
  ASSUME IInv, NEW code \in Codes, tx' = ReceiveResponse(tx, code)
  PROVE  IInv' /\ Shows
<1>1. tx.type \in {"ICT", "NICT"}
  BY DEF IInv, TypeOK, ClientTransactions, ClientTypes
<1>2. CASE tx.state = "Terminated"
  BY <1>2, UnchangedPreserves DEF ReceiveResponse
<1>3. CASE tx.state # "Terminated" /\ tx.type = "ICT"
  BY <1>3, IctResponsePreserves DEF ReceiveResponse
<1>4. CASE tx.state # "Terminated" /\ tx.type = "NICT"
  BY <1>4, NictResponsePreserves DEF ReceiveResponse
<1> QED
  BY <1>1, <1>2, <1>3, <1>4

------------------------------------------------------------------------------
(* Timers. *)

(* A timer that expires leaves its callback waiting for tx.mu.             *)
LEMMA ExpirePreserves ==
  ASSUME IInv, NEW name \in tx.armed, tx' = Expire(tx, name)
  PROVE  IInv' /\ Shows
<1>0. tx \in ClientTransactions
  BY DEF IInv, TypeOK
<1>1. Leads(tx.state, tx.armed \ {name}, tx.fired \cup {name}, tx.done, tx.delivered,
            tx.finals, tx.acked)
  BY <1>0 DEF Expire, Leads, ClientTransactions
<1>2. tx' \in ClientTransactions
  <2>1. /\ tx.armed \ {name} \in SUBSET ClientTimers
        /\ tx.fired \cup {name} \in SUBSET ClientTimers
    BY <1>0 DEF ClientTransactions
  <2> QED
    BY <1>0, <2>1 DEF Expire, ClientTransactions
<1>3. tx'.armed \cup tx'.fired = tx.armed \cup tx.fired
  BY <1>1 DEF Leads
<1>4. Unanswered' /\ AnsweredOnce' /\ OverWhenTerminated' /\ InviteACKs'
  BY <1>1 DEF Leads, IInv, Unanswered, AnsweredOnce, OverWhenTerminated, InviteACKs
<1>5. InviteTimers'
  BY <1>1, <1>3 DEF Leads, IInv, InviteTimers
<1>6. NonInvite'
  BY <1>1, <1>3 DEF Leads, IInv, NonInvite
<1>7. (tx.armed \cap tx.fired = {})' /\ Shows
  BY <1>1 DEF Leads, IInv, Shows, Stutters
<1> QED
  BY <1>2, <1>4, <1>5, <1>6, <1>7 DEF IInv, TypeOK

(* A callback of A or E, or one of B or F that comes too late, at most     *)
(* starts its timer again.                                                 *)
LEMMA RetransmitPreserves ==
  ASSUME IInv, NEW name \in tx.fired, name \in {"A", "B", "E", "F"},
         NEW again \in SUBSET {name},
         name = "B" => tx.state # "Calling",
         name = "F" => tx.state \notin {"Trying", "Proceeding"},
         again # {} => \/ name = "A" /\ tx.state = "Calling"
                       \/ name = "E" /\ tx.state \in {"Trying", "Proceeding"},
         Rearms(name, again)
  PROVE  IInv' /\ Shows
<1>0. tx \in ClientTransactions
  BY DEF IInv, TypeOK
<1>1. Leads(tx.state, tx.armed \cup again, tx.fired \ {name}, tx.done, tx.delivered,
            tx.finals, tx.acked)
  BY <1>0 DEF Rearms, Leads, ClientTransactions
<1>2. tx' \in ClientTransactions
  <2>1. /\ tx.armed \cup again \in SUBSET ClientTimers
        /\ tx.fired \ {name} \in SUBSET ClientTimers
    BY <1>0 DEF ClientTransactions
  <2> QED
    BY <1>0, <2>1 DEF Rearms, ClientTransactions
<1>3. tx.type \in {"ICT", "NICT"}
  BY <1>0 DEF ClientTransactions, ClientTypes
<1>4. Unanswered' /\ AnsweredOnce' /\ OverWhenTerminated' /\ InviteACKs'
  BY <1>1 DEF Leads, IInv, Unanswered, AnsweredOnce, OverWhenTerminated, InviteACKs
<1>5. InviteTimers'
  <2>1. tx.type = "ICT" /\ tx.state = "Calling" => name = "A"
    BY DEF IInv, InviteTimers
  <2>2. tx.type = "ICT" /\ tx.state # "Calling" => again = {}
    BY DEF IInv, InviteTimers
  <2> QED
    BY <1>1, <2>1, <2>2 DEF Leads, IInv, InviteTimers
<1>6. NonInvite'
  <2>1. tx.type = "NICT" /\ tx.state \in {"Trying", "Proceeding"} => name = "E"
    BY DEF IInv, NonInvite
  <2>2. tx.type = "NICT" /\ tx.state \notin {"Trying", "Proceeding"} => again = {}
    BY DEF IInv, NonInvite
  <2> QED
    BY <1>1, <2>1, <2>2 DEF Leads, IInv, NonInvite
<1>7. (tx.armed \cap tx.fired = {})' /\ Shows
  BY <1>1 DEF Leads, IInv, Shows, Stutters
<1> QED
  BY <1>2, <1>4, <1>5, <1>6, <1>7 DEF IInv, TypeOK

(* B or F gives up: the 408 is the answer.                                 *)
WithoutCallback(name) == [tx EXCEPT !.fired = @ \ {name}]

LEMMA GiveUpPreserves ==
  ASSUME IInv, NEW name \in tx.fired, name \in {"B", "F"}, NEW waiting,
         tx.state \in waiting, waiting \subseteq {"Trying", "Calling", "Proceeding"},
         tx.type = "ICT" => tx.state = "Calling",
         tx' = GiveUp(WithoutCallback(name), waiting)
  PROVE  IInv' /\ Shows
<1> DEFINE code == 408
           fired == tx.fired \ {name}
<1>0. tx \in ClientTransactions
  BY DEF IInv, TypeOK
<1>1. code \in Codes /\ IsFinal(code) /\ code # NoResponse /\ fired \in SUBSET tx.fired
  BY CodesAssumption DEF IsFinal, NoResponse
<1>2. AnswersWith(code, "Terminated", {}, fired, TRUE, NoResponse)
  <2> DEFINE stopped == CancelTimers([WithoutCallback(name) EXCEPT !.state = "Terminated"],
                                     ClientTimers)
  <2>1. tx.armed \ ClientTimers = {} /\ tx.acked = NoResponse
    BY <1>0 DEF IInv, Unanswered, ClientTransactions
  <2>2. stopped = [tx EXCEPT !.fired = @ \ {name}, !.state = "Terminated", !.armed = {}]
    BY <1>0, <2>1 DEF WithoutCallback, CancelTimers, ClientTransactions
  <2>3. tx' = Terminate([stopped EXCEPT !.delivered = code, !.finals = @ + 1])
    <3>1. WithoutCallback(name).state \in waiting
      BY <1>0 DEF WithoutCallback, ClientTransactions
    <3> QED
      BY <1>1, <3>1 DEF GiveUp, OnResp
  <2> HIDE DEF stopped, code
  <2>4. /\ stopped.finals = tx.finals
        /\ tx' = [stopped EXCEPT !.delivered = code, !.finals = @ + 1, !.done = TRUE]
    BY <1>0, <2>2, <2>3 DEF Terminate, ClientTransactions
  <2>5. tx' = [tx EXCEPT !.state = "Terminated", !.armed = {}, !.fired = fired,
                         !.done = TRUE, !.delivered = code, !.finals = @ + 1]
    BY <1>0, <2>2, <2>4 DEF ClientTransactions
  <2> QED
    BY <1>0, <2>1, <2>5 DEF AnswersWith, ClientTransactions
<1>3. MadeUp(code)
  BY DEF MadeUp
<1> HIDE DEF code, fired
<1> QED
  BY <1>1, <1>2, <1>3, AnswerPreserves

(* The end of lingering: nothing tests the state, but D and K run only in  *)
(* Completed.                                                              *)
LEMMA TimerDKPreserves ==
  ASSUME IInv, NEW name \in tx.fired, name \in {"D", "K"},
         tx' = TimerDK([tx EXCEPT !.fired = @ \ {name}])
  PROVE  IInv' /\ Shows
<1>0. tx \in ClientTransactions /\ tx.type \in {"ICT", "NICT"}
  BY DEF IInv, TypeOK, ClientTransactions, ClientTypes
<1>1. /\ tx.state = "Completed" /\ ~tx.done /\ tx.armed = {}
      /\ (tx.fired \ {name}) \cap {"D", "K"} = {}
  <2>1. tx.state \in ClientStates
    BY <1>0 DEF ClientTransactions
  <2>2. tx.state \notin {"Trying", "Calling", "Proceeding", "Terminated"}
    BY <1>0 DEF IInv, OverWhenTerminated, InviteTimers, NonInvite
  <2>3. tx.state = "Completed"
    BY <2>1, <2>2 DEF ClientStates
  <2>4. CASE tx.type = "ICT"
    BY <2>3, <2>4 DEF IInv, InviteTimers
  <2>5. CASE tx.type = "NICT"
    BY <2>3, <2>5 DEF IInv, NonInvite
  <2> QED
    BY <1>0, <2>3, <2>4, <2>5
<1>2. Leads("Terminated", {}, tx.fired \ {name}, TRUE, tx.delivered, tx.finals, tx.acked)
  BY <1>0, <1>1 DEF TimerDK, Terminate, Leads, ClientTransactions
<1>3. tx' \in ClientTransactions
  BY <1>0 DEF TimerDK, Terminate, ClientTransactions, ClientStates
<1>4. Unanswered' /\ AnsweredOnce' /\ OverWhenTerminated'
  BY <1>1, <1>2 DEF Leads, IInv, Unanswered, AnsweredOnce, OverWhenTerminated
<1>5. InviteTimers' /\ InviteACKs'
  BY <1>1, <1>2 DEF Leads, IInv, InviteTimers, InviteACKs
<1>6. NonInvite'
  BY <1>1, <1>2 DEF Leads, IInv, NonInvite
<1>7. (tx.armed \cap tx.fired = {})' /\ Shows
  BY <1>1, <1>2 DEF Leads, IInv, AnsweredOnce, Shows, Finishes
<1> QED
  BY <1>3, <1>4, <1>5, <1>6, <1>7 DEF IInv, TypeOK

(* Hence every timer callback, late or not, preserves it.                  *)
LEMMA RunTimerPreserves ==
  ASSUME IInv, NEW name \in tx.fired, tx' = RunTimer(tx, name)
  PROVE  IInv' /\ Shows
<1> DEFINE run == [tx EXCEPT !.fired = @ \ {name}]
<1>0. /\ tx \in ClientTransactions /\ name \in ClientTimers
      /\ run.state = tx.state /\ run.armed = tx.armed
  BY DEF IInv, TypeOK, ClientTransactions
<1>1. ASSUME NEW waiting, NEW again \in SUBSET {name},
             again = IF tx.state \in waiting THEN {name} ELSE {},
             tx' = Retransmit(run, name, waiting)
      PROVE  Rearms(name, again)
  BY <1>0, <1>1 DEF Retransmit, StartTimers, Rearms, ClientTransactions
<1>2. CASE name = "A"
  <2> DEFINE again == IF tx.state \in {"Calling"} THEN {name} ELSE {}
  <2>1. tx' = Retransmit(run, name, {"Calling"})
    BY <1>2 DEF RunTimer
  <2>2. Rearms(name, again)
    BY <1>1, <2>1
  <2> QED
    BY <1>2, <2>2, RetransmitPreserves
<1>3. CASE name = "E"
  <2> DEFINE again == IF tx.state \in {"Trying", "Proceeding"} THEN {name} ELSE {}
  <2>1. tx' = Retransmit(run, name, {"Trying", "Proceeding"})
    BY <1>3 DEF RunTimer
  <2>2. Rearms(name, again)
    BY <1>1, <2>1
  <2> QED
    BY <1>3, <2>2, RetransmitPreserves
<1>4. ASSUME tx' = run
      PROVE  Rearms(name, {}) /\ {} \in SUBSET {name}
  BY <1>0, <1>4 DEF Rearms, ClientTransactions
<1>5. CASE name = "B"
  <2>1. tx' = GiveUp(run, {"Calling"})
    BY <1>5 DEF RunTimer
  <2>2. CASE tx.state = "Calling"
    BY <1>5, <2>1, <2>2, GiveUpPreserves DEF WithoutCallback
  <2>3. CASE tx.state # "Calling"
    <3>1. tx' = run
      BY <1>0, <2>1, <2>3 DEF GiveUp
    <3> QED
      BY <1>4, <1>5, <2>3, <3>1, RetransmitPreserves
  <2> QED
    BY <2>2, <2>3
<1>6. CASE name = "F"
  <2>1. tx' = GiveUp(run, {"Trying", "Proceeding"})
    BY <1>6 DEF RunTimer
  <2>2. CASE tx.state \in {"Trying", "Proceeding"}
    <3>1. tx.type # "ICT"
      BY <1>6, <2>2 DEF IInv, InviteTimers
    <3> QED
      BY <1>6, <2>1, <2>2, <3>1, GiveUpPreserves DEF WithoutCallback
  <2>3. CASE tx.state \notin {"Trying", "Proceeding"}
    <3>1. tx' = run
      BY <1>0, <2>1, <2>3 DEF GiveUp
    <3> QED
      BY <1>4, <1>6, <2>3, <3>1, RetransmitPreserves
  <2> QED
    BY <2>2, <2>3
<1>7. CASE name \in {"D", "K"}
  <2>1. tx' = TimerDK(run)
    BY <1>7 DEF RunTimer
  <2> QED
    BY <1>7, <2>1, TimerDKPreserves
<1> QED
  BY <1>0, <1>2, <1>3, <1>5, <1>6, <1>7 DEF ClientTimers

------------------------------------------------------------------------------
(* The theorems. *)

(* Both kinds of new transactions satisfy the invariant.                   *)
LEMMA InitEstablishes == Init => IInv
<1> SUFFICES ASSUME NEW type \in ClientTypes, NEW transport \in Transports,
                    tx = NewClientTx(type, transport)
             PROVE  IInv
  BY DEF Init
<1>1. tx \in ClientTransactions
  BY DEF NewClientTx, ClientTransactions, ClientStates, ClientTypes, ClientTimers, Transports
<1>2. ~IsFinal(tx.delivered)
  BY DEF NewClientTx, IsFinal, NoResponse
<1> QED
  BY <1>1, <1>2
  DEF IInv, TypeOK, Unanswered, AnsweredOnce, OverWhenTerminated, InviteTimers, InviteACKs,
      NonInvite, NewClientTx, ClientTypes

(* Every step preserves the invariant and is one the stream allows.        *)
LEMMA NextPreserves == IInv /\ [Next]_tx => IInv' /\ Shows
<1> SUFFICES ASSUME IInv, [Next]_tx PROVE IInv' /\ Shows
  OBVIOUS
<1>1. CASE ResponseReceived
  BY <1>1, ReceiveResponsePreserves DEF ResponseReceived
<1>2. ASSUME NEW name \in ClientTimers, TimerExpires(name) PROVE IInv' /\ Shows
  BY <1>2, ExpirePreserves DEF TimerExpires
<1>3. ASSUME NEW name \in ClientTimers, TimerRuns(name) PROVE IInv' /\ Shows
  BY <1>3, RunTimerPreserves DEF TimerRuns
<1>4. CASE UNCHANGED tx
  BY <1>4, UnchangedPreserves
<1> QED
  BY <1>1, <1>2, <1>3, <1>4 DEF Next

(* The inductive invariant holds in every reachable state.                 *)
THEOREM Invariance == SafeSpec => []IInv
BY InitEstablishes, NextPreserves, PTL DEF SafeSpec

(* A client transaction's record always has its type.                      *)
THEOREM TypeCorrectness == SafeSpec => []TypeOK
<1>1. IInv => TypeOK
  BY DEF IInv
<1> QED
  BY <1>1, Invariance, PTL

(* The waiting function is given at most one final response, and the 408   *)
(* of a late timer never follows an answer.                                *)
THEOREM OneFinalResponse == SafeSpec => []OneFinalDelivered
<1>1. IInv => OneFinalDelivered
  <2> SUFFICES ASSUME IInv PROVE OneFinalDelivered
    OBVIOUS
  <2>1. tx.state \in ClientStates
    BY DEF IInv, TypeOK, ClientTransactions
  <2>2. CASE tx.state \in {"Trying", "Calling", "Proceeding"}
    BY <2>2 DEF IInv, Unanswered, IsFinal, OneFinalDelivered
  <2>3. CASE tx.state \in {"Completed", "Terminated"}
    BY <2>3 DEF IInv, AnsweredOnce, IsFinal, OneFinalDelivered
  <2> QED
    BY <2>1, <2>2, <2>3 DEF ClientStates
<1> QED
  BY <1>1, Invariance, PTL

(* An INVITE's failure is ACKed by the transaction, nothing else is.       *)
THEOREM FailuresAreACKed == SafeSpec => []ACKsExactlyFailures
<1>1. IInv => ACKsExactlyFailures
  <2> SUFFICES ASSUME IInv PROVE ACKsExactlyFailures
    OBVIOUS
  <2>1. tx.type \in {"ICT", "NICT"}
    BY DEF IInv, TypeOK, ClientTransactions, ClientTypes
  <2> QED
    BY <2>1 DEF IInv, InviteACKs, NonInvite, ACKsExactlyFailures
<1> QED
  BY <1>1, Invariance, PTL

(* A transaction that is not over has a timer that will end it, unless its *)
(* INVITE rings; one that is over has none.                                *)
THEOREM TimersEndIt == SafeSpec => []SomeTimerEndsIt
<1>1. IInv => SomeTimerEndsIt
  <2> SUFFICES ASSUME IInv PROVE SomeTimerEndsIt
    OBVIOUS
  <2>1. /\ tx.type \in {"ICT", "NICT"} /\ tx.done \in BOOLEAN
        /\ tx.state \in {"Trying", "Calling", "Proceeding", "Completed", "Terminated"}
    BY DEF IInv, TypeOK, ClientTransactions, ClientTypes, ClientStates
  <2>2. CASE tx.done
    <3>1. tx.armed = {}
      BY <2>1, <2>2 DEF IInv, Unanswered, OverWhenTerminated, InviteTimers, NonInvite
    <3> QED
      BY <2>2, <3>1 DEF SomeTimerEndsIt
  <2>3. CASE ~tx.done
    BY <2>1, <2>3
    DEF IInv, OverWhenTerminated, InviteTimers, NonInvite, SomeTimerEndsIt, Pending,
        RingsForEver
  <2> QED
    BY <2>2, <2>3
<1> QED
  BY <1>1, Invariance, PTL

(* Towards the function that waits for the answer, the client transaction  *)
(* implements the response stream.                                         *)
THEOREM ImplementsResponseStream == SafeSpec => Promise!SafeSpec
<1>1. Init => Promise!Init
  BY DEF Init, NewClientTx, NoResponse, Promise!Init
<1>2. IInv /\ [Next]_tx => [Promise!Next]_(Promise!vars)
  <2> SUFFICES ASSUME IInv, [Next]_tx PROVE [Promise!Next]_(Promise!vars)
    OBVIOUS
  <2>0. tx.delivered \in Nat
    <3>1. tx.delivered \in Codes \cup {NoResponse}
      BY DEF IInv, TypeOK, ClientTransactions
    <3>2. CASE tx.delivered \in Codes
      BY <3>2, CodesAssumption, Zenon
    <3>3. CASE tx.delivered = NoResponse
      BY <3>3 DEF NoResponse
    <3> QED
      BY <3>1, <3>2, <3>3
  <2>1. Shows
    BY NextPreserves
  <2>2. CASE Progresses
    <3>1. tx'.delivered \in Nat
      BY <2>2, CodesAssumption DEF Progresses
    <3> QED
      BY <2>2, <3>1 DEF Progresses, IsFinal, Promise!Next, Promise!Progress, Promise!Answered
  <2>3. CASE Answers
    BY <2>3 DEF Answers, IsFinal, Promise!Next, Promise!Answer, Promise!Answered
  <2>4. CASE Finishes
    BY <2>4 DEF Finishes, IsFinal, Promise!Next, Promise!Finish, Promise!Answered
  <2>5. CASE Stutters
    BY <2>5 DEF Stutters, Promise!vars
  <2> QED
    BY <2>1, <2>2, <2>3, <2>4, <2>5 DEF Shows
<1> QED
  BY <1>1, <1>2, Invariance, PTL DEF SafeSpec, Promise!SafeSpec
==============================================================================
