----------------------- MODULE ServerTransactionProofs -----------------------
(***************************************************************************)
(* Proofs about ServerTransaction, for every set of status codes.          *)
(***************************************************************************)
EXTENDS ServerTransaction, TLAPS

------------------------------------------------------------------------------
(* The inductive invariant: what each state says about the rest of the     *)
(* record.  A callback that was started before its timer was cancelled     *)
(* (`fired') may be left over in a later state, a running timer may not.   *)

Waiting ==
  tx.state \in {"Trying", "Proceeding"} =>
    /\ ~IsFinal(tx.sent) /\ tx.lastResponse = NoResponse /\ ~tx.done
    /\ tx.armed = {} /\ tx.fired = {}

Kept ==
  /\ tx.state \in {"Completed", "Confirmed"} =>
       tx.lastResponse = tx.sent /\ IsFinal(tx.sent)
  /\ tx.state = "Terminated" =>
       /\ IsFinal(tx.sent) /\ tx.done /\ tx.armed = {} /\ tx.fired \subseteq {"G", "H"}
       /\ tx.lastResponse \in {NoResponse, tx.sent}

InviteTimers ==
  tx.type = "IST" =>
    /\ tx.state # "Trying"
    /\ tx.state = "Completed" =>
         /\ ~tx.done /\ tx.armed \subseteq {"G", "H"} /\ tx.fired \subseteq {"G", "H"}
         /\ "H" \in tx.armed \cup tx.fired
    /\ tx.state = "Confirmed" =>
         /\ tx.armed \subseteq {"I"} /\ tx.fired \subseteq {"G", "H", "I"}
         /\ tx.done <=> "I" \notin tx.armed \cup tx.fired

NonInviteTimers ==
  tx.type = "NIST" =>
    /\ tx.state # "Confirmed"
    /\ tx.armed \subseteq {"J"} /\ tx.fired \subseteq {"J"}
    /\ tx.state = "Completed" => (tx.done <=> "J" \notin tx.armed \cup tx.fired)

IInv ==
  /\ TypeOK
  /\ tx.armed \cap tx.fired = {}
  /\ Waiting
  /\ Kept
  /\ InviteTimers
  /\ NonInviteTimers

------------------------------------------------------------------------------
(* What Respond returns, class by class of the status code. *)

(* The classes of status codes exclude each other and cover everything     *)
(* from 100 up; codes below 100 belong to none.                            *)
LEMMA CodeClasses ==
  ASSUME NEW code \in Codes
  PROVE  /\ code \in Nat
         /\ code < 100 \/ IsProvisional(code) \/ IsSuccess(code) \/ code >= 300
         /\ IsProvisional(code) => code >= 100 /\ ~IsSuccess(code) /\ ~(code >= 300) /\ ~IsFinal(code)
         /\ IsSuccess(code) => ~IsProvisional(code) /\ IsFinal(code)
         /\ code >= 300 => ~IsProvisional(code) /\ ~IsSuccess(code) /\ IsFinal(code)
         /\ code < 100 => ~IsProvisional(code) /\ ~IsSuccess(code) /\ ~(code >= 300) /\ ~IsFinal(code)
         /\ IsFinal(code) => ~IsProvisional(code)
<1>1. code \in Nat
  BY CodesAssumption
<1> QED
  BY <1>1 DEF IsProvisional, IsSuccess, IsFinal

(* What istRespond makes of an INVITE transaction: nothing outside         *)
(* Proceeding, one of three outcomes inside it, by class of the code.      *)
LEMMA IstRespondReturns ==
  ASSUME NEW t \in ServerTransactions, NEW code \in Codes
  PROVE  /\ t.state # "Proceeding" \/ code < 100 => IstRespond(t, code) = t
         /\ t.state = "Proceeding" /\ IsProvisional(code) =>
              IstRespond(t, code) = [t EXCEPT !.state = "Proceeding", !.sent = code]
         /\ t.state = "Proceeding" /\ IsSuccess(code) =>
              IstRespond(t, code) = [t EXCEPT !.state = "Terminated", !.sent = code,
                                              !.armed = @ \ ServerTimers, !.done = TRUE]
         /\ t.state = "Proceeding" /\ code >= 300 =>
              IstRespond(t, code) =
                [t EXCEPT !.state = "Completed", !.lastResponse = code, !.sent = code,
                          !.armed = @ \cup IF t.transport = "UDP" THEN {"G", "H"} ELSE {"H"}]
<1>1. t.state # "Proceeding" \/ code < 100 => IstRespond(t, code) = t
  BY CodeClasses DEF IstRespond
<1>2. ASSUME t.state = "Proceeding", IsProvisional(code)
      PROVE  IstRespond(t, code) = [t EXCEPT !.state = "Proceeding", !.sent = code]
  <2>1. IstRespond(t, code) = [t EXCEPT !.sent = code]
    BY <1>2, CodeClasses DEF IstRespond, Send
  <2> QED
    BY <1>2, <2>1 DEF ServerTransactions
<1>3. ASSUME t.state = "Proceeding", IsSuccess(code)
      PROVE  IstRespond(t, code) = [t EXCEPT !.state = "Terminated", !.sent = code,
                                             !.armed = @ \ ServerTimers, !.done = TRUE]
  BY <1>3, CodeClasses DEF IstRespond, Send, CancelTimers, Terminate, ServerTransactions
<1>4. ASSUME t.state = "Proceeding", code >= 300
      PROVE  IstRespond(t, code) =
               [t EXCEPT !.state = "Completed", !.lastResponse = code, !.sent = code,
                         !.armed = @ \cup IF t.transport = "UDP" THEN {"G", "H"} ELSE {"H"}]
  BY <1>4, CodeClasses DEF IstRespond, Send, StartTimers, ServerTransactions
<1> QED
  BY <1>1, <1>2, <1>3, <1>4

(* What nistRespond makes of a non-INVITE transaction: nothing once it     *)
(* has answered, a progress or an answer before.                           *)
LEMMA NistRespondReturns ==
  ASSUME NEW t \in ServerTransactions, NEW code \in Codes
  PROVE  /\ t.state \notin {"Trying", "Proceeding"} \/ code < 100 => NistRespond(t, code) = t
         /\ t.state \in {"Trying", "Proceeding"} /\ IsProvisional(code) =>
              NistRespond(t, code) = [t EXCEPT !.state = "Proceeding", !.sent = code]
         /\ t.state \in {"Trying", "Proceeding"} /\ IsFinal(code) /\ t.transport = "UDP" =>
              NistRespond(t, code) =
                [t EXCEPT !.state = "Completed", !.lastResponse = code, !.sent = code,
                          !.armed = @ \cup {"J"}]
         /\ t.state \in {"Trying", "Proceeding"} /\ IsFinal(code) /\ t.transport = "TCP" =>
              NistRespond(t, code) =
                [t EXCEPT !.state = "Completed", !.lastResponse = code, !.sent = code,
                          !.done = TRUE]
<1>1. t.state \notin {"Trying", "Proceeding"} \/ code < 100 => NistRespond(t, code) = t
  BY CodeClasses DEF NistRespond
<1>2. ASSUME t.state \in {"Trying", "Proceeding"}, IsProvisional(code)
      PROVE  NistRespond(t, code) = [t EXCEPT !.state = "Proceeding", !.sent = code]
  BY <1>2, CodeClasses DEF NistRespond, Send, ServerTransactions
<1>3. ASSUME t.state \in {"Trying", "Proceeding"}, IsFinal(code)
      PROVE  NistRespond(t, code) = NistComplete(t, code)
  BY <1>3, CodeClasses DEF NistRespond
<1>4. t.transport = "UDP" =>
        NistComplete(t, code) = [t EXCEPT !.state = "Completed", !.lastResponse = code,
                                          !.sent = code, !.armed = @ \cup {"J"}]
  BY DEF NistComplete, Send, StartTimers, ServerTransactions
<1>5. t.transport = "TCP" =>
        NistComplete(t, code) = [t EXCEPT !.state = "Completed", !.lastResponse = code,
                                          !.sent = code, !.done = TRUE]
  BY DEF NistComplete, Send, Terminate, ServerTransactions
<1> QED
  BY <1>1, <1>2, <1>3, <1>4, <1>5

------------------------------------------------------------------------------
(* What one step does to the fields the peer and the layer can see, and    *)
(* that it never lowers the state's rank.                                  *)

Progresses == ~IsFinal(tx.sent) /\ tx'.sent \in Codes /\ ~IsFinal(tx'.sent) /\ tx'.done = tx.done
Answers == ~IsFinal(tx.sent) /\ tx'.sent \in Codes /\ IsFinal(tx'.sent) /\ tx'.done \in BOOLEAN
Finishes == IsFinal(tx.sent) /\ ~tx.done /\ tx'.done = TRUE /\ tx'.sent = tx.sent
Stutters == tx'.sent = tx.sent /\ tx'.done = tx.done

Shows ==
  /\ Progresses \/ Answers \/ Finishes \/ Stutters
  /\ Rank[tx'.state] >= Rank[tx.state]

------------------------------------------------------------------------------
(* One lemma per operation: it preserves the invariant, and what it shows. *)

(* A call that the transaction ignores preserves the invariant.            *)
LEMMA UnchangedPreserves ==
  ASSUME IInv, tx' = tx
  PROVE  IInv' /\ Shows
<1>1. IInv'
  BY DEF IInv, TypeOK, Waiting, Kept, InviteTimers, NonInviteTimers
<1>2. Shows
  BY DEF IInv, TypeOK, ServerTransactions, ServerStates, Shows, Stutters, Rank
<1> QED
  BY <1>1, <1>2

(* A provisional response leaves everything as it was but what was sent.   *)
LEMMA ProgressPreserves ==
  ASSUME IInv, tx.state \in {"Trying", "Proceeding"}, NEW code \in Codes, ~IsFinal(code),
         tx' = [tx EXCEPT !.state = "Proceeding", !.sent = code]
  PROVE  IInv' /\ Shows
<1>0. tx \in ServerTransactions
  BY DEF IInv, TypeOK
<1>1. /\ tx' \in ServerTransactions
      /\ tx'.type = tx.type /\ tx'.state = "Proceeding" /\ tx'.sent = code
      /\ tx'.lastResponse = tx.lastResponse /\ tx'.done = tx.done
      /\ tx'.armed = tx.armed /\ tx'.fired = tx.fired
  <2>1. tx' \in ServerTransactions
    BY <1>0 DEF ServerTransactions, ServerStates
  <2>2. /\ tx'.type = tx.type /\ tx'.state = "Proceeding" /\ tx'.sent = code
        /\ tx'.lastResponse = tx.lastResponse /\ tx'.done = tx.done
        /\ tx'.armed = tx.armed /\ tx'.fired = tx.fired
    BY <1>0 DEF ServerTransactions, ServerStates
  <2> QED
    BY <2>1, <2>2
<1>2. Waiting' /\ Kept'
  BY <1>1 DEF IInv, Waiting, Kept
<1>3. InviteTimers' /\ NonInviteTimers'
  BY <1>1 DEF IInv, InviteTimers, NonInviteTimers
<1>4. Shows
  BY <1>1 DEF IInv, Waiting, Shows, Progresses, Rank
<1> QED
  BY <1>1, <1>2, <1>3, <1>4 DEF IInv, TypeOK

(* Responding to an INVITE preserves the invariant, whichever code and     *)
(* whichever state it meets.                                               *)
LEMMA IstRespondPreserves ==
  ASSUME IInv, tx.type = "IST", NEW code \in Codes, tx' = IstRespond(tx, code)
  PROVE  IInv' /\ Shows
<1>0. tx \in ServerTransactions
  BY DEF IInv, TypeOK
<1>1. CASE tx.state # "Proceeding" \/ code < 100
  BY <1>0, <1>1, IstRespondReturns, UnchangedPreserves
<1>2. CASE tx.state = "Proceeding" /\ IsProvisional(code)
  <2>1. tx' = [tx EXCEPT !.state = "Proceeding", !.sent = code]
    BY <1>0, <1>2, IstRespondReturns
  <2>2. tx.state \in {"Trying", "Proceeding"} /\ ~IsFinal(code)
    BY <1>2, CodeClasses
  <2> QED
    BY <2>1, <2>2, ProgressPreserves
<1>3. CASE tx.state = "Proceeding" /\ IsSuccess(code)
  <2>1. tx' = [tx EXCEPT !.state = "Terminated", !.sent = code,
                         !.armed = @ \ ServerTimers, !.done = TRUE]
    BY <1>0, <1>3, IstRespondReturns
  <2>2. /\ tx' \in ServerTransactions
        /\ tx'.type = "IST" /\ tx'.state = "Terminated" /\ tx'.sent = code /\ tx'.done = TRUE
        /\ tx'.lastResponse = tx.lastResponse
        /\ tx'.armed = tx.armed \ ServerTimers /\ tx'.fired = tx.fired
    <3>1. tx' \in ServerTransactions
      BY <1>0, <2>1 DEF ServerTransactions, ServerStates
    <3>2. /\ tx'.type = "IST" /\ tx'.state = "Terminated" /\ tx'.sent = code /\ tx'.done = TRUE
          /\ tx'.lastResponse = tx.lastResponse
          /\ tx'.armed = tx.armed \ ServerTimers /\ tx'.fired = tx.fired
      BY <1>0, <2>1 DEF ServerTransactions, ServerStates
    <3> QED
      BY <3>1, <3>2
  <2>3. tx'.armed = {} /\ tx'.fired = {} /\ tx'.lastResponse = NoResponse
    BY <1>3, <2>2 DEF IInv, Waiting
  <2>4. Shows
    <3>1. Answers
      <4>1. tx'.done \in BOOLEAN
        BY <2>2 DEF ServerTransactions
      <4>2. ~IsFinal(tx.sent)
        BY <1>3 DEF IInv, Waiting
      <4> QED
        BY <1>3, <2>2, CodeClasses, <4>1, <4>2 DEF Answers
    <3>2. Rank[tx'.state] >= Rank[tx.state]
      BY <1>3, <2>2, CodeClasses DEF Rank
    <3> QED
      BY <3>1, <3>2 DEF Shows
  <2> QED
    BY <1>3, <2>2, <2>3, <2>4, CodeClasses
    DEF IInv, TypeOK, Waiting, Kept, InviteTimers, NonInviteTimers
<1>4. CASE tx.state = "Proceeding" /\ code >= 300
  <2> DEFINE started == IF tx.transport = "UDP" THEN {"G", "H"} ELSE {"H"}
  <2>0. started \in {{"G", "H"}, {"H"}}
    OBVIOUS
  <2>1. tx' = [tx EXCEPT !.state = "Completed", !.lastResponse = code, !.sent = code,
                         !.armed = @ \cup started]
    BY <1>0, <1>4, IstRespondReturns
  <2> HIDE DEF started
  <2>2. /\ tx' \in ServerTransactions
        /\ tx'.type = "IST" /\ tx'.state = "Completed" /\ tx'.sent = code
        /\ tx'.lastResponse = code /\ tx'.done = tx.done
        /\ tx'.armed = tx.armed \cup started /\ tx'.fired = tx.fired
    <3>0. tx.armed \cup started \in SUBSET ServerTimers
      BY <1>0, <2>0 DEF ServerTransactions, ServerTimers
    <3>1. tx' \in ServerTransactions
      BY <1>0, <2>1, <3>0 DEF ServerTransactions, ServerStates
    <3>2. /\ tx'.type = "IST" /\ tx'.state = "Completed" /\ tx'.sent = code
          /\ tx'.lastResponse = code /\ tx'.done = tx.done
          /\ tx'.armed = tx.armed \cup started /\ tx'.fired = tx.fired
      BY <1>0, <2>0, <2>1 DEF ServerTransactions, ServerStates, ServerTimers
    <3> QED
      BY <3>1, <3>2
  <2>3. tx'.armed = started /\ tx'.fired = {} /\ ~tx'.done
    BY <1>4, <2>2 DEF IInv, Waiting
  <2>4. Shows
    <3>1. Answers
      <4>1. tx'.done \in BOOLEAN
        BY <2>2 DEF ServerTransactions
      <4>2. ~IsFinal(tx.sent)
        BY <1>4 DEF IInv, Waiting
      <4> QED
        BY <1>4, <2>2, <2>3, CodeClasses, <4>1, <4>2 DEF Answers
    <3>2. Rank[tx'.state] >= Rank[tx.state]
      BY <1>4, <2>2, <2>3, CodeClasses DEF Rank
    <3> QED
      BY <3>1, <3>2 DEF Shows
  <2> QED
    BY <1>4, <2>0, <2>2, <2>3, <2>4, CodeClasses
    DEF IInv, TypeOK, Waiting, Kept, InviteTimers, NonInviteTimers
<1> QED
  BY <1>1, <1>2, <1>3, <1>4, CodeClasses

(* Responding to a non-INVITE request preserves the invariant.             *)
LEMMA NistRespondPreserves ==
  ASSUME IInv, tx.type = "NIST", NEW code \in Codes, tx' = NistRespond(tx, code)
  PROVE  IInv' /\ Shows
<1>0. tx \in ServerTransactions
  BY DEF IInv, TypeOK
<1>1. CASE tx.state \notin {"Trying", "Proceeding"} \/ code < 100
  BY <1>0, <1>1, NistRespondReturns, UnchangedPreserves
<1>2. CASE tx.state \in {"Trying", "Proceeding"} /\ IsProvisional(code)
  <2>1. tx' = [tx EXCEPT !.state = "Proceeding", !.sent = code]
    BY <1>0, <1>2, NistRespondReturns
  <2>2. tx.state \in {"Trying", "Proceeding"} /\ ~IsFinal(code)
    BY <1>2, CodeClasses
  <2> QED
    BY <2>1, <2>2, ProgressPreserves
<1>3. CASE tx.state \in {"Trying", "Proceeding"} /\ IsFinal(code) /\ tx.transport = "UDP"
  <2>1. tx' = [tx EXCEPT !.state = "Completed", !.lastResponse = code, !.sent = code,
                         !.armed = @ \cup {"J"}]
    BY <1>0, <1>3, NistRespondReturns
  <2>2. /\ tx' \in ServerTransactions
        /\ tx'.type = "NIST" /\ tx'.state = "Completed" /\ tx'.sent = code
        /\ tx'.lastResponse = code /\ tx'.done = tx.done
        /\ tx'.armed = tx.armed \cup {"J"} /\ tx'.fired = tx.fired
    <3>0. tx.armed \cup {"J"} \in SUBSET ServerTimers
      BY <1>0 DEF ServerTransactions, ServerTimers
    <3>1. tx' \in ServerTransactions
      BY <1>0, <2>1, <3>0 DEF ServerTransactions, ServerStates
    <3>2. /\ tx'.type = "NIST" /\ tx'.state = "Completed" /\ tx'.sent = code
          /\ tx'.lastResponse = code /\ tx'.done = tx.done
          /\ tx'.armed = tx.armed \cup {"J"} /\ tx'.fired = tx.fired
      BY <1>0, <2>1 DEF ServerTransactions, ServerStates, ServerTimers
    <3> QED
      BY <3>1, <3>2
  <2>3. tx'.armed = {"J"} /\ tx'.fired = {} /\ ~tx'.done
    BY <1>3, <2>2 DEF IInv, Waiting
  <2>4. Shows
    <3>1. Answers
      <4>1. tx'.done \in BOOLEAN
        BY <2>2 DEF ServerTransactions
      <4>2. ~IsFinal(tx.sent)
        BY <1>3 DEF IInv, Waiting
      <4> QED
        BY <1>3, <2>2, <2>3, <4>1, <4>2 DEF Answers
    <3>2. Rank[tx'.state] >= Rank[tx.state]
      BY <1>3, <2>2, <2>3 DEF Rank
    <3> QED
      BY <3>1, <3>2 DEF Shows
  <2> QED
    BY <1>3, <2>2, <2>3, <2>4 DEF IInv, TypeOK, Waiting, Kept, InviteTimers, NonInviteTimers
<1>4. CASE tx.state \in {"Trying", "Proceeding"} /\ IsFinal(code) /\ tx.transport = "TCP"
  <2>1. tx' = [tx EXCEPT !.state = "Completed", !.lastResponse = code, !.sent = code,
                         !.done = TRUE]
    BY <1>0, <1>4, NistRespondReturns
  <2>2. /\ tx' \in ServerTransactions
        /\ tx'.type = "NIST" /\ tx'.state = "Completed" /\ tx'.sent = code
        /\ tx'.lastResponse = code /\ tx'.done = TRUE
        /\ tx'.armed = tx.armed /\ tx'.fired = tx.fired
    <3>1. tx' \in ServerTransactions
      BY <1>0, <2>1 DEF ServerTransactions, ServerStates
    <3>2. /\ tx'.type = "NIST" /\ tx'.state = "Completed" /\ tx'.sent = code
          /\ tx'.lastResponse = code /\ tx'.done = TRUE
          /\ tx'.armed = tx.armed /\ tx'.fired = tx.fired
      BY <1>0, <2>1 DEF ServerTransactions, ServerStates
    <3> QED
      BY <3>1, <3>2
  <2>3. tx'.armed = {} /\ tx'.fired = {}
    BY <1>4, <2>2 DEF IInv, Waiting
  <2>4. Shows
    <3>1. Answers
      <4>1. tx'.done \in BOOLEAN
        BY <2>2 DEF ServerTransactions
      <4>2. ~IsFinal(tx.sent)
        BY <1>4 DEF IInv, Waiting
      <4> QED
        BY <1>4, <2>2, <4>1, <4>2 DEF Answers
    <3>2. Rank[tx'.state] >= Rank[tx.state]
      BY <1>4, <2>2 DEF Rank
    <3> QED
      BY <3>1, <3>2 DEF Shows
  <2> QED
    BY <1>4, <2>2, <2>3, <2>4 DEF IInv, TypeOK, Waiting, Kept, InviteTimers, NonInviteTimers
<1>5. tx.transport \in {"UDP", "TCP"}
  BY <1>0 DEF ServerTransactions, Transports
<1> QED
  BY <1>1, <1>2, <1>3, <1>4, <1>5, CodeClasses

(* So does Respond, which chooses between the two and ignores calls on a   *)
(* terminated transaction.                                                 *)
LEMMA RespondPreserves ==
  ASSUME IInv, NEW code \in Codes, tx' = Respond(tx, code)
  PROVE  IInv' /\ Shows
<1>0. tx \in ServerTransactions
  BY DEF IInv, TypeOK
<1>1. CASE tx.state = "Terminated"
  BY <1>1, UnchangedPreserves DEF Respond
<1>2. CASE tx.state # "Terminated" /\ tx.type = "IST"
  BY <1>2, IstRespondPreserves DEF Respond
<1>3. CASE tx.state # "Terminated" /\ tx.type = "NIST"
  BY <1>3, NistRespondPreserves DEF Respond
<1> QED
  BY <1>0, <1>1, <1>2, <1>3 DEF ServerTransactions, ServerTypes

(* Sending once more what was sent last, or 100 before anything was kept,  *)
(* is all a retransmitted request and timer G's callback do.               *)
LEMMA ReceiveRequestPreserves ==
  ASSUME IInv, tx' = ReceiveRequest(tx)
  PROVE  IInv' /\ Shows
<1>0. tx \in ServerTransactions
  BY DEF IInv, TypeOK
<1>1. CASE tx.type = "IST" /\ tx.state = "Proceeding"
  <2>1. tx.lastResponse = NoResponse
    BY <1>1 DEF IInv, Waiting
  <2>2. tx' = [tx EXCEPT !.state = "Proceeding", !.sent = 100]
    BY <1>0, <1>1, <2>1 DEF ReceiveRequest, Send, ServerTransactions
  <2>3. 100 \in Codes /\ ~IsFinal(100)
    BY CodesAssumption DEF IsFinal
  <2> QED
    BY <1>1, <2>2, <2>3, ProgressPreserves
<1>2. CASE tx.type = "NIST" /\ tx.state = "Proceeding"
  <2>1. tx.lastResponse = NoResponse
    BY <1>2 DEF IInv, Waiting
  <2>2. tx' = tx
    BY <1>2, <2>1 DEF ReceiveRequest
  <2> QED
    BY <2>2, UnchangedPreserves
<1>3. CASE tx.state = "Completed"
  <2>1. tx.lastResponse = tx.sent
    BY <1>3 DEF IInv, Kept
  <2>2. [tx EXCEPT !.sent = tx.sent] = tx
    BY <1>0 DEF ServerTransactions
  <2>3. tx' = tx
    BY <1>0, <1>3, <2>1, <2>2 DEF ReceiveRequest, Send, ServerTransactions, ServerTypes
  <2> QED
    BY <2>3, UnchangedPreserves
<1>4. CASE tx.state \notin {"Proceeding", "Completed"}
  <2>1. tx' = tx
    BY <1>4 DEF ReceiveRequest
  <2> QED
    BY <2>1, UnchangedPreserves
<1> QED
  BY <1>0, <1>1, <1>2, <1>3, <1>4 DEF ServerTransactions, ServerTypes

(* An ACK preserves the invariant: it confirms a completed INVITE          *)
(* transaction, and is ignored in every other state.                       *)
LEMMA ReceiveACKPreserves ==
  ASSUME IInv, tx' = ReceiveACK(tx)
  PROVE  IInv' /\ Shows
<1>0. tx \in ServerTransactions
  BY DEF IInv, TypeOK
<1>1. CASE ~(tx.type = "IST" /\ tx.state = "Completed")
  <2>1. tx' = tx
    BY <1>1 DEF ReceiveACK
  <2> QED
    BY <2>1, UnchangedPreserves
<1>2. CASE tx.type = "IST" /\ tx.state = "Completed" /\ tx.transport = "UDP"
  <2> DEFINE left == (tx.armed \ {"G", "H"}) \cup {"I"}
  <2>0. left \in SUBSET ServerTimers /\ (tx.armed \subseteq {"G", "H"} => left = {"I"})
    BY <1>0 DEF ServerTransactions, ServerTimers
  <2>1. tx' = [tx EXCEPT !.state = "Confirmed", !.armed = left]
    BY <1>0, <1>2 DEF ReceiveACK, StartTimers, CancelTimers, ServerTransactions
  <2> HIDE DEF left
  <2>2. /\ tx' \in ServerTransactions
        /\ tx'.type = "IST" /\ tx'.state = "Confirmed" /\ tx'.sent = tx.sent
        /\ tx'.lastResponse = tx.lastResponse /\ tx'.done = tx.done
        /\ tx'.armed = left /\ tx'.fired = tx.fired
    <3>1. tx' \in ServerTransactions
      BY <1>0, <1>2, <2>0, <2>1 DEF ServerTransactions, ServerStates
    <3>2. /\ tx'.type = "IST" /\ tx'.state = "Confirmed" /\ tx'.sent = tx.sent
          /\ tx'.lastResponse = tx.lastResponse /\ tx'.done = tx.done
          /\ tx'.armed = left /\ tx'.fired = tx.fired
      BY <1>0, <1>2, <2>0, <2>1 DEF ServerTransactions, ServerStates
    <3> QED
      BY <3>1, <3>2
  <2>3. /\ tx'.armed = {"I"} /\ tx'.fired \subseteq {"G", "H"} /\ ~tx'.done
        /\ tx'.lastResponse = tx'.sent /\ IsFinal(tx'.sent)
    BY <1>2, <2>0, <2>2 DEF IInv, InviteTimers, Kept
  <2>4. Shows
    BY <1>2, <2>2, <2>3 DEF IInv, InviteTimers, Shows, Stutters, Rank
  <2> QED
    BY <2>2, <2>3, <2>4 DEF IInv, TypeOK, Waiting, Kept, InviteTimers, NonInviteTimers
<1>3. CASE tx.type = "IST" /\ tx.state = "Completed" /\ tx.transport = "TCP"
  <2> DEFINE left == tx.armed \ {"G", "H"}
  <2>0. left \in SUBSET ServerTimers /\ (tx.armed \subseteq {"G", "H"} => left = {})
    BY <1>0 DEF ServerTransactions
  <2>1. tx' = [tx EXCEPT !.state = "Confirmed", !.armed = left, !.done = TRUE]
    BY <1>0, <1>3 DEF ReceiveACK, Terminate, CancelTimers, ServerTransactions
  <2> HIDE DEF left
  <2>2. /\ tx' \in ServerTransactions
        /\ tx'.type = "IST" /\ tx'.state = "Confirmed" /\ tx'.sent = tx.sent
        /\ tx'.lastResponse = tx.lastResponse /\ tx'.done = TRUE
        /\ tx'.armed = left /\ tx'.fired = tx.fired
    <3>1. tx' \in ServerTransactions
      BY <1>0, <1>3, <2>0, <2>1 DEF ServerTransactions, ServerStates
    <3>2. /\ tx'.type = "IST" /\ tx'.state = "Confirmed" /\ tx'.sent = tx.sent
          /\ tx'.lastResponse = tx.lastResponse /\ tx'.done = TRUE
          /\ tx'.armed = left /\ tx'.fired = tx.fired
      BY <1>0, <1>3, <2>0, <2>1 DEF ServerTransactions, ServerStates
    <3> QED
      BY <3>1, <3>2
  <2>3. /\ tx'.armed = {} /\ tx'.fired \subseteq {"G", "H"}
        /\ tx'.lastResponse = tx'.sent /\ IsFinal(tx'.sent)
    BY <1>3, <2>0, <2>2 DEF IInv, InviteTimers, Kept
  <2>4. Shows
    BY <1>3, <2>2, <2>3 DEF IInv, InviteTimers, Shows, Finishes, Rank
  <2> QED
    BY <2>2, <2>3, <2>4 DEF IInv, TypeOK, Waiting, Kept, InviteTimers, NonInviteTimers
<1> QED
  BY <1>0, <1>1, <1>2, <1>3 DEF ServerTransactions, Transports

(* A timer that expires moves from the running timers to the callbacks     *)
(* that wait for tx.mu, and nothing else changes.                          *)
LEMMA ExpirePreserves ==
  ASSUME IInv, NEW name \in tx.armed, tx' = Expire(tx, name)
  PROVE  IInv' /\ Shows
<1>0. tx \in ServerTransactions
  BY DEF IInv, TypeOK
<1>1. tx' = [tx EXCEPT !.armed = @ \ {name}, !.fired = @ \cup {name}]
  BY DEF Expire
<1>2. /\ tx' \in ServerTransactions
      /\ tx'.type = tx.type /\ tx'.state = tx.state /\ tx'.sent = tx.sent
      /\ tx'.lastResponse = tx.lastResponse /\ tx'.done = tx.done
      /\ tx'.armed = tx.armed \ {name} /\ tx'.fired = tx.fired \cup {name}
  <2>0. /\ tx.armed \ {name} \in SUBSET ServerTimers
        /\ tx.fired \cup {name} \in SUBSET ServerTimers
    BY <1>0 DEF ServerTransactions
  <2>1. tx' \in ServerTransactions
    BY <1>0, <1>1, <2>0 DEF ServerTransactions
  <2>2. /\ tx'.type = tx.type /\ tx'.state = tx.state /\ tx'.sent = tx.sent
        /\ tx'.lastResponse = tx.lastResponse /\ tx'.done = tx.done
        /\ tx'.armed = tx.armed \ {name} /\ tx'.fired = tx.fired \cup {name}
    BY <1>0, <1>1 DEF ServerTransactions
  <2> QED
    BY <2>1, <2>2
<1>3. tx'.armed \cup tx'.fired = tx.armed \cup tx.fired
  BY <1>2
<1>4. Waiting' /\ Kept'
  BY <1>2 DEF IInv, Waiting, Kept
<1>5. InviteTimers'
  BY <1>2, <1>3 DEF IInv, InviteTimers
<1>6. NonInviteTimers'
  BY <1>2, <1>3 DEF IInv, NonInviteTimers
<1>7. (tx.armed \cap tx.fired = {})'
  BY <1>2 DEF IInv
<1>8. Shows
  BY <1>0, <1>2 DEF Shows, Stutters, Rank, ServerTransactions, ServerStates
<1> QED
  BY <1>2, <1>4, <1>5, <1>6, <1>7, <1>8 DEF IInv, TypeOK

(* A callback that finds its state gone only leaves the queue for tx.mu.   *)
LEMMA StaleCallbackPreserves ==
  ASSUME IInv, NEW name \in tx.fired, name \in {"G", "H"},
         ~(tx.state = "Completed" /\ name = "H"),
         tx' = [tx EXCEPT !.fired = @ \ {name}]
  PROVE  IInv' /\ Shows
<1>0. tx \in ServerTransactions
  BY DEF IInv, TypeOK
<1>1. /\ tx' \in ServerTransactions
      /\ tx'.type = tx.type /\ tx'.state = tx.state /\ tx'.sent = tx.sent
      /\ tx'.lastResponse = tx.lastResponse /\ tx'.done = tx.done
      /\ tx'.armed = tx.armed /\ tx'.fired = tx.fired \ {name}
  <2>1. tx' \in ServerTransactions
    BY <1>0 DEF ServerTransactions
  <2>2. /\ tx'.type = tx.type /\ tx'.state = tx.state /\ tx'.sent = tx.sent
        /\ tx'.lastResponse = tx.lastResponse /\ tx'.done = tx.done
        /\ tx'.armed = tx.armed /\ tx'.fired = tx.fired \ {name}
    BY <1>0 DEF ServerTransactions
  <2> QED
    BY <2>1, <2>2
<1>2. Waiting' /\ Kept'
  BY <1>1 DEF IInv, Waiting, Kept
<1>3. InviteTimers' /\ NonInviteTimers'
  BY <1>1 DEF IInv, InviteTimers, NonInviteTimers
<1>4. Shows
  BY <1>0, <1>1 DEF Shows, Stutters, Rank, ServerTransactions, ServerStates
<1> QED
  BY <1>1, <1>2, <1>3, <1>4 DEF IInv, TypeOK

(* Timer G's callback, late or not, preserves the invariant.               *)
LEMMA TimerGPreserves ==
  ASSUME IInv, "G" \in tx.fired, tx' = RunTimer(tx, "G")
  PROVE  IInv' /\ Shows
<1>0. tx \in ServerTransactions
  BY DEF IInv, TypeOK
<1> DEFINE run == [tx EXCEPT !.fired = @ \ {"G"}]
<1>1. /\ tx' = TimerG(run)
      /\ run.state = tx.state /\ run.lastResponse = tx.lastResponse
  BY <1>0 DEF RunTimer, ServerTransactions
<1>2. CASE tx.state = "Completed" /\ tx.lastResponse # NoResponse
  <2>1. tx' = [tx EXCEPT !.fired = @ \ {"G"}, !.sent = tx.lastResponse,
                         !.armed = @ \cup {"G"}]
    BY <1>0, <1>1, <1>2 DEF TimerG, Send, StartTimers, ServerTransactions
  <2>2. tx.lastResponse = tx.sent
    BY <1>2 DEF IInv, Kept
  <2>3. /\ tx' \in ServerTransactions
        /\ tx'.type = tx.type /\ tx'.state = tx.state /\ tx'.sent = tx.sent
        /\ tx'.lastResponse = tx.lastResponse /\ tx'.done = tx.done
        /\ tx'.armed = tx.armed \cup {"G"} /\ tx'.fired = tx.fired \ {"G"}
    <3>1. tx' \in ServerTransactions
      BY <1>0, <2>1, <2>2 DEF ServerTransactions, ServerTimers
    <3>2. /\ tx'.type = tx.type /\ tx'.state = tx.state /\ tx'.sent = tx.sent
          /\ tx'.lastResponse = tx.lastResponse /\ tx'.done = tx.done
          /\ tx'.armed = tx.armed \cup {"G"} /\ tx'.fired = tx.fired \ {"G"}
      BY <1>0, <2>1, <2>2 DEF ServerTransactions, ServerTimers
    <3> QED
      BY <3>1, <3>2
  <2>4. Waiting' /\ Kept'
    BY <1>2, <2>3 DEF IInv, Waiting, Kept
  <2>5. InviteTimers' /\ NonInviteTimers'
    BY <1>2, <2>3 DEF IInv, InviteTimers, NonInviteTimers
  <2>6. Shows
    BY <1>0, <2>3 DEF Shows, Stutters, Rank, ServerTransactions, ServerStates
  <2> QED
    BY <2>3, <2>4, <2>5, <2>6 DEF IInv, TypeOK
<1>3. CASE ~(tx.state = "Completed" /\ tx.lastResponse # NoResponse)
  <2>1. tx' = run
    BY <1>1, <1>3 DEF TimerG
  <2> QED
    BY <2>1, StaleCallbackPreserves
<1> QED
  BY <1>2, <1>3

(* Timer H's callback, late or not, preserves the invariant.               *)
LEMMA TimerHPreserves ==
  ASSUME IInv, "H" \in tx.fired, tx' = RunTimer(tx, "H")
  PROVE  IInv' /\ Shows
<1>0. tx \in ServerTransactions
  BY DEF IInv, TypeOK
<1> DEFINE run == [tx EXCEPT !.fired = @ \ {"H"}]
<1>1. tx' = TimerH(run) /\ run.state = tx.state
  BY <1>0 DEF RunTimer, ServerTransactions
<1>2. CASE tx.state = "Completed"
  <2>1. tx' = [tx EXCEPT !.fired = @ \ {"H"}, !.state = "Terminated",
                         !.armed = @ \ ServerTimers, !.done = TRUE]
    BY <1>0, <1>1, <1>2 DEF TimerH, CancelTimers, Terminate, ServerTransactions
  <2>2. /\ tx' \in ServerTransactions
        /\ tx'.type = tx.type /\ tx'.state = "Terminated" /\ tx'.sent = tx.sent
        /\ tx'.lastResponse = tx.lastResponse /\ tx'.done = TRUE
        /\ tx'.armed = tx.armed \ ServerTimers /\ tx'.fired = tx.fired \ {"H"}
    <3>1. tx' \in ServerTransactions
      BY <1>0, <2>1 DEF ServerTransactions, ServerStates
    <3>2. /\ tx'.type = tx.type /\ tx'.state = "Terminated" /\ tx'.sent = tx.sent
          /\ tx'.lastResponse = tx.lastResponse /\ tx'.done = TRUE
          /\ tx'.armed = tx.armed \ ServerTimers /\ tx'.fired = tx.fired \ {"H"}
      BY <1>0, <2>1 DEF ServerTransactions, ServerStates
    <3> QED
      BY <3>1, <3>2
  <2>3. tx.type = "IST"
    BY <1>0 DEF IInv, NonInviteTimers, ServerTransactions, ServerTypes
  <2>4. tx'.armed = {}
    BY <1>0, <2>2 DEF ServerTransactions
  <2>5. Waiting' /\ Kept'
    BY <1>2, <2>2, <2>3, <2>4 DEF IInv, Waiting, Kept, InviteTimers
  <2>6. InviteTimers' /\ NonInviteTimers'
    BY <2>2, <2>3 DEF IInv, InviteTimers, NonInviteTimers
  <2>7. Shows
    BY <1>2, <2>2, <2>3 DEF IInv, Kept, InviteTimers, Shows, Finishes, Rank
  <2> QED
    BY <2>2, <2>4, <2>5, <2>6, <2>7 DEF IInv, TypeOK
<1>3. CASE tx.state # "Completed"
  <2>1. tx' = run
    BY <1>1, <1>3 DEF TimerH
  <2> QED
    BY <1>3, <2>1, StaleCallbackPreserves
<1> QED
  BY <1>2, <1>3

(* The callbacks of I and J preserve the invariant: no state test guards   *)
(* them in the code, so the invariant says in which states they exist.     *)
LEMMA TimerIJPreserves ==
  ASSUME IInv, NEW name \in {"I", "J"}, name \in tx.fired, tx' = RunTimer(tx, name)
  PROVE  IInv' /\ Shows
<1>0. tx \in ServerTransactions
  BY DEF IInv, TypeOK
<1>1. tx' = [tx EXCEPT !.fired = @ \ {name}, !.state = "Terminated", !.done = TRUE]
  BY <1>0 DEF RunTimer, TimerIJ, Terminate, ServerTransactions
<1>2. /\ tx' \in ServerTransactions
      /\ tx'.type = tx.type /\ tx'.state = "Terminated" /\ tx'.sent = tx.sent
      /\ tx'.lastResponse = tx.lastResponse /\ tx'.done = TRUE
      /\ tx'.armed = tx.armed /\ tx'.fired = tx.fired \ {name}
  <2>1. tx' \in ServerTransactions
    BY <1>0, <1>1 DEF ServerTransactions, ServerStates
  <2>2. /\ tx'.type = tx.type /\ tx'.state = "Terminated" /\ tx'.sent = tx.sent
        /\ tx'.lastResponse = tx.lastResponse /\ tx'.done = TRUE
        /\ tx'.armed = tx.armed /\ tx'.fired = tx.fired \ {name}
    BY <1>0, <1>1 DEF ServerTransactions, ServerStates
  <2> QED
    BY <2>1, <2>2
<1>3. \/ tx.type = "IST" /\ tx.state = "Confirmed" /\ name = "I"
      \/ tx.type = "NIST" /\ tx.state = "Completed" /\ name = "J"
  BY <1>0 DEF IInv, Waiting, Kept, InviteTimers, NonInviteTimers, ServerTransactions,
              ServerStates, ServerTypes
<1>4. tx'.armed = {} /\ tx'.fired \subseteq {"G", "H"}
  BY <1>2, <1>3 DEF IInv, InviteTimers, NonInviteTimers
<1>5. Waiting' /\ Kept'
  BY <1>2, <1>3, <1>4 DEF IInv, Waiting, Kept
<1>6. InviteTimers'
  BY <1>2 DEF InviteTimers
<1>7. NonInviteTimers'
  BY <1>2, <1>3 DEF IInv, NonInviteTimers
<1>8. Shows
  BY <1>2, <1>3 DEF IInv, Kept, InviteTimers, NonInviteTimers, Shows, Finishes, Rank
<1> QED
  BY <1>2, <1>4, <1>5, <1>6, <1>7, <1>8 DEF IInv, TypeOK

(* Hence every timer callback preserves it.                                *)
LEMMA RunTimerPreserves ==
  ASSUME IInv, NEW name \in tx.fired, tx' = RunTimer(tx, name)
  PROVE  IInv' /\ Shows
<1>1. name \in {"G", "H", "I", "J"}
  BY DEF IInv, TypeOK, ServerTransactions, ServerTimers
<1> QED
  BY <1>1, TimerGPreserves, TimerHPreserves, TimerIJPreserves

------------------------------------------------------------------------------
(* The theorems. *)

(* Both kinds of new transactions satisfy the invariant.                   *)
LEMMA InitEstablishes == Init => IInv
<1> SUFFICES ASSUME Init PROVE IInv
  OBVIOUS
<1>1. PICK type \in ServerTypes, transport \in Transports : tx = NewServerTx(type, transport)
  BY DEF Init
<1>2. tx \in ServerTransactions
  BY <1>1, CodesAssumption
  DEF NewServerTx, ServerTransactions, ServerStates, ServerTypes, Transports
<1>3. ~IsFinal(tx.sent)
  BY <1>1 DEF NewServerTx, IsFinal, ServerTypes, NoResponse
<1> QED
  BY <1>1, <1>2, <1>3
  DEF IInv, TypeOK, Waiting, Kept, InviteTimers, NonInviteTimers, NewServerTx, ServerTypes

(* Every step of the specification preserves the invariant and is one of   *)
(* the steps that the action properties and the refinement allow.          *)
LEMMA NextPreserves == IInv /\ [Next]_tx => IInv' /\ Shows
<1> SUFFICES ASSUME IInv, [Next]_tx PROVE IInv' /\ Shows
  OBVIOUS
<1>1. CASE RespondStep
  BY <1>1, RespondPreserves DEF RespondStep
<1>2. CASE RequestRetransmitted
  BY <1>2, ReceiveRequestPreserves DEF RequestRetransmitted
<1>3. CASE ACKReceived
  BY <1>3, ReceiveACKPreserves DEF ACKReceived
<1>4. ASSUME NEW name \in ServerTimers, TimerExpires(name) PROVE IInv' /\ Shows
  BY <1>4, ExpirePreserves DEF TimerExpires
<1>5. ASSUME NEW name \in ServerTimers, TimerRuns(name) PROVE IInv' /\ Shows
  BY <1>5, RunTimerPreserves DEF TimerRuns
<1>6. CASE UNCHANGED tx
  BY <1>6, UnchangedPreserves
<1> QED
  BY <1>1, <1>2, <1>3, <1>4, <1>5, <1>6 DEF Next

(* The inductive invariant holds in every reachable state.                 *)
THEOREM Invariance == SafeSpec => []IInv
BY InitEstablishes, NextPreserves, PTL DEF SafeSpec

(* A server transaction's record always has its type. *)
THEOREM TypeCorrectness == SafeSpec => []TypeOK
<1>1. IInv => TypeOK
  BY DEF IInv
<1> QED
  BY <1>1, Invariance, PTL

(* What a retransmission or timer G repeats is the final response the peer *)
(* was sent: however Respond, ACKs and timers interleave.                  *)
THEOREM RetransmissionsRepeat == SafeSpec => []RepeatsWhatWasSent
<1>1. IInv => RepeatsWhatWasSent
  <2> SUFFICES ASSUME IInv PROVE RepeatsWhatWasSent
    OBVIOUS
  <2>0. tx \in ServerTransactions
    BY DEF IInv, TypeOK
  <2>1. CASE tx.state \in {"Trying", "Proceeding"}
    BY <2>1 DEF IInv, Waiting, RepeatsWhatWasSent, Pending
  <2>2. CASE tx.state \in {"Completed", "Confirmed", "Terminated"}
    BY <2>2 DEF IInv, Kept, RepeatsWhatWasSent, Answered
  <2> QED
    BY <2>0, <2>1, <2>2 DEF ServerTransactions, ServerStates
<1> QED
  BY <1>1, Invariance, PTL

(* A transaction that answered and is not over has a timer that ends it.   *)
THEOREM AnsweredTransactionsEnd == SafeSpec => []AnsweredTxEnds
<1>1. IInv => AnsweredTxEnds
  <2> SUFFICES ASSUME IInv, Answered, ~tx.done PROVE AnsweredTxEnds
    BY DEF AnsweredTxEnds
  <2>0. tx \in ServerTransactions
    BY DEF IInv, TypeOK
  <2>1. tx.state \in {"Completed", "Confirmed"}
    BY <2>0 DEF IInv, Waiting, Kept, Answered, ServerTransactions, ServerStates
  <2> QED
    BY <2>0, <2>1
    DEF IInv, InviteTimers, NonInviteTimers, AnsweredTxEnds, Pending, ServerTransactions,
        ServerTypes
<1> QED
  BY <1>1, Invariance, PTL

(* close(done) leaves no running timer behind.                             *)
THEOREM FinishedTransactionsAreQuiet == SafeSpec => []DoneHoldsNoTimer
<1>1. IInv => DoneHoldsNoTimer
  <2> SUFFICES ASSUME IInv, tx.done PROVE tx.armed = {}
    BY DEF DoneHoldsNoTimer
  <2>0. tx \in ServerTransactions
    BY DEF IInv, TypeOK
  <2> QED
    BY <2>0
    DEF IInv, Waiting, Kept, InviteTimers, NonInviteTimers, ServerTransactions, ServerTypes,
        ServerStates
<1> QED
  BY <1>1, Invariance, PTL

(* No step, a late timer callback included, moves the state machine back.  *)
THEOREM StateOnlyAdvances == SafeSpec => NeverGoesBack
<1>1. IInv /\ [Next]_tx => [Rank[tx'.state] >= Rank[tx.state]]_tx
  BY NextPreserves DEF Shows
<1> QED
  BY <1>1, Invariance, PTL DEF SafeSpec, NeverGoesBack

(* The server transaction implements the response stream: provisional      *)
(* responses, one final one however many goroutines respond, an end.       *)
THEOREM ImplementsResponseStream == SafeSpec => Promise!SafeSpec
<1>1. Init => Promise!Init
  <2> SUFFICES ASSUME Init PROVE Promise!Init
    OBVIOUS
  <2>1. PICK type \in ServerTypes, transport \in Transports : tx = NewServerTx(type, transport)
    BY DEF Init
  <2>2. tx.sent \in {0, 100} /\ tx.done = FALSE
    BY <2>1 DEF NewServerTx, NoResponse
  <2> QED
    BY <2>2, CodesAssumption DEF Promise!Init
<1>2. IInv /\ [Next]_tx => [Promise!Next]_(Promise!vars)
  <2> SUFFICES ASSUME IInv, [Next]_tx PROVE [Promise!Next]_(Promise!vars)
    OBVIOUS
  <2>0. tx.sent \in Nat
    <3>1. tx.sent \in Codes \cup {NoResponse}
      BY DEF IInv, TypeOK, ServerTransactions
    <3>2. CASE tx.sent \in Codes
      BY <3>2, CodesAssumption, Zenon
    <3>3. CASE tx.sent = NoResponse
      BY <3>3 DEF NoResponse
    <3> QED
      BY <3>1, <3>2, <3>3
  <2>1. Progresses \/ Answers \/ Finishes \/ Stutters
    BY NextPreserves DEF Shows
  <2>2. CASE Progresses
    <3>1. tx'.sent \in Nat
      BY <2>2, CodesAssumption DEF Progresses
    <3> QED
      BY <2>2, <3>1 DEF Progresses, IsFinal, Promise!Next, Promise!Progress, Promise!Answered
  <2>3. CASE Answers
    BY <2>3 DEF Answers, IsFinal, Promise!Next, Promise!Answer, Promise!Answered
  <2>4. CASE Finishes
    BY <2>4 DEF Finishes, IsFinal, Promise!Next, Promise!Finish, Promise!Answered
  <2>5. CASE Stutters
    BY <2>5 DEF Stutters, Promise!vars
  <2> QED
    BY <2>1, <2>2, <2>3, <2>4, <2>5
<1> QED
  BY <1>1, <1>2, Invariance, PTL DEF SafeSpec, Promise!SafeSpec
==============================================================================
