----------------------------- MODULE InviteProxy -----------------------------
(***************************************************************************)
(* One INVITE through the proxy: its server transaction, the handler that  *)
(* runs the routing script, the client transactions (branches) the script  *)
(* creates, CANCEL, the invite timeout, the script watchdog and gc.        *)
(*                                                                         *)
(* Goroutines and what each step of one is:                                *)
(*  - a reader per socket.  UDP has one socket and handles a message, the  *)
(*    script included, before it reads the next; TCP has one reader per    *)
(*    connection.  `handler' is the reader of the caller, `reading' the    *)
(*    branches whose response a reader is passing on;                      *)
(*  - a goroutine per timer: transaction timers, the invite timeout        *)
(*    (`fan["timer"]'), and the watcher that waits for done;               *)
(*  - gc, under the layer's lock.                                          *)
(* A step is what happens between two acquisitions of a lock.  A client    *)
(* transaction keeps its lock while forwardResponse runs: until            *)
(* `forwarding[b]' is clear nobody else can read or change branch b.       *)
(* A transaction timer expires and runs in one step here; callbacks that   *)
(* run late are the subject of ServerTransaction and ClientTransaction.    *)
(***************************************************************************)
EXTENDS Naturals

CONSTANTS
  None,             \* no transaction, no branch
  Branches,         \* the branches the script may create
  CallerTransport,  \* "UDP" or "TCP"
  CalleeTransport,
  UpstreamCodes,    \* what a callee may answer
  LocalCodes        \* what the script may answer by itself

ASSUME TransportAssumption == {CallerTransport, CalleeTransport} \subseteq {"UDP", "TCP"}
ASSUME CodesAssumption == UpstreamCodes \cup LocalCodes \subseteq Nat

Codes == UpstreamCodes \cup LocalCodes \cup {100, 180, 200, 408, 483, 487, 500}
S == INSTANCE ServerTx
C == INSTANCE ClientTx

ASSUME NoneAssumption == None \notin Branches \cup C!ClientTransactions

VARIABLES
  ist,         \* the INVITE server transaction
  tracked,     \* whether serverTxs holds it: "no" yet, "yes", "collected"
  inviteTimer, \* inviteTimers: "off", "armed", "stopped", "fired"
  handler,     \* the caller's reader: what it does, for which branch, with which code
  fan,         \* who is fanning CANCEL out: the reader or the invite timeout
  branch,      \* the client transactions, or None
  registered,  \* branches in clientTxs
  linked,      \* branches in serverToClients
  forwarding,  \* the response forwardResponse is passing on, or NoResponse
  reading,     \* branches whose forwardResponse runs on a reader
  cancelled,   \* branches on which CANCEL was sent
  caller,      \* whether the INVITE has hops left, and whether it was CANCELled
  player,      \* the goroutine of playAudio(): "none", or what it does next
  events,      \* the events emitted for this INVITE
  stateless,   \* the last response sent without a transaction
  reborn       \* a retransmission started a second transaction

callVars == <<ist, tracked, inviteTimer, stateless, reborn>>
threadVars == <<handler, fan, reading>>
branchVars == <<branch, registered, linked, forwarding, cancelled>>
vars == <<callVars, threadVars, branchVars, caller, player, events>>

NoResponse == 0
Fanners == {"reader", "timer"}
Idle == [pc |-> "idle", branch |-> None, code |-> NoResponse]
Resting == [pc |-> "rest", todo |-> {}, target |-> None]

Init ==
  /\ ist = S!NewServerTx("IST", CallerTransport)
  /\ tracked = "no"
  /\ inviteTimer = "off"
  /\ handler = [Idle EXCEPT !.pc = "insert"]
  /\ fan = [f \in Fanners |-> Resting]
  /\ branch = [b \in Branches |-> None]
  /\ registered = {}
  /\ linked = {}
  /\ forwarding = [b \in Branches |-> NoResponse]
  /\ reading = {}
  /\ cancelled = {}
  /\ caller \in [hopsLeft : BOOLEAN, cancels : {FALSE}]
  /\ player = "none"
  /\ events = {}
  /\ stateless = NoResponse
  /\ reborn = FALSE

------------------------------------------------------------------------------
(* Shared pieces of the handlers. *)

Unlocked(b) == forwarding[b] = NoResponse
Live(b) == branch[b] # None /\ branch[b].state \in {"Calling", "Proceeding"}

(* One UDP socket, one reader; a TCP connection has a reader of its own.   *)
SharedReader == CallerTransport = "UDP" /\ CalleeTransport = "UDP"
CallerReaderFree == handler.pc = "idle" /\ (SharedReader => reading = {})
CalleeReaderFree(b) ==
  IF CalleeTransport = "UDP"
  THEN reading = {} /\ (SharedReader => handler.pc = "idle")
  ELSE b \notin reading

\* slip: 200 itself is left out of the range
EventForAbove200(code) ==
  CASE code \in {401, 407} -> {"auth-failed"}
    [] code > 200 /\ code < 300 -> {"call-start"}
    [] code >= 300 /\ code \notin {401, 407} -> {"call-attempt"}
    [] OTHER -> {}

(* The event for a final response to an INVITE, whether or not the         *)
(* transaction goes on to accept that response.                            *)
EventFor(code) ==
  CASE code \in {401, 407} -> {"auth-failed"}
    [] code >= 200 /\ code < 300 -> {"call-start"}
    [] code >= 300 /\ code \notin {401, 407} -> {"call-attempt"}
    [] OTHER -> {}

(* Through the transaction while the layer knows it, else straight out. *)
RespondToRequest(code) ==
  \/ /\ tracked = "yes"
     /\ ist' = S!Respond(ist, code)
     /\ UNCHANGED stateless
  \/ /\ tracked # "yes"
     /\ stateless' = code
     /\ UNCHANGED ist

------------------------------------------------------------------------------
(* The caller's reader: a new INVITE. *)

HandlerInsert ==
  /\ handler.pc = "insert"
  /\ tracked' = "yes"
  /\ handler' = [handler EXCEPT !.pc = "arm"]
  /\ UNCHANGED <<ist, inviteTimer, stateless, reborn, fan, reading, branchVars,
                 caller, player, events>>

ArmInviteTimeout ==
  /\ handler.pc = "arm"
  /\ inviteTimer' = "armed"
  /\ handler' = [handler EXCEPT !.pc = "script"]
  /\ UNCHANGED <<ist, tracked, stateless, reborn, fan, reading, branchVars,
                 caller, player, events>>

(* proxy(): the client transaction sends the INVITE before anybody can     *)
(* find it, ...                                                            *)
ScriptForwards(b) ==
  /\ handler.pc = "script"
  /\ caller.hopsLeft
  /\ branch[b] = None
  /\ branch' = [branch EXCEPT ![b] = C!NewClientTx("ICT", CalleeTransport)]
  /\ handler' = [handler EXCEPT !.pc = "register", !.branch = b]
  /\ UNCHANGED <<callVars, fan, reading, registered, linked, forwarding,
                 cancelled, caller, player, events>>

(* ... is then found by responses, ... *)
RegisterBranch ==
  /\ handler.pc = "register"
  /\ registered' = registered \cup {handler.branch}
  /\ handler' = [handler EXCEPT !.pc = "link"]
  /\ UNCHANGED <<callVars, fan, reading, branch, linked, forwarding, cancelled,
                 caller, player, events>>

(* ... and last by a CANCEL of the INVITE. *)
LinkBranch ==
  /\ handler.pc = "link"
  /\ linked' = linked \cup {handler.branch}
  /\ handler' = [Idle EXCEPT !.pc = "script"]
  /\ UNCHANGED <<callVars, fan, reading, branch, registered, forwarding,
                 cancelled, caller, player, events>>

(* proxy() with Max-Forwards exhausted: 483, and no event. *)
ScriptTooManyHops ==
  /\ handler.pc = "script"
  /\ ~caller.hopsLeft
  /\ RespondToRequest(483)
  /\ UNCHANGED <<tracked, inviteTimer, reborn, threadVars, branchVars, caller,
                 player, events>>

(* sendResponse(): the event first, the response later. *)
ScriptAnswers(code) ==
  /\ handler.pc = "script"
  /\ events' = events \cup EventFor(code)
  /\ handler' = [handler EXCEPT !.pc = "answer", !.code = code]
  /\ UNCHANGED <<callVars, fan, reading, branchVars, caller, player>>

(* playAudio(): 180, a goroutine of its own for the rest, and the script    *)
(* ends here; a watchdog that goes off meanwhile still has its way.         *)
ScriptPlays ==
  /\ handler.pc = "script" /\ player = "none"
  /\ RespondToRequest(180)
  /\ player' = "ringing"
  /\ \/ handler' = Idle /\ UNCHANGED fan
     \/ /\ handler' = [handler EXCEPT !.pc = "watchdog"]
        /\ fan' = [fan EXCEPT !["reader"].pc = "scan"]
  /\ UNCHANGED <<tracked, inviteTimer, reborn, reading, branchVars, caller, events>>

(* The goroutine: after the ringing time 200, ... *)
PlayerAnswers ==
  /\ player = "ringing"
  /\ RespondToRequest(200)
  /\ player' = "report"
  /\ UNCHANGED <<tracked, inviteTimer, reborn, threadVars, branchVars, caller, events>>

\* slip: no event once gc has dropped the transaction
PlayerReportsTracked ==
  /\ player = "report"
  /\ events' = IF tracked = "yes" THEN events \cup {"call-start"} ELSE events
  /\ player' = "done"
  /\ UNCHANGED <<callVars, threadVars, branchVars, caller>>

(* ... and then the event, whether or not the transaction took the 200.    *)
PlayerReports ==
  /\ player = "report"
  /\ events' = events \cup {"call-start"}
  /\ player' = "done"
  /\ UNCHANGED <<callVars, threadVars, branchVars, caller>>

(* A script error: the handler answers 500 and ends. *)
ScriptFails ==
  /\ handler.pc = "script"
  /\ events' = events \cup EventFor(500)
  /\ handler' = [handler EXCEPT !.pc = "lastAnswer", !.code = 500]
  /\ UNCHANGED <<callVars, fan, reading, branchVars, caller, player>>

HandlerAnswers ==
  /\ handler.pc \in {"answer", "lastAnswer"}
  /\ RespondToRequest(handler.code)
  /\ handler' = IF handler.pc = "answer" THEN [Idle EXCEPT !.pc = "script"] ELSE Idle
  /\ UNCHANGED <<tracked, inviteTimer, reborn, fan, reading, branchVars, caller,
                 player, events>>

ScriptReturns ==
  /\ handler.pc = "script"
  /\ handler' = Idle
  /\ UNCHANGED <<callVars, fan, reading, branchVars, caller, player, events>>

\* slip: no CANCEL for the branches
ScriptTimesOutQuietly ==
  /\ handler.pc = "script"
  /\ handler' = [handler EXCEPT !.pc = "watchdog"]
  /\ fan' = [fan EXCEPT !["reader"].pc = "check"]
  /\ UNCHANGED <<callVars, reading, branchVars, caller, player, events>>

(* The watchdog interrupts the script: CANCEL the branches, then 408.      *)
ScriptTimesOut ==
  /\ handler.pc = "script"
  /\ handler' = [handler EXCEPT !.pc = "watchdog"]
  /\ fan' = [fan EXCEPT !["reader"].pc = "scan"]
  /\ UNCHANGED <<callVars, reading, branchVars, caller, player, events>>

------------------------------------------------------------------------------
(* CANCEL, the invite timeout, and the fan-out they share. *)

(* The caller's CANCEL, the first time: 200 for the CANCEL itself, then    *)
(* the fan-out.  A repeated CANCEL is absorbed by the CANCEL's own server  *)
(* transaction and changes nothing here.                                   *)
CancelReceived ==
  /\ CallerReaderFree
  /\ tracked = "yes"
  /\ ~caller.cancels
  /\ caller' = [caller EXCEPT !.cancels = TRUE]
  /\ handler' = [handler EXCEPT !.pc = "cancel"]
  /\ fan' = [fan EXCEPT !["reader"].pc = "scan"]
  /\ UNCHANGED <<callVars, reading, branchVars, player, events>>

\* slip: waits for a state an INVITE transaction is never in
InviteTimerFiresInTrying ==
  /\ inviteTimer = "armed"
  /\ inviteTimer' = "fired"
  /\ fan' = IF ist.state = "Trying" THEN [fan EXCEPT !["timer"].pc = "scan"] ELSE fan
  /\ UNCHANGED <<ist, tracked, stateless, reborn, handler, reading, branchVars,
                 caller, player, events>>

InviteTimerFires ==
  /\ inviteTimer = "armed"
  /\ inviteTimer' = "fired"
  /\ fan' = IF ist.state = "Proceeding" THEN [fan EXCEPT !["timer"].pc = "scan"] ELSE fan
  /\ UNCHANGED <<ist, tracked, stateless, reborn, handler, reading, branchVars,
                 caller, player, events>>

(* The snapshot of the INVITE's branches, under the layer's lock. *)
FanScan(f) ==
  /\ fan[f].pc = "scan"
  /\ fan' = [fan EXCEPT ![f] = [pc |-> "check", todo |-> linked \cap registered,
                                target |-> None]]
  /\ UNCHANGED <<callVars, handler, reading, branchVars, caller, player, events>>

\* slip: only branches that ring already are cancelled
FanCheckRinging(f, b) ==
  LET rings == branch[b].state = "Proceeding"
  IN  /\ fan[f].pc = "check"
      /\ b \in fan[f].todo
      /\ Unlocked(b)
      /\ fan' = [fan EXCEPT ![f].todo = @ \ {b},
                            ![f].pc = IF rings THEN "send" ELSE "check",
                            ![f].target = IF rings THEN b ELSE None]
      /\ UNCHANGED <<callVars, handler, reading, branchVars, caller, player, events>>

(* The state of one of them, under its lock, ... *)
FanCheck(f, b) ==
  /\ fan[f].pc = "check"
  /\ b \in fan[f].todo
  /\ Unlocked(b)
  /\ fan' = [fan EXCEPT ![f].todo = @ \ {b},
                        ![f].pc = IF Live(b) THEN "send" ELSE "check",
                        ![f].target = IF Live(b) THEN b ELSE None]
  /\ UNCHANGED <<callVars, handler, reading, branchVars, caller, player, events>>

(* ... and CANCEL, after that lock was released. *)
FanSend(f) ==
  /\ fan[f].pc = "send"
  /\ cancelled' = cancelled \cup {fan[f].target}
  /\ fan' = [fan EXCEPT ![f].pc = "check", ![f].target = None]
  /\ UNCHANGED <<callVars, handler, reading, branch, registered, linked,
                 forwarding, caller, player, events>>

FanDone(f) == fan[f].pc = "check" /\ fan[f].todo = {}

(* handleCancelMatched: 487 while the INVITE is unanswered. *)
CancelAnswers ==
  /\ handler.pc = "cancel"
  /\ FanDone("reader")
  /\ ist' = IF ist.state = "Proceeding" THEN S!Respond(ist, 487) ELSE ist
  /\ handler' = Idle
  /\ fan' = [fan EXCEPT !["reader"] = Resting]
  /\ UNCHANGED <<tracked, inviteTimer, stateless, reborn, reading, branchVars,
                 caller, player, events>>

(* The script's watchdog: SendResponse(408), event first. *)
WatchdogAnswers ==
  /\ handler.pc = "watchdog"
  /\ FanDone("reader")
  /\ events' = events \cup EventFor(408)
  /\ handler' = [handler EXCEPT !.pc = "lastAnswer", !.code = 408]
  /\ fan' = [fan EXCEPT !["reader"] = Resting]
  /\ UNCHANGED <<callVars, reading, branchVars, caller, player>>

\* slip: the answer to a CANCEL
TimeoutAnswersTerminated ==
  /\ FanDone("timer")
  /\ ist' = S!Respond(ist, 487)
  /\ fan' = [fan EXCEPT !["timer"] = Resting]
  /\ UNCHANGED <<tracked, inviteTimer, stateless, reborn, handler, reading,
                 branchVars, caller, player, events>>

(* The invite timeout: 408 on the transaction, and no event. *)
TimeoutAnswers ==
  /\ FanDone("timer")
  /\ ist' = S!Respond(ist, 408)
  /\ fan' = [fan EXCEPT !["timer"] = Resting]
  /\ UNCHANGED <<tracked, inviteTimer, stateless, reborn, handler, reading,
                 branchVars, caller, player, events>>

(* The goroutine that waits for done. *)
WatcherStopsTimer ==
  /\ ist.done
  /\ inviteTimer = "armed"
  /\ inviteTimer' = "stopped"
  /\ UNCHANGED <<ist, tracked, stateless, reborn, threadVars, branchVars,
                 caller, player, events>>

------------------------------------------------------------------------------
(* Responses of a callee, on the way to the caller. *)

(* receiveResponse drops what no registered transaction matches: there is  *)
(* no step for that.  The rest goes to the transaction, and from there     *)
(* to forwardResponse, which first confirms the dialog and emits the event *)
(* ...                                                                     *)
BranchResponse(b, code) ==
  /\ b \in registered
  /\ Unlocked(b)
  /\ CalleeReaderFree(b)
  /\ branch' = [branch EXCEPT ![b] = C!ReceiveResponse(@, code)]
  /\ IF C!Delivers(branch[b], code)
     THEN /\ forwarding' = [forwarding EXCEPT ![b] = code]
          /\ reading' = reading \cup {b}
          /\ events' = events \cup EventFor(code)
     ELSE UNCHANGED <<forwarding, reading, events>>
  /\ UNCHANGED <<callVars, handler, fan, registered, linked, cancelled, caller, player>>

(* ... and then answers the caller.  The branch is locked until it has.    *)
ForwardResponse(b) ==
  /\ ~Unlocked(b)
  /\ RespondToRequest(forwarding[b])
  /\ forwarding' = [forwarding EXCEPT ![b] = NoResponse]
  /\ reading' = reading \ {b}
  /\ UNCHANGED <<tracked, inviteTimer, reborn, handler, fan, branch, registered,
                 linked, cancelled, caller, player, events>>

(* A timer of the branch, on a goroutine of its own; timer B reports 408   *)
(* the way a response is reported.                                         *)
BranchTimer(b, name) ==
  /\ branch[b] # None
  /\ name \in branch[b].armed
  /\ Unlocked(b)
  /\ branch' = [branch EXCEPT ![b] = C!RunTimer(C!Expire(@, name), name)]
  /\ IF C!GivesUp(branch[b], name)
     THEN /\ forwarding' = [forwarding EXCEPT ![b] = 408]
          /\ events' = events \cup EventFor(408)
     ELSE UNCHANGED <<forwarding, events>>
  /\ UNCHANGED <<callVars, threadVars, registered, linked, cancelled, caller, player>>

------------------------------------------------------------------------------
(* The rest of the server transaction's life, and gc. *)

(* The caller of an INVITE over UDP repeats it until it hears a response,  *)
(* for 64*T1 at most: less than timer H, or than I after an ACK, keeps the *)
(* transaction, so only one that ended with a 2xx, at once, can be gone.   *)
InviteRetransmitted ==
  /\ CallerReaderFree
  /\ CallerTransport = "UDP"
  /\ \/ tracked = "yes" /\ ist' = S!ReceiveRequest(ist) /\ UNCHANGED reborn
     \/ /\ tracked = "collected" /\ S!IsSuccess(ist.sent)
        /\ reborn' = TRUE
        /\ UNCHANGED ist
  /\ UNCHANGED <<tracked, inviteTimer, stateless, threadVars, branchVars, caller,
                 player, events>>

ACKReceived ==
  /\ CallerReaderFree
  /\ tracked = "yes"
  /\ ist' = S!ReceiveACK(ist)
  /\ UNCHANGED <<tracked, inviteTimer, stateless, reborn, threadVars, branchVars,
                 caller, player, events>>

InviteTxTimer(name) ==
  /\ name \in ist.armed
  /\ ist' = S!RunTimer(S!Expire(ist, name), name)
  /\ UNCHANGED <<tracked, inviteTimer, stateless, reborn, threadVars, branchVars,
                 caller, player, events>>

\* slip: gc keeps an INVITE transaction as long as a branch of it lives
GCWaitsForBranches ==
  LET finished == {b \in registered : branch[b].done}
      collects == tracked = "yes" /\ ist.done /\ linked \cap registered \subseteq finished
  IN  /\ collects \/ finished # {}
      /\ tracked' = IF collects THEN "collected" ELSE tracked
      /\ registered' = registered \ finished
      /\ linked' = IF collects THEN {} ELSE linked \cap (registered \ finished)
      /\ UNCHANGED <<ist, inviteTimer, stateless, reborn, threadVars, branch,
                     forwarding, cancelled, caller, player, events>>

(* gc drops finished transactions, the links of the ones it dropped, and   *)
(* links to branches that are gone.                                        *)
GC ==
  LET finished == {b \in registered : branch[b].done}
      collects == tracked = "yes" /\ ist.done
  IN  /\ collects \/ finished # {}
      /\ tracked' = IF collects THEN "collected" ELSE tracked
      /\ registered' = registered \ finished
      /\ linked' = IF collects THEN {} ELSE linked \cap (registered \ finished)
      /\ UNCHANGED <<ist, inviteTimer, stateless, reborn, threadVars, branch,
                     forwarding, cancelled, caller, player, events>>

------------------------------------------------------------------------------
HandlerStep == HandlerInsert \/ ArmInviteTimeout \/ RegisterBranch \/ LinkBranch
               \/ HandlerAnswers \/ CancelAnswers \/ WatchdogAnswers
ScriptStep == \/ \E b \in Branches : ScriptForwards(b)
              \/ \E code \in LocalCodes : ScriptAnswers(code)
              \/ ScriptPlays
              \/ ScriptTooManyHops
              \/ ScriptFails
              \/ ScriptReturns
FanStep(f) == FanScan(f) \/ (\E b \in Branches : FanCheck(f, b)) \/ FanSend(f)
TimerStep == \/ \E name \in S!ServerTimers : InviteTxTimer(name)
             \/ \E b \in Branches, name \in C!ClientTimers : BranchTimer(b, name)
PeerStep == \/ \E b \in Branches, code \in UpstreamCodes : BranchResponse(b, code)
            \/ CancelReceived
            \/ InviteRetransmitted
            \/ ACKReceived

Next ==
  \/ HandlerStep \/ ScriptStep \/ ScriptTimesOut
  \/ \E f \in Fanners : FanStep(f)
  \/ InviteTimerFires \/ TimeoutAnswers \/ WatcherStopsTimer
  \/ \E b \in Branches : ForwardResponse(b)
  \/ PlayerAnswers \/ PlayerReports
  \/ TimerStep \/ PeerStep \/ GC

(* Runnable goroutines run, timers expire and gc ticks.  The watchdog's    *)
(* interrupt stays pending until the script is back in bytecode, so a      *)
(* script that keeps calling native functions is still stopped: strong     *)
(* fairness.  So is the fan-out's, which waits for a branch's lock while   *)
(* that branch's responses take it again and again: a sync.Mutex hands     *)
(* itself to a waiter that has starved.  Nothing is assumed of the caller, *)
(* the callees or the script.                                              *)
Fairness ==
  /\ WF_vars(HandlerStep)
  /\ SF_vars(ScriptTimesOut)
  /\ \A f \in Fanners : SF_vars(FanStep(f))
  /\ WF_vars(PlayerAnswers) /\ WF_vars(PlayerReports)
  /\ WF_vars(InviteTimerFires)
  /\ WF_vars(TimeoutAnswers)
  /\ \A b \in Branches : WF_vars(ForwardResponse(b))
  /\ \A name \in {"H", "I"} : WF_vars(InviteTxTimer(name))
  /\ WF_vars(GC)

SafeSpec == Init /\ [][Next]_vars
Spec == SafeSpec /\ Fairness

------------------------------------------------------------------------------
(* Properties *)

Answered == S!IsFinal(ist.sent)

Handlers ==
  [pc : {"insert", "arm", "script", "register", "link", "answer", "lastAnswer",
         "watchdog", "cancel", "idle"},
   branch : Branches \cup {None}, code : Codes \cup {NoResponse}]
FanOuts == [pc : {"rest", "scan", "check", "send"}, todo : SUBSET Branches,
            target : Branches \cup {None}]

TypeOK ==
  /\ ist \in S!ServerTransactions
  /\ tracked \in {"no", "yes", "collected"}
  /\ inviteTimer \in {"off", "armed", "stopped", "fired"}
  /\ handler \in Handlers
  /\ fan \in [Fanners -> FanOuts]
  /\ branch \in [Branches -> C!ClientTransactions \cup {None}]
  /\ linked \cup registered \cup reading \cup cancelled \subseteq Branches
  /\ forwarding \in [Branches -> Codes \cup {NoResponse}]
  /\ events \subseteq {"auth-failed", "call-start", "call-attempt"}
  /\ stateless \in Codes \cup {NoResponse}
  /\ caller \in [hopsLeft : BOOLEAN, cancels : BOOLEAN]
  /\ player \in {"none", "ringing", "report", "done"}
  /\ reborn \in BOOLEAN

(* A response that the script, its recording or some callee gave. *)
Given(code) == \/ code \in LocalCodes
               \/ code = 200 /\ player \in {"report", "done"}
               \/ \E b \in Branches : branch[b] # None /\ branch[b].delivered = code

(* The caller is only told what happened: a success some callee or the     *)
(* script gave, a 487 that somebody asked for or answered.                 *)
AnswerIsGenuine ==
  /\ S!IsSuccess(ist.sent) => Given(ist.sent)
  /\ ist.sent = 487 => caller.cancels \/ Given(487)

(* A call the caller sees answered was reported: the accounting never      *)
(* misses a 2xx, whichever path the answer took.  playAudio() alone answers *)
(* first, and then its goroutine has the event to send.                    *)
AnsweredCallIsReported ==
  S!IsSuccess(ist.sent) => "call-start" \in events \/ player = "report"

(* In the end the event is there, playAudio()'s too.                       *)
AnsweredCallGetsReported == S!IsSuccess(ist.sent) ~> "call-start" \in events

(* When the proxy itself refuses an unanswered INVITE, every branch that   *)
(* could still ring has been sent a CANCEL.                                *)
LeavesNoBranch(refuses) ==
  refuses /\ ist.state = "Proceeding" => \A b \in Branches : Live(b) => b \in cancelled'

(* ... because the caller cancelled (handleCancelMatched), ...             *)
CancelLeavesNoBranch ==
  [][LeavesNoBranch(handler.pc = "cancel" /\ handler'.pc = "idle")]_vars

(* ... because the script ran too long (CancelPendingBranches), ...        *)
WatchdogLeavesNoBranch ==
  [][LeavesNoBranch(handler.pc = "watchdog" /\ handler'.pc = "lastAnswer")]_vars

(* ... or because the INVITE took too long: "if the IST is still pending,  *)
(* sends 408 to the UAC and CANCEL to every upstream branch"               *)
(* (layer.go, armInviteTimeout).                                           *)
TimeoutLeavesNoBranch ==
  [][LeavesNoBranch(fan["timer"].pc = "check" /\ fan'["timer"].pc = "rest")]_vars

(* README, events: call-start is "An INVITE transaction completed with a   *)
(* final 2xx response".                                                    *)
CallStartMeansAnswered ==
  "call-start" \in events /\ Answered => S!IsSuccess(ist.sent)

(* README, events: call-attempt is "An INVITE transaction completed with a *)
(* final response >=300 (other than 401/407)".                             *)
FailedCallIsReported ==
  (ist.sent >= 300 /\ ist.sent \notin {401, 407}) ~> ("call-attempt" \in events)

(* README: "Retransmissions of any kind are absorbed by the matching       *)
(* transaction."                                                           *)
RetransmissionsAbsorbed == ~reborn

(* However the script, the callees and the caller behave, the caller gets  *)
(* a final response: the invite timeout sees to it.                        *)
EveryInviteAnswered == <>Answered

(* ... and the layer forgets the transaction.                              *)
EveryInviteCollected == <>(tracked = "collected")
==============================================================================
