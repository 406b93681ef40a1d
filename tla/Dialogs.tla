------------------------------ MODULE Dialogs ------------------------------
(***************************************************************************)
(* Dialog tracking (pkg/dialog/dialog.go) and the in-dialog half of the    *)
(* request handler (pkg/server/server.go), for the INVITEs of one Call-ID. *)
(*                                                                         *)
(* The manager's map holds at most one dialog per Call-ID.  A dialog ends  *)
(* by BYE (Terminate), by its timeout (fireTimeout) or at shutdown         *)
(* (CloseAll); each first takes it out of the map under the manager's lock *)
(* and then cleans up without that lock, so the three, the 2xx that        *)
(* confirms it and a new setupDialog interleave.  A step is what happens   *)
(* between two lock operations.                                            *)
(***************************************************************************)
EXTENDS Naturals, Integers, FiniteSets

CONSTANTS
  MaxDialogs,   \* bound: calls of setupDialog
  CalleeTags,   \* To-tags of the callees that may answer
  Stranger,     \* a To-tag nobody has
  NoTag,        \* no callee yet
  OneReader,    \* TRUE: UDP, where one goroutine runs the handlers in turn
  FreshCallIds  \* TRUE: no Call-ID is used again while a timer of it is left over

ASSUME BoundAssumption == MaxDialogs \in Nat \ {0}
ASSUME TagAssumption == Stranger \notin CalleeTags /\ NoTag \notin CalleeTags \cup {Stranger}
ASSUME ReaderAssumption == OneReader \in BOOLEAN /\ FreshCallIds \in BOOLEAN

Ids == 1..MaxDialogs
NoDialog == 0

VARIABLES
  current,    \* the map's entry for the Call-ID
  dialog,     \* every dialog made so far
  made,       \* how many
  active,     \* the DialogsActive metric
  gate,       \* dlgGate was asked for once
  setup,      \* the handler inside Setup: what it does, with which dialog
  confirm,    \* per answering callee: the handler inside ConfirmFromResponse
  request,    \* the handler of an in-dialog request
  timeout,    \* per dialog: the goroutine of its timer
  shutdown,   \* CloseAll
  answered,   \* callees whose 2xx passed through
  byes,       \* sides the timeout sent a BYE to
  routed,     \* the in-dialog request passed on last, and whether a dialog matched
  acks        \* ACKs received from the caller for a 2xx

callVars == <<answered, byes, routed, acks>>
vars == <<current, dialog, made, active, gate, setup, confirm, request, timeout,
          shutdown, callVars>>

NewDialog == [callee |-> NoTag, confirmed |-> FALSE, timer |-> "none", pcap |-> "none",
              published |-> FALSE, ends |-> 0]
NothingRouted == [method |-> "none", matched |-> TRUE, gated |-> FALSE]
Resting == [pc |-> "idle", id |-> NoDialog]

Init ==
  /\ current = NoDialog
  /\ dialog = [i \in Ids |-> NewDialog]
  /\ made = 0 /\ active = 0
  /\ gate = FALSE
  /\ setup = Resting
  /\ confirm = [t \in CalleeTags |-> Resting]
  /\ request = Resting
  /\ timeout = [i \in Ids |-> "none"]
  /\ shutdown = Resting
  /\ answered = {} /\ byes = {} /\ acks = 0
  /\ routed = NothingRouted

------------------------------------------------------------------------------
(* On UDP a handler has the read loop to itself; on TCP every connection   *)
(* has a read loop, and the handlers interleave.                           *)
ReaderFree ==
  OneReader => /\ setup.pc = "idle" /\ request.pc = "idle"
               /\ \A t \in CalleeTags : confirm[t].pc = "idle"

(* The timer of dialog i has not run, and i is not in the map any more.    *)
TimerLeftOver(i) == current # i /\ (dialog[i].timer = "armed" \/ timeout[i] = "fired")

(* Setup.  The capture file is opened before the map is looked at. *)

SetupOpens ==
  /\ setup.pc = "idle" /\ ReaderFree
  /\ made < MaxDialogs
  /\ made' = made + 1
  /\ gate' \in {gate, TRUE}
  /\ \E file \in {"none", "open"} : dialog' = [dialog EXCEPT ![made + 1].pcap = file]
  /\ setup' = [pc |-> "publish", id |-> made + 1]
  /\ UNCHANGED <<current, active, confirm, request, timeout, shutdown, callVars>>

(* One dialog per Call-ID: a second setupDialog gets the existing one. *)
SetupPublishes ==
  /\ setup.pc = "publish"
  /\ IF current # NoDialog
     THEN setup' = Resting /\ UNCHANGED <<current, dialog>>
     ELSE /\ FreshCallIds => \A i \in Ids : ~TimerLeftOver(i)
          /\ current' = setup.id
          /\ dialog' = [dialog EXCEPT ![setup.id].published = TRUE]
          /\ setup' = [setup EXCEPT !.pc = "arm"]
  /\ UNCHANGED <<made, active, gate, confirm, request, timeout, shutdown, callVars>>

\* slip: the dialog has no timeout
SetupArmsNothing ==
  /\ setup.pc = "arm"
  /\ active' = active + 1
  /\ setup' = Resting
  /\ UNCHANGED <<current, dialog, made, gate, confirm, request, timeout, shutdown,
                 callVars>>

SetupArms ==
  /\ setup.pc = "arm"
  /\ active' = active + 1
  /\ dialog' = [dialog EXCEPT ![setup.id].timer = "armed"]
  /\ setup' = Resting
  /\ UNCHANGED <<current, made, gate, confirm, request, timeout, shutdown,
                 answered, byes, routed, acks>>

------------------------------------------------------------------------------
(* ConfirmFromResponse, on a 2xx of callee t.  A script sets the dialog up *)
(* before it forwards the INVITE, so no callee answers the first one       *)
(* before its Setup is over.                                               *)

Offered == \E i \in 1..made : i # setup.id

ConfirmFinds(t) ==
  /\ t \notin answered
  /\ Offered /\ ReaderFree
  /\ answered' = answered \cup {t}
  /\ confirm' = IF current = NoDialog \/ dialog[current].confirmed
                THEN confirm
                ELSE [confirm EXCEPT ![t] = [pc |-> "set", id |-> current]]
  /\ UNCHANGED <<current, dialog, made, active, gate, setup, request, timeout,
                 shutdown, byes, routed, acks>>

ConfirmSets(t) ==
  /\ confirm[t].pc = "set"
  /\ dialog' = [dialog EXCEPT ![confirm[t].id].callee = t]
  /\ confirm' = [confirm EXCEPT ![t].pc = "store"]
  /\ UNCHANGED <<current, made, active, gate, setup, request, timeout, shutdown, callVars>>

ConfirmStores(t) ==
  /\ confirm[t].pc = "store"
  /\ dialog' = [dialog EXCEPT ![confirm[t].id].confirmed = TRUE]
  /\ confirm' = [confirm EXCEPT ![t] = Resting]
  /\ UNCHANGED <<current, made, active, gate, setup, request, timeout, shutdown, callVars>>

------------------------------------------------------------------------------
(* In-dialog requests: a To-tag, from the caller or from a callee. *)

(* FindFor: an early dialog knows only the caller's tag. *)
Found(fromCaller, tag) ==
  /\ current # NoDialog
  /\ IF dialog[current].confirmed THEN tag = dialog[current].callee ELSE fromCaller

(* BYE of a proxied call: terminate a known dialog, and forward in any     *)
(* case.  (The media it releases as well is the state of pkg/media.)       *)
ByeArrives(fromCaller, tag) ==
  /\ request.pc = "idle" /\ ReaderFree /\ made > 0
  /\ request' = [pc |-> IF Found(fromCaller, tag) THEN "terminate" ELSE "stray",
                 id |-> NoDialog]
  /\ UNCHANGED <<current, dialog, made, active, gate, setup, confirm, timeout,
                 shutdown, callVars>>

\* slip: the dialog stays in the map
TerminateFindsOnly ==
  /\ request.pc = "terminate"
  /\ request' = [pc |-> IF current = NoDialog THEN "forward" ELSE "close", id |-> current]
  /\ UNCHANGED <<current, dialog, made, active, gate, setup, confirm, timeout,
                 shutdown, callVars>>

TerminateDeletes ==
  /\ request.pc = "terminate"
  /\ request' = [pc |-> IF current = NoDialog THEN "forward" ELSE "close", id |-> current]
  /\ current' = NoDialog
  /\ UNCHANGED <<dialog, made, active, gate, setup, confirm, timeout, shutdown, callVars>>

\* slip: the capture file stays open
EndedKeepsFile(d) == [d EXCEPT !.ends = @ + 1]

(* What ends a dialog: its capture file is closed, call-end is emitted.    *)
Ended(d) == [d EXCEPT !.ends = @ + 1, !.pcap = IF @ = "open" THEN "closed" ELSE @]
Stopped(d) == [d EXCEPT !.timer = IF @ = "armed" THEN "stopped" ELSE @]

TerminateCloses ==
  /\ request.pc = "close"
  /\ dialog' = [dialog EXCEPT ![request.id] = Ended(Stopped(@))]
  /\ active' = active - 1
  /\ request' = [pc |-> "forward", id |-> NoDialog]
  /\ UNCHANGED <<current, made, gate, setup, confirm, timeout, shutdown, callVars>>

ByeForwarded ==
  /\ request.pc \in {"forward", "stray"}
  /\ routed' = [method |-> "BYE", matched |-> request.pc = "forward", gated |-> gate]
  /\ request' = Resting
  /\ UNCHANGED <<current, dialog, made, active, gate, setup, confirm, timeout,
                 shutdown, answered, byes, acks>>

(* Any other request but ACK: 481 when the gate is on and nothing matches. *)
OtherArrives(fromCaller, tag) ==
  /\ request.pc = "idle" /\ ReaderFree /\ made > 0
  /\ ~(gate /\ ~Found(fromCaller, tag))
  /\ routed' = [method |-> "other", matched |-> Found(fromCaller, tag), gated |-> gate]
  /\ UNCHANGED <<current, dialog, made, active, gate, setup, confirm, request,
                 timeout, shutdown, answered, byes, acks>>

(* The handler returns at once on every ACK no server transaction takes. *)
ACKArrives ==
  /\ request.pc = "idle" /\ ReaderFree
  /\ answered # {} /\ acks = 0
  /\ acks' = 1
  /\ UNCHANGED <<current, dialog, made, active, gate, setup, confirm, request,
                 timeout, shutdown, answered, byes, routed>>

------------------------------------------------------------------------------
(* The timeout of dialog i, on a goroutine of its own. *)

TimerExpires(i) ==
  /\ dialog[i].timer = "armed"
  /\ dialog' = [dialog EXCEPT ![i].timer = "fired"]
  /\ timeout' = [timeout EXCEPT ![i] = "fired"]
  /\ UNCHANGED <<current, made, active, gate, setup, confirm, request, shutdown, callVars>>

\* slip: does not look whether somebody else ended the dialog
TimeoutDeletesAnyway(i) ==
  /\ timeout[i] = "fired"
  /\ timeout' = [timeout EXCEPT ![i] = "sides"]
  /\ current' = NoDialog
  /\ UNCHANGED <<dialog, made, active, gate, setup, confirm, request, shutdown, callVars>>

(* It looks for the Call-ID, not for itself. *)
TimeoutDeletes(i) ==
  /\ timeout[i] = "fired"
  /\ timeout' = [timeout EXCEPT ![i] = IF current = NoDialog THEN "none" ELSE "sides"]
  /\ current' = NoDialog
  /\ UNCHANGED <<dialog, made, active, gate, setup, confirm, request, shutdown, callVars>>

\* slip: one side only
TimeoutSendsOneBYE(i) ==
  /\ timeout[i] = "sides"
  /\ byes' = IF dialog[i].callee # NoTag THEN {"caller"} ELSE byes
  /\ timeout' = [timeout EXCEPT ![i] = "end"]
  /\ UNCHANGED <<current, dialog, made, active, gate, setup, confirm, request,
                 shutdown, answered, routed, acks>>

TimeoutSendsBYEs(i) ==
  /\ timeout[i] = "sides"
  /\ byes' = IF dialog[i].callee # NoTag THEN {"caller", dialog[i].callee} ELSE byes
  /\ timeout' = [timeout EXCEPT ![i] = "end"]
  /\ UNCHANGED <<current, dialog, made, active, gate, setup, confirm, request,
                 shutdown, answered, routed, acks>>

\* slip: the metric is not told
TimeoutEndsUncounted(i) ==
  /\ timeout[i] = "end"
  /\ dialog' = [dialog EXCEPT ![i] = Ended(@)]
  /\ timeout' = [timeout EXCEPT ![i] = "over"]
  /\ UNCHANGED <<current, made, active, gate, setup, confirm, request, shutdown,
                 callVars>>

TimeoutEnds(i) ==
  /\ timeout[i] = "end"
  /\ dialog' = [dialog EXCEPT ![i] = Ended(@)]
  /\ active' = active - 1
  /\ timeout' = [timeout EXCEPT ![i] = "over"]
  /\ UNCHANGED <<current, made, gate, setup, confirm, request, shutdown,
                 answered, byes, routed, acks>>

------------------------------------------------------------------------------
(* CloseAll, once. *)

ShutdownTakes ==
  /\ shutdown.pc = "idle"
  /\ shutdown' = [pc |-> IF current = NoDialog THEN "over" ELSE "close", id |-> current]
  /\ current' = NoDialog
  /\ UNCHANGED <<dialog, made, active, gate, setup, confirm, request, timeout, callVars>>

ShutdownCloses ==
  /\ shutdown.pc = "close"
  /\ LET d == dialog[shutdown.id]
     IN  dialog' = [dialog EXCEPT ![shutdown.id] = [Ended(Stopped(d)) EXCEPT !.ends = d.ends]]
  /\ shutdown' = [shutdown EXCEPT !.pc = "over"]
  /\ UNCHANGED <<current, made, active, gate, setup, confirm, request, timeout, callVars>>

------------------------------------------------------------------------------
SetupStep == SetupPublishes \/ SetupArms
ConfirmStep == \E t \in CalleeTags : ConfirmSets(t) \/ ConfirmStores(t)
RequestStep == TerminateDeletes \/ TerminateCloses \/ ByeForwarded
TimeoutStep(i) == TimerExpires(i) \/ TimeoutDeletes(i) \/ TimeoutSendsBYEs(i) \/ TimeoutEnds(i)
PeerStep ==
  \/ SetupOpens
  \/ \E t \in CalleeTags : ConfirmFinds(t)
  \/ \E fromCaller \in BOOLEAN, tag \in CalleeTags \cup {Stranger} :
       ByeArrives(fromCaller, tag) \/ OtherArrives(fromCaller, tag)
  \/ ACKArrives

Next ==
  \/ PeerStep \/ SetupStep \/ ConfirmStep \/ RequestStep
  \/ \E i \in Ids : TimeoutStep(i)
  \/ ShutdownTakes \/ ShutdownCloses

(* Handlers run to their end and timers expire; the peers owe nothing. *)
Fairness ==
  /\ WF_vars(SetupStep)
  /\ WF_vars(ConfirmStep)
  /\ WF_vars(RequestStep)
  /\ \A i \in Ids : WF_vars(TimeoutStep(i))
  /\ WF_vars(ShutdownCloses)

SafeSpec == Init /\ [][Next]_vars
Spec == SafeSpec /\ Fairness

------------------------------------------------------------------------------
(* Properties *)

DialogRecords == [callee : CalleeTags \cup {NoTag}, confirmed : BOOLEAN,
                  timer : {"none", "armed", "fired", "stopped"},
                  pcap : {"none", "open", "closed"}, published : BOOLEAN, ends : Nat]

TypeOK ==
  /\ current \in Ids \cup {NoDialog}
  /\ dialog \in [Ids -> DialogRecords]
  /\ made \in 0..MaxDialogs /\ active \in Int
  /\ gate \in BOOLEAN /\ acks \in 0..1
  /\ setup \in [pc : {"idle", "publish", "arm"}, id : Ids \cup {NoDialog}]
  /\ confirm \in [CalleeTags -> [pc : {"idle", "set", "store"}, id : Ids \cup {NoDialog}]]
  /\ request \in [pc : {"idle", "terminate", "close", "forward", "stray"},
                  id : Ids \cup {NoDialog}]
  /\ timeout \in [Ids -> {"none", "fired", "sides", "end", "over"}]
  /\ shutdown \in [pc : {"idle", "close", "over"}, id : Ids \cup {NoDialog}]
  /\ answered \subseteq CalleeTags
  /\ byes \subseteq CalleeTags \cup {"caller"}
  /\ routed \in [method : {"none", "BYE", "other"}, matched : BOOLEAN, gated : BOOLEAN]

Cleaning(i) == \/ request = [pc |-> "close", id |-> i]
               \/ timeout[i] \in {"sides", "end"}
               \/ shutdown = [pc |-> "close", id |-> i]
               \/ setup = [pc |-> "arm", id |-> i]
(* Nobody is between the map and what follows from it. *)
Quiet == setup.pc = "idle" /\ \A i \in Ids : ~Cleaning(i)

(* BYE, timeout and shutdown race for a dialog, and exactly one of them    *)
(* ends it: at most one call-end event per dialog.                         *)
EndsOnce == \A i \in Ids : dialog[i].ends <= 1

(* A dialog that is out of the map, and that nobody is cleaning up any     *)
(* more, has its capture file closed and, but for a shutdown, was reported.*)
RemovedIsCleaned ==
  \A i \in Ids :
    dialog[i].published /\ current # i /\ ~Cleaning(i) =>
      /\ dialog[i].pcap # "open"
      /\ dialog[i].ends = 1 \/ shutdown.id = i

(* DialogsActive counts the dialogs in the map, whenever nobody is between *)
(* the map and the counter; shutdown leaves the counter alone.             *)
CountsAddUp ==
  Quiet /\ shutdown.pc = "idle" => active = IF current = NoDialog THEN 0 ELSE 1

(* Who the callee is, and so which BYE ends the call, is settled by the    *)
(* first 2xx: nothing changes it once the dialog is confirmed.             *)
CalleeIsSettled ==
  [][\A i \in Ids : dialog[i].confirmed => dialog'[i].callee = dialog[i].callee]_vars

(* A call that is confirmed when its timeout takes it out of the map gets  *)
(* a BYE on each side.                                                     *)
TimeoutHangsUp ==
  \A i \in Ids : (timeout[i] = "sides" /\ dialog[i].confirmed)
                   ~> (byes = {"caller", dialog[i].callee})

(* No dialog stays in the map for ever. *)
EveryDialogEnds == \A i \in Ids : current = i ~> current # i

(* README, setupDialog: dlgGate means "in-dialog requests with no matching *)
(* dialog are answered 481 and not forwarded".                             *)
GateHolds == routed.gated => routed.matched

(* README, routing script: "In-dialog requests (with a To-tag) are         *)
(* automatically routed using Route headers".                              *)
ACKIsRouted == (acks = 1) ~> (routed.method = "ACK")

(* README, setupDialog: pcap captures "all signaling for this Call-ID into *)
(* a per-dialog .pcap file", closed with the dialog: no file stays open    *)
(* when there is no dialog.                                                *)
NoFileWithoutDialog ==
  Quiet /\ current = NoDialog => \A i \in Ids : dialog[i].pcap # "open"

(* dialog.go, package comment: "if no BYE arrives within a configurable    *)
(* timeout" the manager ends the dialog.  A timeout takes no dialog out of *)
(* the map but the one whose own time is over.                             *)
NoEarlyTimeout ==
  [][\A i, j \in Ids : (timeout[i] = "fired" /\ timeout'[i] = "sides" /\ current = j)
                         => dialog[j].timer = "fired"]_vars

(* dialog.go, package comment: "if no BYE arrives within a configurable    *)
(* timeout ... it acts as a back-to-back UA, sending a BYE to each side of *)
(* the call".                                                              *)
TimeoutBoundsTheCall ==
  \A i \in Ids, t \in CalleeTags :
    (timeout[i] = "over" /\ answered = {t}) ~> (byes = {"caller", t})
==============================================================================
