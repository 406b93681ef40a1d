----------------------------- MODULE DialogProofs -----------------------------
(***************************************************************************)
(* Proofs about Dialogs, for every number of setupDialog calls and every   *)
(* set of callees: a dialog ends once, is cleaned up, and is counted; and  *)
(* about AsyncWriter, the capture writer a dialog closes: nothing it       *)
(* accepted is lost, doubled or reordered.                                 *)
(*                                                                         *)
(* FreshCallIds is a hypothesis where a theorem needs it.  Without it the  *)
(* statements are false: fireTimeout looks for its Call-ID, so the timer   *)
(* of a dialog that is gone ends a later dialog under its own name.        *)
(***************************************************************************)
EXTENDS Dialogs, AsyncWriter, FiniteSetTheorems, SequenceTheorems, TLAPS

USE DEF callVars

------------------------------------------------------------------------------
(* The inductive invariant. *)

(* Dialog numbers in the variables name dialogs. *)
Placed ==
  /\ setup.pc # "idle" => setup.id \in 1..made
  /\ request.pc = "close" => request.id \in Ids
  /\ shutdown.pc = "close" => shutdown.id \in Ids
  /\ shutdown.pc = "idle" => shutdown.id = NoDialog
  /\ \A t \in CalleeTags : confirm[t].pc # "idle" => confirm[t].id \in Ids

(* The variables' types, and what the types alone do not say of the numbers. *)
Typed == TypeOK /\ Placed

(* Who answers for dialog i: the map, a BYE, its timeout, or the shutdown. *)
Closing(i) == request.pc = "close" /\ request.id = i
Expiring(i) == timeout[i] \in {"sides", "end"}
Dropped(i) == shutdown.id = i
HasHolder(i) == current = i \/ Closing(i) \/ Expiring(i) \/ Dropped(i)

(* At most one of the four. *)
OneHolder ==
  \A i \in Ids : /\ current = i => ~Closing(i) /\ ~Expiring(i) /\ ~Dropped(i)
                 /\ Closing(i) => ~Expiring(i) /\ ~Dropped(i)
                 /\ Expiring(i) => ~Dropped(i)

(* As long as one does, the dialog has not ended; afterwards it has, once. *)
Accounted ==
  \A i \in Ids :
    /\ HasHolder(i) => dialog[i].published /\ dialog[i].ends = 0
    /\ dialog[i].published /\ ~HasHolder(i) => dialog[i].ends = 1 /\ dialog[i].pcap # "open"
    /\ ~dialog[i].published => dialog[i].ends = 0 /\ dialog[i].timer = "none"
    /\ Dropped(i) /\ shutdown.pc = "over" => dialog[i].pcap # "open"

(* The dialog inside Setup is no other's, and has no timer yet. *)
SettingUp ==
  /\ \A i \in Ids : i > made => ~dialog[i].published
  /\ setup.pc = "publish" => ~dialog[setup.id].published
  /\ setup.pc = "arm" => /\ dialog[setup.id].published
                         /\ dialog[setup.id].timer = "none"
                         /\ current \in {setup.id, NoDialog}

(* A timeout that is under way has taken the timer. *)
Timed == \A i \in Ids : timeout[i] # "none" => dialog[i].timer = "fired"

(* A timer that outlives its dialog finds an empty map: the one step at    *)
(* which reuse of a Call-ID would let two dialogs meet.                    *)
Fresh == \A i \in Ids : TimerLeftOver(i) => current = NoDialog

(* The metric counts the dialogs not yet ended, but the one Setup has put  *)
(* into the map and not yet counted.                                       *)
Live == {i \in Ids : dialog[i].published /\ dialog[i].ends = 0}
Counted == active = Cardinality(Live) - (IF setup.pc = "arm" THEN 1 ELSE 0)

(* The inductive invariant: the parts above, under the types. *)
Books == OneHolder /\ Accounted /\ SettingUp /\ Timed /\ Fresh /\ Counted
IInv == Typed /\ Books

------------------------------------------------------------------------------
(* Dialog numbers, records and counts. *)

(* The numbers of the dialogs, and NoDialog, which is none of them. *)
LEMMA IdsAreNumbers ==
  /\ Ids \subseteq Int /\ NoDialog \notin Ids /\ NoDialog \in Int
  /\ IsFiniteSet(Ids)
  /\ \A n \in 0..MaxDialogs : 1..n \subseteq Ids
  /\ \A n \in 0..MaxDialogs : n < MaxDialogs => n + 1 \in Ids /\ n + 1 \in 1..(n + 1)
<1>1. IsFiniteSet(1..MaxDialogs)
  BY FS_Interval, BoundAssumption
<1> QED
  BY <1>1, BoundAssumption DEF Ids, NoDialog

(* The assignments of the code leave a dialog a dialog. *)
LEMMA RecordsStay ==
  ASSUME NEW d \in DialogRecords
  PROVE  /\ \A file \in {"none", "open"} : [d EXCEPT !.pcap = file] \in DialogRecords
         /\ [d EXCEPT !.published = TRUE] \in DialogRecords
         /\ [d EXCEPT !.timer = "armed"] \in DialogRecords
         /\ [d EXCEPT !.timer = "fired"] \in DialogRecords
         /\ [d EXCEPT !.confirmed = TRUE] \in DialogRecords
  BY DEF DialogRecords

(* Publishing a dialog changes nothing else. *)
LEMMA PublishedStays ==
  ASSUME NEW d \in DialogRecords
  PROVE  /\ [d EXCEPT !.published = TRUE] \in DialogRecords
         /\ [d EXCEPT !.published = TRUE].published = TRUE
         /\ [d EXCEPT !.published = TRUE].ends = d.ends
         /\ [d EXCEPT !.published = TRUE].timer = d.timer
  BY DEF DialogRecords

(* Stopping the timer changes nothing else. *)
LEMMA StoppedStays ==
  ASSUME NEW d \in DialogRecords
  PROVE  /\ Stopped(d) \in DialogRecords
         /\ Stopped(d).timer = IF d.timer = "armed" THEN "stopped" ELSE d.timer
         /\ Stopped(d).published = d.published /\ Stopped(d).ends = d.ends
         /\ Stopped(d).pcap = d.pcap
<1>1. CASE d.timer = "armed"
  BY <1>1 DEF Stopped, DialogRecords
<1>2. CASE d.timer # "armed"
  BY <1>2 DEF Stopped, DialogRecords
<1> QED
  BY <1>1, <1>2

(* Ending a dialog counts one more end and leaves no file open. *)
LEMMA EndedStays ==
  ASSUME NEW d \in DialogRecords
  PROVE  /\ Ended(d) \in DialogRecords
         /\ Ended(d).ends = d.ends + 1
         /\ Ended(d).published = d.published /\ Ended(d).timer = d.timer
         /\ Ended(d).pcap # "open"
<1>1. PICK s \in {"none", "closed"} : s = IF d.pcap = "open" THEN "closed" ELSE d.pcap
  BY DEF DialogRecords
<1>2. Ended(d) = [d EXCEPT !.ends = d.ends + 1, !.pcap = s]
  BY <1>1 DEF Ended
<1>3. d.ends \in Nat /\ d.ends + 1 \in Nat
  BY DEF DialogRecords
<1>4. PICK n \in Nat : n = d.ends + 1
  BY <1>3
<1>5. Ended(d) = [d EXCEPT !.ends = n, !.pcap = s]
  BY <1>2, <1>4
<1>6. Ended(d) \in DialogRecords
  BY <1>5 DEF DialogRecords
<1>7. Ended(d).ends = n /\ Ended(d).pcap = s
  BY <1>5 DEF DialogRecords
<1>8. Ended(d).published = d.published /\ Ended(d).timer = d.timer
  BY <1>5 DEF DialogRecords
<1> QED
  BY <1>1, <1>4, <1>6, <1>7, <1>8

(* A step that changes dialog i changes no other. *)
LEMMA OneChanges ==
  ASSUME Typed, NEW i \in Ids, NEW r \in DialogRecords,
         dialog' = [dialog EXCEPT ![i] = r]
  PROVE  /\ dialog' \in [Ids -> DialogRecords]
         /\ dialog'[i] = r
         /\ \A j \in Ids : j # i => dialog'[j] = dialog[j]
  BY DEF Typed, TypeOK

(* The set that the metric counts can be counted. *)
LEMMA LiveIsFinite == IsFiniteSet(Live) /\ Cardinality(Live) \in Nat
<1>1. IsFiniteSet(Live)
  BY IdsAreNumbers, FS_Subset DEF Live
<1> QED
  BY <1>1, FS_CardinalityType

(* The same dialogs, the same count. *)
LEMMA CountStays ==
  ASSUME Counted, UNCHANGED active,
         (setup.pc = "arm")' <=> setup.pc = "arm",
         \A i \in Ids : /\ dialog'[i].published = dialog[i].published
                        /\ dialog'[i].ends = dialog[i].ends
  PROVE  Counted'
<1>1. Live' = Live
  BY DEF Live
<1> QED
  BY <1>1 DEF Counted

(* One dialog ends, and is counted off. *)
LEMMA CountFalls ==
  ASSUME Typed, Counted, NEW i \in Ids, dialog[i].published, dialog[i].ends = 0,
         dialog' = [dialog EXCEPT ![i] = dialog'[i]],
         dialog'[i].ends = 1,
         active' = active - 1, UNCHANGED setup
  PROVE  Counted'
<1>1. i \in Live /\ Live' = Live \ {i}
  BY DEF Typed, TypeOK, Live
<1>2. Cardinality(Live') = Cardinality(Live) - 1
  BY <1>1, LiveIsFinite, FS_RemoveElement
<1> QED
  BY <1>2, LiveIsFinite DEF Typed, TypeOK, Counted

------------------------------------------------------------------------------
(* Types: every step keeps them, whether Call-IDs are fresh or not. *)

(* The dialogs.                                                             *)
LEMMA DialogsStay ==
  ASSUME Typed, Next
  PROVE  dialog' \in [Ids -> DialogRecords]
<1> USE IdsAreNumbers
<1>1. CASE UNCHANGED dialog
  BY <1>1 DEF Typed, TypeOK
<1>2. ASSUME NEW i \in Ids, NEW r \in DialogRecords, dialog' = [dialog EXCEPT ![i] = r]
      PROVE  dialog' \in [Ids -> DialogRecords]
  BY <1>2 DEF Typed, TypeOK
<1>3. \A i \in Ids : dialog[i] \in DialogRecords
  BY DEF Typed, TypeOK
<1>4. CASE SetupOpens
  <2>1. made + 1 \in Ids
    BY <1>4 DEF Typed, TypeOK, SetupOpens
  <2>2. PICK file \in {"none", "open"} :
          dialog' = [dialog EXCEPT ![made + 1] = [dialog[made + 1] EXCEPT !.pcap = file]]
    BY <1>4 DEF SetupOpens
  <2> QED
    BY <1>2, <1>3, <2>1, <2>2, RecordsStay
<1>5. CASE SetupPublishes
  <2>1. setup.id \in Ids
    BY <1>5 DEF Typed, TypeOK, Placed, SetupPublishes
  <2>2. \/ UNCHANGED dialog
        \/ dialog' =
             [dialog EXCEPT ![setup.id] = [dialog[setup.id] EXCEPT !.published = TRUE]]
    BY <1>5 DEF SetupPublishes
  <2> QED
    BY <1>1, <1>2, <1>3, <2>1, <2>2, RecordsStay
<1>6. CASE SetupArms
  <2>1. setup.id \in Ids
    BY <1>6 DEF Typed, TypeOK, Placed, SetupArms
  <2>2. dialog' = [dialog EXCEPT ![setup.id] = [dialog[setup.id] EXCEPT !.timer = "armed"]]
    BY <1>6 DEF SetupArms
  <2> QED
    BY <1>2, <1>3, <2>1, <2>2, RecordsStay
<1>7. ASSUME NEW t \in CalleeTags, ConfirmSets(t) PROVE dialog' \in [Ids -> DialogRecords]
  <2> DEFINE d == dialog[confirm[t].id]
  <2>1. confirm[t].id \in Ids /\ d \in DialogRecords
    BY <1>3, <1>7 DEF Typed, Placed, ConfirmSets
  <2>2. [d EXCEPT !.callee = t] \in DialogRecords
    BY <2>1 DEF DialogRecords
  <2>3. dialog' = [dialog EXCEPT ![confirm[t].id] = [d EXCEPT !.callee = t]]
    BY <1>7 DEF ConfirmSets
  <2> QED
    BY <1>2, <2>1, <2>2, <2>3
<1>8. ASSUME NEW t \in CalleeTags, ConfirmStores(t) PROVE dialog' \in [Ids -> DialogRecords]
  <2> DEFINE d == dialog[confirm[t].id]
  <2>1. confirm[t].id \in Ids /\ d \in DialogRecords
    BY <1>3, <1>8 DEF Typed, Placed, ConfirmStores
  <2>2. dialog' = [dialog EXCEPT ![confirm[t].id] = [d EXCEPT !.confirmed = TRUE]]
    BY <1>8 DEF ConfirmStores
  <2> QED
    BY <1>2, <2>1, <2>2, RecordsStay
<1>9. CASE TerminateCloses
  <2>1. request.id \in Ids
    BY <1>9 DEF Typed, Placed, TerminateCloses
  <2>2. PICK e \in DialogRecords : e = Stopped(dialog[request.id])
    BY <1>3, <2>1, StoppedStays
  <2>3. dialog' = [dialog EXCEPT ![request.id] = Ended(e)]
    BY <1>9, <2>2 DEF TerminateCloses
  <2> QED
    BY <1>2, <2>1, <2>2, <2>3, EndedStays
<1>10. ASSUME NEW i \in Ids, TimerExpires(i) PROVE dialog' \in [Ids -> DialogRecords]
  <2>1. dialog' = [dialog EXCEPT ![i] = [dialog[i] EXCEPT !.timer = "fired"]]
    BY <1>10 DEF TimerExpires
  <2> QED
    BY <1>2, <1>3, <2>1, RecordsStay
<1>11. ASSUME NEW i \in Ids, TimeoutEnds(i) PROVE dialog' \in [Ids -> DialogRecords]
  <2>1. dialog' = [dialog EXCEPT ![i] = Ended(dialog[i])]
    BY <1>11 DEF TimeoutEnds
  <2> QED
    BY <1>2, <1>3, <2>1, EndedStays
<1>12. CASE ShutdownCloses
  <2> DEFINE d == dialog[shutdown.id]
  <2>1. shutdown.id \in Ids /\ d \in DialogRecords /\ d.ends \in Nat
    BY <1>3, <1>12 DEF Typed, Placed, ShutdownCloses, DialogRecords
  <2>2. PICK e \in DialogRecords : e = Stopped(d)
    BY <2>1, StoppedStays
  <2>3. PICK f \in DialogRecords : f = Ended(e)
    BY <2>2, EndedStays
  <2>4. [f EXCEPT !.ends = d.ends] \in DialogRecords
    BY <2>1, <2>3 DEF DialogRecords
  <2>5. dialog' = [dialog EXCEPT ![shutdown.id] = [f EXCEPT !.ends = d.ends]]
    BY <1>12, <2>2, <2>3 DEF ShutdownCloses
  <2> QED
    BY <1>2, <2>1, <2>4, <2>5
<1>13. ASSUME \/ \E t \in CalleeTags : ConfirmFinds(t)
              \/ \E fromCaller \in BOOLEAN, tag \in CalleeTags \cup {Stranger} :
                   ByeArrives(fromCaller, tag) \/ OtherArrives(fromCaller, tag)
              \/ ACKArrives \/ TerminateDeletes \/ ByeForwarded \/ ShutdownTakes
              \/ \E i \in Ids : TimeoutDeletes(i) \/ TimeoutSendsBYEs(i)
       PROVE UNCHANGED dialog
  BY <1>13
     DEF ConfirmFinds, ByeArrives, OtherArrives, ACKArrives, TerminateDeletes,
         ByeForwarded, ShutdownTakes, TimeoutDeletes, TimeoutSendsBYEs
<1> QED
  BY <1>1, <1>4, <1>5, <1>6, <1>7, <1>8, <1>9, <1>10, <1>11, <1>12, <1>13
     DEF Next, PeerStep, SetupStep, ConfirmStep, RequestStep, TimeoutStep

(* Everything else.                                                         *)
LEMMA TypesStay ==
  ASSUME Typed, Next
  PROVE  Typed'
<1> USE IdsAreNumbers, DialogsStay DEF Typed, TypeOK, Placed, Resting
<1>1. CASE SetupOpens
  <2>1. setup' \in [pc : {"idle", "publish", "arm"}, id : Ids \cup {NoDialog}]
    BY <1>1 DEF SetupOpens
  <2>2. gate' \in BOOLEAN
    BY <1>1 DEF SetupOpens
  <2>3. made' \in 0..MaxDialogs
    BY <1>1, BoundAssumption DEF SetupOpens
  <2> QED
    BY <1>1, <2>1, <2>2, <2>3 DEF SetupOpens
<1>2. CASE SetupPublishes
  BY <1>2 DEF SetupPublishes
<1>3. CASE SetupArms
  BY <1>3 DEF SetupArms
<1>4. ASSUME NEW t \in CalleeTags, ConfirmFinds(t) PROVE Typed'
  BY <1>4 DEF ConfirmFinds
<1>5. ASSUME NEW t \in CalleeTags, ConfirmSets(t) PROVE Typed'
  BY <1>5 DEF ConfirmSets
<1>6. ASSUME NEW t \in CalleeTags, ConfirmStores(t) PROVE Typed'
  BY <1>6 DEF ConfirmStores
<1>7. ASSUME NEW fromCaller \in BOOLEAN, NEW tag \in CalleeTags \cup {Stranger},
            ByeArrives(fromCaller, tag)
      PROVE  Typed'
  BY <1>7 DEF ByeArrives
<1>8. ASSUME NEW fromCaller \in BOOLEAN, NEW tag \in CalleeTags \cup {Stranger},
            OtherArrives(fromCaller, tag)
      PROVE  Typed'
  <2>1. Found(fromCaller, tag) \in BOOLEAN
    BY DEF Found, DialogRecords
  <2> QED
    BY <1>8, <2>1 DEF OtherArrives
<1>9. CASE ACKArrives
  BY <1>9 DEF ACKArrives
<1>10. CASE TerminateDeletes
  BY <1>10 DEF TerminateDeletes
<1>11. CASE TerminateCloses
  BY <1>11 DEF TerminateCloses
<1>12. CASE ByeForwarded
  BY <1>12 DEF ByeForwarded
<1>13. ASSUME NEW i \in Ids, TimerExpires(i) PROVE Typed'
  BY <1>13 DEF TimerExpires
<1>14. ASSUME NEW i \in Ids, TimeoutDeletes(i) PROVE Typed'
  BY <1>14 DEF TimeoutDeletes
<1>15. ASSUME NEW i \in Ids, TimeoutSendsBYEs(i) PROVE Typed'
  BY <1>15 DEF DialogRecords, TimeoutSendsBYEs
<1>16. ASSUME NEW i \in Ids, TimeoutEnds(i) PROVE Typed'
  BY <1>16 DEF TimeoutEnds
<1>17. CASE ShutdownTakes
  BY <1>17 DEF ShutdownTakes
<1>18. CASE ShutdownCloses
  BY <1>18 DEF ShutdownCloses
<1> QED
  BY <1>1, <1>2, <1>3, <1>4, <1>5, <1>6, <1>7, <1>8, <1>9, <1>10, <1>11, <1>12, <1>13,
     <1>14, <1>15, <1>16, <1>17, <1>18
     DEF Next, PeerStep, SetupStep, ConfirmStep, RequestStep, TimeoutStep

------------------------------------------------------------------------------
(* The books: one lemma per action.  FreshCallIds matters at one of them,  *)
(* the publication of a dialog.                                            *)

(* A step that leaves the holders and what is booked of each dialog alone. *)
LEMMA AsideKeeps ==
  ASSUME IInv, UNCHANGED <<current, made, active, setup, shutdown>>,
         \A i \in Ids : /\ Closing(i)' <=> Closing(i)
                        /\ Expiring(i)' <=> Expiring(i)
                        /\ timeout'[i] = "none" <=> timeout[i] = "none"
                        /\ timeout'[i] = "fired" <=> timeout[i] = "fired"
                        /\ dialog'[i].published = dialog[i].published
                        /\ dialog'[i].ends = dialog[i].ends
                        /\ dialog'[i].timer = dialog[i].timer
                        /\ dialog'[i].pcap = dialog[i].pcap
  PROVE  Books'
<1> USE DEF IInv, Books
<1>1. \A i \in Ids : HasHolder(i)' <=> HasHolder(i)
  BY DEF HasHolder, Dropped
<1>2. OneHolder'
  BY DEF OneHolder, Dropped
<1>3. Accounted'
  BY <1>1 DEF Accounted, Dropped
<1>4. SettingUp'
  BY IdsAreNumbers DEF SettingUp, Typed, Placed, TypeOK
<1>5. Timed' /\ Fresh'
  BY DEF Timed, Fresh, TimerLeftOver
<1>6. Counted'
  BY CountStays
<1> QED
  BY <1>2, <1>3, <1>4, <1>5, <1>6

(* Answers, requests that end no dialog, and the BYEs of a timeout.        *)
LEMMA AsideStepsKeep ==
  ASSUME IInv,
         \/ \E t \in CalleeTags : ConfirmFinds(t) \/ ConfirmSets(t) \/ ConfirmStores(t)
         \/ \E fromCaller \in BOOLEAN, tag \in CalleeTags \cup {Stranger} :
              ByeArrives(fromCaller, tag) \/ OtherArrives(fromCaller, tag)
         \/ ACKArrives \/ ByeForwarded
         \/ \E i \in Ids : TimeoutSendsBYEs(i)
  PROVE  Books'
<1>1. ASSUME NEW t \in CalleeTags, ConfirmFinds(t)
      PROVE  Books'
  <2>1. UNCHANGED <<dialog, timeout>>
    BY <1>1 DEF ConfirmFinds
  <2>2. \A j \in Ids : (Closing(j)' <=> Closing(j)) /\ (Expiring(j)' <=> Expiring(j))
    BY <1>1, <2>1 DEF ConfirmFinds, Closing, Expiring, Resting
  <2> QED
    BY <1>1, <2>1, <2>2, AsideKeeps DEF ConfirmFinds
<1>2. ASSUME NEW t \in CalleeTags, ConfirmSets(t)
      PROVE  Books'
  <2>1. confirm[t].id \in Ids /\ UNCHANGED <<request, timeout>>
    BY <1>2 DEF IInv, Typed, Placed, ConfirmSets
  <2>2. \A j \in Ids : /\ dialog'[j].published = dialog[j].published
                       /\ dialog'[j].ends = dialog[j].ends
                       /\ dialog'[j].timer = dialog[j].timer
                       /\ dialog'[j].pcap = dialog[j].pcap
    BY <1>2, <2>1 DEF IInv, Typed, TypeOK, ConfirmSets, DialogRecords
  <2>3. \A j \in Ids : Closing(j)' = Closing(j) /\ Expiring(j)' = Expiring(j)
    BY <2>1 DEF Closing, Expiring
  <2> QED
    BY <1>2, <2>1, <2>2, <2>3, AsideKeeps DEF ConfirmSets
<1>3. ASSUME NEW t \in CalleeTags, ConfirmStores(t)
      PROVE  Books'
  <2>1. confirm[t].id \in Ids /\ UNCHANGED <<request, timeout>>
    BY <1>3 DEF IInv, Typed, Placed, ConfirmStores
  <2>2. \A j \in Ids : /\ dialog'[j].published = dialog[j].published
                       /\ dialog'[j].ends = dialog[j].ends
                       /\ dialog'[j].timer = dialog[j].timer
                       /\ dialog'[j].pcap = dialog[j].pcap
    BY <1>3, <2>1 DEF IInv, Typed, TypeOK, ConfirmStores, DialogRecords
  <2>3. \A j \in Ids : Closing(j)' = Closing(j) /\ Expiring(j)' = Expiring(j)
    BY <2>1 DEF Closing, Expiring
  <2> QED
    BY <1>3, <2>1, <2>2, <2>3, AsideKeeps DEF ConfirmStores
<1>4. ASSUME NEW fromCaller \in BOOLEAN, NEW tag \in CalleeTags \cup {Stranger},
            ByeArrives(fromCaller, tag)
      PROVE  Books'
  <2>1. UNCHANGED <<dialog, timeout>>
    BY <1>4 DEF ByeArrives
  <2>2. \A j \in Ids : (Closing(j)' <=> Closing(j)) /\ (Expiring(j)' <=> Expiring(j))
    BY <1>4, <2>1 DEF ByeArrives, Closing, Expiring, Resting
  <2> QED
    BY <1>4, <2>1, <2>2, AsideKeeps DEF ByeArrives
<1>5. ASSUME NEW fromCaller \in BOOLEAN, NEW tag \in CalleeTags \cup {Stranger},
            OtherArrives(fromCaller, tag)
      PROVE  Books'
  <2>1. UNCHANGED <<dialog, timeout>>
    BY <1>5 DEF OtherArrives
  <2>2. \A j \in Ids : (Closing(j)' <=> Closing(j)) /\ (Expiring(j)' <=> Expiring(j))
    BY <1>5, <2>1 DEF OtherArrives, Closing, Expiring, Resting
  <2> QED
    BY <1>5, <2>1, <2>2, AsideKeeps DEF OtherArrives
<1>6. CASE ACKArrives
  <2>1. UNCHANGED <<dialog, timeout>>
    BY <1>6 DEF ACKArrives
  <2>2. \A j \in Ids : (Closing(j)' <=> Closing(j)) /\ (Expiring(j)' <=> Expiring(j))
    BY <1>6, <2>1 DEF ACKArrives, Closing, Expiring, Resting
  <2> QED
    BY <1>6, <2>1, <2>2, AsideKeeps DEF ACKArrives
<1>7. CASE ByeForwarded
  <2>1. UNCHANGED <<dialog, timeout>>
    BY <1>7 DEF ByeForwarded
  <2>2. \A j \in Ids : (Closing(j)' <=> Closing(j)) /\ (Expiring(j)' <=> Expiring(j))
    BY <1>7, <2>1 DEF ByeForwarded, Closing, Expiring, Resting
  <2> QED
    BY <1>7, <2>1, <2>2, AsideKeeps DEF ByeForwarded
<1>8. ASSUME NEW i \in Ids, TimeoutSendsBYEs(i)
      PROVE  Books'
  <2>1. UNCHANGED <<dialog, request>>
    BY <1>8 DEF TimeoutSendsBYEs
  <2>2. \A j \in Ids : /\ Expiring(j)' <=> Expiring(j)
                       /\ timeout'[j] = "none" <=> timeout[j] = "none"
                       /\ timeout'[j] = "fired" <=> timeout[j] = "fired"
    BY <1>8 DEF IInv, Typed, TypeOK, TimeoutSendsBYEs, Expiring
  <2>3. \A j \in Ids : Closing(j)' = Closing(j)
    BY <2>1 DEF Closing
  <2> QED
    BY <1>8, <2>1, <2>2, <2>3, AsideKeeps DEF TimeoutSendsBYEs
<1> QED
  BY <1>1, <1>2, <1>3, <1>4, <1>5, <1>6, <1>7, <1>8

(* Setup opens a capture file for a dialog that is in no map yet.         *)
LEMMA SetupOpensKeeps ==
  ASSUME IInv, Typed', SetupOpens
  PROVE  Books'
<1> USE IdsAreNumbers DEF Books
<1>1. made + 1 \in Ids /\ dialog[made + 1] \in DialogRecords
  BY DEF SetupOpens, IInv, Typed, TypeOK
<1>2. \A j \in Ids : /\ dialog'[j].published = dialog[j].published
                     /\ dialog'[j].ends = dialog[j].ends
                     /\ dialog'[j].timer = dialog[j].timer
                     /\ j # made + 1 => dialog'[j].pcap = dialog[j].pcap
  BY <1>1 DEF SetupOpens, IInv, Typed, TypeOK, DialogRecords
<1>3. OneHolder'
  BY <1>1, <1>2 DEF IInv, Typed, OneHolder, Closing, Expiring, Dropped, SetupOpens
<1>4. Accounted'
  BY <1>1, <1>2
     DEF IInv, Typed, TypeOK, Accounted, HasHolder, SettingUp, Closing, Expiring,
         Dropped, SetupOpens
<1>5. SettingUp'
  BY <1>1, <1>2 DEF IInv, Typed, TypeOK, Placed, SettingUp, SetupOpens
<1>6. Timed'
  BY <1>1, <1>2 DEF IInv, Typed, Timed, SetupOpens
<1>7. Fresh'
  BY <1>1, <1>2 DEF IInv, Typed, Fresh, TimerLeftOver, SetupOpens
<1>8. Counted'
  BY <1>2, CountStays DEF IInv, SetupOpens, Typed, TypeOK, SettingUp
<1> QED
  BY <1>3, <1>4, <1>5, <1>6, <1>7, <1>8

(* A dialog enters the map when the map is empty, and no timer of an older *)
(* one of its Call-ID is left over.                                        *)
LEMMA SetupPublishesKeeps ==
  ASSUME IInv, Typed', FreshCallIds, SetupPublishes
  PROVE  Books'
<1> USE IdsAreNumbers DEF Books
<1>1. CASE current # NoDialog
  <2>1. /\ setup' = Resting
        /\ UNCHANGED <<current, dialog, made, active, gate, confirm, request, timeout,
                       shutdown, answered, byes, routed, acks>>
    BY <1>1 DEF SetupPublishes
  <2>2. OneHolder'
    BY <2>1 DEF IInv, OneHolder, Closing, Expiring, Dropped
  <2>3. Accounted'
    BY <2>1 DEF IInv, Accounted, HasHolder, Closing, Expiring, Dropped
  <2>4. SettingUp' /\ Timed' /\ Fresh'
    BY <2>1 DEF IInv, SettingUp, Timed, Fresh, TimerLeftOver, Resting
  <2>5. Counted'
    <3>1. setup.pc # "arm" /\ setup'.pc # "arm"
      BY <2>1 DEF SetupPublishes, Resting
    <3> QED
      BY <2>1, <3>1, CountStays DEF IInv
  <2> QED
    BY <2>2, <2>3, <2>4, <2>5
<1>2. CASE current = NoDialog
  <2> DEFINE new == setup.id
             d == [dialog[new] EXCEPT !.published = TRUE]
  <2>1. /\ new \in Ids /\ new \in 1..made /\ dialog[new] \in DialogRecords
        /\ dialog[new].published = FALSE /\ setup.pc = "publish"
    <3>1. setup.pc = "publish"
      BY DEF SetupPublishes
    <3>2. new \in 1..made /\ new \in Ids
      BY <3>1 DEF IInv, Typed, TypeOK, Placed
    <3>3. dialog[new].published = FALSE
      BY <3>1 DEF IInv, SettingUp
    <3> QED
      BY <3>1, <3>2, <3>3 DEF IInv, Typed, TypeOK
  <2>2. /\ d \in DialogRecords /\ d.published = TRUE
        /\ d.ends = dialog[new].ends /\ d.timer = dialog[new].timer
    BY <2>1, PublishedStays
  <2>3. /\ \A i \in Ids : ~TimerLeftOver(i)
        /\ dialog' = [dialog EXCEPT ![new] = d]
        /\ current' = new /\ setup' = [pc |-> "arm", id |-> new]
        /\ UNCHANGED <<made, active, gate, confirm, request, timeout, shutdown,
                       answered, byes, routed, acks>>
    BY <1>2 DEF SetupPublishes, IInv, Typed, TypeOK
  <2> HIDE DEF new, d
  <2>4. /\ dialog'[new] = d
        /\ \A j \in Ids : j # new => dialog'[j] = dialog[j]
    BY <2>1, <2>2, <2>3, OneChanges DEF IInv
  <2>5. ~HasHolder(new) /\ dialog[new].ends = 0 /\ dialog[new].timer = "none"
    BY <2>1 DEF IInv, Accounted
  <2>6. OneHolder'
    BY <1>2, <2>3, <2>5 DEF IInv, OneHolder, HasHolder, Closing, Expiring, Dropped
  <2>7. Accounted'
    BY <1>2, <2>2, <2>3, <2>4, <2>5
       DEF IInv, Accounted, HasHolder, Closing, Expiring, Dropped
  <2>8. SettingUp'
    BY <2>1, <2>2, <2>3, <2>4, <2>5 DEF IInv, SettingUp, Typed, TypeOK
  <2>9. Timed' /\ Fresh'
    BY <1>2, <2>1, <2>2, <2>3, <2>4, <2>5 DEF IInv, Timed, Fresh, TimerLeftOver
  <2>10. new \in Ids \ Live /\ Live' = Live \cup {new}
    BY <2>1, <2>2, <2>4, <2>5 DEF Live
  <2>11. Cardinality(Live') = Cardinality(Live) + 1
    BY <2>10, LiveIsFinite, FS_AddElement
  <2>12. Counted'
    BY <2>1, <2>3, <2>11, LiveIsFinite DEF IInv, Typed, TypeOK, Counted
  <2> QED
    BY <2>6, <2>7, <2>8, <2>9, <2>12
<1> QED
  BY <1>1, <1>2

(* The timer is armed, and the metric raised, after the publication.      *)
LEMMA SetupArmsKeeps ==
  ASSUME IInv, Typed', SetupArms
  PROVE  Books'
<1> USE IdsAreNumbers DEF Books
<1>1. setup.id \in Ids /\ dialog[setup.id] \in DialogRecords
  BY DEF SetupArms, IInv, Typed, TypeOK, Placed
<1>2. /\ dialog'[setup.id].timer = "armed"
      /\ \A j \in Ids : /\ dialog'[j].published = dialog[j].published
                        /\ dialog'[j].ends = dialog[j].ends
                        /\ dialog'[j].pcap = dialog[j].pcap
                        /\ j # setup.id => dialog'[j].timer = dialog[j].timer
  BY <1>1 DEF SetupArms, IInv, Typed, TypeOK, DialogRecords
<1>3. OneHolder'
  BY <1>1, <1>2
     DEF IInv, Typed, OneHolder, Closing, Expiring, Dropped, SetupArms, Resting
<1>4. Accounted'
  BY <1>1, <1>2
     DEF IInv, Typed, Accounted, HasHolder, SettingUp, Closing, Expiring, Dropped,
         SetupArms, Resting
<1>5. SettingUp'
  BY <1>1, <1>2 DEF IInv, Typed, TypeOK, Placed, SettingUp, SetupArms, Resting
<1>6. Timed'
  BY <1>1, <1>2 DEF IInv, Typed, Timed, SettingUp, SetupArms, Resting
<1>7. Fresh'
  BY <1>1, <1>2 DEF IInv, Typed, Fresh, TimerLeftOver, SettingUp, SetupArms, Resting
<1>8. Live' = Live
  BY <1>2 DEF Live
<1>9. Counted'
  BY <1>8, LiveIsFinite DEF IInv, Typed, TypeOK, Counted, SetupArms, Resting
<1> QED
  BY <1>3, <1>4, <1>5, <1>6, <1>7, <1>9

(* A BYE takes the dialog out of the map.                                 *)
LEMMA TerminateDeletesKeeps ==
  ASSUME IInv, Typed', TerminateDeletes
  PROVE  Books'
<1> USE IdsAreNumbers DEF Books
<1>1. UNCHANGED <<dialog, timeout>>
  BY DEF TerminateDeletes
<1>2. OneHolder'
  BY <1>1 DEF IInv, Typed, OneHolder, Closing, Expiring, Dropped, TerminateDeletes
<1>3. Accounted'
  BY <1>1
     DEF IInv, Typed, Accounted, HasHolder, Closing, Expiring, Dropped, TerminateDeletes
<1>4. SettingUp'
  BY <1>1 DEF IInv, Typed, TypeOK, Placed, SettingUp, TerminateDeletes
<1>5. Timed'
  BY <1>1 DEF IInv, Typed, Timed, TerminateDeletes
<1>6. Fresh'
  BY <1>1 DEF IInv, Typed, Fresh, TerminateDeletes
<1>7. Counted'
  BY <1>1, CountStays DEF IInv, TerminateDeletes
<1> QED
  BY <1>2, <1>3, <1>4, <1>5, <1>6, <1>7

(* The BYE ends the dialog it took.                                       *)
LEMMA TerminateClosesKeeps ==
  ASSUME IInv, Typed', TerminateCloses
  PROVE  Books'
<1> USE IdsAreNumbers DEF Books
<1>1. request.id \in Ids
  BY DEF TerminateCloses, IInv, Typed, Placed
<1>2. PICK e \in DialogRecords : e = Stopped(dialog[request.id])
  BY <1>1, StoppedStays DEF IInv, Typed, TypeOK
<1>3. PICK f \in DialogRecords : f = Ended(e)
  BY <1>2, EndedStays
<1>4. dialog' = [dialog EXCEPT ![request.id] = f]
  BY <1>2, <1>3 DEF TerminateCloses
<1>5. /\ f.ends = dialog[request.id].ends + 1 /\ f.pcap # "open"
      /\ f.published = dialog[request.id].published
      /\ f.timer # "armed" /\ (f.timer = "fired" <=> dialog[request.id].timer = "fired")
      /\ dialog[request.id].timer = "none" => f.timer = "none"
  <2>1. /\ e.ends = dialog[request.id].ends /\ e.published = dialog[request.id].published
        /\ e.timer = IF dialog[request.id].timer = "armed" THEN "stopped"
                     ELSE dialog[request.id].timer
    BY <1>1, <1>2, StoppedStays DEF IInv, Typed, TypeOK
  <2>2. /\ f.ends = e.ends + 1 /\ f.pcap # "open"
        /\ f.published = e.published /\ f.timer = e.timer
    BY <1>3, EndedStays
  <2> QED
    BY <2>1, <2>2
<1>6. dialog'[request.id] = f /\ \A j \in Ids : j # request.id => dialog'[j] = dialog[j]
  BY <1>1, <1>4, OneChanges DEF IInv
<1>7. OneHolder'
  BY <1>1, <1>5, <1>6
     DEF IInv, Typed, OneHolder, Closing, Expiring, Dropped, TerminateCloses
<1>8. Accounted'
  BY <1>1, <1>5, <1>6
     DEF IInv, Typed, OneHolder, Accounted, HasHolder, Closing, Expiring, Dropped,
         TerminateCloses
<1>9. SettingUp'
  BY <1>1, <1>5, <1>6 DEF IInv, Typed, TypeOK, Placed, SettingUp, TerminateCloses
<1>10. Timed'
  BY <1>1, <1>5, <1>6 DEF IInv, Typed, Timed, TerminateCloses
<1>11. Fresh'
  BY <1>1, <1>5, <1>6 DEF IInv, Typed, Fresh, TimerLeftOver, TerminateCloses
<1>12. dialog[request.id].published /\ dialog[request.id].ends = 0
  BY <1>1, <1>4, <1>5, <1>6
     DEF IInv, Accounted, HasHolder, Closing, Expiring, TerminateCloses
<1>13. dialog' = [dialog EXCEPT ![request.id] = dialog'[request.id]]
  BY <1>1, <1>4, <1>5, <1>6
<1>14. dialog'[request.id].ends = 1
  BY <1>1, <1>4, <1>5, <1>6, <1>12
<1>15. Counted'
  BY <1>1, <1>4, <1>5, <1>6, <1>12, <1>13, <1>14, CountFalls DEF IInv, TerminateCloses
<1> QED
  BY <1>7, <1>8, <1>9, <1>10, <1>11, <1>15

(* A timer runs out: its goroutine starts.                                *)
LEMMA TimerExpiresKeeps ==
  ASSUME IInv, Typed', NEW i \in Ids, TimerExpires(i)
  PROVE  Books'
<1> USE IdsAreNumbers DEF Books
<1>1. /\ dialog[i].timer = "armed" /\ dialog'[i].timer = "fired"
      /\ \A j \in Ids : /\ dialog'[j].published = dialog[j].published
                        /\ dialog'[j].ends = dialog[j].ends
                        /\ dialog'[j].pcap = dialog[j].pcap
                        /\ j # i => dialog'[j].timer = dialog[j].timer
  BY DEF TimerExpires, IInv, Typed, TypeOK, DialogRecords
<1>2. OneHolder'
  BY <1>1 DEF IInv, Typed, OneHolder, Closing, Expiring, Dropped, TimerExpires
<1>3. Accounted'
  BY <1>1
     DEF IInv, Typed, Accounted, HasHolder, Timed, Closing, Expiring, Dropped,
         TimerExpires
<1>4. SettingUp'
  BY <1>1 DEF IInv, Typed, TypeOK, Placed, SettingUp, TimerExpires
<1>5. Timed'
  BY <1>1 DEF IInv, Typed, Timed, TimerExpires
<1>6. Fresh'
  BY <1>1 DEF IInv, Typed, Fresh, TimerLeftOver, TimerExpires
<1>7. Counted'
  BY <1>1, CountStays DEF IInv, TimerExpires
<1> QED
  BY <1>2, <1>3, <1>4, <1>5, <1>6, <1>7

(* A timeout takes what is in the map: its own dialog, by Fresh.           *)
LEMMA TimeoutDeletesKeeps ==
  ASSUME IInv, Typed', NEW i \in Ids, TimeoutDeletes(i)
  PROVE  Books'
<1> USE IdsAreNumbers DEF Books
<1>1. UNCHANGED dialog
  BY DEF TimeoutDeletes
<1>2. OneHolder'
  <2>1. /\ current' = NoDialog /\ UNCHANGED <<request, shutdown>>
        /\ \A j \in Ids : j # i => timeout'[j] = timeout[j]
        /\ Expiring(i)' => current # NoDialog
    BY DEF TimeoutDeletes, Expiring, IInv, Typed, TypeOK
  <2>2. current # NoDialog => current = i
    BY DEF IInv, Typed, TypeOK, Fresh, TimerLeftOver, TimeoutDeletes
  <2>3. \A j \in Ids : current' # j
    BY <2>1
  <2>4. \A j \in Ids : /\ Closing(j)' = Closing(j) /\ Dropped(j)' = Dropped(j)
                       /\ j # i => Expiring(j)' = Expiring(j)
    BY <2>1 DEF Closing, Dropped, Expiring
  <2>5. \A j \in Ids : /\ Closing(j) => ~Expiring(j)' /\ ~Dropped(j)
                       /\ Expiring(j)' => ~Dropped(j)
    BY <2>1, <2>2, <2>4 DEF IInv, OneHolder
  <2> QED
    BY <2>3, <2>4, <2>5 DEF OneHolder
<1>3. Accounted'
  BY <1>1
     DEF IInv, Typed, TypeOK, Accounted, HasHolder, Fresh, TimerLeftOver, Closing,
         Expiring, Dropped, TimeoutDeletes
<1>4. SettingUp'
  BY <1>1 DEF IInv, Typed, TypeOK, Placed, SettingUp, TimeoutDeletes
<1>5. Timed'
  <2>1. /\ UNCHANGED dialog /\ timeout[i] # "none"
        /\ \A j \in Ids : j # i => timeout'[j] = timeout[j]
    BY DEF TimeoutDeletes, IInv, Typed, TypeOK
  <2> QED
    BY <2>1 DEF IInv, Timed
<1>6. Fresh'
  BY <1>1 DEF IInv, Typed, TypeOK, Fresh, TimerLeftOver, TimeoutDeletes
<1>7. Counted'
  BY <1>1, CountStays DEF IInv, TimeoutDeletes
<1> QED
  BY <1>2, <1>3, <1>4, <1>5, <1>6, <1>7

(* A timeout ends the dialog it took.                                     *)
LEMMA TimeoutEndsKeeps ==
  ASSUME IInv, Typed', NEW i \in Ids, TimeoutEnds(i)
  PROVE  Books'
<1> USE IdsAreNumbers DEF Books
<1>1. PICK f \in DialogRecords : f = Ended(dialog[i])
  BY EndedStays DEF IInv, Typed, TypeOK
<1>2. dialog' = [dialog EXCEPT ![i] = f]
  BY <1>1 DEF TimeoutEnds
<1>3. /\ f.ends = dialog[i].ends + 1 /\ f.pcap # "open"
      /\ f.published = dialog[i].published /\ f.timer = dialog[i].timer
  BY <1>1, EndedStays DEF IInv, Typed, TypeOK
<1>4. dialog'[i] = f /\ \A j \in Ids : j # i => dialog'[j] = dialog[j]
  BY <1>2, OneChanges DEF IInv
<1>5. OneHolder'
  BY <1>3, <1>4 DEF IInv, Typed, OneHolder, Closing, Expiring, Dropped, TimeoutEnds
<1>6. Accounted'
  BY <1>3, <1>4
     DEF IInv, Typed, TypeOK, OneHolder, Accounted, HasHolder, Closing, Expiring,
         Dropped, TimeoutEnds
<1>7. SettingUp'
  BY <1>3, <1>4 DEF IInv, Typed, TypeOK, Placed, SettingUp, TimeoutEnds
<1>8. Timed'
  BY <1>3, <1>4 DEF IInv, Typed, Timed, TimeoutEnds
<1>9. Fresh'
  BY <1>3, <1>4 DEF IInv, Typed, Fresh, TimerLeftOver, TimeoutEnds
<1>10. dialog[i].published /\ dialog[i].ends = 0
  BY <1>2, <1>3, <1>4 DEF IInv, Accounted, HasHolder, Closing, Expiring, TimeoutEnds
<1>11. dialog' = [dialog EXCEPT ![i] = dialog'[i]]
  BY <1>2, <1>3, <1>4
<1>12. dialog'[i].ends = 1
  BY <1>2, <1>3, <1>4, <1>10
<1>13. Counted'
  BY <1>2, <1>3, <1>4, <1>10, <1>11, <1>12, CountFalls DEF IInv, TimeoutEnds
<1> QED
  BY <1>5, <1>6, <1>7, <1>8, <1>9, <1>13

(* The shutdown takes what is in the map.                                 *)
LEMMA ShutdownTakesKeeps ==
  ASSUME IInv, Typed', ShutdownTakes
  PROVE  Books'
<1> USE IdsAreNumbers DEF Books
<1>1. UNCHANGED <<dialog, timeout>>
  BY DEF ShutdownTakes
<1>2. OneHolder'
  BY <1>1 DEF IInv, Typed, OneHolder, Closing, Expiring, Dropped, ShutdownTakes
<1>3. Accounted'
  BY <1>1
     DEF IInv, Typed, Placed, Accounted, HasHolder, Closing, Expiring, Dropped,
         ShutdownTakes
<1>4. SettingUp'
  BY <1>1 DEF IInv, Typed, TypeOK, Placed, SettingUp, ShutdownTakes
<1>5. Timed'
  BY <1>1 DEF IInv, Typed, Timed, ShutdownTakes
<1>6. Fresh'
  BY <1>1 DEF IInv, Typed, Fresh, ShutdownTakes
<1>7. Counted'
  BY <1>1, CountStays DEF IInv, ShutdownTakes
<1> QED
  BY <1>2, <1>3, <1>4, <1>5, <1>6, <1>7

(* The shutdown stops the timer and closes the file, and reports no end.  *)
LEMMA ShutdownClosesKeeps ==
  ASSUME IInv, Typed', ShutdownCloses
  PROVE  Books'
<1> USE IdsAreNumbers DEF Books
<1>1. shutdown.id \in Ids
  BY DEF ShutdownCloses, IInv, Typed, Placed
<1>2. PICK e \in DialogRecords : e = Stopped(dialog[shutdown.id])
  BY <1>1, StoppedStays DEF IInv, Typed, TypeOK
<1>3. PICK g \in DialogRecords : g = Ended(e)
  BY <1>2, EndedStays
<1>4. PICK f \in DialogRecords : f = [g EXCEPT !.ends = dialog[shutdown.id].ends]
  BY <1>1 DEF IInv, Typed, TypeOK, DialogRecords
<1>5. dialog' = [dialog EXCEPT ![shutdown.id] = f]
  BY <1>2, <1>3, <1>4 DEF ShutdownCloses
<1>6. /\ f.ends = dialog[shutdown.id].ends /\ f.pcap # "open"
      /\ f.published = dialog[shutdown.id].published
      /\ f.timer # "armed" /\ (f.timer = "fired" <=> dialog[shutdown.id].timer = "fired")
      /\ dialog[shutdown.id].timer = "none" => f.timer = "none"
  <2>1. f.ends = dialog[shutdown.id].ends /\ f.pcap = g.pcap /\ f.published = g.published
        /\ f.timer = g.timer
    BY <1>4 DEF DialogRecords
  <2>2. g.pcap # "open" /\ g.published = e.published /\ g.timer = e.timer
    BY <1>3, EndedStays
  <2>3. /\ e.published = dialog[shutdown.id].published
        /\ e.timer = IF dialog[shutdown.id].timer = "armed" THEN "stopped"
                     ELSE dialog[shutdown.id].timer
    BY <1>1, <1>2, StoppedStays DEF IInv, Typed, TypeOK
  <2> QED
    BY <2>1, <2>2, <2>3
<1>7. dialog'[shutdown.id] = f /\ \A j \in Ids : j # shutdown.id => dialog'[j] = dialog[j]
  BY <1>1, <1>5, OneChanges DEF IInv
<1>8. /\ shutdown.pc = "close" /\ shutdown' = [shutdown EXCEPT !.pc = "over"]
      /\ UNCHANGED <<current, made, active, setup, request, timeout>>
  BY DEF ShutdownCloses
<1>9. OneHolder'
  BY <1>1, <1>6, <1>8, <1>7 DEF IInv, Typed, OneHolder, Closing, Expiring, Dropped
<1>10. Accounted'
  BY <1>1, <1>6, <1>8, <1>7
     DEF IInv, Typed, Accounted, HasHolder, Closing, Expiring, Dropped
<1>11. SettingUp'
  BY <1>1, <1>6, <1>8, <1>7 DEF IInv, Typed, TypeOK, Placed, SettingUp
<1>12. Timed'
  BY <1>1, <1>6, <1>8, <1>7 DEF IInv, Typed, TypeOK, Placed, Timed, Accounted, SettingUp
<1>13. Fresh'
  BY <1>1, <1>6, <1>8, <1>7 DEF IInv, Typed, Fresh, TimerLeftOver
<1>14. Counted'
  BY <1>6, <1>8, <1>7, CountStays DEF IInv, Typed
<1> QED
  BY <1>9, <1>10, <1>11, <1>12, <1>13, <1>14

------------------------------------------------------------------------------
(* The theorems. *)

(* No dialog, no handler, no timer. *)
LEMMA Initially == Init => IInv
<1> SUFFICES ASSUME Init PROVE IInv
  OBVIOUS
<1> USE IdsAreNumbers
<1>1. NewDialog \in DialogRecords
  BY DEF NewDialog, DialogRecords
<1>2. \A i \in Ids : dialog[i] = NewDialog
  BY DEF Init
<1>3. Placed
  BY DEF Init, Placed, Resting
<1>4. TypeOK
  <2>1. dialog \in [Ids -> DialogRecords] /\ made \in 0..MaxDialogs
    BY <1>1, BoundAssumption DEF Init
  <2>2. /\ setup \in [pc : {"idle", "publish", "arm"}, id : Ids \cup {NoDialog}]
        /\ confirm \in [CalleeTags -> [pc : {"idle", "set", "store"},
                                       id : Ids \cup {NoDialog}]]
        /\ request \in [pc : {"idle", "terminate", "close", "forward", "stray"},
                       id : Ids \cup {NoDialog}]
        /\ shutdown \in [pc : {"idle", "close", "over"}, id : Ids \cup {NoDialog}]
    BY DEF Init, Resting
  <2>3. routed \in [method : {"none", "BYE", "other"}, matched : BOOLEAN, gated : BOOLEAN]
    BY DEF Init, NothingRouted
  <2>4. timeout \in [Ids -> {"none", "fired", "sides", "end", "over"}]
    BY DEF Init
  <2>5. answered \subseteq CalleeTags /\ byes \subseteq CalleeTags \cup {"caller"}
    BY DEF Init
  <2>6. current \in Ids \cup {NoDialog} /\ gate \in BOOLEAN
    BY DEF Init
  <2>7. active \in Int /\ acks \in 0..1
    BY DEF Init
  <2> QED
    BY <2>1, <2>2, <2>3, <2>4, <2>5, <2>7, <2>6 DEF TypeOK
<1>5. OneHolder /\ SettingUp
  BY <1>2 DEF Init, OneHolder, SettingUp, Closing, Expiring, Dropped, Resting, NewDialog
<1>6. Accounted
  BY <1>2 DEF Init, Accounted, HasHolder, Closing, Expiring, Dropped, Resting, NewDialog
<1>7. Timed /\ Fresh
  BY <1>2 DEF Init, Timed, Fresh, NewDialog
<1>8. Live = {}
  <2>1. NewDialog.published = FALSE
    BY DEF NewDialog
  <2> QED
    BY <1>2, <2>1 DEF Live
<1>9. Counted
  BY <1>8, FS_EmptySet DEF Init, Counted, Resting
<1> QED
  BY <1>3, <1>4, <1>5, <1>6, <1>7, <1>9 DEF IInv, Books, Typed

(* Every variable has its type, however Call-IDs and handlers come. *)
THEOREM TypeCorrectness == SafeSpec => []TypeOK
<1>1. Init => Typed
  BY Initially DEF IInv
<1>2. Typed /\ [Next]_vars => Typed'
  <2>1. Typed /\ UNCHANGED vars => Typed'
    BY DEF Typed, TypeOK, Placed, vars
  <2> QED
    BY <2>1, TypesStay
<1>3. Typed => TypeOK
  BY DEF Typed
<1> QED
  BY <1>1, <1>2, <1>3, PTL DEF SafeSpec

(* Every step keeps the invariant. *)
LEMMA NextKeeps ==
  ASSUME FreshCallIds, IInv, [Next]_vars
  PROVE  IInv'
<1>1. CASE UNCHANGED vars
  <2>1. Typed'
    BY <1>1 DEF vars, IInv, Typed, TypeOK, Placed
  <2>2. \A i \in Ids : Closing(i)' = Closing(i) /\ Expiring(i)' = Expiring(i)
    BY <1>1 DEF vars, Closing, Expiring
  <2>3. Books'
    BY <1>1, <2>2, AsideKeeps DEF vars
  <2> QED
    BY <2>1, <2>3 DEF IInv
<1>2. CASE Next
  <2>1. Typed'
    BY <1>2, TypesStay DEF IInv
  <2>2. Books'
    BY <1>2, <2>1, AsideStepsKeep, SetupOpensKeeps, SetupPublishesKeeps, SetupArmsKeeps,
       TerminateDeletesKeeps, TerminateClosesKeeps, TimerExpiresKeeps,
       TimeoutDeletesKeeps, TimeoutEndsKeeps, ShutdownTakesKeeps, ShutdownClosesKeeps
       DEF Next, PeerStep, SetupStep, ConfirmStep, RequestStep, TimeoutStep
  <2> QED
    BY <2>1, <2>2 DEF IInv
<1> QED
  BY <1>1, <1>2

(* The invariant holds for ever when Call-IDs are fresh. *)
THEOREM DialogInvariance == ASSUME FreshCallIds PROVE SafeSpec => []IInv
<1>1. IInv /\ [Next]_vars => IInv'
  BY NextKeeps
<1> QED
  BY <1>1, Initially, PTL DEF SafeSpec

(* BYE, timeout and shutdown race for a dialog, for any number of dialogs  *)
(* and callees: at most one call-end event each.                           *)
THEOREM DialogsEndOnce == ASSUME FreshCallIds PROVE SafeSpec => []EndsOnce
<1>1. IInv => EndsOnce
  BY DEF IInv, Books, Accounted, EndsOnce
<1> QED
  BY <1>1, DialogInvariance, PTL

(* A dialog out of the map, that nobody is cleaning up, has been cleaned.  *)
THEOREM RemovedDialogsAreCleaned == ASSUME FreshCallIds PROVE SafeSpec => []RemovedIsCleaned
<1>1. ASSUME IInv, NEW i \in Ids, dialog[i].published, current # i, ~Cleaning(i)
      PROVE  dialog[i].pcap # "open" /\ (dialog[i].ends = 1 \/ shutdown.id = i)
  <2>1. ~Expiring(i) /\ ~Closing(i)
    BY <1>1 DEF Cleaning, Expiring, Closing, IInv, Typed, TypeOK
  <2>2. CASE Dropped(i)
    <3>1. shutdown.pc = "over"
      BY <1>1, <2>2, IdsAreNumbers DEF Dropped, Cleaning, IInv, Typed, TypeOK, Placed
    <3> QED
      BY <1>1, <2>2, <3>1 DEF IInv, Books, Accounted, Dropped
  <2>3. CASE ~Dropped(i)
    BY <1>1, <2>1, <2>3 DEF HasHolder, IInv, Books, Accounted
  <2> QED
    BY <2>2, <2>3
<1>2. IInv => RemovedIsCleaned
  BY <1>1 DEF RemovedIsCleaned
<1> QED
  BY <1>2, DialogInvariance, PTL

(* The metric is the number of dialogs in the map, between two calls.      *)
THEOREM TheMetricAddsUp == ASSUME FreshCallIds PROVE SafeSpec => []CountsAddUp
<1>1. ASSUME IInv, Quiet, shutdown.pc = "idle"
      PROVE  active = IF current = NoDialog THEN 0 ELSE 1
  <2>1. \A i \in Ids : HasHolder(i) <=> current = i
    BY <1>1, IdsAreNumbers
       DEF Quiet, Cleaning, HasHolder, Closing, Expiring, Dropped, IInv, Typed, TypeOK,
           Placed
  <2>2. Live = {i \in Ids : current = i}
    BY <1>1, <2>1 DEF Live, IInv, Typed, TypeOK, DialogRecords, Books, Accounted
  <2>3. active = Cardinality(Live)
    BY <1>1, LiveIsFinite DEF IInv, Books, Counted, Quiet
  <2>4. CASE current = NoDialog
    BY <2>2, <2>3, <2>4, FS_EmptySet, IdsAreNumbers
  <2>5. CASE current # NoDialog
    <3>1. Live = {current}
      BY <1>1, <2>2, <2>5 DEF IInv, Typed, TypeOK
    <3> QED
      BY <2>3, <2>5, <3>1, FS_Singleton
  <2> QED
    BY <2>4, <2>5
<1>2. IInv => CountsAddUp
  BY <1>1 DEF CountsAddUp
<1> QED
  BY <1>2, DialogInvariance, PTL

(* As long as Call-IDs are fresh, a timeout takes no dialog but its own.   *)
THEOREM TimeoutsAreNotEarly == ASSUME FreshCallIds PROVE SafeSpec => NoEarlyTimeout
<1>1. ASSUME IInv, NEW i \in Ids, NEW j \in Ids, timeout[i] = "fired", current = j
      PROVE  dialog[j].timer = "fired"
  <2>1. current # NoDialog
    BY <1>1, IdsAreNumbers
  <2>2. i = j
    BY <1>1, <2>1 DEF IInv, Books, Fresh, TimerLeftOver
  <2> QED
    BY <1>1, <2>2 DEF IInv, Books, Timed
<1>2. IInv => [\A i, j \in Ids :
                 (timeout[i] = "fired" /\ timeout'[i] = "sides" /\ current = j)
                   => dialog[j].timer = "fired"]_vars
  BY <1>1
<1> QED
  BY <1>2, DialogInvariance, PTL DEF NoEarlyTimeout

------------------------------------------------------------------------------
(* On UDP one goroutine runs the handlers in turn, and the first 2xx settles *)
(* who the callee is.  On TCP two 2xx may both find the dialog early.      *)

(* The handlers of two answers do not overlap, and the one that is about   *)
(* to note the callee still sees an early dialog.                          *)
OneAnswerAtATime ==
  \A t \in CalleeTags :
    /\ confirm[t].pc # "idle" => \A u \in CalleeTags \ {t} : confirm[u].pc = "idle"
    /\ confirm[t].pc = "set" => dialog[confirm[t].id].confirmed = FALSE

(* A step that confirms no dialog and moves no answer's handler. *)
LEMMA AnswersStay ==
  ASSUME Typed, OneAnswerAtATime, UNCHANGED confirm,
         \A i \in Ids : dialog'[i].confirmed = dialog[i].confirmed
  PROVE  OneAnswerAtATime'
  BY DEF Typed, Placed, OneAnswerAtATime

(* Only the handler of an answer confirms a dialog or names its callee. *)
LEMMA OnlyAnswersConfirm ==
  ASSUME Typed, Next, ~\E t \in CalleeTags : ConfirmSets(t) \/ ConfirmStores(t),
         NEW i \in Ids
  PROVE  /\ dialog'[i].confirmed = dialog[i].confirmed
         /\ dialog'[i].callee = dialog[i].callee
<1>1. dialog \in [Ids -> DialogRecords]
  BY DEF Typed, TypeOK
<1>2. CASE UNCHANGED dialog
  BY <1>2
<1>3. CASE SetupOpens
  BY <1>1, <1>3 DEF SetupOpens, DialogRecords
<1>4. CASE SetupPublishes
  BY <1>1, <1>2, <1>4 DEF SetupPublishes, DialogRecords
<1>5. CASE SetupArms
  BY <1>1, <1>5 DEF SetupArms, DialogRecords
<1>6. CASE TerminateCloses
  BY <1>1, <1>6 DEF TerminateCloses, Ended, Stopped, DialogRecords
<1>7. ASSUME NEW k \in Ids, TimerExpires(k)
      PROVE  /\ dialog'[i].confirmed = dialog[i].confirmed
             /\ dialog'[i].callee = dialog[i].callee
  BY <1>1, <1>7 DEF TimerExpires, DialogRecords
<1>8. ASSUME NEW k \in Ids, TimeoutEnds(k)
      PROVE  /\ dialog'[i].confirmed = dialog[i].confirmed
             /\ dialog'[i].callee = dialog[i].callee
  BY <1>1, <1>8 DEF TimeoutEnds, Ended, DialogRecords
<1>9. CASE ShutdownCloses
  BY <1>1, <1>9 DEF ShutdownCloses, Ended, Stopped, DialogRecords
<1>10. ASSUME \/ \E t \in CalleeTags : ConfirmFinds(t)
             \/ \E fromCaller \in BOOLEAN, tag \in CalleeTags \cup {Stranger} :
                  ByeArrives(fromCaller, tag) \/ OtherArrives(fromCaller, tag)
             \/ ACKArrives \/ TerminateDeletes \/ ByeForwarded \/ ShutdownTakes
             \/ \E k \in Ids : TimeoutDeletes(k) \/ TimeoutSendsBYEs(k)
      PROVE  UNCHANGED dialog
  BY <1>10
     DEF ConfirmFinds, ByeArrives, OtherArrives, ACKArrives, TerminateDeletes,
         ByeForwarded, ShutdownTakes, TimeoutDeletes, TimeoutSendsBYEs
<1> QED
  BY <1>2, <1>3, <1>4, <1>5, <1>6, <1>7, <1>8, <1>9, <1>10
     DEF Next, PeerStep, SetupStep, ConfirmStep, RequestStep, TimeoutStep

(* On one reader the answers' handlers take turns. *)
LEMMA AnswersTakeTurns ==
  ASSUME OneReader, Typed, OneAnswerAtATime, Next
  PROVE  OneAnswerAtATime'
<1>1. ASSUME NEW t \in CalleeTags, ConfirmFinds(t) PROVE OneAnswerAtATime'
  <2>1. \A u \in CalleeTags : confirm[u].pc = "idle"
    BY <1>1 DEF ConfirmFinds, ReaderFree
  <2>2. /\ \A u \in CalleeTags \ {t} : confirm'[u] = confirm[u]
        /\ confirm'[t].pc = "idle" \/ /\ confirm'[t].pc = "set"
                                      /\ confirm'[t].id = current
                                      /\ ~dialog[current].confirmed
                                      /\ current \in Ids
    BY <1>1, <2>1 DEF ConfirmFinds, Typed, TypeOK
  <2> QED
    BY <1>1, <2>1, <2>2 DEF ConfirmFinds, OneAnswerAtATime, Typed, TypeOK, DialogRecords
<1>2. ASSUME NEW t \in CalleeTags, ConfirmSets(t) PROVE OneAnswerAtATime'
  BY <1>2 DEF ConfirmSets, OneAnswerAtATime, Typed, TypeOK
<1>3. ASSUME NEW t \in CalleeTags, ConfirmStores(t) PROVE OneAnswerAtATime'
  BY <1>3 DEF ConfirmStores, OneAnswerAtATime, Typed, TypeOK, Resting
<1>4. CASE ~\E t \in CalleeTags : ConfirmFinds(t) \/ ConfirmSets(t) \/ ConfirmStores(t)
  <2>1. UNCHANGED confirm
    BY <1>4
       DEF Next, PeerStep, SetupStep, ConfirmStep, RequestStep, TimeoutStep, SetupOpens,
           SetupPublishes, SetupArms, ByeArrives, OtherArrives, ACKArrives,
           TerminateDeletes, TerminateCloses, ByeForwarded, TimerExpires,
           TimeoutDeletes, TimeoutSendsBYEs, TimeoutEnds, ShutdownTakes, ShutdownCloses
  <2> QED
    BY <1>4, <2>1, OnlyAnswersConfirm, AnswersStay
<1> QED
  BY <1>1, <1>2, <1>3, <1>4

(* With one reader the callee of a confirmed dialog never changes, whether *)
(* Call-IDs are fresh or not: the violation needs two connections.         *)
THEOREM OneReaderSettlesTheCallee == ASSUME OneReader PROVE SafeSpec => CalleeIsSettled
<1>1. Init => Typed /\ OneAnswerAtATime
  BY Initially DEF Init, IInv, OneAnswerAtATime, Resting
<1>2. Typed /\ OneAnswerAtATime /\ [Next]_vars => (Typed /\ OneAnswerAtATime)'
  <2>1. Typed /\ OneAnswerAtATime /\ UNCHANGED vars => (Typed /\ OneAnswerAtATime)'
    BY DEF Typed, TypeOK, Placed, OneAnswerAtATime, vars
  <2> QED
    BY <2>1, TypesStay, AnswersTakeTurns
<1>3. ASSUME Typed, OneAnswerAtATime, [Next]_vars, NEW i \in Ids, dialog[i].confirmed
      PROVE  dialog'[i].callee = dialog[i].callee
  <2>1. ASSUME NEW t \in CalleeTags, ConfirmSets(t)
        PROVE  dialog'[i].callee = dialog[i].callee
    <3>1. confirm[t].id # i
      BY <1>3, <2>1 DEF ConfirmSets, OneAnswerAtATime
    <3> QED
      BY <1>3, <2>1, <3>1 DEF ConfirmSets, Typed, TypeOK
  <2>2. ASSUME NEW t \in CalleeTags, ConfirmStores(t)
        PROVE  dialog'[i].callee = dialog[i].callee
    BY <1>3, <2>2 DEF ConfirmStores, Typed, TypeOK, DialogRecords
  <2>3. CASE UNCHANGED vars
    BY <2>3 DEF vars
  <2> QED
    BY <1>3, <2>1, <2>2, <2>3, OnlyAnswersConfirm
<1>4. Typed /\ OneAnswerAtATime /\ [Next]_vars
        => [\A i \in Ids : dialog[i].confirmed => dialog'[i].callee = dialog[i].callee]_vars
  BY <1>3
<1> QED
  BY <1>1, <1>2, <1>4, PTL DEF SafeSpec, CalleeIsSettled


------------------------------------------------------------------------------
(* The capture writer that a dialog closes (AsyncWriter), for every number of *)
(* producers, capacity of the channel and batch size.                         *)

(* The numbers the items are known by. *)
Items == 1..MaxItems

(* While the worker writes a batch there is one, and otherwise there is room in it. *)
Batched == /\ worker = "flushing" => pending # <<>>
           /\ worker # "flushing" => Len(pending) < Batch
(* A worker that has ended has seen the channel closed and empty, and written its batch. *)
Drained == worker = "done" => ~open /\ queue = <<>> /\ pending = <<>>
(* Close returns only after the worker. *)
ReturnedIsDone == closer = "returned" => worker = "done"
(* No item carries a number that no call has taken yet. *)
Numbered == /\ Lined \cup failed \cup dropped \subseteq 1..calls
            /\ \A p \in Producers : item[p] \in 0..calls

(* The inductive invariant of the writer. *)
WriterInv ==
  /\ WriterTypeOK
  /\ Batched /\ Drained /\ ReturnedIsDone
  /\ Numbered /\ OnePlacePerItem

(* The head of one sequence is moved to the end of the one before it. *)
LEMMA HeadMoves ==
  ASSUME NEW S, NEW s \in Seq(S), NEW t \in Seq(S), t # <<>>
  PROVE  Append(s, Head(t)) \o Tail(t) = s \o t
<1> DEFINE l == Append(s, Head(t)) \o Tail(t)
           r == s \o t
<1>1. /\ Head(t) \in S /\ Head(t) = t[1] /\ Tail(t) \in Seq(S)
      /\ Len(t) \in Nat /\ Len(t) > 0 /\ Len(s) \in Nat
      /\ Len(Tail(t)) = Len(t) - 1
      /\ \A i \in 1..(Len(t) - 1) : Tail(t)[i] = t[i + 1]
  BY HeadTailProperties, EmptySeq, LenProperties
<1>2. /\ Append(s, Head(t)) \in Seq(S) /\ Len(Append(s, Head(t))) = Len(s) + 1
      /\ \A i \in 1..Len(s) : Append(s, Head(t))[i] = s[i]
      /\ Append(s, Head(t))[Len(s) + 1] = t[1]
  BY <1>1
<1>3. /\ l \in Seq(S) /\ Len(l) = Len(s) + Len(t)
      /\ \A i \in 1..(Len(s) + Len(t)) :
           l[i] = IF i <= Len(s) + 1 THEN Append(s, Head(t))[i] ELSE Tail(t)[i - (Len(s) + 1)]
  BY <1>1, <1>2, ConcatProperties
<1>4. /\ r \in Seq(S) /\ Len(r) = Len(s) + Len(t)
      /\ \A i \in 1..(Len(s) + Len(t)) : r[i] = IF i <= Len(s) THEN s[i] ELSE t[i - Len(s)]
  BY <1>1, ConcatProperties
<1> HIDE DEF l, r
<1>5. \A i \in 1..Len(l) : l[i] = r[i]
  <2> SUFFICES ASSUME NEW i \in 1..(Len(s) + Len(t)) PROVE l[i] = r[i]
    BY <1>3
  <2>1. CASE i <= Len(s)
    BY <1>1, <1>2, <1>3, <1>4, <2>1
  <2>2. CASE i = Len(s) + 1
    BY <1>1, <1>2, <1>3, <1>4, <2>2
  <2>3. CASE i > Len(s) + 1
    <3>1. i - (Len(s) + 1) \in 1..(Len(t) - 1) /\ (i - (Len(s) + 1)) + 1 = i - Len(s)
      BY <1>1, <2>3
    <3>2. l[i] = Tail(t)[i - (Len(s) + 1)]
      BY <1>1, <1>3, <2>3
    <3>3. Tail(t)[i - (Len(s) + 1)] = t[i - Len(s)]
      BY <1>1, <3>1
    <3>4. r[i] = t[i - Len(s)]
      BY <1>1, <1>4, <2>3
    <3> QED
      BY <3>2, <3>3, <3>4
  <2> QED
    BY <1>1, <2>1, <2>2, <2>3
<1>6. l = r
  BY <1>3, <1>4, <1>5, SeqEqual
<1> QED
  BY <1>6 DEF l, r

(* Appending to the last of two sequences appends to both. *)
LEMMA AppendMoves ==
  ASSUME NEW S, NEW s \in Seq(S), NEW t \in Seq(S), NEW e \in S
  PROVE  s \o Append(t, e) = Append(s \o t, e)
<1> DEFINE l == s \o Append(t, e)
           m == s \o t
           r == Append(m, e)
<1>1. /\ Len(s) \in Nat /\ Len(t) \in Nat
      /\ Append(t, e) \in Seq(S) /\ Len(Append(t, e)) = Len(t) + 1
      /\ \A i \in 1..Len(t) : Append(t, e)[i] = t[i]
      /\ Append(t, e)[Len(t) + 1] = e
  BY LenProperties
<1>2. /\ l \in Seq(S) /\ Len(l) = Len(s) + Len(t) + 1
      /\ \A i \in 1..(Len(s) + Len(t) + 1) :
           l[i] = IF i <= Len(s) THEN s[i] ELSE Append(t, e)[i - Len(s)]
  BY <1>1, ConcatProperties
<1>3. /\ m \in Seq(S) /\ Len(m) = Len(s) + Len(t)
      /\ \A i \in 1..(Len(s) + Len(t)) : m[i] = IF i <= Len(s) THEN s[i] ELSE t[i - Len(s)]
  BY <1>1, ConcatProperties
<1> HIDE DEF l, m
<1>4. /\ r \in Seq(S) /\ Len(r) = Len(s) + Len(t) + 1
      /\ \A i \in 1..(Len(s) + Len(t)) : r[i] = m[i]
      /\ r[Len(s) + Len(t) + 1] = e
  BY <1>1, <1>3
<1> HIDE DEF r
<1>5. \A i \in 1..Len(l) : l[i] = r[i]
  <2> SUFFICES ASSUME NEW i \in 1..(Len(s) + Len(t) + 1) PROVE l[i] = r[i]
    BY <1>2
  <2>1. CASE i <= Len(s)
    <3>1. /\ i \in 1..(Len(s) + Len(t)) /\ i \in 1..(Len(s) + Len(t) + 1)
      BY <1>1, <2>1
    <3>2. l[i] = s[i]
      BY <1>2, <2>1, <3>1
    <3>3. r[i] = s[i]
      BY <1>3, <1>4, <2>1, <3>1
    <3> QED
      BY <3>2, <3>3
  <2>2. CASE i > Len(s) /\ i <= Len(s) + Len(t)
    <3>1. i - Len(s) \in 1..Len(t)
      BY <1>1, <2>2
    <3>2. l[i] = Append(t, e)[i - Len(s)]
      BY <1>1, <1>2, <2>2
    <3>3. r[i] = t[i - Len(s)]
      BY <1>1, <1>3, <1>4, <2>2
    <3> QED
      BY <1>1, <3>1, <3>2, <3>3
  <2>3. CASE i = Len(s) + Len(t) + 1
    BY <1>1, <1>2, <1>4, <2>3
  <2> QED
    BY <1>1, <2>1, <2>2, <2>3
<1>6. l = r
  BY <1>2, <1>4, <1>5, SeqEqual
<1> QED
  BY <1>6 DEF l, m, r

(* t is s without its element c. *)
Without(s, c, t) ==
  /\ c \in DOMAIN s
  /\ Len(t) = Len(s) - 1
  /\ \A i \in 1..(c - 1) : t[i] = s[i]
  /\ \A i \in c..Len(t) : t[i] = s[i + 1]

(* Taking the head away from the second of two sequences. *)
LEMMA HeadGoes ==
  ASSUME NEW S, NEW s \in Seq(S), NEW t \in Seq(S), t # <<>>
  PROVE  /\ Without(s \o t, Len(s) + 1, s \o Tail(t))
         /\ (s \o t)[Len(s) + 1] = Head(t)
<1> DEFINE l == s \o Tail(t)
           r == s \o t
<1>1. /\ Head(t) \in S /\ Head(t) = t[1] /\ Tail(t) \in Seq(S)
      /\ Len(t) \in Nat /\ Len(t) > 0 /\ Len(s) \in Nat
      /\ Len(Tail(t)) = Len(t) - 1
      /\ \A i \in 1..(Len(t) - 1) : Tail(t)[i] = t[i + 1]
  BY HeadTailProperties, EmptySeq, LenProperties
<1>2. /\ l \in Seq(S) /\ Len(l) = Len(s) + (Len(t) - 1)
      /\ \A i \in 1..(Len(s) + (Len(t) - 1)) :
           l[i] = IF i <= Len(s) THEN s[i] ELSE Tail(t)[i - Len(s)]
  BY <1>1, ConcatProperties
<1>3. /\ r \in Seq(S) /\ Len(r) = Len(s) + Len(t) /\ DOMAIN r = 1..Len(r)
      /\ \A i \in 1..(Len(s) + Len(t)) : r[i] = IF i <= Len(s) THEN s[i] ELSE t[i - Len(s)]
  BY <1>1, ConcatProperties, LenProperties
<1> HIDE DEF l, r
<1>4. ASSUME NEW i \in 1..Len(s) PROVE l[i] = r[i]
  <2>1. i \in 1..(Len(s) + Len(t)) /\ i \in 1..(Len(s) + (Len(t) - 1)) /\ i <= Len(s)
    BY <1>1
  <2> QED
    BY <1>2, <1>3, <2>1
<1>5. ASSUME NEW i \in (Len(s) + 1)..Len(l) PROVE l[i] = r[i + 1]
  <2>1. /\ i - Len(s) \in 1..(Len(t) - 1) /\ (i - Len(s)) + 1 = (i + 1) - Len(s)
        /\ i \in 1..(Len(s) + (Len(t) - 1)) /\ i + 1 \in 1..(Len(s) + Len(t))
        /\ ~(i <= Len(s)) /\ ~(i + 1 <= Len(s))
    BY <1>1, <1>2
  <2> QED
    BY <1>1, <1>2, <1>3, <2>1
<1>6. r[Len(s) + 1] = t[1] /\ Len(s) + 1 \in DOMAIN r
  BY <1>1, <1>3
<1>7. Without(r, Len(s) + 1, l)
  BY <1>1, <1>2, <1>3, <1>4, <1>5, <1>6 DEF Without
<1> QED
  BY <1>1, <1>6, <1>7 DEF l, r
(* What follows the element makes no difference. *)
LEMMA RestFollows ==
  ASSUME NEW S, NEW s \in Seq(S), NEW t \in Seq(S), NEW u \in Seq(S), NEW c \in Nat,
         Without(s, c, t)
  PROVE  Without(s \o u, c, t \o u) /\ (s \o u)[c] = s[c]
<1> DEFINE l == t \o u
           r == s \o u
<1>1. /\ Len(s) \in Nat /\ Len(t) \in Nat /\ Len(u) \in Nat /\ Len(t) = Len(s) - 1
      /\ c >= 1 /\ c <= Len(s)
      /\ \A i \in 1..(c - 1) : t[i] = s[i]
      /\ \A i \in c..Len(t) : t[i] = s[i + 1]
  BY LenProperties DEF Without
<1>2. /\ Len(l) = Len(t) + Len(u)
      /\ \A i \in 1..(Len(t) + Len(u)) : l[i] = IF i <= Len(t) THEN t[i] ELSE u[i - Len(t)]
  BY ConcatProperties
<1>3. /\ Len(r) = Len(s) + Len(u) /\ DOMAIN r = 1..Len(r)
      /\ \A i \in 1..(Len(s) + Len(u)) : r[i] = IF i <= Len(s) THEN s[i] ELSE u[i - Len(s)]
  BY ConcatProperties, LenProperties
<1> HIDE DEF l, r
<1>4. ASSUME NEW i \in 1..(c - 1) PROVE l[i] = r[i]
  <2>1. /\ i \in 1..(Len(t) + Len(u)) /\ i <= Len(t)
        /\ i \in 1..(Len(s) + Len(u)) /\ i <= Len(s)
    BY <1>1
  <2> QED
    BY <1>1, <1>2, <1>3, <2>1
<1>5. ASSUME NEW i \in c..(Len(t) + Len(u)) PROVE l[i] = r[i + 1]
  <2>1. i \in 1..(Len(t) + Len(u)) /\ i + 1 \in 1..(Len(s) + Len(u))
    BY <1>1
  <2>2. CASE i <= Len(t)
    BY <1>1, <1>2, <1>3, <2>1, <2>2
  <2>3. CASE i > Len(t)
    <3>1. ~(i <= Len(t)) /\ ~(i + 1 <= Len(s)) /\ (i + 1) - Len(s) = i - Len(t)
      BY <1>1, <2>3
    <3> QED
      BY <1>2, <1>3, <2>1, <3>1
  <2> QED
    BY <1>1, <2>2, <2>3
<1>6. c \in 1..(Len(s) + Len(u)) /\ r[c] = s[c]
  BY <1>1, <1>3
<1>7. Without(r, c, l)
  BY <1>1, <1>2, <1>3, <1>4, <1>5, <1>6 DEF Without
<1> QED
  BY <1>6, <1>7 DEF l, r

(* All that was accepted and not lost is a sequence of items. *)
LEMMA LineIsASeq ==
  ASSUME WriterTypeOK
  PROVE  /\ Line \in Seq(Items) /\ Len(Line) \in Nat
         /\ DOMAIN Line = 1..Len(Line)
         /\ Lined \subseteq Items
         /\ \A i \in DOMAIN Line : Line[i] \in Lined
<1>1. Line \in Seq(Items)
  BY ConcatProperties DEF Line, WriterTypeOK, Items
<1> QED
  BY <1>1, LenProperties, ElementOfSeq DEF Lined

(* A step leaves the line of items alone, adds one at its end, or drops one *)
(* whose write failed: TakeItem and a write that succeeds move an item from  *)
(* one sequence to the next, and the line does not see it.                   *)
LEMMA LineMoves ==
  ASSUME WriterTypeOK, WriterTypeOK', Batched, WriterNext
  PROVE  \/ UNCHANGED <<Line, failed>>
         \/ /\ \E p \in Producers :
                  TrySend(p) /\ item[p] # 0 /\ Line' = Append(Line, item[p])
            /\ UNCHANGED failed
         \/ \E c \in DOMAIN Line :
              Without(Line, c, Line') /\ failed' = failed \cup {Line[c]} /\ WriteOne
<1>1. ASSUME NEW p \in Producers, TrySend(p)
      PROVE  \/ UNCHANGED <<Line, failed>>
             \/ item[p] # 0 /\ Line' = Append(Line, item[p]) /\ UNCHANGED failed
  <2>1. CASE UNCHANGED queue
    BY <1>1, <2>1 DEF TrySend, Line, workVars
  <2>2. CASE queue' = Append(queue, item[p])
    <3>1. /\ item[p] \in Items /\ item[p] # 0
          /\ output \o pending \in Seq(Items) /\ queue \in Seq(Items)
      BY <1>1, ConcatProperties DEF TrySend, WriterTypeOK, Items
    <3>2. (output \o pending) \o Append(queue, item[p])
            = Append((output \o pending) \o queue, item[p])
      BY <3>1, AppendMoves
    <3> QED
      BY <1>1, <2>2, <3>1, <3>2 DEF TrySend, Line, workVars
  <2> QED
    BY <1>1, <2>1, <2>2 DEF TrySend
<1>2. CASE TakeItem
  <2>1. /\ output \in Seq(Items) /\ pending \in Seq(Items) /\ queue \in Seq(Items)
        /\ queue # <<>>
    BY <1>2 DEF WriterTypeOK, TakeItem, Items
  <2>2. Append(pending, Head(queue)) \o Tail(queue) = pending \o queue
    BY <2>1, HeadMoves
  <2>3. Head(queue) \in Items /\ Tail(queue) \in Seq(Items)
    BY <2>1, HeadTailProperties
  <2>4. Append(pending, Head(queue)) \in Seq(Items)
    BY <2>1, <2>3, AppendProperties
  <2>5. PICK batch \in Seq(Items) : batch = Append(pending, Head(queue))
    BY <2>4
  <2>6. (output \o pending) \o queue = output \o (pending \o queue)
    BY <2>1, ConcatAssociative
  <2>7. (output \o batch) \o Tail(queue) = output \o (batch \o Tail(queue))
    BY <2>1, <2>3, ConcatAssociative
  <2>8. Line' = (output \o Append(pending, Head(queue))) \o Tail(queue)
    BY <1>2 DEF TakeItem, Line
  <2>9. UNCHANGED failed
    BY <1>2 DEF TakeItem
  <2> QED
    BY <2>2, <2>5, <2>8, <2>9, <2>6, <2>7 DEF Line
<1>3. CASE WriteOne
  <2>1. /\ output \in Seq(Items) /\ pending \in Seq(Items) /\ queue \in Seq(Items)
        /\ pending # <<>>
    BY <1>3 DEF WriterTypeOK, WriteOne, Batched, Items
  <2>2. CASE output' = Append(output, Head(pending)) /\ UNCHANGED failed
    <3>1. Append(output, Head(pending)) \o Tail(pending) = output \o pending
      BY <2>1, HeadMoves
    <3> QED
      BY <1>3, <2>2, <3>1 DEF WriteOne, Line, queueVars
  <2>3. CASE failed' = failed \cup {Head(pending)} /\ UNCHANGED output
    <3>1. Head(pending) \in Items /\ Tail(pending) \in Seq(Items)
      BY <2>1, HeadTailProperties
    <3>2. /\ Without(output \o pending, Len(output) + 1, output \o Tail(pending))
          /\ (output \o pending)[Len(output) + 1] = Head(pending)
      BY <2>1, HeadGoes
    <3>3. output \o pending \in Seq(Items) /\ output \o Tail(pending) \in Seq(Items)
      BY <2>1, <3>1, ConcatProperties
    <3>4. PICK c \in Nat : c = Len(output) + 1
      BY <2>1, LenProperties
    <3>5. PICK s \in Seq(Items) : s = output \o pending
      BY <3>3
    <3>6. PICK t \in Seq(Items) : t = output \o Tail(pending)
      BY <3>3
    <3>7. Without(s, c, t) /\ s[c] = Head(pending)
      BY <3>2, <3>4, <3>5, <3>6
    <3>8. Without(s \o queue, c, t \o queue) /\ (s \o queue)[c] = Head(pending)
      BY <2>1, <3>7, RestFollows
    <3>9. Line' = (output \o Tail(pending)) \o queue
      BY <1>3, <2>3 DEF WriteOne, Line, queueVars
    <3>10. Without(Line, c, Line') /\ Line[c] = Head(pending)
      BY <3>8, <3>9, <3>5, <3>6 DEF Line
    <3> QED
      BY <1>3, <2>3, <3>10 DEF Without
  <2> QED
    BY <1>3, <2>2, <2>3 DEF WriteOne
<1>4. CASE \/ \E p \in Producers : CheckClosed(p)
           \/ Close \/ Flush \/ WorkerEnds
  <2>1. UNCHANGED <<queue, pending, output, failed>>
    BY <1>4
       DEF CheckClosed, Close, SwapClosed, CloseChannel, CloseReturns, Flush,
           WorkerEnds, queueVars, workVars
  <2> QED
    BY <2>1 DEF Line
<1> QED
  BY <1>1, <1>2, <1>3, <1>4 DEF WriterNext, Work

(* The members of a sequence, and that none is in it twice. *)
Entries(s) == {s[i] : i \in DOMAIN s}
Distinct(s) == \A i, j \in DOMAIN s : s[i] = s[j] => i = j

(* A sequence without repetitions has none when one element is taken out, *)
(* nor when one is appended that it does not have.                        *)
LEMMA WithoutIsInjective ==
  ASSUME NEW S, NEW s \in Seq(S), NEW t \in Seq(S), NEW c \in DOMAIN s, Without(s, c, t),
         Distinct(s)
  PROVE  Distinct(t) /\ Entries(t) = Entries(s) \ {s[c]}
<1> DEFINE from(i) == IF i < c THEN i ELSE i + 1
<1>1. /\ DOMAIN s = 1..Len(s) /\ DOMAIN t = 1..Len(t) /\ Len(t) = Len(s) - 1
      /\ Len(s) \in Nat /\ c \in 1..Len(s)
  BY LenProperties DEF Without
<1>2. \A i \in DOMAIN t : from(i) \in (DOMAIN s) \ {c} /\ t[i] = s[from(i)]
  BY <1>1 DEF Without
<1>3. \A i, j \in DOMAIN t : from(i) = from(j) => i = j
  BY <1>1
<1>4. \A k \in (DOMAIN s) \ {c} : \E i \in DOMAIN t : from(i) = k
  <2> SUFFICES ASSUME NEW k \in (DOMAIN s) \ {c} PROVE \E i \in DOMAIN t : from(i) = k
    OBVIOUS
  <2>1. CASE k < c
    BY <1>1, <2>1
  <2>2. CASE k > c
    <3>1. k - 1 \in DOMAIN t /\ from(k - 1) = k
      BY <1>1, <2>2
    <3> QED
      BY <3>1
  <2> QED
    BY <1>1, <2>1, <2>2
<1> HIDE DEF from
<1>5. Distinct(t)
  BY <1>2, <1>3 DEF Distinct
<1>6. \A e : e \in Entries(t) => e \in Entries(s) \ {s[c]}
  BY <1>2 DEF Entries, Distinct
<1>7. \A e : e \in Entries(s) \ {s[c]} => e \in Entries(t)
  BY <1>2, <1>4 DEF Entries
<1> QED
  BY <1>5, <1>6, <1>7

(* Appending a new member keeps a sequence free of doubles. *)
LEMMA AppendIsInjective ==
  ASSUME NEW S, NEW s \in Seq(S), NEW e \in S, NEW t, t = Append(s, e),
         Distinct(s), e \notin Entries(s)
  PROVE  Distinct(t) /\ Entries(t) = Entries(s) \cup {e}
<1>1. /\ DOMAIN s = 1..Len(s) /\ DOMAIN t = 1..(Len(s) + 1) /\ Len(s) \in Nat
      /\ \A i \in 1..Len(s) : t[i] = s[i]
      /\ t[Len(s) + 1] = e
  BY LenProperties, AppendProperties
<1>2. \A i \in DOMAIN t : i \in DOMAIN s \/ i = Len(s) + 1
  BY <1>1
<1>3. Distinct(t)
  BY <1>1, <1>2 DEF Distinct, Entries
<1>4. Entries(t) = Entries(s) \cup {e}
  BY <1>1, <1>2 DEF Entries
<1> QED
  BY <1>3, <1>4

(* The writer starts empty. *)
LEMMA WriterInitially == WriterInit => WriterInv
<1> SUFFICES ASSUME WriterInit PROVE WriterInv
  OBVIOUS
<1>1. Line = <<>> /\ DOMAIN Line = {} /\ Lined = {}
  BY DEF WriterInit, Line, Lined
<1>2. WriterTypeOK
  <2>1. <<>> \in Seq(1..MaxItems) /\ Len(<<>>) = 0
    BY EmptySeq
  <2>2. /\ queue \in Seq(1..MaxItems) /\ Len(queue) <= Capacity
        /\ pending \in Seq(1..MaxItems) /\ Len(pending) <= Batch
        /\ output \in Seq(1..MaxItems)
    BY <2>1, CapacityAssumption, BatchAssumption DEF WriterInit
  <2>3. calls \in 0..MaxItems /\ item \in [Producers -> 0..MaxItems]
    BY MaxItemsAssumption DEF WriterInit
  <2> QED
    BY <2>2, <2>3 DEF WriterInit, WriterTypeOK
<1>3. Batched /\ Drained /\ ReturnedIsDone
  BY BatchAssumption DEF WriterInit, Batched, Drained, ReturnedIsDone
<1>4. Numbered
  BY <1>1 DEF WriterInit, Numbered
<1>5. OnePlacePerItem
  BY <1>1 DEF WriterInit, OnePlacePerItem, InFlight
<1> QED
  BY <1>2, <1>3, <1>4, <1>5 DEF WriterInv

(* What Append returns. *)
LEMMA AppendGrows ==
  ASSUME NEW S, NEW s \in Seq(S), NEW e \in S
  PROVE  /\ Append(s, e) \in Seq(S)
         /\ Len(Append(s, e)) = Len(s) + 1 /\ Len(s) \in Nat
         /\ Append(s, e) # <<>>
  BY AppendProperties, LenProperties

(* The channel and the batch never outgrow their bounds. *)
LEMMA WriterTypesStay ==
  ASSUME WriterTypeOK, Batched, WriterNext
  PROVE  WriterTypeOK' /\ Batched'
<1> USE MaxItemsAssumption, CapacityAssumption, BatchAssumption
    DEF WriterTypeOK, Batched, queueVars, workVars
<1>1. ASSUME NEW p \in Producers, CheckClosed(p)
      PROVE  WriterTypeOK' /\ Batched'
  BY <1>1 DEF CheckClosed
<1>2. ASSUME NEW p \in Producers, TrySend(p)
      PROVE  WriterTypeOK' /\ Batched'
  <2>1. item[p] \in 1..MaxItems
    BY <1>2 DEF TrySend
  <2>2. queue' \in Seq(1..MaxItems) /\ Len(queue') <= Capacity
    <3>1. CASE open /\ Len(queue) < Capacity /\ queue' = Append(queue, item[p])
      <4>1. /\ Append(queue, item[p]) \in Seq(1..MaxItems)
            /\ Len(Append(queue, item[p])) = Len(queue) + 1 /\ Len(queue) \in Nat
        BY <2>1, AppendProperties, LenProperties
      <4> QED
        BY <3>1, <4>1
    <3>2. CASE UNCHANGED queue
      BY <3>2
    <3> QED
      BY <1>2, <3>1, <3>2 DEF TrySend
  <2>3. item' \in [Producers -> 0..MaxItems]
    BY <1>2, <2>1 DEF TrySend
  <2>4. dropped' \subseteq 1..MaxItems /\ panicked' \in BOOLEAN
    BY <1>2, <2>1 DEF TrySend
  <2> QED
    BY <1>2, <2>2, <2>3, <2>4 DEF TrySend
<1>3. CASE Close
  BY <1>3 DEF Close, SwapClosed, CloseChannel, CloseReturns
<1>4. CASE TakeItem
  <2>1. /\ Head(queue) \in 1..MaxItems /\ Tail(queue) \in Seq(1..MaxItems)
        /\ Len(Tail(queue)) = Len(queue) - 1 /\ Len(queue) \in Nat
    BY <1>4, HeadTailProperties, LenProperties DEF TakeItem
  <2>2. /\ Append(pending, Head(queue)) \in Seq(1..MaxItems)
        /\ Len(Append(pending, Head(queue))) = Len(pending) + 1 /\ Len(pending) \in Nat
        /\ Append(pending, Head(queue)) # <<>>
    BY <2>1, AppendGrows
  <2>3. queue' = Tail(queue) /\ pending' = Append(pending, Head(queue))
    BY <1>4 DEF TakeItem
  <2>4. /\ queue' \in Seq(1..MaxItems) /\ Len(queue') <= Capacity
        /\ pending' \in Seq(1..MaxItems) /\ Len(pending') <= Batch /\ pending' # <<>>
    BY <1>4, <2>1, <2>2, <2>3 DEF TakeItem
  <2>5. worker' = IF Len(pending') >= Batch THEN "flushing" ELSE "receiving"
    BY <1>4 DEF TakeItem
  <2>6. UNCHANGED <<closed, open, dropped, calls, item, panicked, output, failed, closer>>
    BY <1>4 DEF TakeItem
  <2>7. Len(pending') \in Nat
    BY <2>4, LenProperties
  <2>8. Batched'
    BY <2>4, <2>5, <2>7
  <2>9. WriterTypeOK'
    BY <2>4, <2>5, <2>6
  <2> QED
    BY <2>8, <2>9
<1>5. CASE Flush \/ WorkerEnds
  BY <1>5, LenProperties DEF Flush, WorkerEnds
<1>6. CASE WriteOne
  <2>1. /\ Head(pending) \in 1..MaxItems /\ Tail(pending) \in Seq(1..MaxItems)
        /\ Len(Tail(pending)) = Len(pending) - 1 /\ Len(pending) \in Nat
    BY <1>6, HeadTailProperties, LenProperties DEF WriteOne
  <2>2. Append(output, Head(pending)) \in Seq(1..MaxItems)
    BY <2>1, AppendProperties
  <2>3. output' \in Seq(1..MaxItems) /\ failed' \subseteq 1..MaxItems
    BY <1>6, <2>1, <2>2 DEF WriteOne
  <2>4. /\ pending' = Tail(pending)
        /\ worker' = IF pending' = <<>> THEN "receiving" ELSE "flushing"
        /\ UNCHANGED <<closed, open, queue, dropped, calls, item, panicked, closer>>
    BY <1>6 DEF WriteOne
  <2>5. pending' \in Seq(1..MaxItems) /\ Len(pending') < Batch
    BY <2>1, <2>4
  <2>6. /\ worker' \in {"receiving", "flushing"}
        /\ worker' = "flushing" => pending' # <<>>
    BY <2>4
  <2>7. UNCHANGED <<closed, open, queue, dropped, calls, item, panicked, closer>>
    BY <2>4
  <2>8. Len(pending') <= Batch
    <3>1. Len(pending') \in Nat
      BY <2>5, LenProperties
    <3> QED
      BY <2>5, <3>1
  <2>9. pending' \in Seq(1..MaxItems)
    BY <2>5
  <2>10. WriterTypeOK'
    BY <2>3, <2>6, <2>7, <2>8, <2>9 DEF WriterTypeOK
  <2> QED
    BY <2>5, <2>6, <2>10
<1> QED
  BY <1>1, <1>2, <1>3, <1>4, <1>5, <1>6 DEF WriterNext, Work

(* OnePlacePerItem, producer by producer. *)
LEMMA PlacesAre ==
  OnePlacePerItem <=>
    /\ Distinct(Line)
    /\ \A p, q \in Producers : item[p] = item[q] => p = q \/ item[p] = 0
    /\ \A p \in Producers : item[p] # 0 => item[p] \notin Lined \cup failed \cup dropped
    /\ Lined \cap (failed \cup dropped) = {} /\ failed \cap dropped = {}
  BY DEF OnePlacePerItem, InFlight, Distinct

(* A call takes a number nobody has. *)
LEMMA CheckKeepsPlaces ==
  ASSUME WriterInv, UNCHANGED <<Line, failed>>, NEW p \in Producers, CheckClosed(p)
  PROVE  Numbered' /\ OnePlacePerItem'
<1>1. UNCHANGED dropped /\ calls' = calls + 1 /\ calls \in Nat /\ UNCHANGED Lined
  BY DEF CheckClosed, WriterInv, WriterTypeOK, Lined
<1>2. \A q \in Producers : item'[q] = item[q] \/ (q = p /\ item'[q] = calls + 1)
  BY DEF CheckClosed, WriterInv, WriterTypeOK
<1>3. /\ Lined \cup failed \cup dropped \subseteq 1..calls
      /\ \A q \in Producers : item[q] \in 0..calls
  BY DEF WriterInv, Numbered
<1>4. Numbered'
  BY <1>1, <1>2, <1>3 DEF Numbered
<1>5. /\ calls + 1 \notin Lined \cup failed \cup dropped
      /\ \A q \in Producers : item[q] # calls + 1
  BY <1>1, <1>3
<1>6. \A q, r \in Producers : item'[q] = item'[r] => q = r \/ item'[q] = 0
  BY <1>2, <1>5, PlacesAre DEF WriterInv
<1>7. \A q \in Producers : item'[q] # 0 => item'[q] \notin Lined \cup failed \cup dropped
  BY <1>2, <1>5, PlacesAre DEF WriterInv
<1> QED
  BY <1>1, <1>4, <1>6, <1>7, PlacesAre
     DEF WriterInv, OnePlacePerItem, InFlight, Distinct

(* An item goes into the channel, is dropped, or is lost in a panic. *)
LEMMA SendKeepsPlaces ==
  ASSUME WriterInv, NEW p \in Producers, TrySend(p), UNCHANGED failed,
         \/ UNCHANGED Line /\ dropped' \in {dropped, dropped \cup {item[p]}}
         \/ Line' = Append(Line, item[p]) /\ UNCHANGED dropped
  PROVE  Numbered' /\ OnePlacePerItem'
<1>1. /\ item[p] \in 1..calls /\ item[p] \in Items /\ item[p] # 0
      /\ UNCHANGED calls
      /\ \A q \in Producers : item'[q] = IF q = p THEN 0 ELSE item[q]
  BY DEF TrySend, WriterInv, WriterTypeOK, Numbered, Items
<1>2. item[p] \notin Lined \cup failed \cup dropped
  BY <1>1, PlacesAre DEF WriterInv
<1>3. /\ Lined' \in {Lined, Lined \cup {item[p]}}
      /\ dropped' \in {dropped, dropped \cup {item[p]}}
      /\ Lined' = Lined \/ dropped' = dropped
      /\ Distinct(Line)'
  <2>1. /\ Line \in Seq(Items) /\ Distinct(Line)
        /\ Lined = Entries(Line) /\ Lined' = Entries(Line')
    BY LineIsASeq, PlacesAre DEF WriterInv, Lined, Entries
  <2>2. CASE UNCHANGED Line
    BY <2>1, <2>2 DEF Distinct
  <2>3. CASE Line' = Append(Line, item[p]) /\ UNCHANGED dropped
    <3>1. Distinct(Line') /\ Entries(Line') = Entries(Line) \cup {item[p]}
      BY <1>1, <1>2, <2>1, <2>3, AppendIsInjective
    <3> QED
      BY <2>1, <2>3, <3>1 DEF Distinct
  <2> QED
    BY <2>2, <2>3
<1>4. Numbered'
  <2>1. Lined \cup failed \cup dropped \subseteq 1..calls
    BY DEF WriterInv, Numbered
  <2>2. Lined' \cup failed' \cup dropped' \subseteq 1..calls
    BY <1>1, <1>3, <2>1
  <2>3. \A q \in Producers : item'[q] \in 0..calls
    BY <1>1 DEF WriterInv, WriterTypeOK, Numbered
  <2> QED
    BY <1>1, <2>2, <2>3 DEF Numbered
<1>5. \A q, r \in Producers : item'[q] = item'[r] => q = r \/ item'[q] = 0
  BY <1>1, PlacesAre DEF WriterInv
<1>6. \A q \in Producers : item'[q] # 0 => item'[q] \notin Lined' \cup failed \cup dropped'
  BY <1>1, <1>3, PlacesAre DEF WriterInv
<1>7. Lined' \cap (failed \cup dropped') = {} /\ failed \cap dropped' = {}
  BY <1>2, <1>3, PlacesAre DEF WriterInv
<1> QED
  BY <1>3, <1>4, <1>5, <1>6, <1>7 DEF OnePlacePerItem, InFlight, Distinct

(* A failed write takes one item out of the line. *)
LEMMA LossKeepsPlaces ==
  ASSUME WriterInv, WriterTypeOK', NEW c \in DOMAIN Line, Without(Line, c, Line'),
         failed' = failed \cup {Line[c]}, UNCHANGED <<calls, item, dropped>>
  PROVE  Numbered' /\ OnePlacePerItem'
<1>1. Distinct(Line)' /\ Lined' = Lined \ {Line[c]} /\ Line[c] \in Lined
  <2>1. /\ Line \in Seq(Items) /\ Line[c] \in Lined /\ Distinct(Line)
        /\ Lined = Entries(Line) /\ Lined' = Entries(Line')
    BY LineIsASeq, PlacesAre DEF WriterInv, Lined, Entries
  <2>2. output' \in Seq(Items) /\ pending' \in Seq(Items) /\ queue' \in Seq(Items)
    BY DEF WriterTypeOK, Items
  <2>3. Line' \in Seq(Items)
    BY <2>2, ConcatProperties DEF Line
  <2>4. Distinct(Line') /\ Entries(Line') = Entries(Line) \ {Line[c]}
    BY <2>1, <2>3, WithoutIsInjective
  <2> QED
    BY <2>1, <2>4 DEF Distinct
<1>2. Numbered'
  BY <1>1 DEF WriterInv, Numbered
<1>3. /\ Lined' \cap (failed' \cup dropped) = {} /\ failed' \cap dropped = {}
      /\ \A p \in Producers : item[p] # 0 => item[p] \notin Lined' \cup failed' \cup dropped
  BY <1>1, PlacesAre DEF WriterInv
<1> QED
  BY <1>1, <1>2, <1>3, PlacesAre DEF WriterInv, OnePlacePerItem, InFlight, Distinct

(* Every step of the writer leaves each item in at most one place. *)
LEMMA PlacesStay ==
  ASSUME WriterInv, WriterTypeOK', WriterNext
  PROVE  Numbered' /\ OnePlacePerItem'
<1>1. CASE UNCHANGED <<Line, failed>>
  <2>1. ASSUME NEW p \in Producers, CheckClosed(p) PROVE Numbered' /\ OnePlacePerItem'
    BY <1>1, <2>1, CheckKeepsPlaces
  <2>2. ASSUME NEW p \in Producers, TrySend(p) PROVE Numbered' /\ OnePlacePerItem'
    <3>1. dropped' \in {dropped, dropped \cup {item[p]}}
      BY <2>2 DEF TrySend
    <3> QED
      BY <1>1, <2>2, <3>1, SendKeepsPlaces
  <2>3. CASE Close \/ Work
    <3>1. UNCHANGED <<calls, item, dropped>>
      BY <2>3
         DEF Close, SwapClosed, CloseChannel, CloseReturns, Work, TakeItem, Flush,
             WriteOne, WorkerEnds, queueVars
    <3>2. UNCHANGED Lined
      BY <1>1 DEF Lined
    <3> QED
      BY <1>1, <3>1, <3>2 DEF WriterInv, Numbered, OnePlacePerItem, InFlight
  <2> QED
    BY <2>1, <2>2, <2>3 DEF WriterNext
<1>2. ASSUME NEW p \in Producers, TrySend(p), item[p] # 0, Line' = Append(Line, item[p]),
             UNCHANGED failed
      PROVE  Numbered' /\ OnePlacePerItem'
  <2>1. UNCHANGED dropped
    <3>1. Line' # Line
      BY <1>2, LineIsASeq, AppendProperties DEF WriterInv, WriterTypeOK, Items
    <3> QED
      BY <1>2, <3>1 DEF TrySend, Line, workVars
  <2> QED
    BY <1>2, <2>1, SendKeepsPlaces
<1>3. ASSUME NEW c \in DOMAIN Line, Without(Line, c, Line'),
             failed' = failed \cup {Line[c]}, WriteOne
      PROVE  Numbered' /\ OnePlacePerItem'
  <2>1. UNCHANGED <<calls, item, dropped>>
    BY <1>3 DEF WriteOne, queueVars
  <2> QED
    BY <1>3, <2>1, LossKeepsPlaces
<1> QED
  BY <1>1, <1>2, <1>3, LineMoves DEF WriterInv

(* The worker is done only when nothing is left, and Close waits for it. *)
LEMMA DrainedStays ==
  ASSUME WriterInv, WriterNext
  PROVE  Drained' /\ ReturnedIsDone'
<1>1. /\ worker = "done" => ~open /\ queue = <<>> /\ pending = <<>>
      /\ closer = "returned" => worker = "done"
      /\ closer \in {"before", "swapped", "waiting", "returned"}
  BY DEF WriterInv, Drained, ReturnedIsDone, WriterTypeOK
<1>2. ASSUME NEW p \in Producers, CheckClosed(p) \/ TrySend(p)
      PROVE  Drained' /\ ReturnedIsDone'
  BY <1>1, <1>2 DEF CheckClosed, TrySend, workVars, Drained, ReturnedIsDone
<1>3. CASE Close
  BY <1>1, <1>3
     DEF Close, SwapClosed, CloseChannel, CloseReturns, queueVars, workVars, Drained,
         ReturnedIsDone
<1>4. CASE Work
  BY <1>1, <1>4
     DEF Work, TakeItem, Flush, WriteOne, WorkerEnds, queueVars, Drained, ReturnedIsDone
<1> QED
  BY <1>2, <1>3, <1>4 DEF WriterNext

(* The invariant depends on the writer's variables only. *)
LEMMA WriterStuttering ==
  ASSUME WriterInv, UNCHANGED writerVars
  PROVE  WriterInv'
<1>1. /\ UNCHANGED <<closed, open, queue, dropped, calls, item, panicked>>
      /\ UNCHANGED <<pending, output, failed, worker>>
      /\ UNCHANGED closer
  BY DEF writerVars, queueVars, workVars
<1>2. UNCHANGED <<Line, Lined, InFlight>>
  BY <1>1 DEF Line, Lined, InFlight
<1>3. WriterTypeOK' /\ Batched' /\ Drained' /\ ReturnedIsDone'
  BY <1>1 DEF WriterInv, WriterTypeOK, Batched, Drained, ReturnedIsDone
<1>4. Numbered' /\ OnePlacePerItem'
  BY <1>1, <1>2 DEF WriterInv, Numbered, OnePlacePerItem
<1> QED
  BY <1>3, <1>4 DEF WriterInv

(* The writer's invariant holds in every behaviour. *)
THEOREM WriterInvariance == WriterSafeSpec => []WriterInv
<1>1. WriterInit => WriterInv
  BY WriterInitially
<1>2. WriterInv /\ [WriterNext]_writerVars => WriterInv'
  <2>1. ASSUME WriterInv, WriterNext PROVE WriterInv'
    <3>1. WriterTypeOK' /\ Batched'
      BY <2>1, WriterTypesStay DEF WriterInv
    <3>2. Drained' /\ ReturnedIsDone'
      BY <2>1, DrainedStays
    <3>3. Numbered' /\ OnePlacePerItem'
      BY <2>1, <3>1, PlacesStay
    <3> QED
      BY <3>1, <3>2, <3>3 DEF WriterInv
  <2> QED
    BY <2>1, WriterStuttering
<1> QED
  BY <1>1, <1>2, PTL DEF WriterSafeSpec

(* The channel holds at most Capacity items and a batch at most Batch. *)
THEOREM WriterTypeCorrectness == WriterSafeSpec => []WriterTypeOK
<1>1. WriterInv => WriterTypeOK
  BY DEF WriterInv
<1> QED
  BY <1>1, WriterInvariance, PTL

(* When Close returns, everything the channel accepted was written or its write *)
(* failed: Close's wait for the worker is enough.                              *)
THEOREM CloseLeavesNothing == WriterSafeSpec => []CloseDrains
<1>1. WriterInv => CloseDrains
  <2> SUFFICES ASSUME WriterInv, closer = "returned" PROVE Held = {}
    BY DEF CloseDrains
  <2>1. queue = <<>> /\ pending = <<>>
    BY DEF WriterInv, ReturnedIsDone, Drained
  <2>2. DOMAIN queue = {} /\ DOMAIN pending = {}
    BY <2>1, EmptySeq
  <2> QED
    BY <2>2 DEF Held
<1> QED
  BY <1>1, WriterInvariance, PTL

(* An item is never in two places: not written twice, and not both dropped and *)
(* written, whatever producers, worker and Close do in between.                *)
THEOREM ItemsHaveOnePlace == WriterSafeSpec => []OnePlacePerItem
<1>1. WriterInv => OnePlacePerItem
  BY DEF WriterInv
<1> QED
  BY <1>1, WriterInvariance, PTL

(* An item stays behind those it was behind, unless their writes fail. *)
LEMMA LineKeepsOrder ==
  ASSUME WriterInv, WriterInv', WriterNext
  PROVE  \A i \in DOMAIN Line : KeepsPlace(i)
<1> SUFFICES ASSUME NEW i \in DOMAIN Line PROVE KeepsPlace(i)
  OBVIOUS
<1>1. /\ Line \in Seq(Items) /\ Line' \in Seq(Items)
      /\ DOMAIN Line = 1..Len(Line) /\ DOMAIN Line' = 1..Len(Line')
      /\ Len(Line) \in Nat /\ Len(Line') \in Nat
  <2>1. Line \in Seq(Items) /\ Line' \in Seq(Items)
    BY ConcatProperties DEF Line, WriterInv, WriterTypeOK, Items
  <2> QED
    BY <2>1, LenProperties
<1>2. CASE UNCHANGED Line
  BY <1>1, <1>2 DEF KeepsPlace
<1>3. ASSUME NEW p \in Producers, item[p] # 0, Line' = Append(Line, item[p])
      PROVE  KeepsPlace(i)
  <2>1. item[p] \in Items
    BY <1>3 DEF WriterInv, WriterTypeOK, Items
  <2>2. Len(Line') = Len(Line) + 1 /\ \A j \in 1..Len(Line) : Line'[j] = Line[j]
    BY <1>1, <1>3, <2>1, AppendProperties
  <2> QED
    BY <1>1, <2>2 DEF KeepsPlace
<1>4. ASSUME NEW c \in DOMAIN Line, Without(Line, c, Line'), failed' = failed \cup {Line[c]}
      PROVE  KeepsPlace(i)
  <2>1. /\ Len(Line') = Len(Line) - 1 /\ c \in 1..Len(Line)
        /\ \A j \in 1..(c - 1) : Line'[j] = Line[j]
        /\ \A j \in c..Len(Line') : Line'[j] = Line[j + 1]
        /\ Line[c] \in failed'
    BY <1>1, <1>4 DEF Without
  <2>2. CASE i = c
    BY <2>1, <2>2 DEF KeepsPlace
  <2>3. CASE i < c
    <3>1. /\ i \in DOMAIN Line' /\ Line'[i] = Line[i]
          /\ \A j \in 1..(i - 1) : Line'[j] = Line[j]
      BY <1>1, <2>1, <2>3
    <3> QED
      BY <3>1 DEF KeepsPlace
  <2>4. CASE i > c
    <3>1. i - 1 \in DOMAIN Line' /\ Line'[i - 1] = Line[i]
      <4>1. i - 1 \in c..Len(Line') /\ (i - 1) + 1 = i /\ i - 1 \in DOMAIN Line'
        BY <1>1, <2>1, <2>4
      <4> QED
        BY <2>1, <4>1
    <3>2. ASSUME NEW j \in 1..(i - 1)
          PROVE  Line[j] \in failed' \/ \E l \in 1..((i - 1) - 1) : Line'[l] = Line[j]
      <4>1. CASE j = c
        BY <2>1, <4>1
      <4>2. CASE j < c
        <5>1. j \in 1..((i - 1) - 1) /\ Line'[j] = Line[j]
          BY <1>1, <2>1, <2>4, <4>2
        <5> QED
          BY <5>1
      <4>3. CASE j > c
        <5>1. /\ j - 1 \in 1..((i - 1) - 1) /\ j - 1 \in c..Len(Line') /\ (j - 1) + 1 = j
          BY <1>1, <2>1, <2>4, <4>3
        <5>2. Line'[j - 1] = Line[j]
          BY <2>1, <5>1
        <5> QED
          BY <5>1, <5>2
      <4> QED
        BY <1>1, <2>1, <4>1, <4>2, <4>3
    <3> QED
      BY <3>1, <3>2 DEF KeepsPlace
  <2> QED
    BY <1>1, <2>1, <2>2, <2>3, <2>4
<1> QED
  BY <1>2, <1>3, <1>4, LineMoves DEF WriterInv

(* Items are written in the order the channel accepted them, for any number of *)
(* producers: no step of any of them lets one overtake another.                *)
THEOREM OrderIsKept == WriterSafeSpec => KeepsOrder
<1>1. /\ WriterInv /\ WriterInv'
      /\ [WriterNext]_writerVars
      => [\A i \in DOMAIN Line : KeepsPlace(i)]_writerVars
  BY LineKeepsOrder
<1> QED
  BY <1>1, WriterInvariance, PTL DEF WriterSafeSpec, KeepsOrder
==============================================================================
