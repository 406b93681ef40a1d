------------------------------ MODULE CallMedia ------------------------------
(***************************************************************************)
(* The media of one call: the script's anchorMedia and playAudio           *)
(* (pkg/script/engine.go, pkg/proxy/proxy.go), the answers that            *)
(* forwardResponse rewrites, the BYE handler (pkg/server/server.go), the   *)
(* dialog timeout (pkg/dialog/dialog.go) and the idle sweeper, on top of   *)
(* MediaRelay and PlaySessions.  An INVITE's handler runs once; a BYE's    *)
(* and a timer's may run again.                                            *)
(*                                                                         *)
(* Two INVITEs of one Call-ID are the normal case: a caller answers a 407  *)
(* with a second one.  Handlers of requests run concurrently.              *)
(***************************************************************************)
EXTENDS MediaRelay

VARIABLES
  playing, mutex, sender, stopped, waiting,  \* of PlaySessions
  at,                                        \* per goroutine: where it is
  overtaken                                  \* history: sessions anchored too late

playVars == <<playing, mutex, sender, stopped, waiting>>

Play == INSTANCE PlaySessions WITH
  PlayInvites <- Invites, Callers <- Invites \cup Byes, NoPlay <- None

vars == <<relayVars, playVars, at, overtaken>>

Init ==
  /\ RelayInit /\ Play!PlayInit
  /\ at = [h \in Handlers |-> "idle"]
  /\ overtaken = {}

TypeOK ==
  /\ RelayTypeOK /\ Play!PlayTypeOK
  /\ at \in [Handlers -> {"idle", "anchors", "routes", "replaces", "plays", "rings",
                          "answers", "unlists", "closes", "cleans", "waits", "sweeps"}]
  /\ overtaken \subseteq Invites

Goes(h, from, to) == at[h] = from /\ at' = [at EXCEPT ![h] = to]

RelayRests == UNCHANGED <<relayVars, overtaken>>
PlayRests == UNCHANGED playVars

(* The sweeper has found s dead and is about to take it out of the map.    *)
BeingSwept(s) == at[Sweeper] = "closes" /\ inHand[Sweeper] = s

------------------------------------------------------------------------------
(* INVITE: the script *)

AnchorStarts(h) ==
  /\ Goes(h, "idle", "anchors")
  /\ GetOrCreate(h)
  /\ PlayRests /\ UNCHANGED overtaken

(* Nothing is locked since GetOrCreate: a BYE, a timer or the sweeper may   *)
(* have taken the session out of the map by now.                           *)
AnchorsTooLate(h) == inHand[h] # listed \/ BeingSwept(inHand[h])

(* The error of a failed allocation is logged, and the script goes on.     *)
Anchors(h) ==
  /\ Goes(h, "anchors", "routes")
  /\ \E n \in StreamIds, held \in HeldStreams, good \in 0..MaxStreams :
       AnchorOffer(h, n, held, good)
  /\ overtaken' = overtaken \cup {s \in {inHand[h]} : AnchorsTooLate(h)}
  /\ PlayRests

(* proxy() *)
Forwards(h) ==
  /\ Goes(h, "routes", "rings")
  /\ RelayRests /\ PlayRests

(* playAudio(), with or without anchorMedia() before it *)
PlayOpens(h) ==
  /\ at[h] \in {"idle", "routes"}
  /\ \/ Play!OpenRegisters(h) /\ at' = [at EXCEPT ![h] = "plays"]
     \/ Play!OpenStopsOld(h) /\ at' = [at EXCEPT ![h] = "replaces"]
  /\ RelayRests

PlayReplaces(h) ==
  /\ Goes(h, "replaces", "plays")
  /\ Play!OpenReplaces(h)
  /\ RelayRests

PlayRuns(h) ==
  /\ Play!Starts(h) \/ Play!SenderStops(h) \/ Play!SenderFails(h)
  /\ RelayRests
  /\ UNCHANGED at

------------------------------------------------------------------------------
(* Answers: maybeAnchorAnswer, of every response with a body, in-dialog    *)
(* ones too                                                                *)

AnswerArrives(h) ==
  /\ Goes(h, "rings", "answers")
  /\ Get(h)
  /\ PlayRests /\ UNCHANGED overtaken

AnswerGoesBack(h) ==
  /\ Goes(h, "answers", "rings")
  /\ \/ inHand[h] = None /\ RelayRests
     \/ /\ inHand[h] # None
        /\ \E n \in StreamIds, held \in HeldStreams : AnchorAnswer(h, n, held)
        /\ UNCHANGED overtaken
  /\ PlayRests

------------------------------------------------------------------------------
(* BYE and the dialog timeout *)

(* A call that is played is ended here and nothing more is done. *)
ByePlayed(b) ==
  /\ Goes(b, "idle", "cleans")
  /\ mutex = None /\ playing # None
  /\ RelayRests /\ PlayRests

ByeForwarded(b) ==
  /\ Goes(b, "idle", "unlists")
  /\ mutex = None /\ playing = None
  /\ RelayRests /\ PlayRests

(* Delete, for a BYE or for fireTimeout. *)
Releases(h) ==
  /\ \/ /\ Goes(h, IF h \in Byes THEN "unlists" ELSE "idle", "closes")
        /\ DeleteUnlists(h)
     \/ /\ Goes(h, "closes", IF h \in Byes THEN "cleans" ELSE "idle")
        /\ DeleteCloses(h)
  /\ PlayRests /\ UNCHANGED overtaken

ByeCleans(b) ==
  /\ \/ Goes(b, "cleans", "idle") /\ Play!CleanupFindsNone(b)
     \/ Goes(b, "cleans", "waits") /\ Play!CleanupStops(b)
     \/ Goes(b, "waits", "idle") /\ Play!CleanupReturns(b)
  /\ RelayRests

------------------------------------------------------------------------------
(* The sweeper, the relay goroutines and the clock *)

Sweeps ==
  /\ \/ Goes(Sweeper, "idle", "sweeps") /\ SweepTakes
     \/ /\ SweepCloses
        /\ Goes(Sweeper, "sweeps", IF inHand'[Sweeper] = None THEN "idle" ELSE "closes")
     \/ Goes(Sweeper, "closes", "idle") /\ SweepUnlists
  /\ PlayRests /\ UNCHANGED overtaken

Media(s) ==
  /\ \E i \in StreamIds : RtpArrives(s, i) \/ GoesQuiet(s, i)
  /\ PlayRests
  /\ UNCHANGED <<at, overtaken>>

InviteStep(h) ==
  \/ AnchorStarts(h) \/ Anchors(h) \/ Forwards(h)
  \/ PlayOpens(h) \/ PlayReplaces(h) \/ PlayRuns(h)
  \/ AnswerArrives(h) \/ AnswerGoesBack(h)
  \/ Media(h)

ByeStep(b) == ByePlayed(b) \/ ByeForwarded(b) \/ ByeCleans(b)

Next ==
  \/ \E h \in Invites : InviteStep(h)
  \/ \E b \in Byes : ByeStep(b)
  \/ \E h \in Byes \cup Timers : Releases(h)
  \/ Sweeps

Spec == Init /\ [][Next]_vars

(* What a goroutine does once it runs, it does; requests, answers, packets *)
(* and timeouts come or do not come.  SenderFails is the disk's choice.    *)
Fairness ==
  /\ \A h \in Invites :
       /\ WF_vars(PlayReplaces(h))
       /\ WF_vars(Play!Starts(h) /\ RelayRests /\ UNCHANGED at)
       /\ WF_vars(Play!SenderStops(h) /\ RelayRests /\ UNCHANGED at)
       /\ WF_vars(Anchors(h))
  /\ \A b \in Byes : WF_vars(Releases(b) \/ ByeCleans(b))
  /\ \A t \in Timers : WF_vars(at[t] = "closes" /\ Releases(t))
  /\ WF_vars(Sweeps)

FairSpec == Spec /\ Fairness
------------------------------------------------------------------------------
(* Properties *)

(* Sockets that are bound are sockets somebody will release: an open       *)
(* stream's session is in the map, where BYE, the dialog timeout and the   *)
(* sweeper find it, or is in the hands of one that closes it ("Sockets are *)
(* released on BYE, when the dialog times out (B2BUA path), and when no    *)
(* RTP has been observed", README:113).                                    *)
Reachable(s) ==
  \/ listed = s
  \/ \E h \in Byes \cup Timers : at[h] = "closes" /\ inHand[h] = s

BoundSocketsAreReachable == \A s \in Invites : Open(s) # {} => Reachable(s)

(* The same, of every session that no INVITE anchored too late: whatever   *)
(* BYEs, timers, sweeps and other INVITEs do to it, and in whatever order. *)
RelaysAreReachable == \A s \in Invites \ overtaken : Open(s) # {} => Reachable(s)

(* A stream nobody sends on and nobody holds is released in the end, held  *)
(* or used as it may have been (idleTimeout, README:113), unless its       *)
(* session was anchored too late.                                          *)
IdleRelaysGo ==
  \A s \in Invites, i \in StreamIds :
    <>[](i \in Open(s) => streams[s][i].quiet /\ ~IsOnHold(streams[s][i]))
      => <>[](i \notin Open(s)) \/ <>(s \in overtaken)

(* No goroutine sends audio that the next BYE could not stop               *)
(* (session.go:226-227: "The server's request handler calls                *)
(* CleanupForCallID on BYE").                                              *)
SendersAreListed == Play!SendersAreListed

(* Stop waits for a goroutine that another goroutine starts, under the     *)
(* mutex every BYE needs: it comes back all the same ("Safe to call from   *)
(* any goroutine", session.go:206-207).                                    *)
StopsReturn ==
  \A h \in Invites \cup Byes : (waiting[h] # None) ~> (waiting[h] = None)

(* README:113 says "Sockets are released on BYE": the answer to BYE that   *)
(* releases none is given only when there are none.                        *)
ByeReleasesRelay ==
  [][\A b \in Byes : ByePlayed(b) => \A s \in Invites : Open(s) = {}]_vars

(* README:113 says that c= and m= of the answer "point at relay sockets":  *)
(* at ones that are bound, for each of its streams.                        *)
AnswersNameLiveStreams ==
  [][\A h \in Invites : AnswerGoesBack(h) /\ inHand[h] # None =>
       Open(inHand[h]) # {} /\ Open(inHand[h]) = DOMAIN streams[inHand[h]]]_vars
==============================================================================
