--------------------------- MODULE CallMediaProofs ---------------------------
(***************************************************************************)
(* Proofs about CallMedia: audio that is being sent can always be stopped, *)
(* and sockets that are bound can always be released, unless their session *)
(* was anchored after it had been taken out of the map.                    *)
(***************************************************************************)
EXTENDS CallMedia, TLAPS

USE NoneAssumption, SweeperAssumption, RolesAssumption, MaxStreamsAssumption

------------------------------------------------------------------------------
(* The play sessions.  While Open waits with the mutex held, the session   *)
(* it waits for stays listed and is stopped.                               *)

MutexWaits ==
  mutex # None =>
    /\ mutex \in Invites
    /\ waiting[mutex] = playing /\ playing # None /\ playing \in stopped

PlayInv == Play!PlayTypeOK /\ MutexWaits /\ SendersAreListed

LEMMA PlayInvHoldsAtFirst == Init => PlayInv
  BY DEF Init, Play!PlayInit, PlayInv, Play!PlayTypeOK, MutexWaits, SendersAreListed,
         Play!SendersAreListed

LEMMA PlayRestsKeepsIt == PlayInv /\ PlayRests => PlayInv'
  BY DEF PlayRests, playVars, PlayInv, Play!PlayTypeOK, MutexWaits, SendersAreListed,
         Play!SendersAreListed

LEMMA PlayOpensKeepsIt ==
  ASSUME PlayInv, NEW h \in Invites, PlayOpens(h) \/ PlayReplaces(h)
  PROVE  PlayInv'
<1> USE DEF PlayInv, Play!PlayTypeOK, MutexWaits, SendersAreListed, Play!SendersAreListed
<1>1. CASE Play!OpenRegisters(h)
  BY <1>1 DEF Play!OpenRegisters, Play!Registers
<1>2. CASE Play!OpenStopsOld(h)
  BY <1>2 DEF Play!OpenStopsOld, Play!StopBegins
<1>3. CASE Play!OpenReplaces(h)
  BY <1>3 DEF Play!OpenReplaces, Play!StopEnds, Play!Registers
<1> QED  BY <1>1, <1>2, <1>3 DEF PlayOpens, PlayReplaces

LEMMA PlayRunsKeepsIt ==
  ASSUME PlayInv, NEW h \in Invites, PlayRuns(h)
  PROVE  PlayInv'
<1> USE DEF PlayInv, Play!PlayTypeOK, MutexWaits, SendersAreListed, Play!SendersAreListed
<1>1. CASE Play!Starts(h)
  BY <1>1 DEF Play!Starts
<1>2. CASE sender[h] = "sends" /\ Play!SenderEnds(h)
  BY <1>2 DEF Play!SenderEnds
<1> QED  BY <1>1, <1>2 DEF PlayRuns, Play!SenderStops, Play!SenderFails

LEMMA ByeCleansKeepsIt ==
  ASSUME PlayInv, NEW b \in Byes, ByeCleans(b)
  PROVE  PlayInv'
<1> USE DEF PlayInv, Play!PlayTypeOK, MutexWaits, SendersAreListed, Play!SendersAreListed
<1>1. CASE Play!CleanupFindsNone(b)
  BY <1>1 DEF Play!CleanupFindsNone, Play!playVars
<1>2. CASE Play!CleanupStops(b)
  BY <1>2 DEF Play!CleanupStops, Play!StopBegins
<1>3. CASE Play!CleanupReturns(b)
  BY <1>3 DEF Play!CleanupReturns, Play!StopEnds
<1> QED  BY <1>1, <1>2, <1>3 DEF ByeCleans

LEMMA PlayInvIsKept == PlayInv /\ [Next]_vars => PlayInv'
<1> SUFFICES ASSUME PlayInv, [Next]_vars PROVE PlayInv'
  OBVIOUS
<1>1. ASSUME NEW h \in Invites, InviteStep(h) PROVE PlayInv'
  <2>1. CASE PlayOpens(h) \/ PlayReplaces(h)
    BY <2>1, PlayOpensKeepsIt
  <2>2. CASE PlayRuns(h)
    BY <2>2, PlayRunsKeepsIt
  <2>3. CASE \/ AnchorStarts(h) \/ Anchors(h) \/ Forwards(h)
             \/ AnswerArrives(h) \/ AnswerGoesBack(h) \/ Media(h)
    BY <2>3, PlayRestsKeepsIt
       DEF AnchorStarts, Anchors, Forwards, AnswerArrives, AnswerGoesBack, Media
  <2> QED  BY <1>1, <2>1, <2>2, <2>3 DEF InviteStep
<1>2. ASSUME NEW b \in Byes, ByeStep(b) PROVE PlayInv'
  <2>1. CASE ByeCleans(b)
    BY <2>1, ByeCleansKeepsIt
  <2>2. CASE ByePlayed(b) \/ ByeForwarded(b)
    BY <2>2, PlayRestsKeepsIt DEF ByePlayed, ByeForwarded
  <2> QED  BY <1>2, <2>1, <2>2 DEF ByeStep
<1>3. CASE Sweeps \/ \E h \in Byes \cup Timers : Releases(h)
  BY <1>3, PlayRestsKeepsIt DEF Sweeps, Releases
<1>4. CASE UNCHANGED vars
  BY <1>4, PlayRestsKeepsIt DEF vars, PlayRests
<1> QED  BY <1>1, <1>2, <1>3, <1>4 DEF Next

(* A session whose sender runs, or will run when it has rung, is the one   *)
(* that BYE finds, unless it has been told to stop.                        *)
THEOREM SendersStayListed == Spec => []SendersAreListed
<1>1. PlayInv => SendersAreListed
  BY DEF PlayInv
<1> QED  BY <1>1, PlayInvHoldsAtFirst, PlayInvIsKept, PTL DEF Spec

------------------------------------------------------------------------------
(* The relay sessions.  What is anchored is a session, and one that the    *)
(* sweeper is about to unlist has no socket left, or got one too late.     *)

InviteAt == {"idle", "anchors", "routes", "replaces", "plays", "rings", "answers"}

RelayTypes ==
  /\ RelayTypeOK
  /\ at \in [Handlers -> {"idle", "anchors", "routes", "replaces", "plays", "rings",
                          "answers", "unlists", "closes", "cleans", "waits", "sweeps"}]
  /\ \A h \in Invites : at[h] \in InviteAt
  /\ at[Sweeper] \in {"idle", "sweeps", "closes"}
  /\ overtaken \subseteq Invites

AnchoringHasSession == \A h \in Invites : at[h] = "anchors" => inHand[h] # None

SweptIsDead ==
  at[Sweeper] = "closes" =>
    /\ inHand[Sweeper] # None
    /\ inHand[Sweeper] \notin overtaken => Open(inHand[Sweeper]) = {}

RelayInv == RelayTypes /\ AnchoringHasSession /\ SweptIsDead /\ RelaysAreReachable

LEMMA FunctionsAreSeqs ==
  ASSUME NEW S, NEW n \in Nat, NEW f \in [1..n -> S]
  PROVE  f \in Seq(S) /\ Len(f) = n /\ DOMAIN f = 1..n
  OBVIOUS

LEMMA SeqsAreFunctions ==
  ASSUME NEW S, NEW f \in Seq(S)
  PROVE  Len(f) \in Nat /\ DOMAIN f = 1..Len(f) /\ f \in [1..Len(f) -> S]
  OBVIOUS

LEMMA RelayInvHoldsAtFirst == Init => RelayInv
<1> SUFFICES ASSUME Init PROVE RelayInv
  OBVIOUS
<1>1. <<>> \in Seq(Stream) /\ Len(<<>>) = 0 /\ DOMAIN <<>> = {}
  OBVIOUS
<1>2. RelayTypes
  BY <1>1 DEF Init, RelayInit, RelayTypes, RelayTypeOK, Handlers, InviteAt
<1>3. \A s \in Invites : Open(s) = {}
  BY <1>1 DEF Init, RelayInit, Open
<1> QED
  BY <1>2, <1>3 DEF Init, RelayInit, RelayInv, AnchoringHasSession, SweptIsDead,
                    RelaysAreReachable, Handlers

(* A step of one goroutine that leaves the relay alone and neither begins  *)
(* to anchor nor begins or ends a release.                                 *)
LEMMA OthersKeepIt ==
  ASSUME RelayInv, RelayRests,
         NEW h \in Handlers \ {Sweeper}, NEW to, at' = [at EXCEPT ![h] = to],
         at[h] # "closes",
         to \in {"idle", "routes", "replaces", "plays", "rings", "unlists", "cleans", "waits"},
         h \in Invites => to \in InviteAt \ {"idle"}
  PROVE  RelayInv'
<1> USE DEF RelayInv, RelayRests, relayVars, RelayTypes, RelayTypeOK, Handlers, InviteAt
<1>1. RelayTypes'
  OBVIOUS
<1>2. AnchoringHasSession'
  BY DEF AnchoringHasSession
<1>3. SweptIsDead'
  BY DEF SweptIsDead, Open
<1>4. RelaysAreReachable'
  BY DEF RelaysAreReachable, Reachable, Open
<1> QED  BY <1>1, <1>2, <1>3, <1>4

LEMMA StandsStillKeepsIt == RelayInv /\ RelayRests /\ UNCHANGED at => RelayInv'
  BY DEF RelayInv, RelayRests, relayVars, RelayTypes, RelayTypeOK, AnchoringHasSession,
         SweptIsDead, RelaysAreReachable, Reachable, Open

(* The session handed to the new INVITE may be one that is being swept: it *)
(* has no socket yet.                                                      *)
LEMMA AnchorStartsKeepsIt ==
  ASSUME RelayInv, NEW h \in Invites, AnchorStarts(h)
  PROVE  RelayInv'
<1> USE DEF RelayInv, RelayTypes, RelayTypeOK, Handlers, InviteAt, AnchorStarts, Goes,
            GetOrCreate, Takes
<1>1. RelayTypes'
  OBVIOUS
<1>2. AnchoringHasSession'
  BY DEF AnchoringHasSession
<1>3. SweptIsDead'
  <2>1. /\ at'[Sweeper] = at[Sweeper] /\ inHand'[Sweeper] = inHand[Sweeper]
        /\ streams' = streams /\ overtaken' = overtaken
    OBVIOUS
  <2> QED  BY <2>1 DEF SweptIsDead, Open
<1>4. RelaysAreReachable'
  <2>1. ASSUME NEW s \in Invites, Reachable(s) PROVE Reachable(s)'
    BY <2>1, NoneAssumption DEF Reachable
  <2>2. streams' = streams /\ overtaken' = overtaken
    OBVIOUS
  <2> QED  BY <2>1, <2>2 DEF RelaysAreReachable, Open
<1> QED  BY <1>1, <1>2, <1>3, <1>4

(* The sockets it binds are those of a listed session that nobody is about *)
(* to unlist, or the session is one of overtaken from now on.              *)
LEMMA AnchorsKeepsIt ==
  ASSUME RelayInv, NEW h \in Invites, Anchors(h)
  PROVE  RelayInv'
<1> USE DEF RelayInv, RelayTypes, RelayTypeOK, Handlers, InviteAt, Goes, Drops
<1>1. PICK n \in StreamIds, held \in HeldStreams, good \in 0..MaxStreams : AnchorOffer(h, n, held, good)
  BY DEF Anchors
<1> DEFINE s == inHand[h]
           had == streams[s]
           all == IF good > Len(had) THEN good ELSE Len(had)
           new == [i \in 1..all |->
                     IF i > good THEN had[i]
                     ELSE [(IF i <= Len(had) THEN had[i] ELSE Allocated) EXCEPT !.holdA = i \in held]]
<1>2. s \in Invites /\ at[h] = "anchors"
  BY DEF AnchoringHasSession, Anchors
<1>3. had \in Seq(Stream) /\ Len(had) \in 0..MaxStreams /\ all \in 0..MaxStreams
  BY <1>2
<1>4. new \in [1..all -> Stream]
  <2>1. \A r \in Stream, b \in BOOLEAN : [r EXCEPT !.holdA = b] \in Stream
    BY DEF Stream
  <2>2. Allocated \in Stream
    BY DEF Stream, Allocated
  <2>3. had \in [1..Len(had) -> Stream]
    BY <1>3, SeqsAreFunctions
  <2> DEFINE old(i) == IF i <= Len(had) THEN had[i] ELSE Allocated
             renewed(i) == IF i > good THEN had[i] ELSE [old(i) EXCEPT !.holdA = i \in held]
  <2>4. ASSUME NEW i \in 1..all PROVE renewed(i) \in Stream
    <3>1. CASE i > good
      BY <1>3, <2>3, <3>1
    <3>2. CASE ~(i > good)
      <4>1. old(i) \in Stream
        BY <1>3, <2>2, <2>3
      <4>2. (i \in held) \in BOOLEAN
        OBVIOUS
      <4> QED  BY <2>1, <3>2, <4>1, <4>2, Zenon
    <3> QED  BY <3>1, <3>2
  <2>5. new = [i \in 1..all |-> renewed(i)]
    OBVIOUS
  <2> HIDE DEF renewed, new
  <2> QED  BY <2>4, <2>5
<1> HIDE DEF had, all, new
<1>5. new \in Seq(Stream) /\ Len(new) = all
  BY <1>3, <1>4, FunctionsAreSeqs
<1>6. /\ streams' = [streams EXCEPT ![s] = new]
      /\ inHand' = [inHand EXCEPT ![h] = None]
      /\ listed' = listed /\ at' = [at EXCEPT ![h] = "routes"]
      /\ overtaken' = overtaken \cup {r \in {s} : AnchorsTooLate(h)}
  BY <1>1 DEF Anchors, AnchorOffer, had, all, new
<1> HIDE DEF s
<1>7. RelayTypes'
  BY <1>2, <1>3, <1>5, <1>6
<1>8. AnchoringHasSession'
  BY <1>2, <1>6 DEF AnchoringHasSession
<1>9. \A r \in Invites \ {s} : Open(r)' = Open(r)
  BY <1>2, <1>6 DEF Open
<1>10. SweptIsDead'
  <2> SUFFICES ASSUME at[Sweeper]' = "closes" PROVE SweptIsDead'
    BY DEF SweptIsDead
  <2> DEFINE w == inHand[Sweeper]
  <2>1. at[Sweeper] = "closes" /\ inHand'[Sweeper] = w /\ w \in Invites
    BY <1>2, <1>6 DEF SweptIsDead
  <2>2. CASE w = s
    <3>1. s \in overtaken'
      BY <1>6, <2>1, <2>2 DEF AnchorsTooLate, BeingSwept, s
    <3> QED  BY <2>1, <2>2, <3>1 DEF SweptIsDead
  <2>3. CASE w # s
    <3>1. (Open(inHand[Sweeper]))' = Open(w)
      BY <1>9, <2>1, <2>3 DEF Open
    <3> QED  BY <1>6, <2>1, <3>1 DEF SweptIsDead
  <2> QED  BY <2>2, <2>3
<1>11. RelaysAreReachable'
  <2> SUFFICES ASSUME NEW r \in Invites, r \notin overtaken', Open(r)' # {}
               PROVE  Reachable(r)'
    BY DEF RelaysAreReachable
  <2>1. CASE r = s
    BY <1>6, <2>1 DEF AnchorsTooLate, Reachable, s
  <2>2. CASE r # s
    <3>1. Reachable(r)
      BY <1>6, <1>9, <2>2 DEF RelaysAreReachable
    <3> QED  BY <1>2, <1>6, <3>1 DEF Reachable
  <2> QED  BY <2>1, <2>2
<1> QED  BY <1>7, <1>8, <1>10, <1>11

LEMMA AnswerArrivesKeepsIt ==
  ASSUME RelayInv, NEW h \in Invites, AnswerArrives(h)
  PROVE  RelayInv'
<1> USE DEF RelayInv, RelayTypes, RelayTypeOK, Handlers, InviteAt, AnswerArrives, Goes, Get, Takes
<1>1. RelayTypes'
  OBVIOUS
<1>2. AnchoringHasSession'
  BY DEF AnchoringHasSession
<1>3. SweptIsDead'
  BY DEF SweptIsDead, Open
<1>4. RelaysAreReachable'
  BY DEF RelaysAreReachable, Reachable, Open
<1> QED  BY <1>1, <1>2, <1>3, <1>4

(* Streams of a session change and stay open or closed as they were. *)
LEMMA TouchedStreams ==
  ASSUME RelayTypes, NEW s \in Invites, NEW new \in [DOMAIN streams[s] -> Stream],
         \A i \in DOMAIN streams[s] : new[i].closed = streams[s][i].closed,
         streams' = [streams EXCEPT ![s] = new]
  PROVE  /\ streams' \in [Invites -> Seq(Stream)]
         /\ \A r \in Invites : Len(streams'[r]) <= MaxStreams
         /\ \A r \in Invites : Open(r)' = Open(r)
<1>1. /\ Len(streams[s]) \in Nat /\ DOMAIN streams[s] = 1..Len(streams[s])
      /\ streams[s] \in Seq(Stream) /\ Len(streams[s]) <= MaxStreams
  BY SeqsAreFunctions DEF RelayTypes, RelayTypeOK
<1>2. new \in Seq(Stream) /\ Len(new) = Len(streams[s]) /\ DOMAIN new = DOMAIN streams[s]
  BY <1>1, FunctionsAreSeqs
<1>3. streams' \in [Invites -> Seq(Stream)]
  BY <1>2 DEF RelayTypes, RelayTypeOK
<1>4. \A r \in Invites : Len(streams'[r]) <= MaxStreams
  BY <1>1, <1>2 DEF RelayTypes, RelayTypeOK
<1>5. \A r \in Invites : Open(r)' = Open(r)
  BY <1>2 DEF Open, RelayTypes, RelayTypeOK
<1> QED  BY <1>3, <1>4, <1>5

LEMMA AnswerGoesBackKeepsIt ==
  ASSUME RelayInv, NEW h \in Invites, AnswerGoesBack(h)
  PROVE  RelayInv'
<1>1. CASE RelayRests
  BY <1>1, OthersKeepIt DEF AnswerGoesBack, Goes, Handlers, InviteAt, RelayInv, RelayTypes
<1>2. CASE inHand[h] # None /\ \E n \in StreamIds, held \in HeldStreams : AnchorAnswer(h, n, held)
  <2> USE DEF RelayInv, RelayTypes, RelayTypeOK, Handlers, InviteAt
  <2>1. PICK n \in StreamIds, held \in HeldStreams : AnchorAnswer(h, n, held)
    BY <1>2
  <2> DEFINE s == inHand[h]
             answered(i) == IF i > n THEN streams[s][i]
                            ELSE [streams[s][i] EXCEPT !.holdB = i \in held]
             new == [i \in DOMAIN streams[s] |-> answered(i)]
  <2>2. s \in Invites
    BY <1>2
  <2>3. /\ streams' = [streams EXCEPT ![s] = new]
        /\ inHand' = [inHand EXCEPT ![h] = None]
        /\ listed' = listed /\ at[h] = "answers" /\ at' = [at EXCEPT ![h] = "rings"]
        /\ overtaken' = overtaken
    BY <2>1, <2>2 DEF AnchorAnswer, AnswerGoesBack, Goes, Drops
  <2>4. ASSUME NEW i \in DOMAIN streams[s]
        PROVE  answered(i) \in Stream /\ answered(i).closed = streams[s][i].closed
    <3>1. streams[s] \in Seq(Stream)
      BY <2>2
    <3>2. streams[s][i] \in Stream
      BY <3>1, SeqsAreFunctions
    <3>3. \A r \in Stream, b \in BOOLEAN :
             [r EXCEPT !.holdB = b] \in Stream /\ [r EXCEPT !.holdB = b].closed = r.closed
      BY DEF Stream
    <3>4. (i \in held) \in BOOLEAN
      OBVIOUS
    <3>5. CASE i > n
      BY <3>2, <3>5
    <3>6. CASE ~(i > n)
      BY <3>2, <3>3, <3>4, <3>6, Zenon
    <3> QED  BY <3>5, <3>6
  <2> HIDE DEF answered
  <2>5. new \in [DOMAIN streams[s] -> Stream]
        /\ \A i \in DOMAIN streams[s] : new[i].closed = streams[s][i].closed
    BY <2>4
  <2> HIDE DEF new, s
  <2>6. /\ streams' \in [Invites -> Seq(Stream)]
        /\ \A r \in Invites : Len(streams'[r]) <= MaxStreams
        /\ \A r \in Invites : Open(r)' = Open(r)
    BY <2>2, <2>3, <2>5, TouchedStreams
  <2>7. RelayTypes'
    BY <2>3, <2>6
  <2>8. AnchoringHasSession'
    BY <2>3 DEF AnchoringHasSession
  <2>9. SweptIsDead'
    <3> SUFFICES ASSUME at[Sweeper]' = "closes"
                 PROVE  SweptIsDead'
      BY DEF SweptIsDead
    <3>1. /\ at[Sweeper] = "closes" /\ inHand'[Sweeper] = inHand[Sweeper]
          /\ inHand[Sweeper] \in Invites
      BY <2>3 DEF SweptIsDead
    <3>2. (Open(inHand[Sweeper]))' = Open(inHand[Sweeper])
      BY <2>6, <3>1 DEF Open
    <3> QED  BY <2>3, <3>1, <3>2 DEF SweptIsDead
  <2>10. RelaysAreReachable'
    BY <2>3, <2>6 DEF RelaysAreReachable, Reachable
  <2> QED  BY <2>7, <2>8, <2>9, <2>10
<1> QED  BY <1>1, <1>2 DEF AnswerGoesBack

LEMMA MediaKeepsIt ==
  ASSUME RelayInv, NEW s \in Invites, Media(s)
  PROVE  RelayInv'
<1> USE DEF RelayInv, RelayTypes, RelayTypeOK
<1>1. PICK i \in Open(s), now \in BOOLEAN : streams' = Silent(s, i, now)
  BY DEF Media, RtpArrives, GoesQuiet
<1>2. listed' = listed /\ inHand' = inHand /\ at' = at /\ overtaken' = overtaken
  BY DEF Media, RtpArrives, GoesQuiet
<1> DEFINE new == [streams[s] EXCEPT ![i].quiet = now]
<1>3. streams[s] \in Seq(Stream) /\ i \in DOMAIN streams[s]
  BY DEF Open
<1>4. streams[s] \in [DOMAIN streams[s] -> Stream]
  BY <1>3, SeqsAreFunctions
<1>5. /\ new \in [DOMAIN streams[s] -> Stream]
      /\ \A k \in DOMAIN streams[s] : new[k].closed = streams[s][k].closed
  BY <1>3, <1>4 DEF Stream
<1>6. streams' = [streams EXCEPT ![s] = new]
  BY <1>1 DEF Silent
<1> HIDE DEF new
<1>7. /\ streams' \in [Invites -> Seq(Stream)]
      /\ \A r \in Invites : Len(streams'[r]) <= MaxStreams
      /\ \A r \in Invites : Open(r)' = Open(r)
  BY <1>5, <1>6, TouchedStreams
<1>8. RelayTypes' /\ AnchoringHasSession' /\ RelaysAreReachable'
  BY <1>2, <1>7 DEF AnchoringHasSession, RelaysAreReachable, Reachable
<1>9. SweptIsDead'
  <2>1. at[Sweeper] = "closes" => inHand[Sweeper] \in Invites
    BY DEF SweptIsDead, Handlers
  <2>2. inHand[Sweeper] \in Invites => (Open(inHand[Sweeper]))' = Open(inHand[Sweeper])
    BY <1>2, <1>7 DEF Open
  <2> QED  BY <1>2, <2>1, <2>2 DEF SweptIsDead
<1> QED  BY <1>8, <1>9

(* What Delete has taken out of the map it closes. *)
LEMMA ReleasesKeepsIt ==
  ASSUME RelayInv, NEW h \in Byes \cup Timers, Releases(h)
  PROVE  RelayInv'
<1> USE DEF RelayInv, RelayTypes, RelayTypeOK, Handlers, InviteAt, Goes, Takes, Drops
<1>1. CASE at[h] \in {"idle", "unlists"} /\ DeleteUnlists(h)
  <2>1. /\ inHand' = [inHand EXCEPT ![h] = listed] /\ listed' = None /\ streams' = streams
        /\ at' = [at EXCEPT ![h] = "closes"]
        /\ overtaken' = overtaken
    BY <1>1 DEF DeleteUnlists, Releases
  <2>2. RelayTypes'
    BY <2>1
  <2>3. AnchoringHasSession'
    BY <2>1 DEF AnchoringHasSession
  <2>4. SweptIsDead'
    BY <2>1 DEF SweptIsDead, Open
  <2>5. RelaysAreReachable'
    BY <2>1, <1>1 DEF RelaysAreReachable, Reachable, Open
  <2> QED  BY <2>2, <2>3, <2>4, <2>5
<1>2. CASE at[h] = "closes" /\ DeleteCloses(h)
  <2> DEFINE s == inHand[h]
  <2>1. /\ streams' = IF s = None THEN streams ELSE [streams EXCEPT ![s] = <<>>]
        /\ inHand' = [inHand EXCEPT ![h] = None] /\ listed' = listed
        /\ overtaken' = overtaken
    BY <1>2 DEF DeleteCloses, Releases
  <2>2. at' = [at EXCEPT ![h] = IF h \in Byes THEN "cleans" ELSE "idle"]
    BY <1>2 DEF Releases
  <2>3. <<>> \in Seq(Stream) /\ Len(<<>>) = 0 /\ DOMAIN <<>> = {}
    OBVIOUS
  <2>4. s \in Invites \cup {None}
    OBVIOUS
  <2> HIDE DEF s
  <2>5. RelayTypes'
    BY <2>1, <2>2, <2>3, <2>4
  <2>6. AnchoringHasSession'
    BY <2>1, <2>2 DEF AnchoringHasSession
  <2>7. \A r \in Invites : Open(r)' = IF r = s THEN {} ELSE Open(r)
    BY <2>1, <2>3, <2>4 DEF Open
  <2>8. SweptIsDead'
    <3> SUFFICES ASSUME at[Sweeper]' = "closes" PROVE SweptIsDead'
      BY DEF SweptIsDead
    <3>1. at[Sweeper] = "closes" /\ inHand'[Sweeper] = inHand[Sweeper]
      BY <2>1, <2>2
    <3>2. inHand[Sweeper] \in Invites
      BY <3>1 DEF SweptIsDead
    <3>3. (Open(inHand[Sweeper]))' \subseteq Open(inHand[Sweeper])
      BY <2>7, <3>1, <3>2 DEF Open
    <3> QED  BY <2>1, <3>1, <3>3 DEF SweptIsDead
  <2>9. RelaysAreReachable'
    BY <2>1, <2>2, <2>7 DEF RelaysAreReachable, Reachable, s
  <2> QED  BY <2>5, <2>6, <2>8, <2>9
<1> QED  BY <1>1, <1>2 DEF Releases

LEMMA SweptStreams ==
  ASSUME RelayTypes, NEW s \in Invites, streams' = [streams EXCEPT ![s] = Swept(s)]
  PROVE  /\ streams' \in [Invites -> Seq(Stream)]
         /\ \A r \in Invites : Len(streams'[r]) <= MaxStreams
         /\ Open(s)' = Open(s) \ Idle(s)
         /\ \A r \in Invites \ {s} : Open(r)' = Open(r)
<1> DEFINE n == Len(streams[s])
           swept(i) == IF i \in Idle(s) THEN [streams[s][i] EXCEPT !.closed = TRUE]
                       ELSE streams[s][i]
           new == [i \in DOMAIN streams[s] |-> swept(i)]
<1>1. streams \in [Invites -> Seq(Stream)] /\ \A r \in Invites : Len(streams[r]) <= MaxStreams
  BY DEF RelayTypes, RelayTypeOK
<1>2. n \in Nat /\ n <= MaxStreams /\ DOMAIN streams[s] = 1..n /\ streams[s] \in [1..n -> Stream]
  BY <1>1, SeqsAreFunctions
<1>3. streams' = [streams EXCEPT ![s] = new]
  BY DEF Swept
<1>4. ASSUME NEW i \in 1..n PROVE swept(i) \in Stream
  <2>1. streams[s][i] \in Stream
    BY <1>2
  <2>2. \A r \in Stream : [r EXCEPT !.closed = TRUE] \in Stream
    BY DEF Stream
  <2> QED  BY <2>1, <2>2
<1>5. ASSUME NEW i \in 1..n PROVE swept(i).closed = TRUE <=> (streams[s][i].closed = TRUE \/ i \in Idle(s))
  <2>1. streams[s][i] \in Stream
    BY <1>2
  <2>2. \A r \in Stream : [r EXCEPT !.closed = TRUE].closed = TRUE
    BY DEF Stream
  <2> QED  BY <2>1, <2>2
<1>6. \A i \in 1..n : streams[s][i].closed \in BOOLEAN /\ swept(i).closed \in BOOLEAN
  BY <1>2, <1>4 DEF Stream
<1> HIDE DEF swept, n
<1>7. new \in [1..n -> Stream] /\ \A i \in 1..n : new[i] = swept(i)
  BY <1>2, <1>4
<1> HIDE DEF new
<1>8. new \in Seq(Stream) /\ Len(new) = n /\ DOMAIN new = 1..n
  BY <1>2, <1>7, FunctionsAreSeqs
<1>9. streams' \in [Invites -> Seq(Stream)] /\ \A r \in Invites : Len(streams'[r]) <= MaxStreams
  BY <1>1, <1>2, <1>3, <1>8
<1>10. Open(s)' = Open(s) \ Idle(s)
  <2>1. streams'[s] = new
    BY <1>1, <1>3
  <2> QED  BY <1>2, <1>5, <1>6, <1>7, <1>8, <2>1 DEF Open
<1>11. \A r \in Invites \ {s} : Open(r)' = Open(r)
  BY <1>1, <1>3 DEF Open
<1> QED  BY <1>9, <1>10, <1>11

(* The sweeper unlists a session only when all its streams are closed.     *)
LEMMA SweepsKeepsIt ==
  ASSUME RelayInv, Sweeps
  PROVE  RelayInv'
<1> USE DEF RelayInv, RelayTypes, RelayTypeOK, Handlers, InviteAt, Goes, Takes, Drops
<1>1. CASE at[Sweeper] = "idle" /\ at' = [at EXCEPT ![Sweeper] = "sweeps"] /\ SweepTakes
  <2>1. RelayTypes' /\ AnchoringHasSession'
    BY <1>1 DEF Sweeps, SweepTakes, AnchoringHasSession
  <2>2. SweptIsDead' /\ RelaysAreReachable'
    BY <1>1 DEF Sweeps, SweepTakes, SweptIsDead, RelaysAreReachable, Reachable, Open
  <2> QED  BY <2>1, <2>2
<1>2. CASE at[Sweeper] = "sweeps" /\ SweepCloses
  <2>0. PICK s \in Invites : s = inHand[Sweeper]
    BY <1>2 DEF SweepCloses
  <2>1. /\ streams' = [streams EXCEPT ![s] = Swept(s)]
        /\ inHand' = IF Open(s) \subseteq Idle(s) THEN inHand
                     ELSE [inHand EXCEPT ![Sweeper] = None]
        /\ listed' = listed /\ overtaken' = overtaken
    BY <1>2, <2>0 DEF Sweeps, SweepCloses
  <2>2. at' = [at EXCEPT ![Sweeper] = IF inHand'[Sweeper] = None THEN "idle" ELSE "closes"]
    BY <1>2 DEF Sweeps
  <2>3. streams' \in [Invites -> Seq(Stream)] /\ \A r \in Invites : Len(streams'[r]) <= MaxStreams
    BY <2>1, SweptStreams
  <2>4. Open(s)' = Open(s) \ Idle(s) /\ \A r \in Invites \ {s} : Open(r)' = Open(r)
    BY <2>1, SweptStreams
  <2>5. RelayTypes'
    BY <2>1, <2>2, <2>3
  <2>6. AnchoringHasSession'
    BY <2>1, <2>2 DEF AnchoringHasSession
  <2>7. SweptIsDead'
    <3> SUFFICES ASSUME at[Sweeper]' = "closes" PROVE SweptIsDead'
      BY DEF SweptIsDead
    <3>1. inHand'[Sweeper] # None
      BY <2>2
    <3>2. Open(s) \subseteq Idle(s) /\ inHand' = inHand
      BY <2>0, <2>1, <3>1
    <3>3. (Open(inHand[Sweeper]))' = {}
      BY <2>0, <2>4, <3>2 DEF Open
    <3> QED  BY <3>1, <3>3 DEF SweptIsDead
  <2>8. RelaysAreReachable'
    <3>1. \A r \in Invites : Open(r)' \subseteq Open(r)
      BY <2>4
    <3>2. \A h \in Byes \cup Timers : at'[h] = at[h] /\ inHand'[h] = inHand[h]
      BY <2>1, <2>2
    <3>3. \A r \in Invites : Reachable(r) => Reachable(r)'
      BY <2>1, <3>2 DEF Reachable
    <3> QED  BY <2>1, <3>1, <3>3 DEF RelaysAreReachable
  <2> QED  BY <2>5, <2>6, <2>7, <2>8
<1>3. CASE at[Sweeper] = "closes" /\ at' = [at EXCEPT ![Sweeper] = "idle"] /\ SweepUnlists
  <2>1. RelayTypes'
    BY <1>3 DEF Sweeps, SweepUnlists
  <2>2. AnchoringHasSession'
    BY <1>3 DEF SweepUnlists, AnchoringHasSession, SweptIsDead
  <2>3. SweptIsDead' /\ RelaysAreReachable'
    BY <1>3 DEF Sweeps, SweepUnlists, SweptIsDead, RelaysAreReachable, Reachable, Open
  <2> QED  BY <2>1, <2>2, <2>3
<1> QED  BY <1>1, <1>2, <1>3 DEF Sweeps

LEMMA RelayInvIsKept == RelayInv /\ [Next]_vars => RelayInv'
<1> SUFFICES ASSUME RelayInv, [Next]_vars PROVE RelayInv'
  OBVIOUS
<1>1. ASSUME NEW h \in Invites, InviteStep(h) PROVE RelayInv'
  <2> USE DEF RelayInv, RelayTypes, Handlers, InviteAt, Goes
  <2>1. CASE Forwards(h)
    BY <2>1, OthersKeepIt DEF Forwards
  <2>2. CASE PlayOpens(h)
    BY <2>2, OthersKeepIt DEF PlayOpens
  <2>3. CASE PlayReplaces(h)
    BY <2>3, OthersKeepIt DEF PlayReplaces
  <2>4. CASE PlayRuns(h)
    BY <2>4, StandsStillKeepsIt DEF PlayRuns
  <2> QED
    BY <1>1, <2>1, <2>2, <2>3, <2>4, AnchorStartsKeepsIt, AnchorsKeepsIt, AnswerArrivesKeepsIt,
       AnswerGoesBackKeepsIt, MediaKeepsIt DEF InviteStep
<1>2. ASSUME NEW b \in Byes, ByeStep(b) PROVE RelayInv'
  <2> USE DEF RelayInv, RelayTypes, Handlers, Goes
  <2>1. CASE ByePlayed(b) \/ ByeForwarded(b)
    BY <2>1, OthersKeepIt DEF ByePlayed, ByeForwarded
  <2>2. CASE ByeCleans(b)
    BY <2>2, OthersKeepIt DEF ByeCleans
  <2> QED  BY <1>2, <2>1, <2>2 DEF ByeStep
<1>3. ASSUME NEW h \in Byes \cup Timers, Releases(h) PROVE RelayInv'
  BY <1>3, ReleasesKeepsIt
<1>4. CASE Sweeps
  BY <1>4, SweepsKeepsIt
<1>5. CASE UNCHANGED vars
  BY <1>5, StandsStillKeepsIt DEF vars, RelayRests
<1> QED  BY <1>1, <1>2, <1>3, <1>4, <1>5 DEF Next

(* Sockets that are bound are where a BYE, a timeout or the sweeper finds  *)
(* them, or are about to be closed, for any number of INVITEs, BYEs,       *)
(* timers and streams: none leak but those of a session that AnchorOffer   *)
(* came to after Delete or the sweeper had taken it out of the map.        *)
THEOREM RelaysStayReachable == Spec => []RelaysAreReachable
<1>1. RelayInv => RelaysAreReachable
  BY DEF RelayInv
<1> QED  BY <1>1, RelayInvHoldsAtFirst, RelayInvIsKept, PTL DEF Spec
==============================================================================
