----------------------------- MODULE MediaRelay -----------------------------
(***************************************************************************)
(* The relay sessions of one Call-ID (pkg/media/media.go): the manager's   *)
(* map entry, the sessions made for it, their streams, and the operations  *)
(* that the proxy, the dialog manager and the idle sweeper call on them.   *)
(*                                                                         *)
(* A step is one critical section: of Manager.mu for the map, of           *)
(* Session.mu for the streams.  What goes on between the two, with a       *)
(* *Session in hand, is left to the callers.  Calls share only Manager.mu, *)
(* so one Call-ID stands for all.  A stream's four sockets are bound and   *)
(* closed together; of its clock only "silent for longer than idleTimeout" *)
(* is kept, and of the SDP only how many streams it has and which are on   *)
(* hold.                                                                   *)
(***************************************************************************)
EXTENDS Naturals, Sequences, FiniteSets

CONSTANTS
  Invites,     \* INVITEs of the call; a session is named by the one that made it
  Byes,        \* goroutines that handle its BYEs
  Timers,      \* dialog timers of the call
  Sweeper,     \* the manager's sweepLoop goroutine
  MaxStreams,  \* bound: m= lines of an SDP
  HeldStreams, \* the sets of streams that an SDP may put on hold
  None         \* no session

ASSUME MaxStreamsAssumption == MaxStreams \in Nat \ {0}
ASSUME NoneAssumption == None \notin Invites
ASSUME SweeperAssumption == Sweeper \notin Invites \cup Byes \cup Timers
ASSUME RolesAssumption ==
  Invites \cap Byes = {} /\ Invites \cap Timers = {} /\ Byes \cap Timers = {}

Handlers == Invites \cup Byes \cup Timers \cup {Sweeper}
StreamIds == 1..MaxStreams

VARIABLES
  listed,   \* Manager.sessions[callID]
  streams,  \* per session: its Streams
  inHand    \* per goroutine: the *Session it got and still uses

relayVars == <<listed, streams, inHand>>

Stream == [closed : BOOLEAN, holdA : BOOLEAN, holdB : BOOLEAN, quiet : BOOLEAN]

RelayTypeOK ==
  /\ listed \in Invites \cup {None}
  /\ streams \in [Invites -> Seq(Stream)]
  /\ \A s \in Invites : Len(streams[s]) <= MaxStreams
  /\ inHand \in [Handlers -> Invites \cup {None}]

RelayInit ==
  /\ listed = None
  /\ streams = [s \in Invites |-> <<>>]
  /\ inHand = [h \in Handlers |-> None]

IsOnHold(stream) == stream.holdA \/ stream.holdB

Open(s) == {i \in DOMAIN streams[s] : ~streams[s][i].closed}

Takes(h, s) == inHand' = [inHand EXCEPT ![h] = s]
Drops(h) == inHand' = [inHand EXCEPT ![h] = None]

------------------------------------------------------------------------------
(* An INVITE's offer and the answers to it *)

GetOrCreate(h) ==
  /\ listed' = IF listed = None THEN h ELSE listed
  /\ Takes(h, listed')
  /\ UNCHANGED streams

(* allocate and start: four sockets, four relay goroutines. *)
Allocated == [closed |-> FALSE, holdA |-> FALSE, holdB |-> FALSE, quiet |-> FALSE]

(* AnchorOffer of an offer with n streams, those in held on hold: a stream *)
(* there already is used again, whatever has become of it.  good < n when  *)
(* no sockets could be bound for stream good + 1; those before it stay.    *)
AnchorOffer(h, n, held, good) ==
  LET had == streams[inHand[h]]
      all == IF good > Len(had) THEN good ELSE Len(had)
  IN /\ good = n \/ (good < n /\ good >= Len(had))
     /\ streams' = [streams EXCEPT ![inHand[h]] =
          [i \in 1..all |->
             IF i > good THEN had[i]
             ELSE [(IF i <= Len(had) THEN had[i] ELSE Allocated) EXCEPT !.holdA = i \in held]]]
     /\ Drops(h)
     /\ UNCHANGED listed

Get(h) == Takes(h, listed) /\ UNCHANGED <<listed, streams>>

AnchorAnswer(h, n, held) ==
  /\ streams' = [streams EXCEPT ![inHand[h]] =
       [i \in DOMAIN @ |-> IF i > n THEN @[i] ELSE [@[i] EXCEPT !.holdB = i \in held]]]
  /\ Drops(h)
  /\ UNCHANGED listed

------------------------------------------------------------------------------
(* Delete: out of the map, then Session.Close *)

DeleteUnlists(h) ==
  /\ Takes(h, listed)
  /\ listed' = None
  /\ UNCHANGED streams

DeleteCloses(h) ==
  /\ streams' = IF inHand[h] = None THEN streams
                ELSE [streams EXCEPT ![inHand[h]] = <<>>]
  /\ Drops(h)
  /\ UNCHANGED listed

------------------------------------------------------------------------------
(* sweepIdle *)

SweepTakes ==
  /\ inHand[Sweeper] = None /\ listed # None
  /\ Takes(Sweeper, listed)
  /\ UNCHANGED <<listed, streams>>

Idle(s) == {i \in DOMAIN streams[s] : streams[s][i].quiet /\ ~IsOnHold(streams[s][i])}

Swept(s) ==
  [i \in DOMAIN streams[s] |->
     IF i \in Idle(s) THEN [streams[s][i] EXCEPT !.closed = TRUE] ELSE streams[s][i]]

\* slip: a stream on hold does not count as alive
SweepForgetsHeld ==
  LET s == inHand[Sweeper]
  IN /\ s # None
     /\ streams' = [streams EXCEPT ![s] = Swept(s)]
     /\ IF \A i \in Open(s) : i \in Idle(s) \/ IsOnHold(streams[s][i])
        THEN UNCHANGED inHand ELSE Drops(Sweeper)
     /\ UNCHANGED listed

(* anyAlive, and with it whether the session is unlisted next, is decided  *)
(* here.                                                                   *)
SweepCloses ==
  LET s == inHand[Sweeper]
  IN /\ s # None
     /\ streams' = [streams EXCEPT ![s] = Swept(s)]
     /\ IF Open(s) \subseteq Idle(s) THEN UNCHANGED inHand ELSE Drops(Sweeper)
     /\ UNCHANGED listed

\* slip: whatever is listed under the Call-ID goes
SweepUnlistsAny ==
  /\ inHand[Sweeper] # None
  /\ listed' = None
  /\ Drops(Sweeper)
  /\ UNCHANGED streams

SweepUnlists ==
  /\ inHand[Sweeper] # None
  /\ listed' = IF listed = inHand[Sweeper] THEN None ELSE listed
  /\ Drops(Sweeper)
  /\ UNCHANGED streams

------------------------------------------------------------------------------
(* The relay goroutines and the clock *)

Silent(s, i, now) == [streams EXCEPT ![s][i].quiet = now]

RtpArrives(s, i) ==
  /\ i \in Open(s) /\ streams[s][i].quiet
  /\ streams' = Silent(s, i, FALSE)
  /\ UNCHANGED <<listed, inHand>>

GoesQuiet(s, i) ==
  /\ i \in Open(s) /\ ~streams[s][i].quiet
  /\ streams' = Silent(s, i, TRUE)
  /\ UNCHANGED <<listed, inHand>>
==============================================================================
