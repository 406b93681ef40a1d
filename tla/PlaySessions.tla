---------------------------- MODULE PlaySessions ----------------------------
(***************************************************************************)
(* The play sessions of one Call-ID (pkg/play/session.go): the manager's   *)
(* map entry and mutex, the sessions' sockets and sender goroutines, Open, *)
(* CleanupForCallID and Stop, and the ringing goroutine that PlayAudio     *)
(* (pkg/proxy/proxy.go) leaves behind, which starts the sender.            *)
(*                                                                         *)
(* Stop waits for the sender to end, and Open calls it with the manager's  *)
(* mutex held, so a waiting caller is a state of its own.  A session is    *)
(* named by the INVITE it was opened for; frames and files are left out.   *)
(***************************************************************************)
CONSTANTS
  PlayInvites,  \* INVITEs that may be answered by playAudio
  Callers,      \* goroutines that use the manager
  NoPlay        \* no session, nobody

VARIABLES
  playing,  \* Manager.sessions[callID]
  mutex,    \* who holds Manager.mu for longer than a step
  sender,   \* per session: how far it has come
  stopped,  \* the sessions that Stop has been called on; their socket is closed
  waiting   \* per goroutine: the session whose done channel Stop waits for

playVars == <<playing, mutex, sender, stopped, waiting>>

PlayTypeOK ==
  /\ playing \in PlayInvites \cup {NoPlay}
  /\ mutex \in Callers \cup {NoPlay}
  /\ sender \in [PlayInvites -> {"none", "rings", "sends", "ended"}]
  /\ stopped \subseteq PlayInvites
  /\ waiting \in [Callers -> PlayInvites \cup {NoPlay}]

PlayInit ==
  /\ playing = NoPlay
  /\ mutex = NoPlay
  /\ sender = [s \in PlayInvites |-> "none"]
  /\ stopped = {}
  /\ waiting = [c \in Callers |-> NoPlay]

(* Stop: the stop channel and the socket are closed; the caller then waits *)
(* for run to end.                                                         *)
StopBegins(c, s) ==
  /\ stopped' = stopped \cup {s}
  /\ waiting' = [waiting EXCEPT ![c] = s]

StopEnds(c) ==
  /\ waiting[c] # NoPlay
  /\ sender[waiting[c]] = "ended"
  /\ waiting' = [waiting EXCEPT ![c] = NoPlay]

------------------------------------------------------------------------------
(* Open, called by PlayAudio; PlayAudio then starts the ringing goroutine. *)

(* New reads the file and binds a socket; a failure of either has left     *)
(* nothing behind, and until it is registered nobody knows the session.    *)
Registers(h) ==
  /\ playing' = h
  /\ sender' = [sender EXCEPT ![h] = "rings"]

OpenRegisters(h) ==
  /\ mutex = NoPlay /\ playing = NoPlay
  /\ Registers(h)
  /\ UNCHANGED <<mutex, stopped, waiting>>

\* slip: the session that was listed plays on
OpenKeepsOld(h) ==
  /\ mutex = NoPlay /\ playing # NoPlay
  /\ Registers(h)
  /\ UNCHANGED <<mutex, stopped, waiting>>

OpenStopsOld(h) ==
  /\ mutex = NoPlay /\ playing # NoPlay
  /\ mutex' = h
  /\ StopBegins(h, playing)
  /\ UNCHANGED <<playing, sender>>

OpenReplaces(h) ==
  /\ mutex = h
  /\ StopEnds(h)
  /\ Registers(h)
  /\ mutex' = NoPlay
  /\ UNCHANGED stopped

------------------------------------------------------------------------------
(* The ringing goroutine and the sender *)

\* slip: a session stopped while it rings is not started any more
StartsUnlessStopped(h) ==
  /\ sender[h] = "rings" /\ h \notin stopped
  /\ sender' = [sender EXCEPT ![h] = "sends"]
  /\ UNCHANGED <<playing, mutex, stopped, waiting>>

(* ringingTime has passed: 200 OK, Start, call-start. *)
Starts(h) ==
  /\ sender[h] = "rings"
  /\ sender' = [sender EXCEPT ![h] = "sends"]
  /\ UNCHANGED <<playing, mutex, stopped, waiting>>

SenderEnds(h) ==
  /\ sender' = [sender EXCEPT ![h] = "ended"]
  /\ UNCHANGED <<playing, mutex, stopped, waiting>>

(* run finds its stop channel or its socket closed. *)
SenderStops(h) == sender[h] = "sends" /\ h \in stopped /\ SenderEnds(h)

(* The file cannot be read any more. *)
SenderFails(h) == sender[h] = "sends" /\ SenderEnds(h)

------------------------------------------------------------------------------
(* CleanupForCallID *)

CleanupFindsNone(c) ==
  /\ mutex = NoPlay /\ playing = NoPlay
  /\ UNCHANGED playVars

CleanupStops(c) ==
  /\ mutex = NoPlay /\ playing # NoPlay
  /\ playing' = NoPlay
  /\ StopBegins(c, playing)
  /\ UNCHANGED <<mutex, sender>>

CleanupReturns(c) ==
  /\ mutex # c
  /\ StopEnds(c)
  /\ UNCHANGED <<playing, mutex, sender, stopped>>

------------------------------------------------------------------------------
(* Every sender that has not been told to stop is the listed one: BYE can  *)
(* reach it ("The proxy answers BYE locally", README:114).  Open may       *)
(* replace a session at any time, and so may Cleanup unlist it.            *)
SendersAreListed ==
  \A h \in PlayInvites : sender[h] \in {"rings", "sends"} /\ h \notin stopped => playing = h
==============================================================================
