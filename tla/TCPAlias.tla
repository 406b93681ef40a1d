------------------------------ MODULE TCPAlias ------------------------------
(***************************************************************************)
(* The TCP transport's connections (pkg/transport/tcp.go): the alias table *)
(* from peer address to connection, the accept loop, one reader goroutine  *)
(* per connection, senders that reuse, drop and re-dial, and Stop.         *)
(*                                                                         *)
(* A step is what happens between two acquisitions of the table's mutex or *)
(* one system call.  What is written and read is left out: a write fails   *)
(* or it does not, and a reader runs the handler of a message, with all it *)
(* sends, on its own goroutine before it reads on.  A connection nobody    *)
(* refers to any more is made again, so MaxConns bounds how many there are *)
(* at a time, not how many in all.                                         *)
(***************************************************************************)
EXTENDS Naturals, FiniteSets

CONSTANTS
  Senders,     \* bound: calls of Send at a time
  Handlers,    \* those among them that readers make, from a message's handler
  Dsts,        \* the destinations they send to, as written in the message
  Peers,       \* addresses of peers, as RemoteAddr prints them
  RemoteAddr,  \* RemoteAddr[d]: the address that destination d resolves to
  MaxConns,    \* bound: connections at a time
  Nobody       \* no owner

ASSUME AddressAssumption ==
  /\ Dsts # {}
  /\ RemoteAddr \in [Dsts -> Peers]
  /\ \A d \in Dsts \cap Peers : RemoteAddr[d] = d
ASSUME HandlersAssumption == Handlers \subseteq Senders
ASSUME MaxConnsAssumption == MaxConns \in Nat \ {0}
ASSUME NobodyAssumption == Nobody \notin Senders \cup Dsts

Ids == 1..MaxConns
NoConn == 0
Keys == Dsts \cup Peers

VARIABLES
  conn,      \* per connection: its two ends, its addresses, its reader
  alias,     \* the table: key -> connection
  dialLock,  \* per destination: who holds dialLocks[dst]
  sender,    \* per sender: where it is inside Send
  acceptor,  \* the connection AcceptTCP returned, not yet in the table
  stop       \* how far Stop has come

vars == <<conn, alias, dialLock, sender, acceptor, stop>>

NotMade == [ours |-> "closed", peer |-> "down", remote |-> CHOOSE p \in Peers : TRUE,
            dst |-> Nobody, reader |-> "none"]
NotSending == [pc |-> "idle", dst |-> CHOOSE d \in Dsts : TRUE, conn |-> NoConn,
               stage |-> "cached", by |-> NoConn]

Init ==
  /\ conn = [i \in Ids |-> NotMade]
  /\ alias = [k \in Keys |-> NoConn]
  /\ dialLock = [d \in Dsts |-> Nobody]
  /\ sender = [s \in Senders |-> NotSending]
  /\ acceptor = NoConn
  /\ stop = "running"

------------------------------------------------------------------------------
(* Connections *)

(* A connection that is over and that nothing points at is garbage. *)
Garbage(i) ==
  /\ conn[i].ours = "closed" /\ conn[i].reader = "none"
  /\ i # acceptor
  /\ \A k \in Keys : alias[k] # i
  /\ \A s \in Senders : sender[s].conn # i

Fresh == {i \in Ids : Garbage(i) /\ \A j \in 1..(i - 1) : ~Garbage(j)}

Made(remote, dst) ==
  [ours |-> "open", peer |-> "up", remote |-> remote, dst |-> dst, reader |-> "none"]

(* Closing our end forgets what the other one was. *)
Closed(table, i) ==
  [table EXCEPT ![i].ours = "closed", ![i].peer = "down", ![i].dst = Nobody]

(* The kernel takes a write until it knows that the peer is gone. *)
WriteTaken(i) == conn[i].ours = "open" /\ conn[i].peer # "stalled"
WriteFails(i) == conn[i].peer = "down"

(* register: the connection it replaces is closed. *)
Register(key, i, table) ==
  IF alias[key] \notin {NoConn, i} THEN Closed(table, alias[key]) ELSE table

\* slip: whatever is under the key goes
RemoveAny(key, i) == [alias EXCEPT ![key] = NoConn]

RemoveIfMatches(key, i) ==
  IF alias[key] = i THEN [alias EXCEPT ![key] = NoConn] ELSE alias

------------------------------------------------------------------------------
(* Send and dialAndSend.  stage tells which connection is tried: the one   *)
(* that was cached, the one found again under the lock, or a fresh one.    *)

Goes(s, pc) == sender' = [sender EXCEPT ![s].pc = pc]
Tries(s, i, stage) ==
  sender' = [sender EXCEPT ![s].pc = "write", ![s].conn = i, ![s].stage = stage]

(* A reader sends from the handler of a message, one send after the other. *)
MaySend(i) ==
  i \in Ids => conn[i].reader = "handling" /\ \A s \in Senders : sender[s].by # i

(* by is the connection whose reader sends, if a reader does.              *)
Callers(s) == IF s \in Handlers THEN Ids ELSE {NoConn}

SendStarts(s, d, by) ==
  /\ sender[s].pc = "idle"
  /\ MaySend(by)
  /\ sender' = [sender EXCEPT ![s] =
       [pc |-> IF alias[d] = NoConn THEN "lock" ELSE "write",
        dst |-> d, conn |-> alias[d], stage |-> "cached", by |-> by]]
  /\ UNCHANGED <<conn, alias, dialLock, acceptor, stop>>

(* Send returns; the deferred unlock gives the destination free. *)
Returns(s) ==
  /\ sender' = [sender EXCEPT ![s] = NotSending]
  /\ dialLock' = [d \in Dsts |-> IF dialLock[d] = s THEN Nobody ELSE dialLock[d]]

Writes(s) ==
  /\ sender[s].pc = "write"
  /\ \/ WriteTaken(sender[s].conn) /\ Returns(s)
     \/ WriteFails(sender[s].conn) /\ Goes(s, "drop") /\ UNCHANGED dialLock
  /\ UNCHANGED <<conn, alias, acceptor, stop>>

Drops(s) ==
  /\ sender[s].pc = "drop"
  /\ alias' = RemoveIfMatches(sender[s].dst, sender[s].conn)
  /\ Goes(s, "close")
  /\ UNCHANGED <<conn, dialLock, acceptor, stop>>

(* A broken cached connection leads to the lock, a broken one found under  *)
(* the lock to a dial, a broken fresh one to an error.                     *)
ClosesBroken(s) ==
  /\ sender[s].pc = "close"
  /\ conn' = Closed(conn, sender[s].conn)
  /\ \/ sender[s].stage = "fresh" /\ Returns(s)
     \/ /\ sender[s].stage # "fresh"
        /\ sender' = [sender EXCEPT ![s].pc = IF sender[s].stage = "cached" THEN "lock" ELSE "dial",
                                    ![s].conn = NoConn]
        /\ UNCHANGED dialLock
  /\ UNCHANGED <<alias, acceptor, stop>>

LocksDst(s) ==
  /\ sender[s].pc = "lock"
  /\ dialLock[sender[s].dst] = Nobody
  /\ dialLock' = [dialLock EXCEPT ![sender[s].dst] = s]
  /\ Goes(s, "recheck")
  /\ UNCHANGED <<conn, alias, acceptor, stop>>

\* slip: the table is not looked at again under the lock
RechecksNothing(s) ==
  /\ sender[s].pc = "recheck"
  /\ Goes(s, "dial")
  /\ UNCHANGED <<conn, alias, dialLock, acceptor, stop>>

Rechecks(s) ==
  /\ sender[s].pc = "recheck"
  /\ IF alias[sender[s].dst] = NoConn THEN Goes(s, "dial")
     ELSE Tries(s, alias[sender[s].dst], "recheck")
  /\ UNCHANGED <<conn, alias, dialLock, acceptor, stop>>

Dials(s) ==
  /\ sender[s].pc = "dial"
  /\ \E i \in Fresh :
       /\ conn' = [conn EXCEPT ![i] = Made(RemoteAddr[sender[s].dst], sender[s].dst)]
       /\ sender' = [sender EXCEPT ![s].pc = "register", ![s].conn = i, ![s].stage = "fresh"]
  /\ UNCHANGED <<alias, dialLock, acceptor, stop>>

DialFails(s) ==
  /\ sender[s].pc = "dial"
  /\ Returns(s)
  /\ UNCHANGED <<conn, alias, acceptor, stop>>

(* The fresh connection enters the table and its reader starts. *)
Registers(s) ==
  LET i == sender[s].conn IN
  /\ sender[s].pc = "register"
  /\ alias' = [alias EXCEPT ![sender[s].dst] = i]
  /\ conn' = Register(sender[s].dst, i, [conn EXCEPT ![i].reader = "top"])
  /\ Goes(s, "write")
  /\ UNCHANGED <<dialLock, acceptor, stop>>

------------------------------------------------------------------------------
(* acceptLoop.  Accepting ends when Stop has closed the listener. *)

Accepts(p) ==
  /\ acceptor = NoConn
  /\ stop \in {"running", "signalled"}
  /\ \E i \in Fresh :
       /\ conn' = [conn EXCEPT ![i] = Made(p, Nobody)]
       /\ acceptor' = i
  /\ UNCHANGED <<alias, dialLock, sender, stop>>

AcceptRegisters ==
  LET p == conn[acceptor].remote IN
  /\ acceptor # NoConn
  /\ alias' = [alias EXCEPT ![p] = acceptor]
  /\ conn' = Register(p, acceptor, [conn EXCEPT ![acceptor].reader = "top"])
  /\ acceptor' = NoConn
  /\ UNCHANGED <<dialLock, sender, stop>>

------------------------------------------------------------------------------
(* handleConn: done is tested before each read; a read ends with a message *)
(* or an error.  The message's handler runs here, the script and its sends *)
(* included, and until it returns nothing is read.  The deferred function  *)
(* prunes the table, then closes.                                          *)

SetReader(i, state) == conn' = [conn EXCEPT ![i].reader = state]

ReaderTests(i) ==
  /\ conn[i].reader = "top"
  /\ SetReader(i, IF stop = "running" THEN "reading" ELSE "removing")
  /\ UNCHANGED <<alias, dialLock, sender, acceptor, stop>>

ReaderReads(i) ==
  /\ conn[i].reader = "reading"
  /\ conn[i].ours = "open" /\ conn[i].peer # "down"
  /\ SetReader(i, "handling")
  /\ UNCHANGED <<alias, dialLock, sender, acceptor, stop>>

HandlerReturns(i) ==
  /\ conn[i].reader = "handling"
  /\ MaySend(i)
  /\ SetReader(i, "top")
  /\ UNCHANGED <<alias, dialLock, sender, acceptor, stop>>

ReaderFails(i) ==
  /\ conn[i].reader = "reading" /\ conn[i].peer = "down"
  /\ SetReader(i, "removing")
  /\ UNCHANGED <<alias, dialLock, sender, acceptor, stop>>

\* slip: the reader closes and prunes nothing
ReaderPrunesNothing(i) ==
  /\ conn[i].reader = "removing"
  /\ SetReader(i, "closing")
  /\ UNCHANGED <<alias, dialLock, sender, acceptor, stop>>

ReaderRemoves(i) ==
  /\ conn[i].reader = "removing"
  /\ alias' = RemoveIfMatches(conn[i].remote, i)
  /\ SetReader(i, "closing")
  /\ UNCHANGED <<dialLock, sender, acceptor, stop>>

ReaderCloses(i) ==
  /\ conn[i].reader = "closing"
  /\ conn' = [Closed(conn, i) EXCEPT ![i].reader = "none"]
  /\ UNCHANGED <<alias, dialLock, sender, acceptor, stop>>

------------------------------------------------------------------------------
(* Stop: done, the listener, then the table under its mutex. *)

StopSignals ==
  /\ stop = "running"
  /\ stop' = "signalled"
  /\ UNCHANGED <<conn, alias, dialLock, sender, acceptor>>

StopCloses ==
  /\ stop = "signalled"
  /\ stop' = "closed"
  /\ UNCHANGED <<conn, alias, dialLock, sender, acceptor>>

StopClears ==
  /\ stop = "closed"
  /\ stop' = "stopped"
  /\ conn' = [i \in Ids |-> IF \E k \in Keys : alias[k] = i
                            THEN Closed(conn, i)[i] ELSE conn[i]]
  /\ alias' = [k \in Keys |-> NoConn]
  /\ UNCHANGED <<dialLock, sender, acceptor>>

------------------------------------------------------------------------------
(* Peers reset, close, fall silent (keepalive finds out) or stop reading.  *)

PeerGoes(i) ==
  /\ conn[i].ours = "open" /\ conn[i].peer # "down"
  /\ conn' = [conn EXCEPT ![i].peer = "down"]
  /\ UNCHANGED <<alias, dialLock, sender, acceptor, stop>>

PeerStalls(i) ==
  /\ conn[i].ours = "open" /\ conn[i].peer = "up"
  /\ conn' = [conn EXCEPT ![i].peer = "stalled"]
  /\ UNCHANGED <<alias, dialLock, sender, acceptor, stop>>

------------------------------------------------------------------------------
SenderMoves(s) ==
  \/ Writes(s) \/ Drops(s) \/ ClosesBroken(s) \/ LocksDst(s) \/ Rechecks(s)
  \/ Dials(s) \/ DialFails(s) \/ Registers(s)

ReaderMoves(i) == ReaderTests(i) \/ ReaderFails(i) \/ ReaderRemoves(i) \/ ReaderCloses(i)

Next ==
  \/ \E s \in Senders : SenderMoves(s) \/ \E d \in Dsts, by \in Callers(s) : SendStarts(s, d, by)
  \/ \E p \in Peers : Accepts(p)
  \/ AcceptRegisters
  \/ \E i \in Ids : \/ ReaderMoves(i) \/ ReaderReads(i) \/ HandlerReturns(i)
                   \/ PeerGoes(i) \/ PeerStalls(i)
  \/ StopSignals \/ StopCloses \/ StopClears

(* Goroutines that can run do; a sender that waits for a destination's     *)
(* mutex is not starved of it (sync.Mutex hands itself to the longest      *)
(* waiter), and a handler does not send for ever.  Nothing is assumed of   *)
(* peers, or of who sends and who stops: a write may be stuck for good.    *)
Fairness ==
  /\ \A s \in Senders : WF_vars(SenderMoves(s)) /\ SF_vars(LocksDst(s))
  /\ \A i \in Ids : WF_vars(ReaderMoves(i)) /\ SF_vars(HandlerReturns(i))
  /\ WF_vars(AcceptRegisters)
  /\ WF_vars(StopCloses) /\ WF_vars(StopClears)

Spec == Init /\ [][Next]_vars /\ Fairness

------------------------------------------------------------------------------
(* Properties *)

TypeOK ==
  /\ conn \in [Ids -> [ours : {"open", "closed"}, peer : {"up", "stalled", "down"},
                       remote : Peers, dst : Dsts \cup {Nobody},
                       reader : {"none", "top", "reading", "handling", "removing",
                                 "closing"}]]
  /\ alias \in [Keys -> Ids \cup {NoConn}]
  /\ dialLock \in [Dsts -> Senders \cup {Nobody}]
  /\ \A s \in Senders : sender[s].dst \in Dsts /\ sender[s].conn \in Ids \cup {NoConn}
                        /\ sender[s].by \in Ids \cup {NoConn}
  /\ acceptor \in Ids \cup {NoConn}
  /\ stop \in {"running", "signalled", "closed", "stopped"}

(* In use: both ends are open and the reader has not given it up. *)
Usable(i) == /\ conn[i].ours = "open" /\ conn[i].peer = "up"
             /\ conn[i].reader \notin {"removing", "closing"}

(* README, TCP connection reuse: concurrent sends to one destination are   *)
(* serialized "so only one socket is ever opened".  However senders,       *)
(* broken connections, accepted ones and Stop interleave, there are never  *)
(* two usable connections dialled to one destination.                      *)
OneSocketPerDestination ==
  \A i, j \in Ids : i # j /\ Usable(i) /\ Usable(j) => conn[i].dst # conn[j].dst \/ conn[i].dst = Nobody

(* tcp.go:212: removeIfMatches must not "accidentally evict a fresher      *)
(* replacement".  While the transport runs, a usable connection leaves the *)
(* table only for another one of its peer.                                 *)
UsableStaysListed ==
  [][\A k \in Keys : alias[k] # NoConn /\ Usable(alias[k]) /\ stop # "closed"
                       => alias'[k] # NoConn]_vars

(* A write to a peer that stays connected and reads nothing does not       *)
(* return: conn.Write has no deadline.                                     *)
Stuck(s) == sender[s].pc = "write" /\ ~WriteTaken(sender[s].conn) /\ ~WriteFails(sender[s].conn)

(* The handler that reader i runs waits for such a write, or for the mutex *)
(* of a destination under which one is made.                               *)
HeldUp(i) ==
  \E s \in Senders :
    /\ sender[s].by = i
    /\ \/ Stuck(s)
       \/ /\ sender[s].pc = "lock"
          /\ \E t \in Senders : dialLock[sender[s].dst] = t /\ Stuck(t)

(* tcp.go:85-87: the reader "prunes the alias table when the connection    *)
(* closes", and Stop ends everything: a connection whose peer is gone, or  *)
(* that a stopped transport still has, gets closed and leaves the table,   *)
(* whoever was about to register or use it, unless its own reader is held  *)
(* up for good in a handler that sends to a silent peer.                   *)
DeadConnectionsGo ==
  \A i \in Ids :
    conn[i].peer = "down" \/ stop = "stopped"
      ~> (conn[i].ours = "closed" /\ \A k \in Keys : alias[k] # i) \/ []HeldUp(i)

(* The comment as it reads: no dead connection stays for good.             *)
DeadConnectionsAlwaysGo ==
  \A i \in Ids :
    conn[i].peer = "down" ~> conn[i].ours = "closed" /\ \A k \in Keys : alias[k] # i

(* A sender that a silent peer holds up holds up every later sender to the *)
(* destination too: conn.Write has no deadline and the lock is kept.       *)
SendReturns == \A s \in Senders : sender[s].pc # "idle" ~> sender[s].pc = "idle"
==============================================================================
