---------------------------- MODULE TCPAliasProofs ----------------------------
(***************************************************************************)
(* Proof about TCPAlias, for every set of senders, destinations and peers, *)
(* and every number of connections: there is one socket per destination.   *)
(***************************************************************************)
EXTENDS TCPAlias, TLAPS

------------------------------------------------------------------------------
(* The inductive invariant. *)

(* i is usable and was dialled to d. *)
Dialed(i, d) == i \in Ids /\ Usable(i) /\ conn[i].dst = d

(* s is between Lock and Unlock of its destination's mutex. *)
Holding(s) ==
  \/ sender[s].pc \in {"recheck", "dial", "register"}
  \/ sender[s].pc \in {"write", "drop", "close"} /\ sender[s].stage # "cached"

(* s has found, under the lock, that nothing usable is listed. *)
Searched(s) ==
  \/ sender[s].pc \in {"dial", "register"}
  \/ sender[s].pc \in {"drop", "close"} /\ sender[s].stage = "recheck"

Connections ==
  [ours : {"open", "closed"}, peer : {"up", "stalled", "down"}, remote : Peers,
   dst : Dsts \cup {Nobody},
   reader : {"none", "top", "reading", "handling", "removing", "closing"}]
SenderStates ==
  [pc : {"idle", "write", "drop", "close", "lock", "recheck", "dial", "register"},
   dst : Dsts, conn : Ids \cup {NoConn}, stage : {"cached", "recheck", "fresh"},
   by : Ids \cup {NoConn}]

Types ==
  /\ conn \in [Ids -> Connections]
  /\ alias \in [Keys -> Ids \cup {NoConn}]
  /\ dialLock \in [Dsts -> Senders \cup {Nobody}]
  /\ sender \in [Senders -> SenderStates]
  /\ acceptor \in Ids \cup {NoConn}

HoldsLock(s) == Holding(s) => dialLock[sender[s].dst] = s

(* After the search nothing usable enters the table behind s's back. *)
FoundNothing(s) ==
  LET d == sender[s].dst IN
  /\ Searched(s) => ~Dialed(alias[d], d)
  /\ sender[s].pc = "write" /\ sender[s].stage = "recheck" =>
       alias[d] = sender[s].conn \/ ~Dialed(alias[d], d)

DropsBroken(s) ==
  sender[s].pc = "drop" /\ sender[s].conn \in Ids => conn[sender[s].conn].peer = "down"

RegistersOwn(s) ==
  sender[s].pc = "register" =>
    sender[s].conn \in Ids /\ conn[sender[s].conn].dst \in {sender[s].dst, Nobody}

SenderInv(s) == HoldsLock(s) /\ FoundNothing(s) /\ DropsBroken(s) /\ RegistersOwn(s)

AcceptedIsNotDialed == acceptor # NoConn => conn[acceptor].dst = Nobody

(* A usable dialled connection is listed, or about to be by its sender. *)
Registering(s, i, d) ==
  sender[s].pc = "register" /\ sender[s].conn = i /\ sender[s].dst = d
DialedAreKnown ==
  \A i \in Ids, d \in Dsts :
    Dialed(i, d) => alias[d] = i \/ \E s \in Senders : Registering(s, i, d)

IInv ==
  /\ Types
  /\ \A s \in Senders : SenderInv(s)
  /\ AcceptedIsNotDialed
  /\ DialedAreKnown

------------------------------------------------------------------------------
(* What most steps do: connections only get worse, and a key that changes  *)
(* loses no usable dialled connection and gains none.                      *)

Wanes(i) ==
  /\ \A d \in Dsts : Dialed(i, d)' => Dialed(i, d)
  /\ conn'[i].dst \in {conn[i].dst, Nobody}
  /\ conn[i].peer = "down" /\ (\E s \in Senders : sender[s].conn = i) =>
       conn'[i].peer = "down"

Switches(k) ==
  alias'[k] = alias[k] \/ \A i \in Ids, d \in Dsts :
                            i \in {alias[k], alias'[k]} => ~Dialed(i, d)'

Settles == (\A i \in Ids : Wanes(i)) /\ (\A k \in Keys : Switches(k))

(* t neither moves nor loses a mutex. *)
Stays(t) ==
  sender'[t] = sender[t] /\ \A d \in Dsts : dialLock[d] = t => dialLock'[d] = t

LEMMA StayingPreserves ==
  ASSUME IInv, Settles, NEW t \in Senders, Stays(t)
  PROVE  SenderInv(t)'
<1>0. SenderInv(t) /\ sender'[t] = sender[t] /\ sender[t] \in SenderStates
  BY DEF IInv, Types, Stays
<1>1. HoldsLock(t)'
  BY <1>0 DEF SenderInv, HoldsLock, Holding, Stays, SenderStates
<1>2. FoundNothing(t)'
  <2>1. PICK d \in Dsts : d = sender[t].dst
    BY <1>0 DEF SenderStates
  <2>2. PICK old, new : old = alias[d] /\ new = alias'[d]
    OBVIOUS
  <2>3. new = old \/ ~Dialed(new, d)'
    BY <2>2 DEF Settles, Switches, Keys, Dialed
  <2>4. Dialed(new, d)' => Dialed(new, d)
    BY DEF Settles, Wanes, Dialed
  <2>5. FoundNothing(t)' <=>
          /\ Searched(t) => ~Dialed(new, d)'
          /\ sender[t].pc = "write" /\ sender[t].stage = "recheck" =>
               new = sender[t].conn \/ ~Dialed(new, d)'
    BY <1>0, <2>1, <2>2 DEF FoundNothing, Searched, Dialed, Usable
  <2>6. /\ Searched(t) => ~Dialed(old, d)
        /\ sender[t].pc = "write" /\ sender[t].stage = "recheck" =>
             old = sender[t].conn \/ ~Dialed(old, d)
    BY <1>0, <2>1, <2>2 DEF SenderInv, FoundNothing
  <2> QED
    BY <2>3, <2>4, <2>5, <2>6
<1>3. DropsBroken(t)' /\ RegistersOwn(t)'
  BY <1>0 DEF SenderInv, DropsBroken, RegistersOwn, Settles, Wanes
<1> QED
  BY <1>1, <1>2, <1>3 DEF SenderInv

LEMMA SettlingPreserves ==
  ASSUME IInv, Types', Settles,
         acceptor' \in {acceptor, NoConn} \/ conn'[acceptor'].dst = Nobody,
         \A t \in Senders : Stays(t) \/ (SenderInv(t)' /\ sender[t].pc # "register")
  PROVE  IInv'
<1>1. \A t \in Senders : SenderInv(t)'
  BY StayingPreserves
<1>2. AcceptedIsNotDialed'
  BY DEF IInv, Types, AcceptedIsNotDialed, Settles, Wanes
<1>3. DialedAreKnown'
  <2> SUFFICES ASSUME NEW i \in Ids, NEW d \in Dsts, Dialed(i, d)'
               PROVE  alias'[d] = i \/ \E s \in Senders : Registering(s, i, d)'
    BY DEF DialedAreKnown
  <2>1. Dialed(i, d)
    BY DEF Settles, Wanes
  <2>2. CASE alias[d] = i
    BY <2>2 DEF Settles, Switches, Keys
  <2>3. ASSUME NEW s \in Senders, Registering(s, i, d)
        PROVE  Registering(s, i, d)'
    BY <2>3 DEF Registering, Stays
  <2> QED
    BY <2>1, <2>2, <2>3 DEF IInv, DialedAreKnown
<1> QED
  BY <1>1, <1>2, <1>3 DEF IInv

LEMMA SameTablesSettle ==
  ASSUME UNCHANGED <<conn, alias>>
  PROVE  Settles
BY DEF Settles, Wanes, Switches, Dialed, Usable

------------------------------------------------------------------------------
(* Send. *)

(* A sender whose next state makes no claim on the table.                  *)
LEMMA ClaimlessSender ==
  ASSUME NEW s \in Senders, sender'[s].pc \in {"idle", "lock", "write"},
         sender'[s].pc = "write" => sender'[s].stage = "cached"
  PROVE  SenderInv(s)'
BY DEF SenderInv, HoldsLock, FoundNothing, DropsBroken, RegistersOwn, Holding, Searched

(* What Send's return does to the sender and to the locks.                 *)
LEMMA ReturnFacts ==
  ASSUME IInv, NEW s \in Senders, Returns(s)
  PROVE  /\ sender' \in [Senders -> SenderStates] /\ sender'[s].pc = "idle"
         /\ dialLock' \in [Dsts -> Senders \cup {Nobody}]
         /\ \A t \in Senders \ {s} : Stays(t)
<1>1. NotSending \in SenderStates
  BY AddressAssumption DEF NotSending, SenderStates
<1> QED
  BY <1>1 DEF IInv, Types, Returns, NotSending, Stays

LEMMA SendStartsPreserves ==
  ASSUME IInv, NEW s \in Senders, NEW d \in Dsts, NEW by \in Callers(s), SendStarts(s, d, by)
  PROVE  IInv'
<1>1. Types' /\ sender'[s].pc \in {"lock", "write"} /\ sender'[s].stage = "cached"
  BY DEF IInv, Types, SendStarts, SenderStates, Keys, Callers
<1>2. \A t \in Senders \ {s} : Stays(t)
  BY DEF IInv, Types, SendStarts, Stays
<1>3. SenderInv(s)'
  BY <1>1, ClaimlessSender
<1> QED
  BY <1>1, <1>2, <1>3, SameTablesSettle, SettlingPreserves DEF SendStarts

LEMMA WritesPreserves ==
  ASSUME IInv, NEW s \in Senders, Writes(s)
  PROVE  IInv'
<1>1. CASE Returns(s)
  <2>1. Types'
    BY <1>1, ReturnFacts DEF IInv, Types, Writes
  <2>2. SenderInv(s)'
    BY <1>1, ReturnFacts, ClaimlessSender
  <2> QED
    BY <1>1, <2>1, <2>2, ReturnFacts, SameTablesSettle, SettlingPreserves DEF Writes
<1>2. CASE WriteFails(sender[s].conn) /\ Goes(s, "drop") /\ UNCHANGED dialLock
  <2>1. /\ Types' /\ \A t \in Senders \ {s} : Stays(t)
        /\ sender'[s] = [sender[s] EXCEPT !.pc = "drop"]
    BY <1>2 DEF IInv, Types, Writes, Goes, SenderStates, Stays
  <2>2. SenderInv(s)'
    <3>1. SenderInv(s) /\ sender[s] \in SenderStates
      BY DEF IInv, Types
    <3>2. HoldsLock(s)'
      BY <1>2, <2>1, <3>1 DEF SenderInv, HoldsLock, Holding, Writes, SenderStates
    <3>3. ~Dialed(sender[s].conn, sender[s].dst)
      BY <1>2 DEF WriteFails, Dialed, Usable
    <3>4. FoundNothing(s)'
      BY <2>1, <3>1, <3>3
      DEF SenderInv, FoundNothing, Searched, Writes, SenderStates, Dialed, Usable
    <3>5. DropsBroken(s)' /\ RegistersOwn(s)'
      BY <1>2, <2>1, <3>1 DEF DropsBroken, RegistersOwn, Writes, WriteFails, SenderStates
    <3> QED
      BY <3>2, <3>4, <3>5 DEF SenderInv
  <2> QED
    BY <2>1, <2>2, SameTablesSettle, SettlingPreserves DEF Writes
<1> QED
  BY <1>1, <1>2 DEF Writes

LEMMA DropsPreserves ==
  ASSUME IInv, NEW s \in Senders, Drops(s)
  PROVE  IInv'
<1>0. SenderInv(s) /\ sender[s] \in SenderStates /\ Types
  BY DEF IInv, Types
<1>1. /\ Types' /\ \A t \in Senders \ {s} : Stays(t)
      /\ sender'[s] = [sender[s] EXCEPT !.pc = "close"]
  BY <1>0 DEF Types, Drops, Goes, RemoveIfMatches, SenderStates, Stays, Keys
<1>2. ASSUME NEW k \in Keys
      PROVE  \/ alias'[k] = alias[k]
             \/ alias'[k] = NoConn /\ \A d \in Dsts : ~Dialed(alias[k], d)
  BY <1>0 DEF Types, Drops, RemoveIfMatches, SenderInv, DropsBroken, Dialed, Usable
<1>3. Settles
  BY <1>2 DEF Settles, Wanes, Switches, Drops, Dialed, Usable, Ids, NoConn
<1>4. SenderInv(s)'
  <2>1. HoldsLock(s)' /\ DropsBroken(s)' /\ RegistersOwn(s)'
    BY <1>0, <1>1
    DEF SenderInv, HoldsLock, Holding, DropsBroken, RegistersOwn, Drops, SenderStates
  <2>2. FoundNothing(s)'
    BY <1>0, <1>1, <1>2
    DEF SenderInv, FoundNothing, Searched, Drops, SenderStates, Dialed, Usable, Ids, NoConn, Keys
  <2> QED
    BY <2>1, <2>2 DEF SenderInv
<1> QED
  BY <1>1, <1>3, <1>4, SettlingPreserves DEF Drops

(* Closing one connection of a table.                                      *)
LEMMA ClosedFacts ==
  ASSUME NEW table \in [Ids -> Connections], NEW i \in Ids \cup {NoConn}
  PROVE  /\ Closed(table, i) \in [Ids -> Connections]
         /\ \A j \in Ids :
              /\ j # i => Closed(table, i)[j] = table[j]
              /\ j = i => Closed(table, i)[j].ours = "closed"
                          /\ Closed(table, i)[j].peer = "down"
                          /\ Closed(table, i)[j].dst = Nobody
<1>1. ASSUME NEW j \in Ids
      PROVE  /\ j # i => Closed(table, i)[j] = table[j]
             /\ j = i => Closed(table, i)[j] =
                  [table[j] EXCEPT !.ours = "closed", !.peer = "down", !.dst = Nobody]
  BY DEF Closed
<1>2. ASSUME NEW j \in Ids
      PROVE  /\ Closed(table, i)[j] \in Connections
             /\ j = i => Closed(table, i)[j].ours = "closed"
                         /\ Closed(table, i)[j].peer = "down"
                         /\ Closed(table, i)[j].dst = Nobody
  <2>1. table[j] \in Connections
    OBVIOUS
  <2>2. CASE j = i
    BY <1>1, <2>1, <2>2 DEF Connections
  <2>3. CASE j # i
    BY <1>1, <2>1, <2>3
  <2> QED
    BY <2>2, <2>3
<1>3. Closed(table, i) = [j \in Ids |-> Closed(table, i)[j]]
  BY DEF Closed
<1> QED
  BY <1>1, <1>2, <1>3

LEMMA ClosingFacts ==
  ASSUME IInv, NEW i \in Ids \cup {NoConn}, conn' = Closed(conn, i)
  PROVE  conn' \in [Ids -> Connections] /\ \A j \in Ids : Wanes(j)
<1>1. conn \in [Ids -> Connections]
  BY DEF IInv, Types
<1> QED
  BY <1>1, ClosedFacts DEF Wanes, Dialed, Usable

LEMMA ClosesBrokenPreserves ==
  ASSUME IInv, NEW s \in Senders, ClosesBroken(s)
  PROVE  IInv'
<1>0. SenderInv(s) /\ sender[s] \in SenderStates /\ Types
  BY DEF IInv, Types
<1>1. Settles /\ conn' \in [Ids -> Connections]
  BY <1>0, ClosingFacts DEF ClosesBroken, SenderStates, Settles, Switches
<1>2. CASE Returns(s)
  <2>1. Types'
    BY <1>0, <1>1, <1>2, ReturnFacts DEF Types, ClosesBroken
  <2>2. SenderInv(s)'
    BY <1>2, ReturnFacts, ClaimlessSender
  <2> QED
    BY <1>1, <1>2, <2>1, <2>2, ReturnFacts, SettlingPreserves DEF ClosesBroken
<1>3. CASE ~Returns(s)
  <2> DEFINE next == IF sender[s].stage = "cached" THEN "lock" ELSE "dial"
  <2>1. /\ sender' = [sender EXCEPT ![s].pc = next, ![s].conn = NoConn]
        /\ sender[s].stage # "fresh" /\ UNCHANGED dialLock
    BY <1>3 DEF ClosesBroken
  <2>2. /\ Types' /\ \A t \in Senders \ {s} : Stays(t)
        /\ sender'[s].pc = next /\ sender'[s].dst = sender[s].dst
    BY <1>0, <1>1, <2>1 DEF Types, ClosesBroken, SenderStates, Stays
  <2>3. SenderInv(s)'
    <3>0. sender[s].pc = "close" /\ sender'[s].pc \in {"lock", "dial"}
      BY <2>2 DEF ClosesBroken
    <3>1. HoldsLock(s)' /\ DropsBroken(s)' /\ RegistersOwn(s)'
      <4>1. Holding(s)' => Holding(s)
        BY <2>2, <3>0 DEF Holding
      <4> QED
        BY <1>0, <2>1, <2>2, <3>0, <4>1 DEF SenderInv, HoldsLock, DropsBroken, RegistersOwn
    <3>2. PICK d \in Dsts : d = sender[s].dst
      BY <1>0 DEF SenderStates
    <3>3. PICK old : old = alias[d]
      OBVIOUS
    <3>4. Dialed(old, d)' => Dialed(old, d)
      BY <1>1 DEF Settles, Wanes, Dialed
    <3>5. Searched(s)' => Searched(s)
      BY <1>0, <2>1, <2>2, <3>0 DEF Searched, SenderStates
    <3>6. FoundNothing(s)'
      <4>1. sender'[s].dst = d /\ alias'[d] = old
        BY <2>2, <3>2, <3>3 DEF ClosesBroken
      <4>2. FoundNothing(s)' <=> (Searched(s)' => ~Dialed(old, d)')
        BY <3>0, <4>1 DEF FoundNothing, Dialed, Usable
      <4> QED
        BY <1>0, <3>2, <3>3, <3>4, <3>5, <4>2 DEF SenderInv, FoundNothing
    <3> QED
      BY <3>1, <3>6 DEF SenderInv
  <2> QED
    BY <1>1, <2>2, <2>3, SettlingPreserves DEF ClosesBroken
<1> QED
  BY <1>2, <1>3

LEMMA LocksDstPreserves ==
  ASSUME IInv, NEW s \in Senders, LocksDst(s)
  PROVE  IInv'
<1>0. sender[s] \in SenderStates /\ Types
  BY DEF IInv, Types
<1>1. /\ Types' /\ sender'[s] = [sender[s] EXCEPT !.pc = "recheck"]
      /\ \A t \in Senders \ {s} : Stays(t)
  BY <1>0, NobodyAssumption DEF Types, LocksDst, Goes, SenderStates, Stays
<1>2. SenderInv(s)'
  BY <1>0, <1>1
  DEF Types, SenderInv, HoldsLock, FoundNothing, Searched, DropsBroken, RegistersOwn, LocksDst,
      SenderStates
<1> QED
  BY <1>1, <1>2, SameTablesSettle, SettlingPreserves DEF LocksDst

LEMMA RechecksPreserves ==
  ASSUME IInv, NEW s \in Senders, Rechecks(s)
  PROVE  IInv'
<1>0. SenderInv(s) /\ sender[s] \in SenderStates /\ Types
  BY DEF IInv, Types
<1>1. PICK listed \in Ids \cup {NoConn} : listed = alias[sender[s].dst]
  BY <1>0 DEF Types, SenderStates, Keys
<1>2. CASE listed = NoConn
  <2>1. sender' = [sender EXCEPT ![s].pc = "dial"]
    BY <1>1, <1>2 DEF Rechecks, Goes
  <2>2. Types' /\ \A t \in Senders \ {s} : Stays(t)
    BY <1>0, <2>1 DEF Types, Rechecks, SenderStates, Stays
  <2>3. /\ sender'[s].pc = "dial" /\ sender'[s].dst = sender[s].dst
        /\ alias'[sender'[s].dst] = NoConn
    BY <1>0, <1>1, <1>2, <2>1 DEF Rechecks, Types, SenderStates
  <2>4. SenderInv(s)'
    BY <1>0, <2>3
    DEF SenderInv, HoldsLock, Holding, FoundNothing, Dialed, DropsBroken, RegistersOwn,
        Rechecks, Ids, NoConn
  <2> QED
    BY <2>2, <2>4, SameTablesSettle, SettlingPreserves DEF Rechecks
<1>3. CASE listed # NoConn
  <2>1. sender' = [sender EXCEPT ![s].pc = "write", ![s].conn = listed, ![s].stage = "recheck"]
    BY <1>1, <1>3 DEF Rechecks, Tries
  <2>2. Types' /\ \A t \in Senders \ {s} : Stays(t)
    BY <1>0, <2>1 DEF Types, Rechecks, SenderStates, Stays
  <2>3. /\ sender'[s].pc = "write" /\ sender'[s].dst = sender[s].dst
        /\ sender'[s].conn = listed /\ alias'[sender'[s].dst] = listed
    BY <1>0, <1>1, <1>3, <2>1 DEF Rechecks, Types, SenderStates
  <2>4. SenderInv(s)'
    BY <1>0, <2>3
    DEF SenderInv, HoldsLock, Holding, FoundNothing, Searched, DropsBroken, RegistersOwn,
        Rechecks
  <2> QED
    BY <2>2, <2>4, SameTablesSettle, SettlingPreserves DEF Rechecks
<1> QED
  BY <1>2, <1>3

LEMMA DialFailsPreserves ==
  ASSUME IInv, NEW s \in Senders, DialFails(s)
  PROVE  IInv'
<1>1. Types'
  BY ReturnFacts DEF IInv, Types, DialFails
<1>2. SenderInv(s)'
  BY ReturnFacts, ClaimlessSender DEF DialFails
<1> QED
  BY <1>1, <1>2, ReturnFacts, SameTablesSettle, SettlingPreserves DEF DialFails

(* The fresh connection was nobody's; it is usable, and its sender is      *)
(* about to register it.                                                   *)
LEMMA DialsPreserves ==
  ASSUME IInv, NEW s \in Senders, Dials(s)
  PROVE  IInv'
<1>0. SenderInv(s) /\ sender[s] \in SenderStates /\ Types /\ sender[s].pc = "dial"
  BY DEF IInv, Types, Dials
<1>1. PICK i \in Fresh :
        /\ conn' = [conn EXCEPT ![i] = Made(RemoteAddr[sender[s].dst], sender[s].dst)]
        /\ sender' = [sender EXCEPT ![s].pc = "register", ![s].conn = i, ![s].stage = "fresh"]
  BY DEF Dials
<1>2. i \in Ids /\ Garbage(i)
  BY DEF Fresh
<1>3. /\ sender'[s].pc = "register" /\ sender'[s].conn = i /\ sender'[s].dst = sender[s].dst
      /\ \A t \in Senders \ {s} : sender'[t] = sender[t]
      /\ conn'[i] = Made(RemoteAddr[sender[s].dst], sender[s].dst)
      /\ \A j \in Ids \ {i} : conn'[j] = conn[j]
      /\ UNCHANGED <<alias, dialLock, acceptor>>
  BY <1>0, <1>1, <1>2 DEF Types, SenderStates, Dials
<1>4. Types'
  <2>1. Made(RemoteAddr[sender[s].dst], sender[s].dst) \in Connections
    BY <1>0, AddressAssumption DEF SenderStates, Made, Connections
  <2> QED
    BY <1>0, <1>1, <1>2, <2>1 DEF Types, SenderStates, Dials
<1>5. ASSUME NEW t \in Senders \ {s} PROVE SenderInv(t)'
  <2>1. sender[t].conn # i /\ alias[sender[t].dst] # i /\ SenderInv(t) /\ sender[t] \in SenderStates
    BY <1>0, <1>2 DEF Garbage, IInv, Types, SenderStates, Keys
  <2> QED
    BY <1>3, <2>1
    DEF SenderInv, HoldsLock, Holding, FoundNothing, Searched, DropsBroken, RegistersOwn,
        Dialed, Usable
<1>6. SenderInv(s)'
  <2>1. alias[sender[s].dst] # i
    BY <1>0, <1>2 DEF Garbage, SenderStates, Keys
  <2> QED
    BY <1>0, <1>2, <1>3, <2>1
    DEF SenderInv, HoldsLock, Holding, FoundNothing, Searched, DropsBroken, RegistersOwn,
        Dialed, Usable, Made
<1>7. AcceptedIsNotDialed'
  BY <1>0, <1>2, <1>3 DEF IInv, Types, AcceptedIsNotDialed, Garbage
<1>8. DialedAreKnown'
  <2> SUFFICES ASSUME NEW j \in Ids, NEW d \in Dsts, Dialed(j, d)'
               PROVE  alias'[d] = j \/ \E t \in Senders : Registering(t, j, d)'
    BY DEF DialedAreKnown
  <2>1. CASE j = i
    BY <1>3, <2>1 DEF Dialed, Made, Registering
  <2>2. CASE j # i
    <3>1. Dialed(j, d)
      BY <1>3, <2>2 DEF Dialed, Usable
    <3>2. ~Registering(s, j, d)
      BY <1>0 DEF Registering
    <3> QED
      BY <1>3, <3>1, <3>2 DEF IInv, DialedAreKnown, Registering
  <2> QED
    BY <2>1, <2>2
<1> QED
  BY <1>4, <1>5, <1>6, <1>7, <1>8 DEF IInv

(* register: the reader of i starts and what the key had before is closed. *)
LEMMA RegisterFacts ==
  ASSUME Types, NEW key \in Keys, NEW i \in Ids \cup {NoConn},
         conn' = Register(key, i, [conn EXCEPT ![i].reader = "top"])
  PROVE  /\ conn' \in [Ids -> Connections]
         /\ \A j \in Ids :
              /\ conn'[j].dst \in {conn[j].dst, Nobody}
              /\ conn[j].peer = "down" => conn'[j].peer = "down"
              /\ j # i => (Usable(j)' => Usable(j) /\ j # alias[key])
<1>0. PICK started : started = [conn EXCEPT ![i].reader = "top"]
  OBVIOUS
<1>1. /\ started \in [Ids -> Connections]
      /\ \A j \in Ids :
           /\ started[j].dst = conn[j].dst /\ started[j].peer = conn[j].peer
           /\ j # i => started[j] = conn[j]
  <2>1. ASSUME NEW j \in Ids
        PROVE  /\ started[j] = IF j = i THEN [conn[j] EXCEPT !.reader = "top"] ELSE conn[j]
               /\ conn[j] \in Connections
    BY <1>0 DEF Types
  <2>2. ASSUME NEW j \in Ids
        PROVE  /\ started[j] \in Connections
               /\ started[j].dst = conn[j].dst /\ started[j].peer = conn[j].peer
    BY <2>1 DEF Connections
  <2>3. started = [j \in Ids |-> started[j]]
    BY <1>0 DEF Types
  <2> QED
    BY <2>1, <2>2, <2>3
<1>2. CASE alias[key] \in {NoConn, i}
  <2>1. conn' = started
    BY <1>0, <1>2 DEF Register
  <2>2. \A j \in Ids : j # i => j # alias[key]
    BY <1>2 DEF Ids, NoConn
  <2> QED
    BY <1>1, <2>1, <2>2 DEF Usable
<1>3. CASE alias[key] \notin {NoConn, i}
  <2>1. PICK old \in Ids : old = alias[key]
    BY <1>3 DEF Types
  <2>2. conn' = Closed(started, old)
    BY <1>0, <1>3, <2>1 DEF Register
  <2>3. /\ conn' \in [Ids -> Connections]
        /\ \A j \in Ids \ {old} : conn'[j] = started[j]
        /\ conn'[old].ours = "closed" /\ conn'[old].peer = "down" /\ conn'[old].dst = Nobody
    <3>1. old \in Ids \cup {NoConn}
      BY <2>1
    <3>2. conn' \in [Ids -> Connections]
      <4>1. started \in [Ids -> Connections]
        BY <1>1
      <4> QED
        BY <2>2, <3>1, <4>1, ClosedFacts
    <3>3. ASSUME NEW j \in Ids
          PROVE  /\ j # old => conn'[j] = started[j]
                 /\ j = old => conn'[j].ours = "closed" /\ conn'[j].peer = "down"
                               /\ conn'[j].dst = Nobody
      BY <1>1, <2>2, <3>1, <3>3, ClosedFacts
    <3> QED
      BY <2>1, <3>2, <3>3
  <2> QED
    BY <1>1, <2>1, <2>3 DEF Usable
<1> QED
  BY <1>2, <1>3

(* The fresh connection takes the key: nothing usable had it.              *)
LEMMA RegistersPreserves ==
  ASSUME IInv, NEW s \in Senders, Registers(s)
  PROVE  IInv'
<1>0. SenderInv(s) /\ sender[s] \in SenderStates /\ Types /\ sender[s].pc = "register"
  BY DEF IInv, Types, Registers
<1>1. PICK i \in Ids \cup {NoConn}, d \in Dsts : i = sender[s].conn /\ d = sender[s].dst
  BY <1>0 DEF SenderStates
<1>2. /\ alias' = [alias EXCEPT ![d] = i]
      /\ conn' = Register(d, i, [conn EXCEPT ![i].reader = "top"])
      /\ sender' = [sender EXCEPT ![s].pc = "write"]
      /\ UNCHANGED <<dialLock, acceptor, stop>>
  BY <1>1 DEF Registers, Goes
<1>3. /\ conn' \in [Ids -> Connections]
      /\ \A j \in Ids :
           /\ conn'[j].dst \in {conn[j].dst, Nobody}
           /\ conn[j].peer = "down" => conn'[j].peer = "down"
           /\ j # i => (Usable(j)' => Usable(j) /\ j # alias[d])
  BY <1>0, <1>2, RegisterFacts DEF Keys
<1>4. /\ Types' /\ \A t \in Senders \ {s} : sender'[t] = sender[t]
      /\ sender'[s].pc = "write" /\ sender'[s].dst = d /\ sender'[s].conn = i
      /\ alias'[d] = i /\ \A k \in Keys \ {d} : alias'[k] = alias[k]
  BY <1>0, <1>1, <1>2, <1>3 DEF Types, SenderStates, Keys
<1>5. i \in Ids => conn[i].dst \in {d, Nobody}
  BY <1>0, <1>1 DEF SenderInv, RegistersOwn
<1>6. ASSUME NEW j \in Ids, NEW e \in Dsts, Dialed(j, e)', j # i \/ e # d
      PROVE  Dialed(j, e) /\ j # i
  BY <1>3, <1>5, <1>6, NobodyAssumption DEF Dialed
<1>7. ASSUME NEW t \in Senders \ {s} PROVE SenderInv(t)'
  <2>0. SenderInv(t) /\ sender[t] \in SenderStates /\ sender'[t] = sender[t]
    BY <1>0, <1>4 DEF IInv, Types
  <2>1. HoldsLock(t)' /\ DropsBroken(t)' /\ RegistersOwn(t)'
    BY <1>2, <1>3, <2>0
    DEF SenderInv, HoldsLock, Holding, DropsBroken, RegistersOwn
  <2>2. PICK e \in Dsts : e = sender[t].dst
    BY <2>0 DEF SenderStates
  <2>3. ASSUME e = d PROVE FoundNothing(t)'
    <3>1. ~Holding(t)
      BY <1>0, <1>1, <2>0, <2>2, <2>3 DEF SenderInv, HoldsLock, Holding
    <3> QED
      BY <2>0, <3>1 DEF FoundNothing, Holding, Searched, Dialed, Usable
  <2>4. ASSUME e # d PROVE FoundNothing(t)'
    <3>1. PICK old \in Ids \cup {NoConn} : old = alias[e] /\ old = alias'[e]
      BY <1>0, <1>4, <2>4 DEF Types, Keys
    <3>2. Dialed(old, e)' => Dialed(old, e)
      BY <1>6, <2>4 DEF Dialed
    <3>3. FoundNothing(t)' <=>
            /\ Searched(t) => ~Dialed(old, e)'
            /\ sender[t].pc = "write" /\ sender[t].stage = "recheck" =>
                 old = sender[t].conn \/ ~Dialed(old, e)'
      BY <2>0, <2>2, <3>1 DEF FoundNothing, Searched, Dialed, Usable
    <3>4. /\ Searched(t) => ~Dialed(old, e)
          /\ sender[t].pc = "write" /\ sender[t].stage = "recheck" =>
               old = sender[t].conn \/ ~Dialed(old, e)
      BY <2>0, <2>2, <3>1 DEF SenderInv, FoundNothing
    <3> QED
      BY <3>2, <3>3, <3>4
  <2> QED
    BY <2>1, <2>3, <2>4 DEF SenderInv
<1>8. SenderInv(s)'
  BY <1>0, <1>1, <1>2, <1>4
  DEF SenderInv, HoldsLock, Holding, FoundNothing, Searched, DropsBroken, RegistersOwn
<1>9. AcceptedIsNotDialed'
  BY <1>0, <1>2, <1>3 DEF IInv, Types, AcceptedIsNotDialed
<1>10. DialedAreKnown'
  <2> SUFFICES ASSUME NEW j \in Ids, NEW e \in Dsts, Dialed(j, e)'
               PROVE  alias'[e] = j \/ \E t \in Senders : Registering(t, j, e)'
    BY DEF DialedAreKnown
  <2>1. CASE j = i /\ e = d
    BY <1>4, <2>1
  <2>2. CASE ~(j = i /\ e = d)
    <3>1. Dialed(j, e) /\ j # i
      BY <1>6, <2>2
    <3>2. alias[e] = j => alias'[e] = j
      BY <1>3, <1>4, <3>1 DEF Dialed, Keys
    <3>3. \A t \in Senders : Registering(t, j, e) => Registering(t, j, e)'
      BY <1>1, <1>4, <3>1 DEF Registering
    <3> QED
      BY <3>1, <3>2, <3>3 DEF IInv, DialedAreKnown
  <2> QED
    BY <2>1, <2>2
<1> QED
  BY <1>4, <1>7, <1>8, <1>9, <1>10 DEF IInv

------------------------------------------------------------------------------
(* The accept loop, the readers, Stop and the peers: senders stay put.     *)

LEMMA SendersStaying ==
  ASSUME IInv, Types', Settles, UNCHANGED <<dialLock, sender>>,
         acceptor' \in {acceptor, NoConn} \/ conn'[acceptor'].dst = Nobody
  PROVE  IInv'
<1>1. \A t \in Senders : Stays(t)
  BY DEF Stays
<1> QED
  BY <1>1, SettlingPreserves

LEMMA AcceptsPreserves ==
  ASSUME IInv, NEW p \in Peers, Accepts(p)
  PROVE  IInv'
<1>1. PICK i \in Fresh : conn' = [conn EXCEPT ![i] = Made(p, Nobody)] /\ acceptor' = i
  BY DEF Accepts
<1>2. i \in Ids /\ Garbage(i)
  BY DEF Fresh
<1>3. Made(p, Nobody) \in Connections
  BY DEF Made, Connections
<1>4. Types' /\ conn'[i].dst = Nobody
  BY <1>1, <1>2, <1>3 DEF IInv, Types, Accepts, Made
<1>5. \A j \in Ids : Wanes(j)
  BY <1>1, <1>2, <1>4, NobodyAssumption
  DEF IInv, Types, Wanes, Dialed, Usable, Garbage
<1>6. Settles
  BY <1>5 DEF Settles, Switches, Accepts
<1> QED
  BY <1>1, <1>4, <1>6, SendersStaying DEF Accepts

LEMMA AcceptRegistersPreserves ==
  ASSUME IInv, AcceptRegisters
  PROVE  IInv'
<1>0. PICK i \in Ids : i = acceptor
  BY DEF IInv, Types, AcceptRegisters
<1>1. PICK p \in Peers : p = conn[i].remote
  BY DEF IInv, Types, Connections
<1>2. /\ alias' = [alias EXCEPT ![p] = i]
      /\ conn' = Register(p, i, [conn EXCEPT ![i].reader = "top"])
      /\ acceptor' = NoConn
  BY <1>0, <1>1 DEF AcceptRegisters
<1>3. /\ conn' \in [Ids -> Connections]
      /\ \A j \in Ids :
           /\ conn'[j].dst \in {conn[j].dst, Nobody}
           /\ conn[j].peer = "down" => conn'[j].peer = "down"
           /\ j # i => (Usable(j)' => Usable(j) /\ j # alias[p])
  BY <1>2, RegisterFacts DEF IInv, Keys
<1>4. conn'[i].dst = Nobody
  BY <1>0, <1>3 DEF IInv, AcceptedIsNotDialed, Ids, NoConn
<1>5. \A j \in Ids, d \in Dsts : Dialed(j, d)' => Dialed(j, d) /\ j # i /\ j # alias[p]
  BY <1>3, <1>4, NobodyAssumption DEF Dialed
<1>6. \A j \in Ids : Wanes(j)
  BY <1>3, <1>5 DEF Wanes
<1>7. \A k \in Keys : Switches(k)
  BY <1>2, <1>5 DEF IInv, Types, Switches
<1>8. Types'
  BY <1>1, <1>2, <1>3 DEF IInv, Types, AcceptRegisters, Keys
<1> QED
  BY <1>2, <1>6, <1>7, <1>8, SendersStaying DEF Settles, AcceptRegisters

(* A connection of which only the reader moves, not back into use.         *)
LEMMA SetReaderFacts ==
  ASSUME IInv, NEW i \in Ids,
         NEW state \in {"top", "reading", "handling", "removing", "closing"}, SetReader(i, state),
         state \in {"top", "reading", "handling"} =>
           conn[i].reader \in {"top", "reading", "handling"}
  PROVE  /\ conn' \in [Ids -> Connections] /\ \A j \in Ids : Wanes(j)
         /\ state = "closing" => ~Usable(i)'
<1>1. /\ conn' \in [Ids -> Connections]
      /\ \A j \in Ids :
           /\ conn'[j].ours = conn[j].ours /\ conn'[j].peer = conn[j].peer
           /\ conn'[j].dst = conn[j].dst
           /\ j # i => conn'[j].reader = conn[j].reader
           /\ j = i => conn'[j].reader = state
  BY DEF IInv, Types, SetReader, Connections
<1> QED
  BY <1>1 DEF Wanes, Dialed, Usable

LEMMA ReaderPreserves ==
  ASSUME IInv, NEW i \in Ids, ReaderMoves(i) \/ ReaderReads(i) \/ HandlerReturns(i)
  PROVE  IInv'
<1>1. ASSUME NEW state \in {"top", "reading", "handling", "removing"}, SetReader(i, state),
             conn[i].reader \in {"top", "reading", "handling"},
             UNCHANGED <<alias, dialLock, sender, acceptor>>
      PROVE  IInv'
  <2>1. conn' \in [Ids -> Connections] /\ \A j \in Ids : Wanes(j)
    BY <1>1, SetReaderFacts
  <2> QED
    BY <1>1, <2>1, SendersStaying DEF IInv, Types, Settles, Switches
<1>2. CASE ReaderTests(i)
  BY <1>1, <1>2 DEF ReaderTests
<1>3. CASE ReaderReads(i) \/ HandlerReturns(i)
  BY <1>1, <1>3 DEF ReaderReads, HandlerReturns
<1>4. CASE ReaderFails(i)
  BY <1>1, <1>4 DEF ReaderFails
<1>5. CASE ReaderRemoves(i)
  <2>1. /\ conn' \in [Ids -> Connections] /\ \A j \in Ids : Wanes(j)
        /\ ~Usable(i)'
    BY <1>5, SetReaderFacts DEF ReaderRemoves
  <2>2. \A k \in Keys : alias'[k] = alias[k] \/ (alias[k] = i /\ alias'[k] = NoConn)
    BY <1>5 DEF IInv, Types, ReaderRemoves, RemoveIfMatches
  <2>3. \A k \in Keys : Switches(k)
    BY <2>1, <2>2 DEF Switches, Dialed, Ids, NoConn
  <2>4. Types'
    BY <1>5, <2>1 DEF IInv, Types, ReaderRemoves, RemoveIfMatches
  <2> QED
    BY <1>5, <2>1, <2>3, <2>4, SendersStaying DEF ReaderRemoves, Settles
<1>6. CASE ReaderCloses(i)
  <2>1. PICK table : table = Closed(conn, i)
    OBVIOUS
  <2>2. /\ table \in [Ids -> Connections]
        /\ \A j \in Ids \ {i} : table[j] = conn[j]
        /\ table[i].ours = "closed" /\ table[i].peer = "down" /\ table[i].dst = Nobody
    BY <2>1, ClosedFacts DEF IInv, Types
  <2>3. conn' = [table EXCEPT ![i].reader = "none"]
    BY <1>6, <2>1 DEF ReaderCloses
  <2>4. /\ conn' \in [Ids -> Connections]
        /\ \A j \in Ids \ {i} : conn'[j] = conn[j]
        /\ conn'[i].ours = "closed" /\ conn'[i].peer = "down" /\ conn'[i].dst = Nobody
    BY <2>2, <2>3 DEF Connections
  <2>5. \A j \in Ids : Wanes(j)
    BY <2>4 DEF Wanes, Dialed, Usable
  <2> QED
    BY <1>6, <2>4, <2>5, SendersStaying DEF IInv, Types, ReaderCloses, Settles, Switches
<1> QED
  BY <1>2, <1>3, <1>4, <1>5, <1>6 DEF ReaderMoves

LEMMA StopClearsPreserves ==
  ASSUME IInv, StopClears
  PROVE  IInv'
<1>1. ASSUME NEW j \in Ids
      PROVE  /\ conn'[j] \in Connections /\ Wanes(j)
             /\ (\E k \in Keys : alias[k] = j) => ~Usable(j)'
  <2>1. CASE \E k \in Keys : alias[k] = j
    <3>1. conn'[j] = Closed(conn, j)[j]
      BY <2>1 DEF StopClears
    <3>2. /\ conn'[j] \in Connections
          /\ conn'[j].ours = "closed" /\ conn'[j].peer = "down" /\ conn'[j].dst = Nobody
      BY <3>1, ClosedFacts DEF IInv, Types
    <3> QED
      BY <3>2 DEF Wanes, Dialed, Usable
  <2>2. CASE ~\E k \in Keys : alias[k] = j
    <3>1. conn'[j] = conn[j]
      BY <2>2 DEF StopClears
    <3> QED
      BY <2>2, <3>1 DEF IInv, Types, Wanes, Dialed, Usable
  <2> QED
    BY <2>1, <2>2
<1>2. conn' = [j \in Ids |-> conn'[j]]
  BY DEF StopClears
<1>3. Types'
  BY <1>1, <1>2 DEF IInv, Types, StopClears
<1>4. \A k \in Keys : Switches(k)
  BY <1>1 DEF StopClears, Switches, Dialed, Ids, NoConn
<1> QED
  BY <1>1, <1>3, <1>4, SendersStaying DEF StopClears, Settles

LEMMA PeerPreserves ==
  ASSUME IInv, NEW i \in Ids, PeerGoes(i) \/ PeerStalls(i)
  PROVE  IInv'
<1>1. PICK state \in {"down", "stalled"} :
        /\ conn' = [conn EXCEPT ![i].peer = state]
        /\ conn[i].peer # "down" /\ UNCHANGED <<alias, dialLock, sender, acceptor>>
  BY DEF PeerGoes, PeerStalls
<1>2. /\ conn' \in [Ids -> Connections]
      /\ \A j \in Ids :
           /\ conn'[j].ours = conn[j].ours /\ conn'[j].reader = conn[j].reader
           /\ conn'[j].dst = conn[j].dst
           /\ j # i => conn'[j].peer = conn[j].peer
           /\ j = i => conn'[j].peer = state
  BY <1>1 DEF IInv, Types, Connections
<1>3. \A j \in Ids : Wanes(j)
  BY <1>1, <1>2 DEF Wanes, Dialed, Usable
<1> QED
  BY <1>1, <1>2, <1>3, SendersStaying DEF IInv, Types, Settles, Switches

------------------------------------------------------------------------------
(* The theorem. *)

LEMMA InitEstablishes == Init => IInv
<1> SUFFICES ASSUME Init PROVE IInv
  OBVIOUS
<1>1. Types
  <2>1. NotSending \in SenderStates
    BY AddressAssumption DEF NotSending, SenderStates
  <2>2. NotMade \in Connections
    BY AddressAssumption DEF NotMade, Connections
  <2> QED
    BY <2>1, <2>2 DEF Init, Types
<1>2. ASSUME NEW s \in Senders PROVE SenderInv(s)
  BY DEF Init, NotSending, SenderInv, HoldsLock, Holding, FoundNothing, Searched, DropsBroken,
         RegistersOwn
<1>3. AcceptedIsNotDialed /\ DialedAreKnown
  BY DEF Init, NotMade, AcceptedIsNotDialed, DialedAreKnown, Dialed, Usable
<1> QED
  BY <1>1, <1>2, <1>3 DEF IInv

LEMMA NextPreserves == IInv /\ [Next]_vars => IInv'
<1> SUFFICES ASSUME IInv, [Next]_vars PROVE IInv'
  OBVIOUS
<1>1. ASSUME NEW s \in Senders, SenderMoves(s) PROVE IInv'
  BY <1>1, WritesPreserves, DropsPreserves, ClosesBrokenPreserves, LocksDstPreserves,
     RechecksPreserves, DialsPreserves, DialFailsPreserves, RegistersPreserves
  DEF SenderMoves
<1>2. ASSUME NEW s \in Senders, NEW d \in Dsts, NEW by \in Callers(s), SendStarts(s, d, by)
      PROVE  IInv'
  BY <1>2, SendStartsPreserves
<1>3. ASSUME NEW p \in Peers, Accepts(p) PROVE IInv'
  BY <1>3, AcceptsPreserves
<1>4. CASE AcceptRegisters
  BY <1>4, AcceptRegistersPreserves
<1>5. ASSUME NEW i \in Ids, ReaderMoves(i) \/ ReaderReads(i) \/ HandlerReturns(i)
      PROVE  IInv'
  BY <1>5, ReaderPreserves
<1>6. ASSUME NEW i \in Ids, PeerGoes(i) \/ PeerStalls(i) PROVE IInv'
  BY <1>6, PeerPreserves
<1>7. CASE StopSignals \/ StopCloses \/ UNCHANGED vars
  <2>1. UNCHANGED <<conn, alias, dialLock, sender, acceptor>>
    BY <1>7 DEF StopSignals, StopCloses, vars
  <2> QED
    BY <2>1, SameTablesSettle, SendersStaying DEF IInv, Types
<1>8. CASE StopClears
  BY <1>8, StopClearsPreserves
<1> QED
  BY <1>1, <1>2, <1>3, <1>4, <1>5, <1>6, <1>7, <1>8 DEF Next

(* The inductive invariant holds in every reachable state.                 *)
THEOREM Invariance == Spec => []IInv
BY InitEstablishes, NextPreserves, PTL DEF Spec

(* Never two usable connections dialled to one destination: both would be  *)
(* listed under it, or one listed and the other about to be registered by  *)
(* a sender whose search under the lock found nothing, or both about to be *)
(* registered by senders that hold the one lock.                           *)
THEOREM OneSocket == Spec => []OneSocketPerDestination
<1>1. IInv => OneSocketPerDestination
  <2> SUFFICES ASSUME IInv, NEW i \in Ids, NEW j \in Ids, i # j, Usable(i), Usable(j),
                      conn[i].dst = conn[j].dst, conn[i].dst # Nobody
               PROVE  FALSE
    BY DEF OneSocketPerDestination
  <2>1. PICK d \in Dsts : Dialed(i, d) /\ Dialed(j, d)
    BY DEF IInv, Types, Connections, Dialed
  <2>2. ASSUME NEW s \in Senders, NEW k \in Ids, Registering(s, k, d)
        PROVE  dialLock[d] = s /\ ~Dialed(alias[d], d)
    BY <2>2
    DEF IInv, SenderInv, HoldsLock, Holding, FoundNothing, Searched, Registering
  <2> QED
    BY <2>1, <2>2 DEF IInv, DialedAreKnown, Registering
<1> QED
  BY <1>1, Invariance, PTL

(* While the transport runs, a usable connection leaves the table only for *)
(* another one: a sender removes what it found broken, a reader what it    *)
(* has given up, and who registers has a connection to register.           *)
THEOREM UsableIsNotEvicted == Spec => UsableStaysListed
<1> DEFINE Keeps == \A k \in Keys : alias[k] # NoConn /\ Usable(alias[k]) /\ stop # "closed"
                                      => alias'[k] # NoConn
<1>1. IInv /\ [Next]_vars => [Keeps]_vars
  <2> SUFFICES ASSUME IInv, Next, NEW k \in Keys, alias[k] \in Ids, Usable(alias[k]),
                      stop # "closed"
               PROVE  alias'[k] # NoConn
    BY DEF IInv, Types
  <2>0. alias[k] # NoConn
    BY DEF Ids, NoConn
  <2>1. CASE UNCHANGED alias
    BY <2>0, <2>1
  <2>2. ASSUME NEW s \in Senders, Drops(s) PROVE alias'[k] = alias[k]
    <3>1. SenderInv(s) /\ alias' = RemoveIfMatches(sender[s].dst, sender[s].conn)
      BY <2>2 DEF IInv, Drops
    <3>2. alias[k] # sender[s].conn
      BY <2>2, <3>1 DEF SenderInv, DropsBroken, Drops, Usable
    <3> QED
      BY <3>1, <3>2 DEF IInv, Types, RemoveIfMatches
  <2>3. ASSUME NEW s \in Senders, Registers(s) PROVE alias'[k] \in Ids
    <3>1. sender[s].conn \in Ids /\ alias' = [alias EXCEPT ![sender[s].dst] = sender[s].conn]
      BY <2>3 DEF IInv, SenderInv, RegistersOwn, Registers
    <3> QED
      BY <3>1 DEF IInv, Types
  <2>4. CASE AcceptRegisters
    <3>1. acceptor \in Ids /\ alias' = [alias EXCEPT ![conn[acceptor].remote] = acceptor]
      BY <2>4 DEF IInv, Types, AcceptRegisters
    <3> QED
      BY <2>0, <3>1 DEF IInv, Types, Ids, NoConn
  <2>5. ASSUME NEW i \in Ids, ReaderRemoves(i) PROVE alias'[k] = alias[k]
    <3>1. alias[k] # i
      BY <2>5 DEF ReaderRemoves, Usable
    <3>2. PICK p \in Keys : p = conn[i].remote
      BY DEF IInv, Types, Connections, Keys
    <3>3. alias' = RemoveIfMatches(p, i)
      BY <2>5, <3>2 DEF ReaderRemoves
    <3> QED
      BY <3>1, <3>3 DEF IInv, Types, RemoveIfMatches
  <2>6. CASE StopClears
    BY <2>6 DEF StopClears
  <2>7. ASSUME NEW s \in Senders, SenderMoves(s) PROVE alias'[k] # NoConn
    <3>1. CASE Drops(s)
      BY <2>0, <2>2, <3>1
    <3>2. CASE Registers(s)
      BY <2>3, <3>2 DEF Ids, NoConn
    <3>3. CASE \/ Writes(s) \/ ClosesBroken(s) \/ LocksDst(s) \/ Rechecks(s) \/ Dials(s)
               \/ DialFails(s)
      <4>1. UNCHANGED alias
        BY <3>3 DEF Writes, ClosesBroken, LocksDst, Rechecks, Dials, DialFails
      <4> QED
        BY <2>1, <4>1
    <3> QED
      BY <2>7, <3>1, <3>2, <3>3 DEF SenderMoves
  <2>8. ASSUME NEW i \in Ids, ReaderMoves(i) PROVE alias'[k] # NoConn
    BY <2>0, <2>5, <2>8 DEF ReaderMoves, ReaderTests, ReaderFails, ReaderCloses
  <2>9. CASE \/ \E s \in Senders, d \in Dsts : \E by \in Callers(s) : SendStarts(s, d, by)
             \/ \E p \in Peers : Accepts(p)
             \/ \E i \in Ids : \/ ReaderReads(i) \/ HandlerReturns(i)
                              \/ PeerGoes(i) \/ PeerStalls(i)
             \/ StopSignals \/ StopCloses
    BY <2>1, <2>9
    DEF SendStarts, Accepts, ReaderReads, HandlerReturns, PeerGoes, PeerStalls, StopSignals,
        StopCloses
  <2> QED
    BY <2>4, <2>6, <2>7, <2>8, <2>9 DEF Next
<1> QED
  BY <1>1, Invariance, PTL DEF Spec, UsableStaysListed
==============================================================================
