----------------------------- MODULE LayerLocks -----------------------------
(***************************************************************************)
(* Who holds and who waits for the locks of the transaction layer: the     *)
(* layer's sync.RWMutex and the sync.Mutex of one client (ICT) and one     *)
(* server transaction (IST).  Each thread performs the lock operations of  *)
(* one path of the code, over and over; everything between two operations  *)
(* is left out.  Any number of threads may be on the same path.            *)
(*                                                                         *)
(* A sync.RWMutex prefers writers: once a writer waits, a new reader waits *)
(* behind it, even while other readers hold the lock.                      *)
(***************************************************************************)
EXTENDS Naturals, Sequences, FiniteSets

CONSTANTS
  Threads,  \* the goroutines
  Path,     \* the path of each
  Nobody    \* no owner

Paths == {"response", "cancel", "timeout", "retransmission", "serverTimer", "clientTimer",
          "gc", "list"}

ASSUME ThreadsAssumption == Path \in [Threads -> Paths] /\ Nobody \notin Threads

Mutexes == {"ICT", "IST"}

(* Operations: <<"lock", m>>, <<"unlock", m>> on a transaction's mutex, and *)
(* <<"rlock">>, <<"runlock">>, <<"wlock">>, <<"wunlock">> on the layer's.   *)
Reading == <<<<"rlock">>, <<"runlock">>>>
Writing == <<<<"wlock">>, <<"wunlock">>>>
Using(m) == <<<<"lock", m>>, <<"unlock", m>>>>

(* An answer of the branch is forwarded under the branch's lock: the       *)
(* server transaction is looked up, then asked to respond.                 *)
Forwarding == <<<<"lock", "ICT">>>> \o Reading \o Using("IST") \o <<<<"unlock", "ICT">>>>

(* receiveResponse: find the client transaction, then forward. *)
Response == Reading \o Forwarding

(* Timer B: 408 takes the way of an answer. *)
ClientTimer == Forwarding

\* slip: the branch's state is read inside the snapshot
CancelInSnapshot ==
  <<<<"rlock">>>> \o Using("ICT") \o <<<<"runlock">>>> \o Writing \o Using("IST")

(* handleCancelMatched: snapshot of the branches, state of one, insertion  *)
(* of its CANCEL's transaction, 487 for the INVITE.                        *)
Cancel == Reading \o Using("ICT") \o Writing \o Using("IST")

(* The invite timeout: is the call still open, then as a CANCEL, but 408. *)
Timeout == Using("IST") \o Cancel

(* receiveRequest with a request that is already known. *)
Retransmission == Reading \o Using("IST")

ServerTimer == Using("IST")

\* slip: gc asks each transaction for its state
GcAsks == <<<<"wlock">>>> \o Using("ICT") \o <<<<"wunlock">>>>

Gc == Writing

(* ActiveTransactions reads every transaction's state while it holds the   *)
(* layer's lock.                                                           *)
List == <<<<"rlock">>>> \o Using("IST") \o Using("ICT") \o <<<<"runlock">>>>

Program(t) ==
  CASE Path[t] = "response" -> Response
    [] Path[t] = "clientTimer" -> ClientTimer
    [] Path[t] = "cancel" -> Cancel
    [] Path[t] = "timeout" -> Timeout
    [] Path[t] = "retransmission" -> Retransmission
    [] Path[t] = "serverTimer" -> ServerTimer
    [] Path[t] = "gc" -> Gc
    [] Path[t] = "list" -> List

VARIABLES
  pc,       \* the next operation of each thread
  owner,    \* of each mutex
  readers,  \* of the layer's lock
  writer,
  waiting   \* writers that have announced themselves

lockVars == <<pc, owner, readers, writer, waiting>>

LocksInit ==
  /\ pc = [t \in Threads |-> 1]
  /\ owner = [m \in Mutexes |-> Nobody]
  /\ readers = {}
  /\ writer = Nobody
  /\ waiting = {}

Op(t) == Program(t)[pc[t]]
Advance(t) == pc' = [pc EXCEPT ![t] = IF @ = Len(Program(t)) THEN 1 ELSE @ + 1]

------------------------------------------------------------------------------
(* sync.Mutex *)

Lock(t, m) ==
  /\ Op(t) = <<"lock", m>>
  /\ owner[m] = Nobody
  /\ owner' = [owner EXCEPT ![m] = t]
  /\ Advance(t)
  /\ UNCHANGED <<readers, writer, waiting>>

Unlock(t, m) ==
  /\ Op(t) = <<"unlock", m>>
  /\ owner' = [owner EXCEPT ![m] = Nobody]
  /\ Advance(t)
  /\ UNCHANGED <<readers, writer, waiting>>

(* sync.RWMutex *)

RLock(t) ==
  /\ Op(t) = <<"rlock">>
  /\ writer = Nobody /\ waiting = {}
  /\ readers' = readers \cup {t}
  /\ Advance(t)
  /\ UNCHANGED <<owner, writer, waiting>>

RUnlock(t) ==
  /\ Op(t) = <<"runlock">>
  /\ readers' = readers \ {t}
  /\ Advance(t)
  /\ UNCHANGED <<owner, writer, waiting>>

(* A writer announces itself, which stops new readers, ... *)
WAnnounce(t) ==
  /\ Op(t) = <<"wlock">>
  /\ t \notin waiting
  /\ waiting' = waiting \cup {t}
  /\ UNCHANGED <<pc, owner, readers, writer>>

(* ... and waits for the ones it has. *)
WLock(t) ==
  /\ t \in waiting
  /\ readers = {} /\ writer = Nobody
  /\ writer' = t
  /\ waiting' = waiting \ {t}
  /\ Advance(t)
  /\ UNCHANGED <<owner, readers>>

WUnlock(t) ==
  /\ Op(t) = <<"wunlock">>
  /\ writer' = Nobody
  /\ Advance(t)
  /\ UNCHANGED <<owner, readers, waiting>>

Acquire(t) == (\E m \in Mutexes : Lock(t, m)) \/ RLock(t) \/ WLock(t)
Release(t) == (\E m \in Mutexes : Unlock(t, m)) \/ RUnlock(t) \/ WUnlock(t)

LocksNext == \E t \in Threads : Acquire(t) \/ Release(t) \/ WAnnounce(t)

(* A thread that holds a lock goes on; a thread that waits for one is not  *)
(* starved by threads that take it again and again (both Go locks hand     *)
(* over to the longest waiter).  Nobody has to begin.                      *)
Begun(t) == pc[t] > 1 \/ t \in waiting
LocksFairness ==
  \A t \in Threads :
    /\ SF_lockVars(Begun(t) /\ Acquire(t))
    /\ WF_lockVars(Begun(t) /\ (Release(t) \/ WAnnounce(t)))

LocksSafeSpec == LocksInit /\ [][LocksNext]_lockVars
LocksSpec == LocksSafeSpec /\ LocksFairness

------------------------------------------------------------------------------
(* Properties *)

LocksTypeOK ==
  /\ pc \in [Threads -> Nat] /\ \A t \in Threads : pc[t] \in 1..Len(Program(t))
  /\ owner \in [Mutexes -> Threads \cup {Nobody}]
  /\ readers \cup waiting \subseteq Threads
  /\ writer \in Threads \cup {Nobody}
  /\ writer # Nobody => readers = {}

(* Whoever owns the lock t is about to take. *)
BlockedBy(t) ==
  CASE Op(t)[1] = "lock" -> {owner[Op(t)[2]]} \ {Nobody}
    [] Op(t)[1] = "rlock" -> ({writer} \ {Nobody}) \cup waiting
    [] Op(t)[1] = "wlock" -> ({writer} \ {Nobody}) \cup readers
    [] OTHER -> {}

(* No set of threads waits only for each other. *)
NoWaitCycle ==
  \A stuck \in (SUBSET Threads) \ {{}} : \E t \in stuck : BlockedBy(t) \cap stuck = {}

(* Every path of the SIP side gets through, however the others repeat. *)
EveryPathFinishes == \A t \in Threads : Begun(t) ~> ~Begun(t)

(* README, management API: GET /transactions returns the "Active           *)
(* transaction list with state and age".                                   *)
ListIsReturned == \A t \in Threads : Path[t] = "list" => (Begun(t) ~> ~Begun(t))
==============================================================================
