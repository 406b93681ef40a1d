------------------------------ MODULE Registrar ------------------------------
(***************************************************************************)
(* Registrations of one address-of-record: ProcessRegister and the expiry  *)
(* sweeper (pkg/registrar/registrar.go) on the location table              *)
(* (pkg/store/db.go), with the events they send, and funsipctl's location  *)
(* commands, which open the same database file (cmd/funsipctl/main.go).    *)
(*                                                                         *)
(* A REGISTER is handled contact by contact; each store call is a critical *)
(* section of DB.mu, and what happens between two of them, the event too,  *)
(* is under no lock.  Handlers and the sweeper interleave there.  A row is *)
(* reduced to when it runs out, in seconds as expires_at is.  The branch   *)
(* for a contact "*" is never taken (no URI parses as "*"), so such a      *)
(* REGISTER comes without contacts.                                        *)
(*                                                                         *)
(* A store call fails when SQLite does, a file that funsipctl keeps locked *)
(* included.  A statement that fails changes nothing; a SELECT that fails  *)
(* after some rows is taken for one that found only these, as rows.Err()   *)
(* is asked nowhere.                                                       *)
(***************************************************************************)
EXTENDS Integers, Sequences, FiniteSets

CONSTANTS
  Contacts,   \* contact URIs
  Requests,   \* REGISTERs for the address-of-record
  Asks,       \* Asks[r]: its contacts, in order, each with its expires
  Stars,      \* the REGISTERs whose Contact is "*", with Expires: 0
  StoreFails, \* TRUE: a store call may fail
  MaxTime,    \* bound: seconds
  MaxDuration, \* the seconds that a time.Duration holds, 9223372036 in the code
  None

Ask == [contact : Contacts, expires : Int]
ASSUME AsksAssumption ==
  Asks \in [Requests -> Seq(Ask)] /\ \A r \in Stars \cap Requests : Asks[r] = <<>>
ASSUME MaxDurationAssumption == MaxDuration \in Nat
ASSUME NoneAssumption == None \notin Int

VARIABLES
  now,       \* time.Now().Unix()
  location,  \* per contact: its row's expires_at, or None
  handler,   \* per REGISTER: where ProcessRegister is, and at which contact
  found,     \* per REGISTER: the contacts its query has read
  expired,   \* rows ExpireBindings has returned, still to be reported
  told,      \* the contacts last heard of in a reg-new, not a reg-del or reg-expired
  kept,      \* history, per REGISTER: what it asked for and nobody has touched so far
  lost       \* history: rows the last step deleted that nobody will report

vars == <<now, location, handler, found, expired, told, kept, lost>>

TypeOK ==
  /\ now \in 0..MaxTime
  /\ location \in [Contacts -> Int \cup {None}]
  /\ handler \in [Requests -> [pc : {"idle", "contact", "event", "query", "answer"}, at : Nat]]
  /\ found \in [Requests -> SUBSET Contacts]
  /\ expired \subseteq Contacts \X Int
  /\ told \subseteq Contacts
  /\ kept \in [Requests -> SUBSET (Contacts \X Int)]
  /\ lost \subseteq Contacts \X Int

Idle == [pc |-> "idle", at |-> 0]

Init ==
  /\ now = 0
  /\ location = [c \in Contacts |-> None]
  /\ handler = [r \in Requests |-> Idle]
  /\ found = [r \in Requests |-> {}]
  /\ expired = {}
  /\ told = {}
  /\ kept = [r \in Requests |-> {}]
  /\ lost = {}

------------------------------------------------------------------------------
(* The location table *)

RunsOut(c) == location[c] # None /\ location[c] <= now

(* The rows of these contacts. *)
Rows(contacts) == {<<c, location[c]>> : c \in contacts}

(* The rows that LookupBindings selects. *)
Lookup == {c \in Contacts : location[c] # None /\ location[c] > now}

\* slip: every binding of the address-of-record is deleted
DeleteBindingOfAOR(c) == location' = [k \in Contacts |-> None]

DeleteBinding(c) == location' = [location EXCEPT ![c] = None]

(* DELETE ... WHERE expires_at <= ?, of ExpireBindings and PurgeExpired. *)
DeleteExpired == location' = [c \in Contacts |-> IF RunsOut(c) THEN None ELSE location[c]]

(* SaveBinding: inserted, or replaced whatever was there. *)
SaveBinding(c, until) == location' = [location EXCEPT ![c] = until]

Representable == -MaxDuration..MaxDuration

(* time.Duration(n) * time.Second: past its range the product wraps round  *)
(* to some other Duration, which one is left open.                         *)
Durations(n) == IF n \in Representable THEN {n} ELSE Representable

(* Another's call on contact c ends what r could count on. *)
Forgets(r, c) == {pair \in kept[r] : pair[1] # c}

------------------------------------------------------------------------------
(* ProcessRegister *)

(* The next contact, or queryBindings when there is none left. *)
After(r) == IF handler[r].at < Len(Asks[r])
            THEN [pc |-> "contact", at |-> handler[r].at + 1]
            ELSE [pc |-> "query", at |-> handler[r].at]

Arrives(r) ==
  /\ handler[r].pc = "idle"
  /\ handler' = [handler EXCEPT ![r] = After(r)]
  /\ lost' = {}
  /\ UNCHANGED <<now, location, found, expired, told, kept>>

Contact(r) == Asks[r][handler[r].at].contact
Expires(r) == Asks[r][handler[r].at].expires

(* A failed delete is logged, and reported as if it had not failed. *)
Deregisters(r) ==
  /\ handler[r].pc = "contact" /\ Expires(r) = 0
  /\ \/ /\ DeleteBinding(Contact(r))
        /\ kept' = [q \in Requests |-> Forgets(q, Contact(r))]
     \/ StoreFails /\ UNCHANGED <<location, kept>>
  /\ handler' = [handler EXCEPT ![r].pc = "event"]
  /\ lost' = {}
  /\ UNCHANGED <<now, found, expired, told>>

Asked(r) == IF Expires(r) \in Representable THEN {<<Contact(r), now + Expires(r)>>} ELSE {}

Registers(r) ==
  /\ handler[r].pc = "contact" /\ Expires(r) # 0
  /\ \E d \in Durations(Expires(r)) : SaveBinding(Contact(r), now + d)
  /\ kept' = [q \in Requests |-> Forgets(q, Contact(r)) \cup (IF q = r THEN Asked(r) ELSE {})]
  /\ handler' = [handler EXCEPT ![r].pc = "event"]
  /\ lost' = {}
  /\ UNCHANGED <<now, found, expired, told>>

(* 500: the contacts before this one stay registered. *)
SaveFails(r) ==
  /\ StoreFails
  /\ handler[r].pc = "contact" /\ Expires(r) # 0
  /\ handler' = [handler EXCEPT ![r] = Idle]
  /\ kept' = [kept EXCEPT ![r] = {}]
  /\ lost' = {}
  /\ UNCHANGED <<now, location, found, expired, told>>

SendsEvent(r) ==
  /\ handler[r].pc = "event"
  /\ told' = IF Expires(r) = 0 THEN told \ {Contact(r)} ELSE told \cup {Contact(r)}
  /\ handler' = [handler EXCEPT ![r] = After(r)]
  /\ lost' = {}
  /\ UNCHANGED <<now, location, found, expired, kept>>

(* queryBindings: LookupBindings reads its rows to the end, *)
Queries(r) ==
  /\ handler[r].pc = "query"
  /\ found' = [found EXCEPT ![r] = Lookup]
  /\ handler' = [handler EXCEPT ![r].pc = "answer"]
  /\ kept' = [kept EXCEPT ![r] = {}]
  /\ lost' = {}
  /\ UNCHANGED <<now, location, expired, told>>

(* or the read fails at a row, and those before it are all it returns, *)
QueryIsCut(r) ==
  /\ StoreFails
  /\ handler[r].pc = "query"
  /\ \E some \in (SUBSET Lookup) \ {Lookup} : found' = [found EXCEPT ![r] = some]
  /\ handler' = [handler EXCEPT ![r].pc = "answer"]
  /\ kept' = [kept EXCEPT ![r] = {}]
  /\ lost' = {}
  /\ UNCHANGED <<now, location, expired, told>>

(* or Query or Scan fails: 500. *)
QueryFails(r) ==
  /\ StoreFails
  /\ handler[r].pc = "query"
  /\ handler' = [handler EXCEPT ![r] = Idle]
  /\ kept' = [kept EXCEPT ![r] = {}]
  /\ lost' = {}
  /\ UNCHANGED <<now, location, found, expired, told>>

(* 200, with the contacts that were read. *)
Answers(r) ==
  /\ handler[r].pc = "answer"
  /\ handler' = [handler EXCEPT ![r] = Idle]
  /\ found' = [found EXCEPT ![r] = {}]
  /\ lost' = {}
  /\ UNCHANGED <<now, location, expired, told, kept>>

------------------------------------------------------------------------------
(* SweepExpired *)

\* slip: what runs out this very second is deleted and not returned
SweepsStrictly ==
  /\ expired = {}
  /\ \E c \in Contacts : RunsOut(c)
  /\ expired' = Rows({c \in Contacts : RunsOut(c) /\ location[c] < now})
  /\ DeleteExpired
  /\ lost' = {}
  /\ UNCHANGED <<now, handler, found, told, kept>>

(* ExpireBindings, with one reading of the clock and under one lock.  Of   *)
(* the rows that have run out it returns those it could read, and deletes  *)
(* all: a read that is cut short may have had rows of other                *)
(* addresses-of-record only.                                               *)
Sweeps ==
  /\ expired = {}
  /\ \E c \in Contacts : RunsOut(c)
  /\ \E read \in SUBSET {c \in Contacts : RunsOut(c)} :
       /\ StoreFails \/ \A c \in Contacts : RunsOut(c) => c \in read
       /\ expired' = Rows(read)
       /\ lost' = Rows({c \in Contacts : RunsOut(c)} \ read)
  /\ DeleteExpired
  /\ UNCHANGED <<now, handler, found, told, kept>>

Reports ==
  \E e \in expired :
    /\ expired' = expired \ {e}
    /\ told' = told \ {e[1]}
    /\ lost' = {}
    /\ UNCHANGED <<now, location, handler, found, kept>>

------------------------------------------------------------------------------
(* funsipctl, another process with the same file, and the clock *)

(* location delete <aor> *)
CtlDeletes ==
  /\ location' = [c \in Contacts |-> None]
  /\ kept' = [r \in Requests |-> {}]
  /\ lost' = Rows({c \in Contacts : location[c] # None})
  /\ UNCHANGED <<now, handler, found, expired, told>>

(* location purge *)
CtlPurges ==
  /\ DeleteExpired
  /\ lost' = Rows({c \in Contacts : RunsOut(c)})
  /\ UNCHANGED <<now, handler, found, expired, told, kept>>

Tick ==
  /\ now < MaxTime
  /\ now' = now + 1
  /\ lost' = {}
  /\ UNCHANGED <<location, handler, found, expired, told, kept>>

Next ==
  \/ \E r \in Requests :
       \/ Arrives(r) \/ Deregisters(r) \/ Registers(r) \/ SaveFails(r) \/ SendsEvent(r)
       \/ Queries(r) \/ QueryIsCut(r) \/ QueryFails(r) \/ Answers(r)
  \/ Sweeps \/ Reports \/ CtlDeletes \/ CtlPurges \/ Tick

Spec == Init /\ [][Next]_vars

(* A handler that runs goes on, time passes, and the sweeper's timer fires *)
(* again until a sweep succeeds.                                           *)
Fairness ==
  /\ \A r \in Requests :
       WF_vars(\/ Deregisters(r) \/ Registers(r) \/ SaveFails(r) \/ SendsEvent(r)
               \/ Queries(r) \/ QueryIsCut(r) \/ QueryFails(r) \/ Answers(r))
  /\ WF_vars(Sweeps) /\ WF_vars(Reports) /\ WF_vars(Tick)

FairSpec == Spec /\ Fairness
------------------------------------------------------------------------------
(* Properties *)

(* "Save/remove registrations and send 200 OK with current bindings"       *)
(* (README:109): what a REGISTER has stored its answer has, until the      *)
(* second it was asked for, unless another REGISTER or `funsipctl location *)
(* delete` has changed it meanwhile: no delete and no sweep takes more     *)
(* than it was told to.  Left out are a read that is cut short and a time  *)
(* that wraps round.                                                       *)
OwnContactsAnswered ==
  [][\A r \in Requests : Queries(r) =>
       \A pair \in kept[r] : pair[2] > now =>
         pair[1] \in found'[r] /\ location[pair[1]] = pair[2]]_vars

(* README:109 as it reads: the bindings of a 200 are the current ones.     *)
CurrentBindingsAnswered ==
  [][\A r \in Requests :
       handler[r].pc = "query" /\ handler'[r].pc = "answer" => found'[r] = Lookup]_vars

(* "The registrar's expiry sweeper removed a binding whose expires_at had  *)
(* elapsed" (README:153): a binding goes unreported only when funsipctl    *)
(* deletes it or a sweep is cut short.  Else it is refreshed or            *)
(* deregistered, or the sweeper reports it.                                *)
ExpiryIsReported ==
  \A c \in Contacts, t \in 1..MaxTime :
    (location[c] = t) ~>
      \/ \E q \in Requests : handler[q].pc = "event" /\ Contact(q) = c
      \/ <<c, t>> \in expired \cup lost

(* README:153 as it reads: what the sweeper removes it reports.            *)
SweepsAreReported ==
  [][Sweeps => Rows({c \in Contacts : RunsOut(c)}) \subseteq expired']_vars

(* README:151-153 reads as if the events gave the state of a binding: when *)
(* all is quiet the last one says whether it is there.                     *)
EventsTellTheTable ==
  (expired = {} /\ \A r \in Requests : handler[r] = Idle) =>
    \A c \in Contacts : location[c] # None => c \in told

(* README:152 says that a REGISTER with "Contact: *" removes bindings: if *)
(* no other REGISTER is being handled when it is answered, none is left.   *)
StarRemovesAll ==
  [][\A r \in Stars :
       Queries(r) /\ (\A q \in Requests \ Stars : handler[q] = Idle) => Lookup = {}]_vars
==============================================================================
