-------------------------- MODULE RegistrarProofs --------------------------
(***************************************************************************)
(* A REGISTER finds what it has stored: OwnContactsAnswered, for any       *)
(* REGISTERs, contacts and expiries, with failing store calls and          *)
(* funsipctl's deletes.  The inductive fact is about rows rather than      *)
(* answers: a row nobody has touched is there until the second that was    *)
(* asked for.                                                              *)
(***************************************************************************)
EXTENDS Registrar, TLAPS

RowsKept ==
  \A r \in Requests : \A pair \in kept[r] :
    pair[2] > now => location[pair[1]] = pair[2]

Handlers == [pc : {"idle", "contact", "event", "query", "answer"}, at : Nat]

(* The part of TypeOK the argument needs: a handler at a contact is at one *)
(* of its REGISTER's.                                                      *)
Types ==
  /\ now \in Int
  /\ location \in [Contacts -> Int \cup {None}]
  /\ handler \in [Requests -> Handlers]
  /\ \A r \in Requests : handler[r].pc \in {"contact", "event"} => handler[r].at \in 1..Len(Asks[r])
  /\ kept \in [Requests -> SUBSET (Contacts \X Int)]

IInv == Types /\ RowsKept

(* What a query has found is contacts. *)
FoundTypes == found \in [Requests -> SUBSET Contacts]

(* After moves a handler to one of its contacts, or to the query. *)
LEMMA AfterTypes ==
  ASSUME Types, NEW r \in Requests, NEW h, h = After(r)
  PROVE  h \in Handlers /\ (h.pc \in {"contact", "event"} => h.at \in 1..Len(Asks[r]))
<1>1. handler[r].at \in Nat /\ Len(Asks[r]) \in Nat
  BY AsksAssumption DEF Types, Handlers
<1> QED BY <1>1 DEF After, Handlers

(* What a handler at a contact is asked for. *)
LEMMA AskTypes ==
  ASSUME Types, NEW r \in Requests, handler[r].pc \in {"contact", "event"}
  PROVE  Contact(r) \in Contacts /\ Expires(r) \in Int
<1>1. Asks[r] \in Seq(Ask) /\ handler[r].at \in 1..Len(Asks[r])
  BY AsksAssumption DEF Types
<1>2. Asks[r][handler[r].at] \in Ask
  BY <1>1
<1> QED BY <1>2 DEF Contact, Expires, Ask

LEMMA InitEstablishes == Init => IInv
BY DEF Init, IInv, Types, RowsKept, Idle, Handlers

(* A handler that moves as After says leaves the rest as it was. *)
LEMMA HandlerMoves ==
  ASSUME Types, NEW r \in Requests, NEW h \in Handlers,
         h.pc \in {"contact", "event"} => h.at \in 1..Len(Asks[r]),
         handler' = [handler EXCEPT ![r] = h],
         now' \in Int, location' \in [Contacts -> Int \cup {None}],
         kept' \in [Requests -> SUBSET (Contacts \X Int)]
  PROVE  Types'
<1>1. handler' \in [Requests -> Handlers]
  BY DEF Types
<1>2. ASSUME NEW q \in Requests, handler'[q].pc \in {"contact", "event"}
      PROVE  handler'[q].at \in 1..Len(Asks[q])
  BY <1>2 DEF Types
<1> QED BY <1>1, <1>2 DEF Types

LEMMA StepKeeps == ASSUME IInv, [Next]_vars PROVE IInv'
<1> USE DEF IInv
<1>1. ASSUME NEW r \in Requests, Arrives(r) PROVE IInv'
  <2>1. PICK h : h = After(r)
    OBVIOUS
  <2>2. Types'
    BY <1>1, <2>1, AfterTypes, HandlerMoves DEF Arrives, Types
  <2>3. RowsKept'
    BY <1>1 DEF Arrives, RowsKept, Types
  <2> QED BY <2>2, <2>3
<1>2. ASSUME NEW r \in Requests, Deregisters(r) PROVE IInv'
  <2>1. PICK c \in Contacts : c = Contact(r)
    BY <1>2, AskTypes DEF Deregisters
  <2>2. PICK h : h = [handler[r] EXCEPT !.pc = "event"]
    OBVIOUS
  <2>3. /\ h \in Handlers /\ (h.pc \in {"contact", "event"} => h.at \in 1..Len(Asks[r]))
        /\ handler' = [handler EXCEPT ![r] = h]
    BY <1>2, <2>2 DEF Deregisters, Types, Handlers
  <2>4. CASE /\ location' = [location EXCEPT ![c] = None]
             /\ kept' = [q \in Requests |-> {pair \in kept[q] : pair[1] # c}]
    <3>1. Types'
      BY <1>2, <2>3, <2>4, HandlerMoves DEF Deregisters, Types
    <3>2. RowsKept'
      BY <1>2, <2>4 DEF Deregisters, RowsKept, Types
    <3> QED BY <3>1, <3>2
  <2>5. CASE UNCHANGED <<location, kept>>
    <3>1. Types'
      BY <1>2, <2>3, <2>5, HandlerMoves DEF Deregisters, Types
    <3>2. RowsKept'
      BY <1>2, <2>5 DEF Deregisters, RowsKept, Types
    <3> QED BY <3>1, <3>2
  <2> QED BY <1>2, <2>1, <2>4, <2>5 DEF Deregisters, DeleteBinding, Forgets
<1>3. ASSUME NEW r \in Requests, Registers(r) PROVE IInv'
  <2>1. PICK c \in Contacts, n \in Int : c = Contact(r) /\ n = Expires(r)
    BY <1>3, AskTypes DEF Registers
  <2>2. PICK d \in Durations(n) : location' = [location EXCEPT ![c] = now + d]
    BY <1>3, <2>1 DEF Registers, SaveBinding
  <2>3. d \in Int /\ now + d \in Int /\ now + n \in Int
    BY <2>1, MaxDurationAssumption DEF Durations, Representable, Types
  <2>4. PICK asked \in SUBSET {<<c, now + n>>} :
             /\ asked # {} => d = n
             /\ kept' = [q \in Requests |-> {pair \in kept[q] : pair[1] # c} \cup
                           (IF q = r THEN asked ELSE {})]
    <3> DEFINE asked == IF n \in Representable THEN {<<c, now + n>>} ELSE {}
    <3>1. asked \in SUBSET {<<c, now + n>>} /\ (asked # {} => d = n)
      BY <2>2 DEF Durations
    <3>2. kept' = [q \in Requests |-> {pair \in kept[q] : pair[1] # c} \cup
                    (IF q = r THEN asked ELSE {})]
      BY <1>3, <2>1 DEF Registers, Forgets, Asked
    <3> QED BY <3>1, <3>2
  <2>5. PICK h : h = [handler[r] EXCEPT !.pc = "event"]
    OBVIOUS
  <2>6. /\ h \in Handlers /\ (h.pc \in {"contact", "event"} => h.at \in 1..Len(Asks[r]))
        /\ handler' = [handler EXCEPT ![r] = h]
    BY <1>3, <2>5 DEF Registers, Types, Handlers
  <2>7. Types'
    <3>1. /\ now' \in Int /\ location' \in [Contacts -> Int \cup {None}]
          /\ kept' \in [Requests -> SUBSET (Contacts \X Int)]
      BY <1>3, <2>2, <2>3, <2>4 DEF Registers, Types
    <3> QED BY <2>6, <3>1, HandlerMoves
  <2>8. ASSUME NEW q \in Requests, NEW pair \in kept'[q], pair[2] > now'
        PROVE  location'[pair[1]] = pair[2]
    <3>1. CASE pair \in kept[q] /\ pair[1] # c
      <4>1. pair[1] \in Contacts /\ now' = now
        BY <1>3, <3>1 DEF Registers, Types
      <4> QED BY <2>2, <2>8, <3>1, <4>1 DEF RowsKept, Types
    <3>2. CASE pair \in asked
      BY <2>2, <2>4, <3>2 DEF Types
    <3> QED BY <2>4, <2>8, <3>1, <3>2
  <2> QED BY <2>7, <2>8 DEF RowsKept
<1>4. ASSUME NEW r \in Requests,
             SaveFails(r) \/ Queries(r) \/ QueryIsCut(r) \/ QueryFails(r) \/ Answers(r)
      PROVE  IInv'
  <2>1. PICK h \in Handlers : h.pc \in {"idle", "answer"} /\ handler' = [handler EXCEPT ![r] = h]
    <3>1. CASE SaveFails(r) \/ QueryFails(r) \/ Answers(r)
      BY <3>1 DEF SaveFails, QueryFails, Answers, Idle, Handlers
    <3>2. CASE Queries(r) \/ QueryIsCut(r)
      <4>1. [handler[r] EXCEPT !.pc = "answer"] \in Handlers
        BY DEF Types, Handlers
      <4> QED BY <3>2, <4>1 DEF Queries, QueryIsCut, Handlers
    <3> QED BY <1>4, <3>1, <3>2
  <2>2. UNCHANGED <<now, location>> /\ (kept' = kept \/ kept' = [kept EXCEPT ![r] = {}])
    BY <1>4 DEF SaveFails, Queries, QueryIsCut, QueryFails, Answers
  <2>3. Types'
    <3>1. now' \in Int /\ location' \in [Contacts -> Int \cup {None}]
          /\ kept' \in [Requests -> SUBSET (Contacts \X Int)]
      BY <2>2 DEF Types
    <3> QED BY <2>1, <3>1, HandlerMoves
  <2>4. RowsKept'
    BY <2>2 DEF RowsKept, Types
  <2> QED BY <2>3, <2>4
<1>5. ASSUME NEW r \in Requests, SendsEvent(r) PROVE IInv'
  <2>1. PICK h : h = After(r)
    OBVIOUS
  <2>2. Types'
    BY <1>5, <2>1, AfterTypes, HandlerMoves DEF SendsEvent, Types
  <2>3. RowsKept'
    BY <1>5 DEF SendsEvent, RowsKept
  <2> QED BY <2>2, <2>3
<1>6. CASE Sweeps \/ CtlPurges
  <2>0. DeleteExpired /\ UNCHANGED <<now, handler, kept>>
    BY <1>6 DEF Sweeps, CtlPurges
  <2>1. Types'
    BY <2>0 DEF DeleteExpired, Types
  <2>2. ASSUME NEW r \in Requests, NEW pair \in kept[r], pair[2] > now
        PROVE  location'[pair[1]] = pair[2]
    <3>1. location[pair[1]] = pair[2] /\ pair[1] \in Contacts /\ pair[2] \in Int
      BY <2>2 DEF RowsKept, Types
    <3>2. ~RunsOut(pair[1])
      BY <2>2, <3>1 DEF RunsOut, Types
    <3> QED BY <2>0, <3>1, <3>2 DEF DeleteExpired
  <2> QED BY <2>0, <2>1, <2>2 DEF RowsKept
<1>7. CASE Reports
  BY <1>7 DEF Reports, Types, RowsKept
<1>8. CASE Tick
  BY <1>8 DEF Tick, Types, RowsKept
<1>9. CASE CtlDeletes
  BY <1>9 DEF CtlDeletes, Types, RowsKept
<1>10. CASE UNCHANGED vars
  BY <1>10 DEF vars, Types, RowsKept
<1> QED BY <1>1, <1>2, <1>3, <1>4, <1>5, <1>6, <1>7, <1>8, <1>9, <1>10 DEF Next

(* What a REGISTER has stored is in its answer until the second it asked   *)
(* for: no delete of another contact and no sweep or purge takes a row     *)
(* that has not run out.  Excepted are a row that another REGISTER or      *)
(* funsipctl has changed, a read that is cut short and a time that wraps.  *)
THEOREM RegistrationsAnswered == Spec => OwnContactsAnswered
<1> DEFINE Promise == \A r \in Requests : Queries(r) =>
                        \A pair \in kept[r] : pair[2] > now =>
                          pair[1] \in found'[r] /\ location[pair[1]] = pair[2]
<1>1. IInv /\ FoundTypes => Promise
  <2> SUFFICES ASSUME IInv, FoundTypes, NEW r \in Requests, Queries(r),
                      NEW pair \in kept[r], pair[2] > now
               PROVE  pair[1] \in found'[r] /\ location[pair[1]] = pair[2]
    OBVIOUS
  <2>1. pair[1] \in Contacts /\ pair[2] \in Int
    BY DEF IInv, Types
  <2>2. location[pair[1]] = pair[2]
    BY DEF IInv, RowsKept
  <2>3. pair[1] \in Lookup
    BY <2>1, <2>2, NoneAssumption DEF Lookup
  <2>4. found'[r] = Lookup
    BY DEF Queries, FoundTypes
  <2> QED BY <2>2, <2>3, <2>4
<1>2. IInv /\ [Next]_vars => IInv'
  BY StepKeeps
<1>3. Init => FoundTypes
  BY DEF Init, FoundTypes
<1>4. FoundTypes /\ [Next]_vars => FoundTypes'
  BY DEF FoundTypes, Next, vars, Arrives, Deregisters, Registers, SaveFails, SendsEvent,
         Queries, QueryIsCut, QueryFails, Answers, Sweeps, Reports, CtlDeletes, CtlPurges,
         Tick, Lookup
<1> HIDE DEF Promise
<1>5. Spec => [][Promise]_vars
  BY InitEstablishes, <1>1, <1>2, <1>3, <1>4, PTL DEF Spec
<1> QED BY <1>5 DEF Promise, OwnContactsAnswered
=============================================================================
