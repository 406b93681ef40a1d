---------------------------- MODULE RateLimiter ----------------------------
(***************************************************************************)
(* The rate limiter behind limit(key, {...}) (pkg/script/limiter.go): per  *)
(* key the requests counted in the sliding window, and two tables of       *)
(* deny-until times, for keys and for source addresses.                    *)
(*                                                                         *)
(* check runs under the limiter's mutex and reads the clock there, so each *)
(* call is one step.  The log holds what the limiter was asked and what it *)
(* said; hits[key], a slice of timestamps in the code, is here the set of  *)
(* log entries those timestamps belong to.                                 *)
(***************************************************************************)
EXTENDS Naturals, Sequences, FiniteSets

CONSTANTS
  Keys,         \* what requests are counted by
  Ips,          \* source addresses
  Opts,         \* the options calls are made with: window, maxCount, ttl, blacklist
  MaxTime,      \* bound: seconds
  MaxRequests   \* bound: calls

ASSUME OptsAssumption ==
  Opts \subseteq [window : Nat \ {0}, max : Nat \ {0}, ttl : Nat \ {0}, blacklist : BOOLEAN]
ASSUME BoundsAssumption == MaxTime \in Nat /\ MaxRequests \in Nat

VARIABLES
  now,      \* the clock
  log,      \* every call so far
  hits,     \* per key: the calls counted
  keyDeny,  \* per key: deny until then, or NoEntry
  ipDeny    \* per source address: the same

limiterVars == <<now, log, hits, keyDeny, ipDeny>>

(* A deny-until time is a clock reading plus a positive ttl. *)
NoEntry == 0

Verdicts == {"allowed", "overflow", "denied"}
Calls == [key : Keys, ip : Ips, opts : Opts, at : Nat, verdict : Verdicts]

LimiterInit ==
  /\ now = 0
  /\ log = <<>>
  /\ hits = [k \in Keys |-> {}]
  /\ keyDeny = [k \in Keys |-> NoEntry]
  /\ ipDeny = [i \in Ips |-> NoEntry]

Tick ==
  /\ now < MaxTime
  /\ now' = now + 1
  /\ UNCHANGED <<log, hits, keyDeny, ipDeny>>

------------------------------------------------------------------------------
(* check(key, ip, opts) *)

\* slip: an entry holds until its second is over
DeniedTooLong(table, x) == table[x] # NoEntry /\ now < table[x] + 1

Denied(table, x) == now < table[x]

(* A deny-until entry that is over is dropped on the next access, a key's  *)
(* together with its hits.                                                 *)
IpDenialOver(i) == [ipDeny EXCEPT ![i] = NoEntry]

\* slip: the window is one second short
ValidShort(k, o) ==
  IF keyDeny[k] # NoEntry THEN {}
  ELSE {c \in hits[k] : log[c].at + o.window > now + 1}

\* slip: the hits outlive the denial
ValidAnyway(k, o) == {c \in hits[k] : log[c].at + o.window > now}

(* The hits in the window of the present call; the others are dropped.     *)
Valid(k, o) ==
  IF keyDeny[k] # NoEntry THEN {}
  ELSE {c \in hits[k] : log[c].at + o.window > now}

Answer(k, i, o, verdict) ==
  log' = Append(log, [key |-> k, ip |-> i, opts |-> o, at |-> now, verdict |-> verdict])

DeniedByIp(k, i, o) ==
  /\ Denied(ipDeny, i)
  /\ Answer(k, i, o, "denied")
  /\ UNCHANGED <<now, hits, keyDeny, ipDeny>>

DeniedByKey(k, i, o) ==
  /\ ~Denied(ipDeny, i) /\ Denied(keyDeny, k)
  /\ ipDeny' = IpDenialOver(i)
  /\ Answer(k, i, o, "denied")
  /\ UNCHANGED <<now, hits, keyDeny>>

Overflows(k, i, o) ==
  /\ ~Denied(ipDeny, i) /\ ~Denied(keyDeny, k)
  /\ Cardinality(Valid(k, o)) >= o.max
  /\ hits' = [hits EXCEPT ![k] = Valid(k, o)]
  /\ keyDeny' = [keyDeny EXCEPT ![k] = now + o.ttl]
  /\ ipDeny' = [ipDeny EXCEPT ![i] = IF o.blacklist THEN now + o.ttl ELSE NoEntry]
  /\ Answer(k, i, o, "overflow")
  /\ UNCHANGED now

Allows(k, i, o) ==
  /\ ~Denied(ipDeny, i) /\ ~Denied(keyDeny, k)
  /\ Cardinality(Valid(k, o)) < o.max
  /\ hits' = [hits EXCEPT ![k] = Valid(k, o) \cup {Len(log) + 1}]
  /\ keyDeny' = [keyDeny EXCEPT ![k] = NoEntry]
  /\ ipDeny' = IpDenialOver(i)
  /\ Answer(k, i, o, "allowed")
  /\ UNCHANGED now

Check(k, i, o) ==
  /\ Len(log) < MaxRequests
  /\ DeniedByIp(k, i, o) \/ DeniedByKey(k, i, o) \/ Overflows(k, i, o) \/ Allows(k, i, o)

LimiterNext == Tick \/ \E k \in Keys, i \in Ips, o \in Opts : Check(k, i, o)

LimiterSpec == LimiterInit /\ [][LimiterNext]_limiterVars

------------------------------------------------------------------------------
(* Properties *)

LimiterTypeOK ==
  /\ now \in Nat
  /\ log \in Seq(Calls)
  /\ hits \in [Keys -> SUBSET (1..Len(log))]
  /\ keyDeny \in [Keys -> Nat]
  /\ ipDeny \in [Ips -> Nat]

Allowed(k) == {c \in 1..Len(log) : log[c].key = k /\ log[c].verdict = "allowed"}

(* Call d comes in the window that ends with call c.                       *)
Recent(d, c) == log[d].at + log[c].opts.window > log[c].at

(* What makes the limiter forget that it allowed d: a call e of the same   *)
(* key that overflows, for the hits go with the denial, or one for which d *)
(* is out of its own window.                                               *)
Forgets(e, d) ==
  /\ log[e].key = log[d].key
  /\ \/ log[e].verdict = "overflow"
     \/ log[e].verdict = "allowed" /\ ~Recent(d, e)

(* The allowed calls that c finds in its window.                           *)
Counted(c) ==
  {d \in Allowed(log[c].key) :
     d < c /\ Recent(d, c) /\ ~ \E e \in (d + 1)..(c - 1) : Forgets(e, d)}

(* limiter.go, check: a call is let through exactly if fewer than its own  *)
(* maxCount are counted in its own window, whatever options the calls      *)
(* before it had, and with a denial the count starts anew.                 *)
CountDecides ==
  \A c \in 1..Len(log) :
    /\ log[c].verdict = "allowed" => Cardinality(Counted(c)) < log[c].opts.max
    /\ log[c].verdict = "overflow" => Cardinality(Counted(c)) >= log[c].opts.max

(* The requests of c's key that were allowed in the window ending with c.  *)
InWindow(c) == {d \in Allowed(log[c].key) : d <= c /\ Recent(d, c)}

(* No call of c's key in c's window had a shorter window or overflowed: one *)
(* makes the limiter forget what c would count, the other was let off      *)
(* before the window was over.                                             *)
Undisturbed(c) ==
  \A e \in 1..(c - 1) :
    log[e].key = log[c].key /\ log[e].verdict # "denied" /\ Recent(e, c) =>
      log[e].opts.window >= log[c].opts.window /\ log[e].verdict # "overflow"

(* README, limit: "If the count would exceed maxCount, the request is      *)
(* answered 403": nobody overflows whose window is not full of allowed     *)
(* calls, and a call is let through only if its window holds no more than  *)
(* its maxCount, itself included, unless the window was disturbed.         *)
WindowBound ==
  \A c \in 1..Len(log) :
    /\ log[c].verdict = "allowed" /\ Undisturbed(c) =>
         Cardinality(InWindow(c)) <= log[c].opts.max
    /\ log[c].verdict = "overflow" => Cardinality(InWindow(c)) >= log[c].opts.max

(* The README as it reads, with no exception: a penalty shorter than the   *)
(* window, or another script's shorter window, lets more pass.             *)
WindowNeverExceeded ==
  \A c \in 1..Len(log) :
    log[c].verdict = "allowed" => Cardinality(InWindow(c)) <= log[c].opts.max

(* c is refused because of d: d overflowed and its penalty covers c. *)
Punishes(d, c) ==
  /\ log[d].verdict = "overflow"
  /\ log[c].at < log[d].at + log[d].opts.ttl
  /\ \/ log[c].key = log[d].key
     \/ log[d].opts.blacklist /\ log[c].ip = log[d].ip

(* README, limit: after an overflow "every subsequent request for the same *)
(* key is denied" for ttl seconds, and with blacklist "any request from    *)
(* that IP"; and the other way round, no request is denied without an      *)
(* overflow that covers it.                                                *)
DeniedExactlyForCause ==
  \A c \in 1..Len(log) :
    log[c].verdict = "denied" <=> \E d \in 1..(c - 1) : Punishes(d, c)
==============================================================================
