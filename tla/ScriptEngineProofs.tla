------------------------- MODULE ScriptEngineProofs -------------------------
(***************************************************************************)
(* Proofs about RateLimiter, for every set of options, windows included,   *)
(* keys and source addresses, and any number of calls; that what holds of  *)
(* the limiter alone also holds inside ScriptEngine, while scripts, and    *)
(* with them the options, change and the process restarts; and that the    *)
(* script file follows the running script.                                 *)
(***************************************************************************)
EXTENDS ScriptEngine, FiniteSetTheorems, TLAPS

------------------------------------------------------------------------------
(* The inductive invariants of the limiter.  While no denial of k is       *)
(* pending, hits[k] holds exactly the allowed calls that nothing has made  *)
(* the limiter forget; while one is, its overflow has made it forget all.  *)

Kept(d) == ~ \E e \in (d + 1)..Len(log) : Forgets(e, d)

Remembered ==
  \A k \in Keys : keyDeny[k] = NoEntry => hits[k] = {d \in Allowed(k) : Kept(d)}

Cleared ==
  \A k \in Keys : keyDeny[k] # NoEntry => \A d \in Allowed(k) : ~Kept(d)

(* Calls are logged in the order of the clock. *)
Chronological ==
  \A c \in 1..Len(log) : log[c].at <= now /\ \A d \in 1..c : log[d].at <= log[c].at

CountInv == LimiterTypeOK /\ Chronological /\ Remembered /\ Cleared /\ CountDecides

(* Every deny-until time comes from an overflow, and every overflow whose  *)
(* penalty is not over has one that lasts as long.                         *)
Overflowed(d) == log[d].verdict = "overflow"
Until(d) == log[d].at + log[d].opts.ttl

KeyCause ==
  \A k \in Keys : keyDeny[k] # NoEntry =>
    \E d \in 1..Len(log) : Overflowed(d) /\ log[d].key = k /\ Until(d) = keyDeny[k]

IpCause ==
  \A i \in Ips : ipDeny[i] # NoEntry =>
    \E d \in 1..Len(log) :
      Overflowed(d) /\ log[d].opts.blacklist /\ log[d].ip = i /\ Until(d) = ipDeny[i]

KeyKept ==
  \A d \in 1..Len(log) : Overflowed(d) /\ Until(d) > now => keyDeny[log[d].key] >= Until(d)

IpKept ==
  \A d \in 1..Len(log) :
    Overflowed(d) /\ log[d].opts.blacklist /\ Until(d) > now => ipDeny[log[d].ip] >= Until(d)

PenaltyInv ==
  LimiterTypeOK /\ KeyCause /\ IpCause /\ KeyKept /\ IpKept /\ DeniedExactlyForCause

------------------------------------------------------------------------------
(* What a call adds to the log. *)

Call(k, i, o, verdict) ==
  [key |-> k, ip |-> i, opts |-> o, at |-> now, verdict |-> verdict]

(* The log grows by the call at its end; earlier entries stay. *)
LEMMA LogGrows ==
  ASSUME LimiterTypeOK, NEW k \in Keys, NEW i \in Ips, NEW o \in Opts,
         NEW verdict \in Verdicts, Answer(k, i, o, verdict)
  PROVE  /\ log' \in Seq(Calls)
         /\ Len(log) \in Nat /\ Len(log') = Len(log) + 1
         /\ \A c \in 1..Len(log) : log'[c] = log[c] /\ log[c] \in Calls
         /\ log'[Len(log) + 1] = Call(k, i, o, verdict)
<1>1. Call(k, i, o, verdict) \in Calls
  BY DEF Call, Calls, LimiterTypeOK
<1>2. log \in Seq(Calls) /\ log' = Append(log, Call(k, i, o, verdict))
  BY DEF LimiterTypeOK, Answer, Call
<1>. QED  BY <1>1, <1>2

(* The fields of a call have their types. *)
LEMMA CallTypes ==
  ASSUME LimiterTypeOK, NEW c \in 1..Len(log)
  PROVE  /\ log[c].key \in Keys /\ log[c].ip \in Ips /\ log[c].at \in Nat
         /\ log[c].verdict \in Verdicts
         /\ log[c].opts \in Opts /\ log[c].opts.max \in Nat \ {0}
         /\ log[c].opts.window \in Nat \ {0}
         /\ log[c].opts.ttl \in Nat \ {0} /\ log[c].opts.blacklist \in BOOLEAN
<1>1. log[c] \in Calls
  BY DEF LimiterTypeOK
<1>. QED  BY <1>1, OptsAssumption DEF Calls

(* Which calls of key x have been allowed after one more call for k. *)
LEMMA AllowedGrows ==
  ASSUME LimiterTypeOK, NEW k \in Keys, NEW i \in Ips, NEW o \in Opts,
         NEW verdict \in Verdicts, Answer(k, i, o, verdict), NEW x \in Keys
  PROVE  Allowed(x)' = Allowed(x) \cup (IF x = k /\ verdict = "allowed" THEN {Len(log) + 1} ELSE {})
<1>1. /\ Len(log) \in Nat /\ Len(log') = Len(log) + 1
      /\ \A c \in 1..Len(log) : log'[c] = log[c]
      /\ log'[Len(log) + 1] = Call(k, i, o, verdict)
  BY LogGrows
<1>2. \A c : c \in 1..Len(log') <=> c \in 1..Len(log) \/ c = Len(log) + 1
  BY <1>1
<1>3. log'[Len(log) + 1].key = k /\ log'[Len(log) + 1].verdict = verdict
  BY <1>1 DEF Call
<1>4. \A c \in 1..Len(log) : c # Len(log) + 1
  BY <1>1
<1>5. ASSUME NEW c
      PROVE  c \in Allowed(x)' <=>
               c \in Allowed(x) \/ (c = Len(log) + 1 /\ x = k /\ verdict = "allowed")
  <2>1. c \in Allowed(x)' <=> c \in 1..Len(log') /\ log'[c].key = x /\ log'[c].verdict = "allowed"
    BY DEF Allowed
  <2>2. c \in Allowed(x) <=> c \in 1..Len(log) /\ log[c].key = x /\ log[c].verdict = "allowed"
    BY DEF Allowed
  <2>3. CASE c = Len(log) + 1
    BY <1>1, <1>2, <1>3, <1>4, <2>1, <2>2, <2>3
  <2>4. CASE c # Len(log) + 1
    BY <1>1, <1>2, <2>1, <2>2, <2>4
  <2>. QED  BY <2>3, <2>4
<1>. QED  BY <1>5

(* What was forgotten stays so, and an earlier call counts what it counted. *)
LEMMA CountsStay ==
  ASSUME LimiterTypeOK, NEW k \in Keys, NEW i \in Ips, NEW o \in Opts,
         NEW verdict \in Verdicts, Answer(k, i, o, verdict), NEW n, n = Len(log) + 1
  PROVE  /\ \A d, e \in 1..Len(log) : Forgets(e, d)' <=> Forgets(e, d)
         /\ \A d \in 1..Len(log) :
              Kept(d)' <=> Kept(d) /\ ~Forgets(n, d)'
         /\ \A c \in 1..Len(log) : Counted(c)' = Counted(c)
<1>1. /\ Len(log) \in Nat /\ Len(log') = Len(log) + 1
      /\ \A c \in 1..Len(log) : log'[c] = log[c]
  BY LogGrows
<1>2. \A d, e \in 1..Len(log) : Forgets(e, d)' <=> Forgets(e, d)
  BY <1>1 DEF Forgets, Recent
<1>3. ASSUME NEW d \in 1..Len(log)
      PROVE  Kept(d)' <=> Kept(d) /\ ~Forgets(n, d)'
  <2>1. \A e : e \in (d + 1)..Len(log') <=> e \in (d + 1)..Len(log) \/ e = n
    <3>1. d \in Nat /\ d < n /\ n \in Nat
      BY <1>1
    <3>. QED  BY <1>1, <3>1
  <2>2. \A e \in (d + 1)..Len(log) : e \in 1..Len(log)
    BY <1>1
  <2>. QED  BY <1>2, <2>1, <2>2 DEF Kept
<1>4. ASSUME NEW c \in 1..Len(log)
      PROVE  Counted(c)' = Counted(c)
  <2>1. log[c].key \in Keys /\ log'[c] = log[c]
    BY <1>1, CallTypes
  <2>2. Allowed(log[c].key)' =
          Allowed(log[c].key) \cup (IF log[c].key = k /\ verdict = "allowed" THEN {Len(log) + 1} ELSE {})
    <3>1. \A x \in Keys : Allowed(x)' =
            Allowed(x) \cup (IF x = k /\ verdict = "allowed" THEN {Len(log) + 1} ELSE {})
      BY AllowedGrows
    <3>. QED  BY <2>1, <3>1 DEF Allowed
  <2>3. \A d \in Allowed(log[c].key)' : d < c <=> d \in Allowed(log[c].key) /\ d < c
    BY <1>1, <2>2 DEF Allowed
  <2>4. \A d \in Allowed(log[c].key) :
          /\ d \in 1..Len(log) /\ (Recent(d, c)' <=> Recent(d, c))
          /\ \A e \in (d + 1)..(c - 1) : Forgets(e, d)' <=> Forgets(e, d)
    <3>. SUFFICES ASSUME NEW d \in Allowed(log[c].key)
                  PROVE  /\ d \in 1..Len(log) /\ (Recent(d, c)' <=> Recent(d, c))
                         /\ \A e \in (d + 1)..(c - 1) : Forgets(e, d)' <=> Forgets(e, d)
      OBVIOUS
    <3>1. d \in 1..Len(log) /\ \A e \in (d + 1)..(c - 1) : e \in 1..Len(log)
      BY <1>1 DEF Allowed
    <3>. QED  BY <1>1, <1>2, <2>1, <3>1 DEF Recent
  <2>. QED  BY <2>1, <2>2, <2>3, <2>4 DEF Counted
<1>. QED  BY <1>2, <1>3, <1>4

(* Unfolded: which branch of check gives which verdict. *)
LEMMA CheckCases ==
  ASSUME NEW k \in Keys, NEW i \in Ips, NEW o \in Opts, Check(k, i, o)
  PROVE  \/ DeniedByIp(k, i, o) \/ DeniedByKey(k, i, o)
         \/ Overflows(k, i, o) \/ Allows(k, i, o)
BY DEF Check

(* What is valid is part of what was counted. *)
LEMMA ValidTypes ==
  ASSUME LimiterTypeOK, NEW k \in Keys, NEW o \in Opts
  PROVE  Valid(k, o) \subseteq hits[k] /\ hits[k] \subseteq 1..Len(log)
BY DEF Valid, LimiterTypeOK

------------------------------------------------------------------------------
(* Types. *)

LEMMA TypesInit == LimiterInit => LimiterTypeOK
BY DEF LimiterInit, LimiterTypeOK, NoEntry

LEMMA TypesNext ==
  ASSUME LimiterTypeOK, [LimiterNext]_limiterVars
  PROVE  LimiterTypeOK'
<1>1. CASE Tick
  BY <1>1 DEF Tick, LimiterTypeOK
<1>2. ASSUME NEW k \in Keys, NEW i \in Ips, NEW o \in Opts, Check(k, i, o)
      PROVE  LimiterTypeOK'
  <2>. DEFINE wider == \A x \in Keys : hits[x] \subseteq 1..Len(log')
  <2>1. ASSUME NEW verdict \in Verdicts, Answer(k, i, o, verdict)
        PROVE  /\ log' \in Seq(Calls) /\ wider /\ Len(log) + 1 \in 1..Len(log')
               /\ now \in Nat /\ Len(log) \in Nat
    BY <2>1, LogGrows DEF LimiterTypeOK
  <2>2. o.ttl \in Nat /\ now \in Nat
    BY OptsAssumption DEF LimiterTypeOK
  <2>3. CASE DeniedByIp(k, i, o)
    BY <2>1, <2>3 DEF DeniedByIp, Verdicts, LimiterTypeOK
  <2>4. CASE DeniedByKey(k, i, o)
    BY <2>1, <2>4 DEF DeniedByKey, Verdicts, LimiterTypeOK, IpDenialOver, NoEntry
  <2>5. CASE Overflows(k, i, o)
    <3>1. log' \in Seq(Calls) /\ wider
      BY <2>1, <2>5 DEF Overflows, Verdicts
    <3>2. hits' \in [Keys -> SUBSET (1..Len(log'))]
      BY <2>5, <3>1, ValidTypes DEF Overflows, LimiterTypeOK
    <3>. QED  BY <2>2, <2>5, <3>1, <3>2 DEF Overflows, LimiterTypeOK, NoEntry
  <2>6. CASE Allows(k, i, o)
    <3>1. log' \in Seq(Calls) /\ wider /\ Len(log) + 1 \in 1..Len(log')
      BY <2>1, <2>6 DEF Allows, Verdicts
    <3>2. hits' \in [Keys -> SUBSET (1..Len(log'))]
      BY <2>6, <3>1, ValidTypes DEF Allows, LimiterTypeOK
    <3>. QED  BY <2>6, <3>1, <3>2 DEF Allows, LimiterTypeOK, NoEntry, IpDenialOver
  <2>. QED  BY <1>2, <2>3, <2>4, <2>5, <2>6, CheckCases
<1>3. CASE UNCHANGED limiterVars
  BY <1>3 DEF limiterVars, LimiterTypeOK
<1>. QED  BY <1>1, <1>2, <1>3 DEF LimiterNext

THEOREM LimiterTypes == LimiterSpec => []LimiterTypeOK
<1>. QED  BY TypesInit, TypesNext, PTL DEF LimiterSpec

------------------------------------------------------------------------------
(* The window. *)

LEMMA CountInit == LimiterInit => CountInv
<1>. SUFFICES ASSUME LimiterInit PROVE CountInv
  OBVIOUS
<1>1. LimiterTypeOK
  BY TypesInit
<1>2. 1..Len(log) = {}
  BY DEF LimiterInit
<1>. QED
  BY <1>1, <1>2
  DEF CountInv, Chronological, Remembered, Cleared, CountDecides, Allowed, LimiterInit

(* The clock does not run while a call is answered. *)
LEMMA OrderKeeps ==
  ASSUME CountInv, NEW k \in Keys, NEW i \in Ips, NEW o \in Opts,
         NEW verdict \in Verdicts, Answer(k, i, o, verdict), now' = now
  PROVE  Chronological'
<1>1. /\ Len(log) \in Nat /\ Len(log') = Len(log) + 1 /\ now \in Nat
      /\ \A c \in 1..Len(log) : log'[c] = log[c]
      /\ log'[Len(log) + 1].at = now
  <2>1. log'[Len(log) + 1] = Call(k, i, o, verdict)
    BY LogGrows DEF CountInv
  <2>. QED  BY <2>1, LogGrows DEF CountInv, LimiterTypeOK, Call
<1>2. \A c \in 1..Len(log) : log[c].at <= now /\ \A d \in 1..c : log[d].at <= log[c].at
  BY DEF CountInv, Chronological
<1>. SUFFICES ASSUME NEW c \in 1..Len(log')
              PROVE  log'[c].at <= now /\ \A d \in 1..c : log'[d].at <= log'[c].at
  BY DEF Chronological
<1>3. CASE c \in 1..Len(log)
  <2>1. \A d \in 1..c : d \in 1..Len(log)
    BY <1>1, <1>3
  <2>. QED  BY <1>1, <1>2, <1>3, <2>1
<1>4. CASE c = Len(log) + 1
  <2>1. \A d \in 1..c : d \in 1..Len(log) \/ d = c
    BY <1>1, <1>4
  <2>. QED  BY <1>1, <1>2, <1>4, <2>1
<1>. QED  BY <1>1, <1>3, <1>4

(* What a call that is not denied finds valid is what it counts. *)
LEMMA ValidIsCounted ==
  ASSUME CountInv, NEW k \in Keys, NEW i \in Ips, NEW o \in Opts,
         NEW verdict \in Verdicts, Answer(k, i, o, verdict), NEW n, n = Len(log) + 1
  PROVE  Counted(n)' = Valid(k, o)
<1>. USE DEF CountInv
<1>1. /\ Len(log) \in Nat /\ log'[n] = Call(k, i, o, verdict)
      /\ \A d \in 1..Len(log) : log'[d] = log[d]
  BY LogGrows
<1>2. log'[n].key = k /\ log'[n].at = now /\ log'[n].opts = o
  BY <1>1 DEF Call
<1>3. Allowed(k)' = Allowed(k) \cup (IF verdict = "allowed" THEN {n} ELSE {})
  BY AllowedGrows
<1>4. \A d \in Allowed(k) : d \in 1..Len(log) /\ d < n
  BY <1>1 DEF Allowed
<1>5. ASSUME NEW d, d \in Allowed(k)
      PROVE  d \in Counted(n)' <=> log[d].at + o.window > now /\ Kept(d)
  <2>1. \A e : e \in (d + 1)..(n - 1) <=> e \in (d + 1)..Len(log)
    BY <1>1
  <2>2. \A e \in (d + 1)..Len(log) : e \in 1..Len(log)
    BY <1>1, <1>4, <1>5
  <2>3. \A e \in (d + 1)..Len(log) : Forgets(e, d)' <=> Forgets(e, d)
    BY <1>4, <1>5, <2>2, CountsStay
  <2>4. Recent(d, n)' <=> log[d].at + o.window > now
    BY <1>1, <1>2, <1>4, <1>5 DEF Recent
  <2>5. d \in Allowed(log[n].key)' /\ d < n
    BY <1>2, <1>3, <1>4, <1>5
  <2>. QED  BY <2>1, <2>3, <2>4, <2>5 DEF Counted, Kept
<1>6. \A d \in Counted(n)' : d \in Allowed(k)
  <2>1. \A d \in Counted(n)' : d \in Allowed(k)' /\ d < n
    BY <1>2 DEF Counted
  <2>2. ~(n < n)
    BY <1>1
  <2>. QED  BY <1>3, <2>1, <2>2
<1>7. CASE keyDeny[k] = NoEntry
  <2>1. Valid(k, o) = {d \in hits[k] : log[d].at + o.window > now}
    BY <1>7 DEF Valid
  <2>2. hits[k] = {d \in Allowed(k) : Kept(d)}
    BY <1>7 DEF Remembered
  <2>. QED  BY <1>5, <1>6, <2>1, <2>2
<1>8. CASE keyDeny[k] # NoEntry
  <2>1. Valid(k, o) = {} /\ \A d \in Allowed(k) : ~Kept(d)
    BY <1>8 DEF Valid, Cleared
  <2>. QED  BY <1>5, <1>6, <2>1
<1>. QED  BY <1>7, <1>8

(* It is enough to look at what the new call counts. *)
LEMMA CountExtends ==
  ASSUME CountInv, NEW k \in Keys, NEW i \in Ips, NEW o \in Opts,
         NEW verdict \in Verdicts, Answer(k, i, o, verdict),
         verdict = "allowed" => Cardinality(Valid(k, o)) < o.max,
         verdict = "overflow" => Cardinality(Valid(k, o)) >= o.max
  PROVE  CountDecides'
<1>. USE DEF CountInv
<1>1. /\ Len(log) \in Nat /\ Len(log') = Len(log) + 1
      /\ \A c \in 1..Len(log) : log'[c] = log[c]
      /\ log'[Len(log) + 1] = Call(k, i, o, verdict)
  BY LogGrows
<1>. SUFFICES ASSUME NEW c \in 1..Len(log')
              PROVE  /\ log'[c].verdict = "allowed" =>
                          Cardinality(Counted(c)') < log'[c].opts.max
                     /\ log'[c].verdict = "overflow" =>
                          Cardinality(Counted(c)') >= log'[c].opts.max
  BY DEF CountDecides
<1>2. CASE c \in 1..Len(log)
  <2>1. Counted(c)' = Counted(c) /\ log'[c] = log[c]
    BY <1>1, <1>2, CountsStay
  <2>. QED  BY <1>2, <2>1 DEF CountDecides
<1>3. CASE c = Len(log) + 1
  <2>1. Counted(c)' = Valid(k, o)
    BY <1>3, ValidIsCounted
  <2>2. log'[c].verdict = verdict /\ log'[c].opts = o
    BY <1>1, <1>3 DEF Call
  <2>. QED  BY <2>1, <2>2
<1>. QED  BY <1>1, <1>2, <1>3

(* Only the call's own key forgets anything. *)
LEMMA OthersKeep ==
  ASSUME CountInv, NEW k \in Keys, NEW i \in Ips, NEW o \in Opts,
         NEW verdict \in Verdicts, Answer(k, i, o, verdict),
         NEW x \in Keys, x # k \/ verdict = "denied"
  PROVE  /\ Allowed(x)' = Allowed(x)
         /\ \A d \in Allowed(x) : Kept(d)' <=> Kept(d)
<1>. PICK n : n = Len(log) + 1
  OBVIOUS
<1>1. Len(log) \in Nat /\ log'[n] = Call(k, i, o, verdict)
      /\ \A d \in 1..Len(log) : log'[d] = log[d]
  BY LogGrows DEF CountInv
<1>2. Allowed(x)' = Allowed(x)
  <2>1. Allowed(x)' = Allowed(x) \cup (IF x = k /\ verdict = "allowed" THEN {Len(log) + 1} ELSE {})
    BY AllowedGrows DEF CountInv
  <2>. QED  BY <2>1
<1>3. \A d \in Allowed(x) : d \in 1..Len(log) /\ ~Forgets(n, d)'
  <2>1. log'[n].key = k /\ log'[n].verdict = verdict
    BY <1>1 DEF Call
  <2>. QED  BY <1>1, <2>1 DEF Forgets, Allowed
<1>. QED  BY <1>2, <1>3, CountsStay DEF CountInv

LEMMA CountAllows ==
  ASSUME CountInv, NEW k \in Keys, NEW i \in Ips, NEW o \in Opts, Allows(k, i, o)
  PROVE  Chronological' /\ Remembered' /\ Cleared' /\ CountDecides'
<1>. USE DEF CountInv
<1>. PICK n : n = Len(log) + 1
  OBVIOUS
<1>1. /\ Answer(k, i, o, "allowed") /\ now' = now
      /\ Cardinality(Valid(k, o)) < o.max
      /\ hits' = [hits EXCEPT ![k] = Valid(k, o) \cup {n}]
      /\ keyDeny' = [keyDeny EXCEPT ![k] = NoEntry]
  BY DEF Allows
<1>2. /\ Len(log) \in Nat /\ Len(log') = n
      /\ \A d \in 1..Len(log) : log'[d] = log[d]
      /\ log'[n] = Call(k, i, o, "allowed")
  BY <1>1, LogGrows DEF Verdicts
<1>3. /\ \A x \in Keys : hits'[x] = IF x = k THEN Valid(k, o) \cup {n} ELSE hits[x]
      /\ \A x \in Keys : keyDeny'[x] = IF x = k THEN NoEntry ELSE keyDeny[x]
  BY <1>1 DEF LimiterTypeOK
<1>4. \A x \in Keys : x # k => /\ Allowed(x)' = Allowed(x)
                               /\ \A d \in Allowed(x) : Kept(d)' <=> Kept(d)
  BY <1>1, OthersKeep DEF Verdicts
<1>5. Chronological' /\ CountDecides'
  BY <1>1, OrderKeeps, CountExtends DEF Verdicts
<1>6. Cleared'
  BY <1>3, <1>4 DEF Cleared
<1>7. Valid(k, o) \cup {n} = {d \in Allowed(k)' : Kept(d)'}
  <2>1. Allowed(k)' = Allowed(k) \cup {n}
    BY <1>1, AllowedGrows DEF Verdicts
  <2>2. Kept(n)'
    <3>1. (n + 1)..Len(log') = {}
      BY <1>2
    <3>. QED  BY <3>1 DEF Kept
  <2>3. ASSUME NEW d \in Allowed(k)
        PROVE  Kept(d)' <=> Kept(d) /\ log[d].at + o.window > now
    <3>1. d \in 1..Len(log) /\ log[d].key = k /\ log[d].at \in Nat
      BY CallTypes DEF Allowed
    <3>2. /\ log'[n].key = k /\ log'[n].at = now /\ log'[n].opts = o
          /\ log'[n].verdict = "allowed" /\ now \in Nat /\ o.window \in Nat
      BY <1>2, OptsAssumption DEF Call, LimiterTypeOK
    <3>3. Forgets(n, d)' <=> ~(log[d].at + o.window > now)
      BY <1>2, <3>1, <3>2 DEF Forgets, Recent
    <3>4. Kept(d)' <=> Kept(d) /\ ~Forgets(n, d)'
      BY <1>1, <3>1, CountsStay DEF Verdicts
    <3>. QED  BY <3>3, <3>4
  <2>4. CASE keyDeny[k] = NoEntry
    <3>1. Valid(k, o) = {d \in hits[k] : log[d].at + o.window > now}
      BY <2>4 DEF Valid
    <3>2. hits[k] = {d \in Allowed(k) : Kept(d)}
      BY <2>4 DEF Remembered
    <3>. QED  BY <2>1, <2>2, <2>3, <3>1, <3>2
  <2>5. CASE keyDeny[k] # NoEntry
    <3>1. Valid(k, o) = {} /\ \A d \in Allowed(k) : ~Kept(d)
      BY <2>5 DEF Valid, Cleared
    <3>. QED  BY <2>1, <2>2, <2>3, <3>1
  <2>. QED  BY <2>4, <2>5
<1>8. Remembered'
  <2>. SUFFICES ASSUME NEW x \in Keys, keyDeny'[x] = NoEntry
                PROVE  hits'[x] = {d \in Allowed(x)' : Kept(d)'}
    BY DEF Remembered
  <2>1. CASE x = k
    BY <1>3, <1>7, <2>1
  <2>2. CASE x # k
    <3>1. hits[x] = {d \in Allowed(x) : Kept(d)} /\ hits'[x] = hits[x]
      BY <1>3, <2>2 DEF Remembered
    <3>. QED  BY <1>4, <2>2, <3>1
  <2>. QED  BY <2>1, <2>2
<1>. QED  BY <1>5, <1>6, <1>8

LEMMA CountOverflows ==
  ASSUME CountInv, NEW k \in Keys, NEW i \in Ips, NEW o \in Opts, Overflows(k, i, o)
  PROVE  Chronological' /\ Remembered' /\ Cleared' /\ CountDecides'
<1>. USE DEF CountInv
<1>. PICK n : n = Len(log) + 1
  OBVIOUS
<1>1. /\ Answer(k, i, o, "overflow") /\ now' = now
      /\ Cardinality(Valid(k, o)) >= o.max
      /\ hits' = [hits EXCEPT ![k] = Valid(k, o)]
      /\ keyDeny' = [keyDeny EXCEPT ![k] = now + o.ttl]
  BY DEF Overflows
<1>2. /\ \A x \in Keys : x # k => hits'[x] = hits[x] /\ keyDeny'[x] = keyDeny[x]
      /\ keyDeny'[k] # NoEntry
  BY <1>1, OptsAssumption DEF LimiterTypeOK, NoEntry
<1>3. \A x \in Keys : x # k => /\ Allowed(x)' = Allowed(x)
                               /\ \A d \in Allowed(x) : Kept(d)' <=> Kept(d)
  BY <1>1, OthersKeep DEF Verdicts
<1>4. Chronological' /\ CountDecides'
  BY <1>1, OrderKeeps, CountExtends DEF Verdicts
<1>5. Remembered'
  BY <1>2, <1>3 DEF Remembered
<1>6. \A d \in Allowed(k)' : ~Kept(d)'
  <2>1. Allowed(k)' = Allowed(k)
    <3>1. Allowed(k)' = Allowed(k) \cup (IF k = k /\ "overflow" = "allowed" THEN {n} ELSE {})
      BY <1>1, AllowedGrows DEF Verdicts
    <3>. QED  BY <3>1
  <2>2. \A d \in Allowed(k) : d \in 1..Len(log) /\ log'[d].key = k
    BY <1>1, LogGrows DEF Allowed, Verdicts
  <2>3. log'[n].key = k /\ log'[n].verdict = "overflow"
    <3>1. log'[n] = Call(k, i, o, "overflow")
      BY <1>1, LogGrows DEF Verdicts
    <3>. QED  BY <3>1 DEF Call
  <2>4. \A d \in Allowed(k) : Forgets(n, d)'
    BY <2>2, <2>3 DEF Forgets
  <2>. QED  BY <1>1, <2>1, <2>2, <2>4, CountsStay DEF Verdicts
<1>7. Cleared'
  BY <1>2, <1>3, <1>6 DEF Cleared
<1>. QED  BY <1>4, <1>5, <1>7

LEMMA CountDenials ==
  ASSUME CountInv, NEW k \in Keys, NEW i \in Ips, NEW o \in Opts,
         DeniedByIp(k, i, o) \/ DeniedByKey(k, i, o)
  PROVE  Chronological' /\ Remembered' /\ Cleared' /\ CountDecides'
<1>. USE DEF CountInv
<1>1. Answer(k, i, o, "denied") /\ now' = now /\ hits' = hits /\ keyDeny' = keyDeny
  BY DEF DeniedByIp, DeniedByKey
<1>2. \A x \in Keys : /\ Allowed(x)' = Allowed(x)
                      /\ \A d \in Allowed(x) : Kept(d)' <=> Kept(d)
  BY <1>1, OthersKeep DEF Verdicts
<1>3. Chronological' /\ CountDecides'
  BY <1>1, OrderKeeps, CountExtends DEF Verdicts
<1>. QED  BY <1>1, <1>2, <1>3 DEF Remembered, Cleared

LEMMA CountNext ==
  ASSUME CountInv, [LimiterNext]_limiterVars
  PROVE  CountInv'
<1>. USE DEF CountInv
<1>1. LimiterTypeOK'
  BY TypesNext
<1>2. ASSUME UNCHANGED <<log, hits, keyDeny>>, now' = now \/ now' = now + 1
      PROVE  Chronological' /\ Remembered' /\ Cleared' /\ CountDecides'
  <2>1. now \in Nat /\ \A c \in 1..Len(log) : log[c].at \in Nat
    BY CallTypes DEF LimiterTypeOK
  <2>2. Chronological'
    BY <1>2, <2>1 DEF Chronological
  <2>. QED  BY <1>2, <2>2
       DEF Remembered, Cleared, CountDecides, Kept, Forgets, Recent, Counted, Allowed
<1>3. ASSUME NEW k \in Keys, NEW i \in Ips, NEW o \in Opts, Check(k, i, o)
      PROVE  Chronological' /\ Remembered' /\ Cleared' /\ CountDecides'
  BY <1>3, CheckCases, CountDenials, CountOverflows, CountAllows
<1>. QED  BY <1>1, <1>2, <1>3 DEF LimiterNext, Tick, limiterVars

(* The window of an undisturbed call holds what the call counts, and itself. *)
LEMMA WindowIsCounted ==
  ASSUME CountInv, NEW c \in 1..Len(log), Undisturbed(c)
  PROVE  InWindow(c) \subseteq Counted(c) \cup {c}
<1>. USE DEF CountInv
<1>. SUFFICES ASSUME NEW d \in InWindow(c), d # c PROVE d \in Counted(c)
  OBVIOUS
<1>1. /\ Len(log) \in Nat /\ d \in 1..Len(log) /\ d < c /\ Recent(d, c)
      /\ d \in Allowed(log[c].key) /\ log[d].key = log[c].key
  BY DEF InWindow, Allowed, LimiterTypeOK
<1>2. ASSUME NEW e \in (d + 1)..(c - 1), Forgets(e, d)
      PROVE  FALSE
  <2>1. e \in 1..(c - 1) /\ e \in 1..Len(log) /\ d \in 1..e /\ e \in 1..c
    BY <1>1
  <2>2. log[d].at <= log[e].at /\ log[e].at <= log[c].at
    BY <2>1 DEF Chronological
  <2>3. /\ log[c].at \in Nat /\ log[d].at \in Nat /\ log[e].at \in Nat
        /\ log[c].opts.window \in Nat /\ log[e].opts.window \in Nat
    BY <1>1, <2>1, CallTypes
  <2>4. Recent(e, c)
    BY <1>1, <2>2, <2>3 DEF Recent
  <2>5. /\ log[e].key = log[c].key
        /\ log[e].verdict = "overflow" \/ (log[e].verdict = "allowed" /\ ~Recent(d, e))
    BY <1>1, <1>2 DEF Forgets
  <2>6. log[e].opts.window >= log[c].opts.window /\ log[e].verdict # "overflow"
    BY <2>1, <2>4, <2>5 DEF Undisturbed
  <2>. QED  BY <1>1, <2>2, <2>3, <2>5, <2>6 DEF Recent
<1>. QED  BY <1>1, <1>2 DEF Counted

(* So the count decides about the window. *)
LEMMA CountBoundsWindow == CountInv => WindowBound
<1>. SUFFICES ASSUME CountInv, NEW c \in 1..Len(log)
              PROVE  /\ log[c].verdict = "allowed" /\ Undisturbed(c) =>
                          Cardinality(InWindow(c)) <= log[c].opts.max
                     /\ log[c].verdict = "overflow" =>
                          Cardinality(InWindow(c)) >= log[c].opts.max
  BY DEF WindowBound
<1>1. Len(log) \in Nat /\ log[c].opts.max \in Nat
  BY CallTypes DEF CountInv, LimiterTypeOK
<1>2. /\ IsFiniteSet(InWindow(c)) /\ Cardinality(InWindow(c)) \in Nat
      /\ IsFiniteSet(Counted(c)) /\ Cardinality(Counted(c)) \in Nat
  <2>1. InWindow(c) \subseteq 1..Len(log) /\ Counted(c) \subseteq 1..Len(log)
    BY DEF InWindow, Counted, Allowed
  <2>2. IsFiniteSet(1..Len(log))
    <3>1. Len(log) \in Int /\ 1 \in Int
      BY <1>1
    <3>. QED  BY <3>1, FS_Interval
  <2>. QED  BY <2>1, <2>2, FS_Subset, FS_CardinalityType
<1>3. ASSUME log[c].verdict = "allowed", Undisturbed(c)
      PROVE  Cardinality(InWindow(c)) <= log[c].opts.max
  <2>1. Cardinality(Counted(c)) < log[c].opts.max
    BY <1>3 DEF CountInv, CountDecides
  <2>2. /\ IsFiniteSet(Counted(c) \cup {c})
        /\ Cardinality(Counted(c) \cup {c}) =
             IF c \in Counted(c) THEN Cardinality(Counted(c)) ELSE Cardinality(Counted(c)) + 1
    BY <1>2, FS_AddElement
  <2>3. Cardinality(InWindow(c)) <= Cardinality(Counted(c) \cup {c})
    BY <1>3, <2>2, WindowIsCounted, FS_Subset
  <2>. QED  BY <1>1, <1>2, <2>1, <2>2, <2>3
<1>4. ASSUME log[c].verdict = "overflow"
      PROVE  Cardinality(InWindow(c)) >= log[c].opts.max
  <2>1. Cardinality(Counted(c)) >= log[c].opts.max
    BY <1>4 DEF CountInv, CountDecides
  <2>2. Counted(c) \subseteq InWindow(c)
    BY <1>1 DEF Counted, InWindow, Allowed
  <2>3. Cardinality(Counted(c)) <= Cardinality(InWindow(c))
    BY <1>2, <2>2, FS_Subset
  <2>. QED  BY <1>1, <1>2, <2>1, <2>3
<1>. QED  BY <1>3, <1>4

(* limiter.go, check: whatever options the calls have, each is let through *)
(* or refused by what its own window counts.                               *)
THEOREM CountsDecide == LimiterSpec => []CountDecides
<1>1. CountInv => CountDecides
  BY DEF CountInv
<1>. QED  BY <1>1, CountInit, CountNext, PTL DEF LimiterSpec

(* README, limit: an undisturbed window never holds more allowed calls     *)
(* than the maxCount of the call that ends it, and no call is refused whose *)
(* window is not full.                                                     *)
THEOREM WindowIsBounded == LimiterSpec => []WindowBound
<1>. QED  BY CountBoundsWindow, CountInit, CountNext, PTL DEF LimiterSpec

------------------------------------------------------------------------------
(* Denials. *)

(* The penalty of call d covers a call for k from i that comes now. *)
Covers(d, k, i) ==
  /\ Overflowed(d) /\ now < Until(d)
  /\ log[d].key = k \/ (log[d].opts.blacklist /\ log[d].ip = i)

(* The two tables say exactly whether some penalty covers a call. *)
LEMMA TablesTellCauses ==
  ASSUME PenaltyInv, NEW k \in Keys, NEW i \in Ips
  PROVE  Denied(ipDeny, i) \/ Denied(keyDeny, k) <=> \E d \in 1..Len(log) : Covers(d, k, i)
<1>. USE DEF PenaltyInv
<1>1. now \in Nat /\ keyDeny[k] \in Nat /\ ipDeny[i] \in Nat
  BY DEF LimiterTypeOK
<1>2. ASSUME Denied(keyDeny, k)
      PROVE  \E d \in 1..Len(log) : Covers(d, k, i)
  <2>1. keyDeny[k] # NoEntry /\ now < keyDeny[k]
    BY <1>1, <1>2 DEF Denied, NoEntry
  <2>2. PICK d \in 1..Len(log) : Overflowed(d) /\ log[d].key = k /\ Until(d) = keyDeny[k]
    BY <2>1 DEF KeyCause
  <2>. QED  BY <2>1, <2>2 DEF Covers
<1>3. ASSUME Denied(ipDeny, i)
      PROVE  \E d \in 1..Len(log) : Covers(d, k, i)
  <2>1. ipDeny[i] # NoEntry /\ now < ipDeny[i]
    BY <1>1, <1>3 DEF Denied, NoEntry
  <2>2. PICK d \in 1..Len(log) :
          Overflowed(d) /\ log[d].opts.blacklist /\ log[d].ip = i /\ Until(d) = ipDeny[i]
    BY <2>1 DEF IpCause
  <2>. QED  BY <2>1, <2>2 DEF Covers
<1>4. ASSUME NEW d \in 1..Len(log), Covers(d, k, i)
      PROVE  Denied(ipDeny, i) \/ Denied(keyDeny, k)
  <2>1. Until(d) \in Nat /\ Overflowed(d) /\ Until(d) > now
    BY <1>1, <1>4, CallTypes DEF Covers, Until
  <2>2. CASE log[d].key = k
    <3>1. keyDeny[k] >= Until(d)
      BY <2>1, <2>2 DEF KeyKept
    <3>. QED  BY <1>1, <2>1, <3>1 DEF Denied
  <2>3. CASE log[d].opts.blacklist /\ log[d].ip = i
    <3>1. ipDeny[i] >= Until(d)
      BY <2>1, <2>3 DEF IpKept
    <3>. QED  BY <1>1, <2>1, <3>1 DEF Denied
  <2>. QED  BY <1>4, <2>2, <2>3 DEF Covers
<1>. QED  BY <1>2, <1>3, <1>4

(* What happened before a call stays as it was. *)
LEMMA PastStays ==
  ASSUME LimiterTypeOK, NEW k \in Keys, NEW i \in Ips, NEW o \in Opts,
         NEW verdict \in Verdicts, Answer(k, i, o, verdict)
  PROVE  /\ Len(log) \in Nat /\ Len(log') = Len(log) + 1
         /\ \A d \in 1..Len(log) : /\ log'[d] = log[d] /\ d \in 1..Len(log')
                                   /\ Until(d)' = Until(d) /\ Overflowed(d)' = Overflowed(d)
         /\ \A c \in 1..Len(log') : c \in 1..Len(log) \/ c = Len(log) + 1
BY LogGrows DEF Until, Overflowed

(* A new call that is denied exactly when it is covered keeps the property.*)
LEMMA CausesExtend ==
  ASSUME PenaltyInv, NEW k \in Keys, NEW i \in Ips, NEW o \in Opts,
         NEW verdict \in Verdicts, Answer(k, i, o, verdict),
         verdict = "denied" <=> \E d \in 1..Len(log) : Covers(d, k, i)
  PROVE  DeniedExactlyForCause'
<1>. USE DEF PenaltyInv
<1>1. /\ Len(log) \in Nat /\ Len(log') = Len(log) + 1
      /\ \A d \in 1..Len(log) : log'[d] = log[d]
      /\ log'[Len(log) + 1] = Call(k, i, o, verdict)
  BY LogGrows
<1>. SUFFICES ASSUME NEW c \in 1..Len(log')
              PROVE  log'[c].verdict = "denied" <=> \E d \in 1..(c - 1) : Punishes(d, c)'
  BY DEF DeniedExactlyForCause
<1>2. CASE c \in 1..Len(log)
  <2>1. \A d \in 1..(c - 1) : Punishes(d, c)' = Punishes(d, c)
    BY <1>1, <1>2 DEF Punishes
  <2>. QED  BY <1>1, <1>2, <2>1 DEF DeniedExactlyForCause
<1>3. CASE c = Len(log) + 1
  <2>1. /\ log'[c].key = k /\ log'[c].ip = i /\ log'[c].at = now
        /\ log'[c].verdict = verdict /\ 1..(c - 1) = 1..Len(log)
    BY <1>1, <1>3 DEF Call
  <2>2. \A d \in 1..Len(log) : Punishes(d, c)' <=> Covers(d, k, i)
    BY <1>1, <2>1 DEF Punishes, Covers, Overflowed, Until
  <2>. QED  BY <2>1, <2>2
<1>. QED  BY <1>1, <1>2, <1>3

LEMMA PenaltyInit == LimiterInit => PenaltyInv
<1>. SUFFICES ASSUME LimiterInit PROVE PenaltyInv
  OBVIOUS
<1>1. LimiterTypeOK
  BY TypesInit
<1>2. 1..Len(log) = {}
  BY DEF LimiterInit
<1>. QED
  BY <1>1, <1>2
  DEF PenaltyInv, KeyCause, IpCause, KeyKept, IpKept, DeniedExactlyForCause, LimiterInit

(* The denials that are pending for others do not change; those of k and i *)
(* themselves are either kept or over.                                     *)
LEMMA PenaltyDenials ==
  ASSUME PenaltyInv, NEW k \in Keys, NEW i \in Ips, NEW o \in Opts,
         DeniedByIp(k, i, o) \/ DeniedByKey(k, i, o)
  PROVE  KeyCause' /\ IpCause' /\ KeyKept' /\ IpKept' /\ DeniedExactlyForCause'
<1>. USE DEF PenaltyInv
<1>1. /\ Answer(k, i, o, "denied") /\ now' = now /\ keyDeny' = keyDeny
      /\ ipDeny' = ipDeny \/ (~Denied(ipDeny, i) /\ ipDeny' = [ipDeny EXCEPT ![i] = NoEntry])
      /\ Denied(ipDeny, i) \/ Denied(keyDeny, k)
  BY DEF DeniedByIp, DeniedByKey, IpDenialOver
<1>2. /\ Len(log) \in Nat /\ Len(log') = Len(log) + 1
      /\ \A d \in 1..Len(log) : /\ log'[d] = log[d] /\ d \in 1..Len(log')
                                /\ Until(d)' = Until(d) /\ Overflowed(d)' = Overflowed(d)
      /\ \A c \in 1..Len(log') : c \in 1..Len(log) \/ c = Len(log) + 1
  BY <1>1, PastStays DEF Verdicts
<1>3. now \in Nat /\ \A d \in 1..Len(log') : Overflowed(d)' => d \in 1..Len(log)
  <2>1. log'[Len(log) + 1] = Call(k, i, o, "denied") /\ now \in Nat
    BY <1>1, LogGrows DEF Verdicts, LimiterTypeOK
  <2>. QED  BY <1>2, <2>1 DEF Overflowed, Call
<1>4. \A x \in Ips : \/ ipDeny'[x] = ipDeny[x]
                     \/ x = i /\ ~Denied(ipDeny, i) /\ ipDeny'[x] = NoEntry
  BY <1>1 DEF LimiterTypeOK
<1>5. KeyCause'
  BY <1>1, <1>2 DEF KeyCause
<1>6. IpCause'
  BY <1>2, <1>4 DEF IpCause
<1>7. KeyKept'
  BY <1>1, <1>2, <1>3 DEF KeyKept
<1>8. IpKept'
  <2>. SUFFICES ASSUME NEW d \in 1..Len(log'), Overflowed(d)', log'[d].opts.blacklist,
                       Until(d)' > now'
                PROVE  ipDeny'[log'[d].ip] >= Until(d)'
    BY DEF IpKept
  <2>1. d \in 1..Len(log) /\ Overflowed(d) /\ log[d].opts.blacklist /\ Until(d) > now
    BY <1>1, <1>2, <1>3
  <2>2. ipDeny[log[d].ip] >= Until(d) /\ log[d].ip \in Ips /\ Until(d) \in Nat
    BY <2>1, CallTypes DEF IpKept, Until
  <2>3. Denied(ipDeny, log[d].ip)
    BY <1>3, <2>1, <2>2 DEF Denied, LimiterTypeOK
  <2>. QED  BY <1>2, <1>4, <2>1, <2>2, <2>3
<1>9. DeniedExactlyForCause'
  BY <1>1, CausesExtend, TablesTellCauses DEF Verdicts
<1>. QED  BY <1>5, <1>6, <1>7, <1>8, <1>9

LEMMA PenaltyAllows ==
  ASSUME PenaltyInv, NEW k \in Keys, NEW i \in Ips, NEW o \in Opts, Allows(k, i, o)
  PROVE  KeyCause' /\ IpCause' /\ KeyKept' /\ IpKept' /\ DeniedExactlyForCause'
<1>. USE DEF PenaltyInv
<1>1. /\ Answer(k, i, o, "allowed") /\ now' = now
      /\ keyDeny' = [keyDeny EXCEPT ![k] = NoEntry]
      /\ ipDeny' = [ipDeny EXCEPT ![i] = NoEntry]
      /\ ~Denied(ipDeny, i) /\ ~Denied(keyDeny, k)
  BY DEF Allows, IpDenialOver
<1>2. /\ Len(log) \in Nat /\ Len(log') = Len(log) + 1
      /\ \A d \in 1..Len(log) : /\ log'[d] = log[d] /\ d \in 1..Len(log')
                                /\ Until(d)' = Until(d) /\ Overflowed(d)' = Overflowed(d)
      /\ \A c \in 1..Len(log') : c \in 1..Len(log) \/ c = Len(log) + 1
  BY <1>1, PastStays DEF Verdicts
<1>3. now \in Nat /\ \A d \in 1..Len(log') : Overflowed(d)' => d \in 1..Len(log)
  <2>1. log'[Len(log) + 1] = Call(k, i, o, "allowed") /\ now \in Nat
    BY <1>1, LogGrows DEF Verdicts, LimiterTypeOK
  <2>. QED  BY <1>2, <2>1 DEF Overflowed, Call
<1>4. /\ \A x \in Ips : ipDeny'[x] = IF x = i THEN NoEntry ELSE ipDeny[x]
      /\ \A x \in Keys : keyDeny'[x] = IF x = k THEN NoEntry ELSE keyDeny[x]
  BY <1>1 DEF LimiterTypeOK
<1>5. KeyCause'
  BY <1>2, <1>4 DEF KeyCause
<1>6. IpCause'
  BY <1>2, <1>4 DEF IpCause
<1>7. ASSUME NEW d \in 1..Len(log'), Overflowed(d)', Until(d)' > now'
      PROVE  /\ d \in 1..Len(log) /\ Overflowed(d) /\ Until(d) > now /\ ~Covers(d, k, i)
             /\ log[d].key \in Keys /\ log[d].ip \in Ips
  <2>1. d \in 1..Len(log) /\ Overflowed(d) /\ Until(d) > now
    BY <1>1, <1>2, <1>3, <1>7
  <2>. QED  BY <1>1, <2>1, TablesTellCauses, CallTypes
<1>8. KeyKept'
  <2>. SUFFICES ASSUME NEW d \in 1..Len(log'), Overflowed(d)', Until(d)' > now'
                PROVE  keyDeny'[log'[d].key] >= Until(d)'
    BY DEF KeyKept
  <2>1. /\ d \in 1..Len(log) /\ Overflowed(d) /\ Until(d) > now /\ ~Covers(d, k, i)
        /\ log[d].key \in Keys
    BY <1>7
  <2>2. log[d].key # k
    BY <1>3, <2>1, CallTypes DEF Covers, Until
  <2>. QED  BY <1>2, <1>4, <2>1, <2>2 DEF KeyKept
<1>9. IpKept'
  <2>. SUFFICES ASSUME NEW d \in 1..Len(log'), Overflowed(d)', log'[d].opts.blacklist,
                       Until(d)' > now'
                PROVE  ipDeny'[log'[d].ip] >= Until(d)'
    BY DEF IpKept
  <2>1. /\ d \in 1..Len(log) /\ Overflowed(d) /\ Until(d) > now /\ ~Covers(d, k, i)
        /\ log[d].ip \in Ips
    BY <1>7
  <2>2. log[d].opts.blacklist /\ log[d].ip # i
    BY <1>2, <1>3, <2>1, CallTypes DEF Covers, Until
  <2>. QED  BY <1>2, <1>4, <2>1, <2>2 DEF IpKept
<1>10. DeniedExactlyForCause'
  BY <1>1, CausesExtend, TablesTellCauses DEF Verdicts
<1>. QED  BY <1>5, <1>6, <1>8, <1>9, <1>10

LEMMA PenaltyOverflows ==
  ASSUME PenaltyInv, NEW k \in Keys, NEW i \in Ips, NEW o \in Opts, Overflows(k, i, o)
  PROVE  KeyCause' /\ IpCause' /\ KeyKept' /\ IpKept' /\ DeniedExactlyForCause'
<1>. USE DEF PenaltyInv
<1>1. /\ Answer(k, i, o, "overflow") /\ now' = now
      /\ keyDeny' = [keyDeny EXCEPT ![k] = now + o.ttl]
      /\ ipDeny' = [ipDeny EXCEPT ![i] = IF o.blacklist THEN now + o.ttl ELSE NoEntry]
      /\ ~Denied(ipDeny, i) /\ ~Denied(keyDeny, k)
  BY DEF Overflows
<1>2. /\ Len(log) \in Nat /\ Len(log') = Len(log) + 1
      /\ \A d \in 1..Len(log) : /\ log'[d] = log[d] /\ d \in 1..Len(log')
                                /\ Until(d)' = Until(d) /\ Overflowed(d)' = Overflowed(d)
      /\ \A c \in 1..Len(log') : c \in 1..Len(log) \/ c = Len(log) + 1
  BY <1>1, PastStays DEF Verdicts
<1>3. PICK n : n = Len(log) + 1
  OBVIOUS
<1>4. /\ n \in 1..Len(log') /\ now \in Nat /\ o.ttl \in Nat
      /\ Overflowed(n)' /\ Until(n)' = now + o.ttl
      /\ log'[n].key = k /\ log'[n].ip = i /\ log'[n].opts = o
  <2>1. log'[n] = Call(k, i, o, "overflow")
    BY <1>1, <1>3, LogGrows DEF Verdicts
  <2>2. n \in 1..Len(log') /\ now \in Nat /\ o.ttl \in Nat
    BY <1>2, <1>3, OptsAssumption DEF LimiterTypeOK
  <2>. QED  BY <2>1, <2>2 DEF Overflowed, Until, Call
<1>5. /\ \A x \in Ips : ipDeny'[x] =
           IF x = i THEN (IF o.blacklist THEN now + o.ttl ELSE NoEntry) ELSE ipDeny[x]
      /\ \A x \in Keys : keyDeny'[x] = IF x = k THEN now + o.ttl ELSE keyDeny[x]
  BY <1>1 DEF LimiterTypeOK
<1>6. KeyCause'
  <2>. SUFFICES ASSUME NEW x \in Keys, keyDeny'[x] # NoEntry
                PROVE  \E d \in 1..Len(log') :
                         Overflowed(d)' /\ log'[d].key = x /\ Until(d)' = keyDeny'[x]
    BY DEF KeyCause
  <2>1. CASE x = k
    BY <1>4, <1>5, <2>1
  <2>2. CASE x # k
    BY <1>2, <1>5, <2>2 DEF KeyCause
  <2>. QED  BY <2>1, <2>2
<1>7. IpCause'
  <2>. SUFFICES ASSUME NEW x \in Ips, ipDeny'[x] # NoEntry
                PROVE  \E d \in 1..Len(log') :
                         /\ Overflowed(d)' /\ log'[d].opts.blacklist /\ log'[d].ip = x
                         /\ Until(d)' = ipDeny'[x]
    BY DEF IpCause
  <2>1. CASE x = i
    BY <1>4, <1>5, <2>1
  <2>2. CASE x # i
    BY <1>2, <1>5, <2>2 DEF IpCause
  <2>. QED  BY <2>1, <2>2
<1>8. ASSUME NEW d \in 1..Len(log), Overflowed(d)', Until(d)' > now'
      PROVE  /\ Overflowed(d) /\ Until(d) > now /\ log'[d] = log[d] /\ Until(d)' = Until(d)
             /\ ~Covers(d, k, i) /\ log[d].key \in Keys /\ log[d].ip \in Ips /\ Until(d) \in Nat
  <2>1. Overflowed(d) /\ Until(d) > now /\ log'[d] = log[d] /\ Until(d)' = Until(d)
    BY <1>1, <1>2, <1>8
  <2>2. log[d].key \in Keys /\ log[d].ip \in Ips /\ Until(d) \in Nat
    BY CallTypes DEF Until
  <2>. QED  BY <1>1, <2>1, <2>2, TablesTellCauses
<1>9. KeyKept'
  <2>. SUFFICES ASSUME NEW d \in 1..Len(log'), Overflowed(d)', Until(d)' > now'
                PROVE  keyDeny'[log'[d].key] >= Until(d)'
    BY DEF KeyKept
  <2>1. CASE d = n
    BY <1>4, <1>5, <2>1
  <2>2. CASE d \in 1..Len(log)
    <3>1. /\ Overflowed(d) /\ Until(d) > now /\ log'[d] = log[d] /\ Until(d)' = Until(d)
          /\ ~Covers(d, k, i) /\ log[d].key \in Keys /\ Until(d) \in Nat
      BY <1>8, <2>2
    <3>2. log[d].key # k
      BY <1>4, <3>1 DEF Covers
    <3>. QED  BY <1>5, <2>2, <3>1, <3>2 DEF KeyKept
  <2>. QED  BY <1>2, <1>3, <2>1, <2>2
<1>10. IpKept'
  <2>. SUFFICES ASSUME NEW d \in 1..Len(log'), Overflowed(d)', log'[d].opts.blacklist,
                       Until(d)' > now'
                PROVE  ipDeny'[log'[d].ip] >= Until(d)'
    BY DEF IpKept
  <2>1. CASE d = n
    BY <1>4, <1>5, <2>1
  <2>2. CASE d \in 1..Len(log)
    <3>1. /\ Overflowed(d) /\ Until(d) > now /\ log'[d] = log[d] /\ Until(d)' = Until(d)
          /\ ~Covers(d, k, i) /\ log[d].ip \in Ips /\ Until(d) \in Nat
      BY <1>8, <2>2
    <3>2. log[d].opts.blacklist /\ log[d].ip # i
      BY <1>4, <3>1 DEF Covers
    <3>. QED  BY <1>5, <2>2, <3>1, <3>2 DEF IpKept
  <2>. QED  BY <1>2, <1>3, <2>1, <2>2
<1>11. DeniedExactlyForCause'
  BY <1>1, CausesExtend, TablesTellCauses DEF Verdicts
<1>. QED  BY <1>6, <1>7, <1>9, <1>10, <1>11

LEMMA PenaltyNext ==
  ASSUME PenaltyInv, [LimiterNext]_limiterVars
  PROVE  PenaltyInv'
<1>. USE DEF PenaltyInv
<1>1. LimiterTypeOK'
  BY TypesNext
<1>2. CASE Tick
  <2>1. /\ now' = now + 1 /\ now \in Nat /\ log' = log
        /\ keyDeny' = keyDeny /\ ipDeny' = ipDeny
    BY <1>2 DEF Tick, LimiterTypeOK
  <2>2. \A d \in 1..Len(log) : Until(d) \in Nat /\ (Until(d) > now' => Until(d) > now)
    BY <2>1, CallTypes DEF Until
  <2>3. KeyCause' /\ IpCause' /\ DeniedExactlyForCause'
    BY <2>1 DEF KeyCause, IpCause, DeniedExactlyForCause, Overflowed, Until, Punishes
  <2>4. \A d : Until(d)' = Until(d) /\ Overflowed(d)' = Overflowed(d)
    BY <2>1 DEF Until, Overflowed
  <2>5. KeyKept' /\ IpKept'
    BY <2>1, <2>2, <2>4 DEF KeyKept, IpKept
  <2>. QED  BY <1>1, <2>3, <2>5
<1>3. ASSUME NEW k \in Keys, NEW i \in Ips, NEW o \in Opts, Check(k, i, o)
      PROVE  KeyCause' /\ IpCause' /\ KeyKept' /\ IpKept' /\ DeniedExactlyForCause'
  <2>1. CASE DeniedByIp(k, i, o) \/ DeniedByKey(k, i, o)
    BY <2>1, PenaltyDenials
  <2>2. CASE Overflows(k, i, o)
    BY <2>2, PenaltyOverflows
  <2>3. CASE Allows(k, i, o)
    BY <2>3, PenaltyAllows
  <2>. QED  BY <1>3, <2>1, <2>2, <2>3, CheckCases
<1>4. CASE UNCHANGED limiterVars
  BY <1>1, <1>4
  DEF limiterVars, KeyCause, IpCause, KeyKept, IpKept, DeniedExactlyForCause, Overflowed,
      Until, Punishes
<1>. QED  BY <1>1, <1>2, <1>3, <1>4 DEF LimiterNext

(* A call is denied without being counted exactly when an overflow of its  *)
(* key, or a blacklisting one of its address, is not over yet.             *)
THEOREM DenialsHaveCauses == LimiterSpec => []DeniedExactlyForCause
<1>1. PenaltyInv => DeniedExactlyForCause
  BY DEF PenaltyInv
<1>. QED  BY <1>1, PenaltyInit, PenaltyNext, PTL DEF LimiterSpec

------------------------------------------------------------------------------
(* The limiter inside the engine. *)

(* A step of the engine is a step of its limiter, none, or a restart.      *)
LEMMA LimiterSteps ==
  ASSUME [Next]_vars
  PROVE  \/ [LimiterNext]_limiterVars
         \/ /\ log' = <<>> /\ hits' = [k \in Keys |-> {}] /\ now' = now
            /\ keyDeny' = [k \in Keys |-> NoEntry] /\ ipDeny' = [i \in Ips |-> NoEntry]
<1>1. ASSUME NEW a \in Admins, AdminMoves(a)
      PROVE  UNCHANGED limiterVars
  BY <1>1
  DEF AdminMoves, ReloadReads, ReloadInstalls, ReloadFails, RollbackStarts, DeployStarts,
      OpenFails, Opens, WriteFails, Writes, Swaps
<1>2. ASSUME NEW s \in Scripts, Edits(s)
      PROVE  UNCHANGED limiterVars
  BY <1>2 DEF Edits
<1>3. ASSUME NEW w \in Workers, ExecuteStarts(w) \/ ExecuteEnds(w)
      PROVE  UNCHANGED limiterVars
  BY <1>3 DEF ExecuteStarts, ExecuteEnds
<1>4. ASSUME NEW w \in Workers, NEW k \in Keys, NEW i \in Ips, ExecuteLimits(w, k, i)
      PROVE  LimiterNext
  <2>1. PICK o \in Limits[worker[w]] \ {Unlimited} : worker[w] \in Scripts /\ Check(k, i, o)
    BY <1>4 DEF ExecuteLimits
  <2>2. o \in Opts
    BY <2>1, ScriptAssumption
  <2>. QED  BY <2>1, <2>2 DEF LimiterNext
<1>5. CASE Restarts
  BY <1>5 DEF Restarts
<1>6. CASE Tick /\ UNCHANGED <<engineVars, worker>>
  BY <1>6 DEF LimiterNext
<1>7. CASE UNCHANGED vars
  BY <1>7 DEF vars
<1>. QED  BY <1>1, <1>2, <1>3, <1>4, <1>5, <1>6, <1>7 DEF Next

(* A limiter that starts empty, at any time, satisfies both invariants.    *)
LEMMA EmptyLimiter ==
  ASSUME now \in Nat, now' = now, log' = <<>>, hits' = [k \in Keys |-> {}],
         keyDeny' = [k \in Keys |-> NoEntry], ipDeny' = [i \in Ips |-> NoEntry]
  PROVE  CountInv' /\ PenaltyInv'
<1>1. 1..Len(log') = {}
  OBVIOUS
<1>2. LimiterTypeOK'
  BY DEF LimiterTypeOK, NoEntry
<1>3. CountInv'
  BY <1>1, <1>2
  DEF CountInv, Chronological, Remembered, Cleared, CountDecides, Allowed, NoEntry
<1>4. PenaltyInv'
  BY <1>1, <1>2
  DEF PenaltyInv, KeyCause, IpCause, KeyKept, IpKept, DeniedExactlyForCause
<1>. QED  BY <1>3, <1>4

(* What the limiter counts survives the engine's steps. *)
LEMMA EngineCounts ==
  ASSUME CountInv, [Next]_vars
  PROVE  CountInv'
<1>1. now \in Nat
  BY DEF CountInv, LimiterTypeOK
<1>. QED  BY <1>1, LimiterSteps, CountNext, EmptyLimiter

(* limiter.go, check: whatever scripts are deployed, rolled back or        *)
(* reloaded while requests run, with whatever windows, and since the last  *)
(* restart, each request is let through or refused by what the window of   *)
(* the script it ran counts.                                               *)
THEOREM EngineCountsDecide == Spec => []CountDecides
<1>1. Init => CountInv
  BY CountInit DEF Init
<1>2. CountInv => CountDecides
  BY DEF CountInv
<1>. QED  BY <1>1, <1>2, EngineCounts, PTL DEF Spec

(* README, limit: under the same changes no undisturbed window holds more  *)
(* allowed requests than the maxCount of the script that ended it.         *)
THEOREM EngineKeepsWindow == Spec => []WindowBound
<1>1. Init => CountInv
  BY CountInit DEF Init
<1>. QED  BY <1>1, CountBoundsWindow, EngineCounts, PTL DEF Spec

(* The same for denials. *)
THEOREM EngineDeniesForCause == Spec => []DeniedExactlyForCause
<1>1. Init => PenaltyInv
  BY PenaltyInit DEF Init
<1>2. PenaltyInv /\ [Next]_vars => PenaltyInv'
  <2>. SUFFICES ASSUME PenaltyInv, [Next]_vars PROVE PenaltyInv'
    OBVIOUS
  <2>1. now \in Nat
    BY DEF PenaltyInv, LimiterTypeOK
  <2>. QED  BY <2>1, LimiterSteps, PenaltyNext, EmptyLimiter
<1>3. PenaltyInv => DeniedExactlyForCause
  BY DEF PenaltyInv
<1>. QED  BY <1>1, <1>2, <1>3, PTL DEF Spec

------------------------------------------------------------------------------
(* The file and the running script, when management requests come one at a *)
(* time.  What an operation in progress says about the file is needed to   *)
(* carry the property over its last step.                                  *)

OneAtATime == \A a, b \in Admins : a = b

AdminTypeOK == DOMAIN admin = Admins

InProgress ==
  \A a \in Admins : disk.by = "engine" =>
    /\ admin[a].pc = "load" => admin[a].text = disk.text
    /\ admin[a].pc = "swap" => admin[a].text = disk.text
    /\ admin[a].pc # "swap" => disk.text = source
    /\ admin[a].pc # "write"

DiskInv ==
  /\ AdminTypeOK
  /\ disk.by = "engine" /\ Admins = {} => disk.text = source
  /\ InProgress

LEMMA DiskNext ==
  ASSUME OneAtATime, DiskInv, [Next]_vars
  PROVE  DiskInv'
<1>. USE DEF DiskInv, AdminTypeOK
<1>1. ASSUME NEW a \in Admins, AdminMoves(a)
      PROVE  DiskInv'
  <2>. USE OneAtATime DEF OneAtATime, NoOperation
  <2>1. CASE ReloadReads(a) \/ ReloadInstalls(a) \/ ReloadFails(a)
    BY <1>1, <2>1 DEF ReloadReads, ReloadInstalls, ReloadFails, InProgress
  <2>2. CASE RollbackStarts(a) \/ \E s \in Scripts : DeployStarts(a, s)
    BY <1>1, <2>2 DEF RollbackStarts, DeployStarts, InProgress
  <2>3. CASE OpenFails(a)
    BY <1>1, <2>3 DEF OpenFails, InProgress
  <2>4. CASE Opens(a) \/ WriteFails(a)
    BY <1>1, <2>4 DEF Opens, WriteFails, InProgress
  <2>5. CASE Writes(a)
    BY <1>1, <2>5 DEF Writes, InProgress
  <2>6. CASE Swaps(a)
    BY <1>1, <2>6 DEF Swaps, InProgress
  <2>. QED  BY <1>1, <2>1, <2>2, <2>3, <2>4, <2>5, <2>6 DEF AdminMoves
<1>2. CASE \E s \in Scripts : Edits(s)
  BY <1>2 DEF Edits, InProgress
<1>3. CASE Restarts
  BY <1>3 DEF Restarts, InProgress, NoOperation
<1>4. ASSUME disk' = disk, source' = source, admin' = admin
      PROVE  DiskInv'
  BY <1>4 DEF InProgress
<1>5. ASSUME NEW w \in Workers,
             \/ ExecuteStarts(w) \/ ExecuteEnds(w)
             \/ \E k \in Keys, i \in Ips : ExecuteLimits(w, k, i)
      PROVE  DiskInv'
  BY <1>4, <1>5 DEF ExecuteStarts, ExecuteEnds, ExecuteLimits, engineVars
<1>6. CASE (Tick /\ UNCHANGED <<engineVars, worker>>) \/ UNCHANGED vars
  BY <1>4, <1>6 DEF engineVars, vars
<1>. QED  BY <1>1, <1>2, <1>3, <1>5, <1>6 DEF Next

(* engine.go:113-115: as long as management requests do not overlap, the   *)
(* file holds what runs, or what the deployment in progress is about to    *)
(* install, unless it was edited or a write failed.                        *)
THEOREM DeploymentsReachTheDisk ==
  ASSUME OneAtATime
  PROVE  Spec => []DiskFollowsMemory
<1>1. Init => DiskInv
  BY DEF Init, DiskInv, AdminTypeOK, InProgress, NoOperation
<1>2. DiskInv /\ [Next]_vars => DiskInv'
  BY DiskNext
<1>3. DiskInv => DiskFollowsMemory
  BY DEF DiskInv, InProgress, DiskFollowsMemory
<1>. QED  BY <1>1, <1>2, <1>3, PTL DEF Spec
==============================================================================
