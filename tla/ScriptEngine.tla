---------------------------- MODULE ScriptEngine ----------------------------
(***************************************************************************)
(* The script engine (pkg/script/engine.go) between the management API and *)
(* the read loops: the script on disk and in memory, Load, Deploy and      *)
(* Rollback with their failures, restarts, and requests that execute the   *)
(* program they found and call limit() with what that program says.        *)
(*                                                                         *)
(* A step is what happens between two acquisitions of the engine's mutex   *)
(* or one operation on the file.                                           *)
(***************************************************************************)
EXTENDS RateLimiter

CONSTANTS
  Scripts,      \* sources that compile
  Limits,       \* Limits[s]: what script s passes to limit(), or Unlimited
  Unlimited,    \* a request for which limit is not called, or with an option <= 0
  Broken,       \* what a write that failed half-way leaves in the file
  NoScript,     \* the empty string of previousSrc
  InitialScript,
  Admins,       \* goroutines with a management request or SIGHUP
  Workers       \* goroutines with a SIP request

ASSUME ScriptAssumption ==
  /\ InitialScript \in Scripts
  /\ Broken \notin Scripts /\ NoScript \notin Scripts \cup {Broken}
  /\ Limits \in [Scripts -> SUBSET (Opts \cup {Unlimited})] /\ Unlimited \notin Opts

VARIABLES
  disk,      \* the script file: its text, and who wrote it last
  source,    \* Engine.source; Engine.prg is its compilation
  previous,  \* Engine.previousSrc
  admin,     \* per admin: the operation in progress
  worker     \* per worker: the program Execute took

engineVars == <<disk, source, previous, admin>>
vars == <<limiterVars, engineVars, worker>>

Texts == Scripts \cup {Broken}
NoOperation == [pc |-> "idle", text |-> NoScript, over |-> NoScript]

Init ==
  /\ LimiterInit
  /\ disk = [text |-> InitialScript, by |-> "engine"]
  /\ source = InitialScript
  /\ previous = NoScript
  /\ admin = [a \in Admins |-> NoOperation]
  /\ worker = [w \in Workers |-> NoScript]

------------------------------------------------------------------------------
(* Load.  A file that does not compile leaves everything as it was; what a *)
(* failed write left may compile or not.                                   *)

ReloadReads(a) ==
  /\ admin[a].pc = "idle"
  /\ admin' = [admin EXCEPT ![a] = [pc |-> "load", text |-> disk.text, over |-> NoScript]]
  /\ UNCHANGED <<disk, source, previous, worker, limiterVars>>

ReloadInstalls(a) ==
  /\ admin[a].pc = "load"
  /\ source' = admin[a].text
  /\ admin' = [admin EXCEPT ![a] = NoOperation]
  /\ UNCHANGED <<disk, previous, worker, limiterVars>>

ReloadFails(a) ==
  /\ admin[a].pc = "load" /\ admin[a].text = Broken
  /\ admin' = [admin EXCEPT ![a] = NoOperation]
  /\ UNCHANGED <<disk, source, previous, worker, limiterVars>>

\* slip: the program is swapped before the file is written
DeployStartsSwapped(a, s) ==
  /\ admin[a].pc = "idle"
  /\ source' = s
  /\ admin' = [admin EXCEPT ![a] = [pc |-> "open", text |-> s, over |-> source]]
  /\ UNCHANGED <<disk, previous, worker, limiterVars>>

(* Deploy compiles its text and remembers what it is about to deploy over; *)
(* Rollback takes previousSrc.                                             *)
DeployStarts(a, s) ==
  /\ admin[a].pc = "idle"
  /\ admin' = [admin EXCEPT ![a] = [pc |-> "open", text |-> s, over |-> source]]
  /\ UNCHANGED <<disk, source, previous, worker, limiterVars>>

RollbackStarts(a) ==
  /\ admin[a].pc = "idle" /\ previous # NoScript
  /\ admin' = [admin EXCEPT ![a] = [pc |-> "open", text |-> previous, over |-> NoScript]]
  /\ UNCHANGED <<disk, source, previous, worker, limiterVars>>

(* os.WriteFile truncates the file, then writes it; either may fail.       *)
OpenFails(a) ==
  /\ admin[a].pc = "open"
  /\ admin' = [admin EXCEPT ![a] = NoOperation]
  /\ UNCHANGED <<disk, source, previous, worker, limiterVars>>

Opens(a) ==
  /\ admin[a].pc = "open"
  /\ disk' = [text |-> Broken, by |-> "half-way"]
  /\ admin' = [admin EXCEPT ![a].pc = "write"]
  /\ UNCHANGED <<source, previous, worker, limiterVars>>

WriteFails(a) ==
  /\ admin[a].pc = "write"
  /\ disk' = [text |-> Broken, by |-> "half-way"]
  /\ admin' = [admin EXCEPT ![a] = NoOperation]
  /\ UNCHANGED <<source, previous, worker, limiterVars>>

Writes(a) ==
  /\ admin[a].pc = "write"
  /\ disk' = [text |-> admin[a].text, by |-> "engine"]
  /\ admin' = [admin EXCEPT ![a].pc = "swap"]
  /\ UNCHANGED <<source, previous, worker, limiterVars>>

Swaps(a) ==
  /\ admin[a].pc = "swap"
  /\ previous' = admin[a].over
  /\ source' = admin[a].text
  /\ admin' = [admin EXCEPT ![a] = NoOperation]
  /\ UNCHANGED <<disk, worker, limiterVars>>

(* Whoever maintains the script may also edit the file, for a reload. *)
Edits(s) ==
  /\ disk' = [text |-> s, by |-> "editor"]
  /\ UNCHANGED <<source, previous, admin, worker, limiterVars>>

------------------------------------------------------------------------------
(* The process dies at any moment and is started again: NewEngine loads    *)
(* the file and has a limiter and no rollback copy of its own.  If the     *)
(* file does not compile, it does not start.                               *)
Restarts ==
  /\ source' = disk.text
  /\ previous' = NoScript
  /\ admin' = [a \in Admins |-> NoOperation]
  /\ worker' = [w \in Workers |-> NoScript]
  /\ log' = <<>> /\ hits' = [k \in Keys |-> {}]
  /\ keyDeny' = [k \in Keys |-> NoEntry] /\ ipDeny' = [i \in Ips |-> NoEntry]
  /\ UNCHANGED <<disk, now>>

------------------------------------------------------------------------------
(* Execute takes the program under the mutex and runs it without.          *)

ExecuteStarts(w) ==
  /\ worker[w] = NoScript
  /\ worker' = [worker EXCEPT ![w] = source]
  /\ UNCHANGED <<engineVars, limiterVars>>

(* limit(): 403 and the end of the script, or on with it.                  *)
ExecuteLimits(w, k, i) ==
  /\ worker[w] \in Scripts
  /\ \E o \in Limits[worker[w]] \ {Unlimited} : Check(k, i, o)
  /\ worker' = [worker EXCEPT ![w] = NoScript]
  /\ UNCHANGED engineVars

(* No limit is called for, or the script fails. *)
ExecuteEnds(w) ==
  /\ worker[w] \in {Broken} \cup {s \in Scripts : Unlimited \in Limits[s]}
  /\ worker' = [worker EXCEPT ![w] = NoScript]
  /\ UNCHANGED <<engineVars, limiterVars>>

------------------------------------------------------------------------------
AdminMoves(a) ==
  \/ ReloadReads(a) \/ ReloadInstalls(a) \/ ReloadFails(a)
  \/ RollbackStarts(a) \/ \E s \in Scripts : DeployStarts(a, s)
  \/ OpenFails(a) \/ Opens(a) \/ WriteFails(a) \/ Writes(a) \/ Swaps(a)

Next ==
  \/ \E a \in Admins : AdminMoves(a)
  \/ \E s \in Scripts : Edits(s)
  \/ Restarts
  \/ \E w \in Workers : \/ ExecuteStarts(w) \/ ExecuteEnds(w)
                        \/ \E k \in Keys, i \in Ips : ExecuteLimits(w, k, i)
  \/ Tick /\ UNCHANGED <<engineVars, worker>>

Spec == Init /\ [][Next]_vars

------------------------------------------------------------------------------
(* Properties *)

TypeOK ==
  /\ LimiterTypeOK
  /\ disk \in [text : Texts, by : {"engine", "editor", "half-way"}]
  /\ source \in Texts
  /\ previous \in Texts \cup {NoScript}
  /\ admin \in [Admins -> [pc : {"idle", "load", "open", "write", "swap"},
                           text : Texts \cup {NoScript}, over : Texts \cup {NoScript}]]
  /\ worker \in [Workers -> Texts \cup {NoScript}]

(* engine.go:113-115: a deployment changes the script on disk and in       *)
(* memory, or neither.  Unless somebody edits the file or a write fails    *)
(* half-way, a restart would run what runs now, or what a deployment in    *)
(* progress is about to install.                                           *)
DiskFollowsMemory ==
  disk.by = "engine" =>
    \/ disk.text = source
    \/ \E a \in Admins : admin[a].pc = "swap" /\ admin[a].text = disk.text

(* engine.go:114: "If anything fails, the previous script is restored on   *)
(* disk and in memory and an error is returned."                           *)
FailureRestores ==
  disk.by = "half-way" => \E a \in Admins : admin[a].pc = "write"
==============================================================================
