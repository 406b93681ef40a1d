--------------------------- MODULE MCScriptEngine ---------------------------
(* ScriptEngine with a lenient script and one that is strict or lets pass: *)
(* their windows differ, and the strict one's penalty is shorter than its. *)
EXTENDS ScriptEngine, TLC

CONSTANTS lenient, strict

Lenient == [window |-> 1, max |-> 2, ttl |-> 2, blacklist |-> FALSE]
Strict == [window |-> 2, max |-> 1, ttl |-> 1, blacklist |-> TRUE]
MCOpts == {Lenient, Strict}
MCScripts == {lenient, strict}
MCLimits == [s \in MCScripts |-> IF s = lenient THEN {Lenient} ELSE {Strict, Unlimited}]
MCSymmetry == Permutations(Keys) \cup Permutations(Ips)
==============================================================================
