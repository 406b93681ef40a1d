----------------------------- MODULE MCRegistrar -----------------------------
(* Registrar with two contacts: one REGISTER registers both, one moves     *)
(* from the one to the other and comes back for more seconds than a        *)
(* Duration holds, and one is a query.                                     *)
EXTENDS Registrar, TLC

CONSTANTS desk, mobile, both, moves, query

Wants(c, seconds) == [contact |-> c, expires |-> seconds]

Contents ==
  both :> <<Wants(desk, 2), Wants(mobile, 1)>> @@
  moves :> <<Wants(mobile, 1), Wants(desk, 0), Wants(desk, 9)>> @@
  query :> <<>>

MCAsks == [r \in Requests |-> Contents[r]]
==============================================================================
