--------------------------- MODULE ResponseStream ---------------------------
(***************************************************************************)
(* What a SIP transaction promises whoever reads its responses: any number *)
(* of provisional ones, then at most one final one that nothing replaces,  *)
(* and an end that follows the final response and only it.                 *)
(*                                                                         *)
(* The server transaction implements it towards its peer, the client       *)
(* transaction towards the function waiting for the answer, and the proxy  *)
(* as a whole towards the caller.                                          *)
(***************************************************************************)
EXTENDS Naturals

CONSTANT Responses  \* the status codes that may be reported

VARIABLES
  latest,  \* the response reported last; below 100 while there is none
  over     \* the transaction is finished

vars == <<latest, over>>

Answered == latest >= 200

Init == latest \in {r \in Responses \cup {0} : r < 200} /\ over = FALSE

(* Provisional responses stop at the final one. *)
Progress ==
  /\ ~Answered
  /\ latest' \in {r \in Responses : r < 200}
  /\ UNCHANGED over

(* The final response, which may end the transaction in the same step. *)
Answer ==
  /\ ~Answered
  /\ latest' \in {r \in Responses : r >= 200}
  /\ over' \in BOOLEAN

Finish ==
  /\ Answered
  /\ ~over
  /\ over' = TRUE
  /\ UNCHANGED latest

Next == Progress \/ Answer \/ Finish

SafeSpec == Init /\ [][Next]_vars

(* An answered transaction does not linger for ever. *)
Spec == SafeSpec /\ WF_vars(Finish)
==============================================================================
