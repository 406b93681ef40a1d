--------------------------- MODULE CallMediaSignals ---------------------------
(***************************************************************************)
(* CallMedia with two requests of the call that reach neither the script   *)
(* nor the media managers: re-INVITEs with hold, which the server forwards *)
(* in dialog (pkg/server/server.go), and CANCEL, which the transaction     *)
(* layer answers itself (pkg/transaction/layer.go).  Nothing of CallMedia  *)
(* changes by them; what is stated here is what the README promises.       *)
(***************************************************************************)
EXTENDS CallMedia

VARIABLES
  reheld,     \* the sides whose last re-INVITE asked for hold
  cancelled   \* the INVITEs that were answered 487 while they rang

signalVars == <<reheld, cancelled>>

ReInvite(side, hold) ==
  /\ \E h \in Invites : at[h] = "rings"
  /\ reheld' = IF hold THEN reheld \cup {side} ELSE reheld \ {side}
  /\ UNCHANGED <<vars, cancelled>>

CallerCancels(h) ==
  /\ at[h] = "plays" /\ sender[h] = "rings"
  /\ cancelled' = cancelled \cup {h}
  /\ UNCHANGED <<vars, reheld>>

SignalsInit == Init /\ reheld = {} /\ cancelled = {}

SignalsNext ==
  \/ Next /\ UNCHANGED signalVars
  \/ \E side \in {"caller", "callee"}, hold \in BOOLEAN : ReInvite(side, hold)
  \/ \E h \in Invites : CallerCancels(h)

SignalsSpec == SignalsInit /\ [][SignalsNext]_<<vars, signalVars>>
------------------------------------------------------------------------------
(* README:113 says the idle timeout releases sockets "only if neither side *)
(* has signalled hold".                                                    *)
HoldKeepsTheRelay ==
  [][SweepCloses /\ reheld # {} => \A s \in Invites : Open(s)' = Open(s)]_<<vars, signalVars>>

(* README:149 says call-start is sent when "An INVITE transaction          *)
(* completed with a final 2xx": not when with 487.  The audio starts then, *)
(* too.                                                                    *)
CancelledNeverPlays == \A h \in cancelled : sender[h] # "sends"
==============================================================================
