---------------------------- MODULE MCInviteProxy ----------------------------
(* InviteProxy with two branches; callees ring, answer, refuse or confirm a *)
(* CANCEL, and the script may answer by itself.                             *)
EXTENDS InviteProxy, TLC

CONSTANTS b1, b2

MCBranches == {b1, b2}
MCOneBranch == {b1}
MCSymmetry == Permutations(MCBranches)
MCUpstreamCodes == {180, 200, 486}
MCLocalCodes == {200, 404}
MCRefusals == {404}
MCNoCodes == {}
==============================================================================
