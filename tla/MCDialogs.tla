------------------------------ MODULE MCDialogs ------------------------------
(* Two setupDialog calls with one Call-ID and the callees that may answer. *)
EXTENDS Dialogs

CONSTANTS t1, t2

MCTags == {t1, t2}
MCOneTag == {t1}
==============================================================================
