----------------------------- MODULE MCCallMedia -----------------------------
(* CallMedia with two INVITEs of one Call-ID, a BYE, a dialog timer, and   *)
(* up to two streams of which the second may be on hold.                   *)
EXTENDS CallMedia

MCHeldStreams == {{}, {1}}
==============================================================================
