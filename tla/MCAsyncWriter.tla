---------------------------- MODULE MCAsyncWriter ----------------------------
(* Two producers and more calls than the queue and the batch can hold.      *)
EXTENDS AsyncWriter

CONSTANTS p1, p2

MCProducers == {p1, p2}
==============================================================================
