------------------------- MODULE MCCallMediaSignals -------------------------
(* CallMediaSignals on the instance of MCCallMedia.                        *)
EXTENDS CallMediaSignals

MCHeldStreams == {{}, {1}}
==============================================================================
