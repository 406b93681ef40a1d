------------------------ MODULE MCServerTransaction ------------------------
(* ServerTransaction with one status code of every class the code tells    *)
(* apart: below 100, both ends of 1xx and of 2xx, and failures.           *)
EXTENDS ServerTransaction

MCCodes == {99, 100, 180, 199, 200, 299, 300, 408, 487}
==============================================================================
