CONSTANT Codes <- MCCodes
SPECIFICATION Spec
INVARIANTS
  TypeOK
  RepeatsWhatWasSent
  AnsweredTxEnds
PROPERTIES
  NeverGoesBack
  ImplementsPromise
