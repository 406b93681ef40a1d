CONSTANT Codes <- MCCodes
SPECIFICATION Spec
INVARIANTS
  OneFinalDelivered
  ACKsExactlyFailures
  SomeTimerEndsIt
PROPERTIES
  EndsOrRings
  ImplementsPromise
