\* Three attempts: a first, a middle and a last one.
CONSTANTS
  MaxAttempts = 3
  InitialDelays = {1, 2}
SPECIFICATION FairSpec
INVARIANTS Inv BackOffBounded CancelledIsReported
PROPERTIES ImplementsRemoteCall CommandCompletes
CHECK_DEADLOCK FALSE
