SPECIFICATION ConsoleFairSpec
CONSTANTS
  Op = {o1, o2}
  Worker = {w1, w2}
  None = None
  MaxProgress = 1
INVARIANTS
  EventsInOrder
  OutcomeNotLost
  ActiveOperationIsLive
PROPERTIES
  OutcomeIsFinal
  EarlyCancelNeverRuns
  EveryOperationSettles
  ShutdownCompletes
  ImplementsLifecycle
  ButtonIsReleased
