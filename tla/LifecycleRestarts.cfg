CONSTANTS
  MaxLives = 2
  Lazy = Lazy
  Null = Null
SPECIFICATION Spec
INVARIANTS LifecycleInvariant LeftOpenOnlyByFailure ReadyWhileServing
PROPERTY NewAdapterOpen
CHECK_DEADLOCK FALSE
