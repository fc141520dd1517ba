SPECIFICATION Spec
CONSTANTS
  w1 = w1
  w2 = w2
  o1 = o1
  Events <- OneEvent
  Workers = {w1, w2}
  Operators = {o1}
  Commands <- AllCommands
  MaxAttempts = 3
  BatchSize = 2
  Orderly = FALSE
  MaxFaults = 1
  NoEvent = NoEvent
SYMMETRY Symmetry
INVARIANTS TypeOK AttemptsFitStatus SuccessWasDelivered
PROPERTIES ImplementsEventQueue
