SPECIFICATION Spec
CONSTANTS
  w1 = w1
  w2 = w2
  o1 = o1
  Events <- TwoEvents
  Workers = {w1, w2}
  Operators = {o1}
  Commands <- NoCommands
  MaxAttempts = 3
  BatchSize = 2
  Orderly = TRUE
  MaxFaults = 2
  NoEvent = NoEvent
SYMMETRY Symmetry
INVARIANTS OneHolder
PROPERTIES SettledStaysSettled
