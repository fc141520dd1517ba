SPECIFICATION FairSpec
CONSTANTS
  w1 = w1
  w2 = w2
  o1 = o1
  Events <- TwoEvents
  Workers = {w1, w2}
  Operators = {}
  Commands <- NoCommands
  MaxAttempts = 3
  BatchSize = 1
  Orderly = FALSE
  MaxFaults = 1
  NoEvent = NoEvent
INVARIANTS NeverDeadEarly
PROPERTIES EveryEventSettles
