SPECIFICATION Spec
CONSTANTS
  w1 = w1
  w2 = w2
  o1 = o1
  Events <- OneEvent
  Workers = {w1}
  Operators = {o1}
  Commands <- RetryEventOnly
  MaxAttempts = 2
  BatchSize = 1
  Orderly = TRUE
  MaxFaults = 0
  NoEvent = NoEvent
INVARIANTS RequeuedIsTriedAgain
