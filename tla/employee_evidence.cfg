SPECIFICATION Spec
CONSTANTS
  Absent = Absent
  NoRecord = NoRecord
  NoKey = NoKey
  Employees = {e1}
  Requests = {r1}
  Correlations = {c1}
  Rates = {0, 1000, 1010, 1011}
  DocRates = {1000, 1011}
  Stored <- MCStored
  Fixed <- MCFixed
  Keys <- MCKeys
  Payloads <- MCPayloads
  OutboxEnabled = TRUE
  OneSnapshot = FALSE
  RetryLimit = 2
  MaxFaults = 0
  MaxRepairs = 1
CHECK_DEADLOCK FALSE
INVARIANT HealthyMeansAligned
