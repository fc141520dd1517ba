SPECIFICATION Spec
CONSTANTS
  Absent = Absent
  NoRecord = NoRecord
  NoKey = NoKey
  Employees = {e1}
  Requests = {r1, r2, r3}
  Correlations = {c1, c2}
  Rates = {0, 1000, 1010, 1011}
  DocRates = {1000, 1011}
  Stored <- MCStored
  Fixed <- MCFixed
  Keys <- MCKeys
  Payloads <- MCPayloads
  OutboxEnabled = TRUE
  OneSnapshot = TRUE
  RetryLimit = 2
  MaxFaults = 1
  MaxRepairs = 1
SYMMETRY Symmetry
CHECK_DEADLOCK FALSE
INVARIANTS HealthyMeansAligned ReconciledToTheCent QuietAgreement
PROPERTIES RepairClosesOnlyDeleted
