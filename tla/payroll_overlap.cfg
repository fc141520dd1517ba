CONSTANTS
  emp = emp
  create = create
  update = update
  delete = delete
  Absent = Absent
  Keys = {create, update, delete}
  Employees = {emp}
  Calls = {c1, c2, c3}
  Rates = {0, 10, 20, 24}
  Stored <- MCStored
  Payloads <- MCPayloads
  Emp <- MCEmp
  Act <- MCAct
  Overlap = TRUE
SPECIFICATION FairSpec
INVARIANTS
  TypeOK
  NothingLeftPending
  AcknowledgedIsRecorded
PROPERTIES
  HistoryOnlyGrows
  ReplacementClosesTheRest
  EveryCallReturns
