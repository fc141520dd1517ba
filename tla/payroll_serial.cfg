CONSTANTS
  emp = emp
  create = create
  update = update
  delete = delete
  Absent = Absent
  Keys = {create, update, delete}
  Employees = {emp}
  Calls = {c1, c2, c3, c4}
  Rates = {0, 10, 20, 24}
  Stored <- MCStored
  Payloads <- MCPayloads
  Emp <- MCEmp
  Act <- MCAct
  Overlap = FALSE
SYMMETRY Symmetry
SPECIFICATION Spec
INVARIANTS
  AtMostOneActive
PROPERTIES
  ImplementsLedger
