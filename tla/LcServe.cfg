\* Processes started by hand or by the tests, one after another or at once, and killed.
SPECIFICATION Spec
CONSTANTS
  code = code
  version = version
  members = members
  inventory = inventory
  Process = {p1, p2, p3}
  NoProcess = NoProcess
  Column = {code, version, members, inventory}
  PlainColumns <- CodeAndVersion
  PartyColumns <- Members
  PlayerColumns <- Inventory
  OldSchemas <- NoneOldOrNew
SYMMETRY AnyOrder
\* Processes run out.
CHECK_DEADLOCK FALSE
INVARIANTS ServedWithSchema PartiesSavedAfterClear LockTellsServing SetUpMeansServing
