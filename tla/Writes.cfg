SPECIFICATION Spec
CONSTANTS
  NoBody = NoBody
  Items = {"one", "two"}
  NoItem = NoItem
  Listed = {"one"}
  Secrets = {Damaged}
  Texts = {"a"}
  Empty = Empty
  Damaged = Damaged
  Absent = Absent
  NoPage = NoPage
  Waiting = Waiting
  MaxCalls = 2
  MaxRev = 3
  MaxTokens = 2
INVARIANTS TypeOK AppliedAtMostOnce SavedIsStored
PROPERTIES SavedIsShown NoBlindOverwrite CallsEnd
CHECK_DEADLOCK FALSE
