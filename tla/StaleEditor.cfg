SPECIFICATION Spec
CONSTANTS
  NoBody = NoBody
  Items = {"one", "two"}
  NoItem = NoItem
  Listed = {"one"}
  Secrets = {"a"}
  Texts = {"a", "b"}
  Empty = Empty
  Damaged = Damaged
  Absent = Absent
  NoPage = NoPage
  Waiting = Waiting
  MaxCalls = 2
  MaxRev = 3
  MaxTokens = 2
PROPERTIES UntouchedKept
CHECK_DEADLOCK FALSE
