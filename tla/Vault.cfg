SPECIFICATION Spec
CONSTANTS
  MasterKeys = {"m1", "m2"}
  UserKeys = {"u1", "u2"}
  BadKey = BadKey
  NoKey = NoKey
  Orgs = {"acme"}
  NoOrg = NoOrg
  Folders = {"home", "work"}
  BadFolders = {"work"}
  CipherIds <- MCCipherIds
  NoData = NoData
  Answers <- MCAnswers
  Garbage = Garbage
  Intervals = {0, 2}
INVARIANTS
  TypeOK
  LockedHoldsNothing
  KeyFitsData
  NothingPartial
  AutoLockArmed
PROPERTIES
  RotationLocks
  IdleVaultLocks
