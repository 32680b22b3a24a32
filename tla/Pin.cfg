SPECIFICATION Spec
CONSTANTS
  MasterKeys <- MoreMasterKeys
  UserKeys = {"user"}
  BadKey = BadKey
  NoKey = NoKey
  Orgs = {}
  NoOrg = NoOrg
  Folders = {}
  BadFolders = {}
  CipherIds = {"login", "note"}
  NoData = NoData
  Answers <- RotatedAnswers
  Garbage = Garbage
  Accounts = {"alice"}
  NoAccount = NoAccount
  Passwords <- ThreePasswords
  Kdfs = {"kdf"}
  BadKdfs = {}
  NoKdf = NoKdf
  NoMaster = NoMaster
  ServerKeys <- BothKeys
  Pins = {"1234", "0000"}
  NoPin = NoPin
  NoBlob = NoBlob
  AutoLocks = {1}
  Slots = {1}
  NoRequest = NoRequest
  Calls = {"unlock", "unlockWithPin", "enablePin", "disablePin", "syncNow", "lock", "restart"}
  Disks <- PinDisks
  DiskFaults = FALSE
INVARIANTS
  TypeOK
  PinWrapsServedKey
PROPERTIES
  PinCountHonest
  BusyEnds
