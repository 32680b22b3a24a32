SPECIFICATION Spec
CONSTANTS
  MasterKeys <- MCMasterKeys
  UserKeys = {"user"}
  BadKey = BadKey
  NoKey = NoKey
  Orgs = {}
  NoOrg = NoOrg
  Folders = {}
  BadFolders = {}
  CipherIds = {"login", "note"}
  NoData = NoData
  Answers <- AllAnswers
  Garbage = Garbage
  Accounts = {"alice"}
  NoAccount = NoAccount
  Passwords = {"old", "new"}
  Kdfs = {"kdf"}
  BadKdfs = {}
  NoKdf = NoKdf
  NoMaster = NoMaster
  ServerKeys <- BothKeys
  Pins = {"1234"}
  NoPin = NoPin
  NoBlob = NoBlob
  AutoLocks = {0, 1}
  Slots = {1, 2}
  NoRequest = NoRequest
  Calls = {"unlock", "syncNow", "write", "lock", "signOut", "settings", "minimize", "restart"}
  Disks <- SignedInDisks
  DiskFaults = TRUE
INVARIANTS
  UnlockedMeansOpen
  ListMatchesVault
  PageHasVault
PROPERTIES
  KeepsContract
