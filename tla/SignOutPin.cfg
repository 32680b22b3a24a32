SPECIFICATION Spec
CONSTANTS
  MasterKeys <- MCMasterKeys
  UserKeys = {"user"}
  BadKey = BadKey
  NoKey = NoKey
  Orgs = {}
  NoOrg = NoOrg
  Folders = {}
  BadFolders = {}
  CipherIds = {"login", "note"}
  NoData = NoData
  Answers <- SteadyAnswers
  Garbage = Garbage
  Accounts = {"alice"}
  NoAccount = NoAccount
  Passwords = {"old", "new"}
  Kdfs = {"kdf"}
  BadKdfs = {}
  NoKdf = NoKdf
  NoMaster = NoMaster
  ServerKeys <- OneKey
  Pins = {"1234", "0000"}
  NoPin = NoPin
  NoBlob = NoBlob
  AutoLocks = {1}
  Slots = {1}
  NoRequest = NoRequest
  Calls = {"unlock", "enablePin", "signOut", "minimize"}
  Disks <- SignedInDisks
  DiskFaults = FALSE
INVARIANTS
  SignOutDropsPin
