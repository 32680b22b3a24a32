SPECIFICATION FunctionsSpec
CONSTANTS
  Alphabet <- MCAlphabet
  Ambiguous <- MCAmbiguous
  Minimum <- MCMinimum
  Lengths = {4, 5}
  DefaultLength = 5
  MaxLength = 256
  Null = Null
  Refused = Refused
  NoDigit = NoDigit
  NoInt = NoInt
  NoNumber <- MCNoNumber
  NoText = ""
  UserKey = UserKey
  OrgKey = OrgKey
  ItemKey = ItemKey
  OrgKeys <- MCOrgKeys
  UIntSize = 1073741824
  MaxPbkdf2Iterations = 10000000
  MaxArgon2Iterations = 100
  MaxArgon2MemoryMiB = 1024
  MaxArgon2Parallelism = 16
  PinParams <- MCPinParams
  Word = 4096
  IntSize = 128
  Hmac <- Mac
  HttpText <- MCHttpText
  Inputs <- MCInputs
INVARIANTS PasswordFits RandomnessFair EncodingsExact CodesCountDown BodiesReadBack AnswersRead
CHECK_DEADLOCK FALSE
