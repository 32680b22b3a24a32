SPECIFICATION Spec
CONSTANTS
  Texts = {"a", "b"}
  Foreign = {"x"}
  NoText = "none"
  Fields = {"password", "notes"}
INVARIANTS
  SignInPagesFit
  CoveredHoldsNothing
PROPERTIES
  LeavingClears
  OthersCopiesStay
  AnnouncedIsCleared
