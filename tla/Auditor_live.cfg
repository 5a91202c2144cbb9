SPECIFICATION Spec
CONSTANTS
  Workers = {"w1", "w2"}
  ClaimsOf <- TwoClaims
  None = None
  Questions = 1
  FloorNum = 46
  FloorDen = 48
  Window = 2
  FailsToBan = 2
  MaxEvents = 2
CHECK_DEADLOCK FALSE
INVARIANTS AdmittedIsProven SomeoneIsLeft
PROPERTIES VerdictsConverge
