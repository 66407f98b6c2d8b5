SPECIFICATION Spec
CONSTANTS
  Programs <- MCPrograms
  Codes <- MCCodes
  Certificate <- MCCertificate
  Texts <- MCTexts
  Classes = {"A", "B", "C"}
  Values = {0, 2}
  MayThrow = {"t"}
  Locals = {"e", "x", "y"}
  MaxCalls = 4
INVARIANTS TypeOK NoInternalError HeightByAddress Agrees
PROPERTY Terminates
CHECK_DEADLOCK FALSE
