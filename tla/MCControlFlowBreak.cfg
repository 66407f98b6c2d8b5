SPECIFICATION Spec
CONSTANTS
  Programs <- ForBreak
  Codes <- ForBreakCodes
  Texts <- ForBreakTexts
  Classes = {"A", "B", "C"}
  Values = {0, 2}
  MayThrow = {"t"}
  Locals = {"e", "x"}
  MaxCalls = 4
INVARIANT NothingLeftAtReturn
CHECK_DEADLOCK FALSE
