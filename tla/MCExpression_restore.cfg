CONSTANTS
  Literals = {"2", "NaN"}
  Amount <- MCAmount
  Shown <- MCShown
  Variables = {"a"}
  Setting <- MCSetting
  Operators = {"-", "*"}
  MaxTokens = 7
  MaxHeight = 16
SPECIFICATION Spec
INVARIANTS AddedIsRestored
CHECK_DEADLOCK FALSE
