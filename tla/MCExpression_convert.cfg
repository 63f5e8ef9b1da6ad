CONSTANTS
  Literals = {"2", "NaN", "0.125"}
  Amount <- MCAmount
  Shown <- MCShown
  Variables = {"a"}
  Setting <- MCSetting
  Operators = {"-", "*", ">"}
  MaxTokens = 7
  MaxHeight = 16
SPECIFICATION Spec
INVARIANTS RepresentsSource ParenthesesSuffice ExpansionKeepsValue
PROPERTIES ConvertersKeepValue
CHECK_DEADLOCK FALSE
