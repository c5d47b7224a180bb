SPECIFICATION Spec
CONSTANTS
  MaxBody = 5
  Huge = 2
  FirstSize = 2
  Lengths <- AllLengths
  Methods = {"POST", "GET"}
  Outside = TRUE
  Null = Null
INVARIANTS OneReader InOrder InBuffer ReceivesAll PostComplete
PROPERTY CallsReturn
