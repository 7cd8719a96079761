\* A function that returns a struct that holds an Expected with a value.
CONSTANTS
  Frames = {f1, f2, f3, f4}
  Null = Null
  FetchPolicy = "tailLast"
  Types <- MCTypes
  Values <- MCValues
  Depth <- MCDepth
  Calls <- ExpectedCalls
  ClientPort = 80
  ServerPort = 81
  CoroId = 6
  Chars <- MCChars
  Loggable <- MCLoggable
  Nesting <- MCNesting
  Statements <- MCStatements
SPECIFICATION AllSpec
CHECK_DEADLOCK FALSE
INVARIANT SizesAgree
