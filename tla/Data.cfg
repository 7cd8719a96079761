\* One queue under all its operations, one call, one log statement after another.
CONSTANTS
  Frames = {f1, f2, f3, f4}
  Null = Null
  FetchPolicy = "tailLast"
  Types <- MCTypes
  Values <- MCValues
  Depth <- MCDepth
  Calls <- MCCalls
  ClientPort = 80
  ServerPort = 81
  CoroId = 6
  Chars <- MCChars
  Loggable <- MCLoggable
  Nesting <- MCNesting
  Statements <- MCStatements
SPECIFICATION AllSpec
INVARIANTS TypeOK WellLinked WireTypeOK RoundTrip SizesAgree WholeMessage RequestIntact ResultIntact ViewsShowArguments
PROPERTY RefinesFifo
CHECK_DEADLOCK FALSE
