SPECIFICATION StreamSpec
CONSTANTS
  ToolIndex <- MCToolIndex
  Block <- MCBlock
  MaxLines = 5
INVARIANTS
  StreamTypeOK
  MessageFramed
  BlocksNest
  ArgumentsFollowTheirTool
  ResponseCompletes
CHECK_DEADLOCK FALSE
