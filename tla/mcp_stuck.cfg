CONSTANTS
  Threads = {p1, p2}
  MaxCallIds = 2
  MaxNotes = 0
SPECIFICATION McpSpec
PROPERTY CallsReturn
CHECK_DEADLOCK FALSE
