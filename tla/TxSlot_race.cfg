SPECIFICATION Spec
CONSTANTS
  Source = {"a"}
  Still = {"black", "bars"}
  Moving = {"field_test"}
  Push <- MCPush
  MaxRequests = 3
INVARIANT
  WiredIsRead
