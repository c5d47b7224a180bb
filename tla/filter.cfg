SPECIFICATION Spec
CONSTANTS
  a = a
  b = b
  h1 = h1
  None = None
  find_param = find_param
  Bad = Bad
  Other = Other
  Names = {a, b}
  Hooks = {h1}
  Bodies <- MCBodies
  Requests <- MCRequests
  ReadBlock = 2
  NoLimit = 9
  Limits = {1}
  MaxFilters = 3
  MaxRedirects = 1
  MaxSettings = 1
INVARIANTS DownstreamExact ParserContiguous
PROPERTIES ReadLimitKept KeepsPromise
CHECK_DEADLOCK FALSE
