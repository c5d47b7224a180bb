SPECIFICATION FairSpec
CONSTANTS
  a = a
  b = b
  h1 = h1
  None = None
  find_param = find_param
  Names = {a, b}
  Hooks = {h1}
  Requests <- MCRequests
  Bad = Bad
  Bodies <- MCBodies
  ReadBlock = 2
  Width = 12
  Limits = {3}
  Dirs = {"tmp"}
  Garbage = {0, 9}
INVARIANTS HooksKept BodyGetExact WithinReadLimit
PROPERTIES KeepsPromise SettingsStick CallsReturn
