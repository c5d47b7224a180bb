SPECIFICATION Spec
CONSTANTS
  Configs <- MCConfigs
  Children = {k1, k2}
  Null = Null
  Defaults = {form, multipart}
  Extra = extra
  Bad = Bad
  MaxReadings = 4
  f1 = f1
  pkg = pkg
  c1 = c1
  c2 = c2
  c3 = c3
INVARIANTS
  StartupInOrder
  ParsersAgree
SYMMETRY Perms
CHECK_DEADLOCK FALSE
