SPECIFICATION Spec
CONSTANTS
  f1 = f1
  k1 = k1
  k2 = k2
  fun = fun
  k3 = k3
  code = code
  s1 = s1
  s2 = s2
  Null = Null
  Keys = {k2}
  Files = {f1}
  Directives <- OneFileFunction
  Types = {"r-script"}
  Scripts = {s1, s2}
  BadTexts = {s2}
  Contents = {"good", "nofun", "fails", "syntax", "missing"}
  Monotone = TRUE
  MaxVersion = 3
  MaxObject = 6
INVARIANT OwnScript
