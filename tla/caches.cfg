SPECIFICATION Spec
CONSTANTS
  f1 = f1
  k1 = k1
  k2 = k2
  fun = fun
  k3 = k3
  code = code
  s1 = s1
  s2 = s2
  Null = Null
  Keys = {k1, k2, k3}
  Files = {f1}
  Directives <- Mixed
  Types = {"r-handler"}
  Scripts = {s1}
  BadTexts = {}
  Contents = {"good", "nofun", "fails", "syntax", "missing"}
  Monotone = TRUE
  MaxVersion = 2
  MaxObject = 6
INVARIANTS ExpressionOfKey FreshCode NothingDangling NothingLeaks
