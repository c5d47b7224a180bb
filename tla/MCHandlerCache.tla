--------------------------- MODULE MCHandlerCache ---------------------------
(* Model-checking instances of HandlerCache.                               *)
EXTENDS HandlerCache, TLC

CONSTANTS f1, k1, k2, k3, fun, code, s1, s2

REval(k, c) ==
  [key |-> k, file |-> Null, function |-> Null, evalcode |-> c, package |-> FALSE]
RHandler(k, f) ==
  [key |-> k, file |-> Null, function |-> f, evalcode |-> Null, package |-> FALSE]
RFileHandler(k, file, f) ==
  [key |-> k, file |-> file, function |-> f, evalcode |-> Null, package |-> FALSE]

\* RFileHandler f1, RFileHandler f1::fun, and RHandler code and REval code, which
\* have the same text.
Mixed == {RFileHandler(k1, f1, Null), RFileHandler(k2, f1, fun), RHandler(k3, code), REval(k3, code)}

\* RFileHandler f1::fun.
OneFileFunction == {RFileHandler(k2, f1, fun)}
=============================================================================
