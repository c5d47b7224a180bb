--------------------------- MODULE MCPlainHandle ----------------------------
(* Model-checking instance of PlainHandle.                                 *)
EXTENDS PlainHandle

CONSTANTS a, b, h1

MCBlock(name, mixed, kind) == [name |-> name, mixed |-> mixed, kind |-> kind]
Data(name) == MCBlock(name, FALSE, "data")

\* Bodies that end, fail, are cut, or have a parameter in a mixed part.
MCBodies ==
  { <<Data(a), Data(None), Data(b)>>,
    <<Data(None), Data(None), Data(a), MCBlock(None, FALSE, "bad")>>,
    <<Data(a), MCBlock(None, FALSE, "open")>>,
    <<Data(b), Data(None), MCBlock(a, TRUE, "data"), Data(a), MCBlock(None, FALSE, "last")>> }

MCRequest(cl, ct, header) == [cl |-> cl, ct |-> ct, cookie |-> header, args |-> header]
MCRequests ==
  { MCRequest(None, "known", "good"), MCRequest(5, "known", "none"), MCRequest(Bad, "known", "bad"),
    MCRequest(2, "unknown", "good"), MCRequest(None, "none", "good") }
=============================================================================
