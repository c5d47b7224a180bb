--------------------------- MODULE MCApacheFilter ---------------------------
(* Model-checking instance of ApacheFilter.                                *)
EXTENDS ApacheFilter

CONSTANTS a, b, h1

MCBlock(name, kind) == [name |-> name, mixed |-> FALSE, kind |-> kind]
MCBodies == { <<MCBlock(a, "data"), MCBlock(b, "last")>> }

MCRequest(method, cl, ct, limit) == [method |-> method, cl |-> cl, ct |-> ct, limit |-> limit]
(* A redirect leads to a place with a lower ReadLimit, also as a GET.      *)
MCRequests ==
  { MCRequest("POST", None, "known", NoLimit), MCRequest("GET", None, "known", 1) }
=============================================================================
