--------------------------- MODULE MCRequestBody ----------------------------
(* Model-checking instances of RequestBody.                                *)
EXTENDS RequestBody

AllLengths == {-1, 0, 1, 3}
=============================================================================
