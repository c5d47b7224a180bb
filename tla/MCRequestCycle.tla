--------------------------- MODULE MCRequestCycle ---------------------------
(* Model-checking instances of RequestCycle.                               *)
EXTENDS RequestCycle, TLC

CONSTANTS t1, t2, home, scripts

OneThread  == {t1}
TwoThreads == {t1, t2}
OneDir  == {home}
TwoDirs == {home, scripts}
OneCode == {404}
NoCode  == {}
Nowhere  == {}
Anywhere == {"r-info", "nested"}
=============================================================================
