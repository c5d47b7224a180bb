------------------------------ MODULE LazyBody ------------------------------
(***************************************************************************)
(* What a request handle promises about the body of its request, whatever  *)
(* the order of the calls that make it read: nothing is parsed before      *)
(* somebody asks, the table only grows while the status is APR_INCOMPLETE, *)
(* and any other status is final, with the table it came with.             *)
(***************************************************************************)
EXTENDS Naturals, Sequences

CONSTANTS Refusals,   \* statuses of a body that is not parsed
          Verdicts    \* statuses that end the parsing

VARIABLES status, table

Init ==
  /\ status \in {"EINIT", "INCOMPLETE"} \cup Refusals
  /\ table = <<>>

Start ==
  /\ status = "EINIT"
  /\ status' \in {"INCOMPLETE"} \cup Refusals
  /\ table' = table

\* The first block may come with the start.
Parse ==
  /\ status \in {"EINIT", "INCOMPLETE"}
  /\ status' \in {"INCOMPLETE"} \cup Verdicts
  /\ Len(table) <= Len(table') /\ table = SubSeq(table', 1, Len(table))

Next == Start \/ Parse
Spec == Init /\ [][Next]_<<status, table>>
=============================================================================
