------------------------ MODULE MCOnDemandResearch ------------------------
(***************************************************************************)
(* Two page requests at a time, and the command beside them; enough calls   *)
(* for a failure, a confirmed retry and a third look.                       *)
(***************************************************************************)
EXTENDS OnDemandResearch, TLC

CONSTANTS q1, q2, k1

Events == [k \in Kinds |-> CASE k = "request" -> 4
                             [] k = "command" -> 1
                             [] OTHER -> 1]

ReaderSymmetry == Permutations({q1, q2})

=============================================================================
