---------------------------- MODULE MCTrendScan ----------------------------
(***************************************************************************)
(* The worker and one operator, one day, two stocks of which one may fail,  *)
(* an index of one run beside the latest, every fault once.                 *)
(***************************************************************************)
EXTENDS TrendScan

CONSTANTS w1, op1

Events == [k \in Kinds |-> 1]

=============================================================================
