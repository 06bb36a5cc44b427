-------------------------- MODULE MCTrendProvider --------------------------
(***************************************************************************)
(* Two threads and three stocks, so that one thread comes back while the    *)
(* other is still in its first call.                                        *)
(***************************************************************************)
EXTENDS TrendProvider, TLC

CONSTANTS t1, t2

ThreadSymmetry == Permutations({t1, t2})

=============================================================================
