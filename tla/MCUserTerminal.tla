--------------------------- MODULE MCUserTerminal ---------------------------
(* Two sessions of one user: two browser tabs, racing with each other and  *)
(* with the reconciler.                                                    *)
EXTENDS UserTerminal, TLC

SessionSymmetry == Permutations(Session)
=============================================================================
