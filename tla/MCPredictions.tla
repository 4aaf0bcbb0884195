--------------------------- MODULE MCPredictions ---------------------------
(***************************************************************************)
(* Instances of Predictions for TLC.                                       *)
(***************************************************************************)
EXTENDS Predictions, TLC

CONSTANTS auth, p1

MCIdentities == {auth, p1}
MCInitialBalances == {[a \in MCIdentities |-> IF a = auth THEN 5 ELSE 20]}
=============================================================================
