--------------------------- MODULE MCPendingDrain ---------------------------
(***************************************************************************)
(* Instances of PendingDrain for TLC.                                      *)
(***************************************************************************)
EXTENDS PendingDrain, TLC

MCTimestamp == [r \in Records |-> r]
MCCreator == [r \in Records |-> 0]
MCNeeds == [r \in Records |-> IF r = 2 THEN {1} ELSE {}]
=============================================================================
