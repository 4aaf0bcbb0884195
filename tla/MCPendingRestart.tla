-------------------------- MODULE MCPendingRestart --------------------------
(***************************************************************************)
(* Instances of PendingRestart for TLC.                                    *)
(***************************************************************************)
EXTENDS PendingRestart

MCTimestamp == [r \in Records |-> r]
MCCreator == [r \in Records |-> 0]
MCNeeds == [r \in Records |-> IF r = 1 THEN {2} ELSE {}]

\* Two records see one restart; the second alone sees two, sweeps and prunes too.
MCNext ==
    /\ RestartNext
    /\ 1 \in stored' => sweeping' = {} /\ restarts' <= 1 /\ prunes' = 0

MCSpec == RestartInit /\ [][MCNext]_prVars /\ RestartFairness
=============================================================================
