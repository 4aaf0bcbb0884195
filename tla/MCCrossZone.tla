---------------------------- MODULE MCCrossZone ----------------------------
(***************************************************************************)
(* An instance of CrossZone for TLC: a behaviour has two transfers, or one *)
(* that meets every committee and epoch.                                   *)
(***************************************************************************)
EXTENDS CrossZone

CONSTANTS a, b, t1, t2

VARIABLE many      \* whether there are two transfers

MCIdentities == {a, b}
MCTransfers == {t1, t2}

MCInit ==
    /\ XZInit /\ many \in BOOLEAN
    /\ available[a] \in IF many THEN {1, 3} ELSE {1}

\* The identities are only names: a sends the first transfer.  One of two transfers holds
\* one unit and the other two, their seals have a committee of one or no witnesses, and
\* they meet a boot once both are locked.
MCNext ==
    /\ XZNext
    /\ pending'[t1] # Absent => pending'[t1].amount = 1 /\ pending'[t1].sender = a
    /\ pending'[t2] # Absent => pending'[t2].amount = 2 /\ many
    /\ many => \A t \in Transfers : pending'[t] # Absent =>
                  /\ pending'[t].committee < 2
                  /\ pending'[t].anchor = pending'[t].committee
                  /\ pending'[t].epoch = pending'[t].committee
    /\ many /\ restarts' # restarts => With("Locked") = Transfers
    /\ UNCHANGED many

MCSpec == MCInit /\ [][MCNext]_<<xzVars, many>> /\ XZFairness
=============================================================================
