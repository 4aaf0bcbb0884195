---------------------------- MODULE MCAccounting ----------------------------
(***************************************************************************)
(* An instance of the ledger for TLC that goes deep into one family of     *)
(* operations at a time: a behaviour draws on the shared operations and on *)
(* those of Staking, of Predictions or of Dormancy, or it is one of        *)
(* Governance or of FinalityEffects.  MCLedger mixes the operations of the *)
(* first three.                                                            *)
(***************************************************************************)
EXTENDS Ledger, Governance, FinalityEffects, TLC

CONSTANTS auth, v

VARIABLE family   \* the operations a behaviour draws on

MCIdentities == {auth, v}
MCGenesisStake == [a \in MCIdentities |-> IF a = v THEN 11 ELSE 0]
MCRich == [a \in MCIdentities |-> IF a = auth THEN 15 ELSE 10]
MCPoor == [a \in MCIdentities |-> IF a = auth THEN 5 ELSE 20]
MCInitialBalances == {MCRich, MCPoor}

\* A proposal to change a parameter, and one for an upgrade with a committee.
MCCategory == [p \in Proposals |-> IF p = 1 THEN "parameter" ELSE "protocol_upgrade"]
MCCommittee == [p \in Proposals |-> IF p = 1 THEN NoCommittee ELSE {v}]
MCTransition == [soft_fork |-> 0, hard_fork |-> 3, emergency |-> 1]

acVars == <<lgVars, gvVars, feVars, family>>

ACInit ==
    /\ LGInit
    /\ GovernanceInit /\ govStakes[v] = 1
    /\ EffectsInit
    /\ family \in {"staking", "predictions", "dormancy", "governance", "effects"}
    /\ family # "governance" => govStakes[auth] = 0
    /\ available = IF family = "predictions" THEN MCPoor ELSE MCRich

\* The ids of records are only names, so they are given out in the order in
\* which the records are applied.  Only dormancy looks at more than two times
\* and at a fourth record.
Folded ==
    /\ \/ /\ family = "staking"
          /\ 3 \notin applied
          /\ STNext
          /\ lastAppliedTs' <= 2
          /\ UNCHANGED <<predictionVars, dormancyVars>>
       \/ /\ family = "predictions"
          /\ PRNext
          /\ lastAppliedTs' <= 1 /\ 4 \notin applied'
          /\ UNCHANGED <<stakingVars, dormancyVars>>
       \/ /\ family = "dormancy"
          /\ applied # Records
          /\ DONext
          /\ UNCHANGED <<stakingVars, predictionVars>>
    /\ applied' = 1..Cardinality(applied')
    /\ UNCHANGED <<ownVars, gvVars, feVars>>

\* Each proposal has its proposer; stakes and delegations change while there is
\* one proposal and it is the first.
Governed ==
    /\ family = "governance"
    /\ GovernanceNext
    /\ \A p \in DOMAIN proposals' : proposals'[p].proposer = IF p = 1 THEN auth ELSE v
    /\ 2 \in DOMAIN proposals' => govStakes' = govStakes /\ delegate' = delegate
    /\ Cardinality(DOMAIN proposals') = 2 => delegations = 0
    /\ UNCHANGED <<lgVars, feVars>>

\* The second id is only ever inserted without a marker, to push the first out of the hot
\* set.  Only the second witness's attestation gets old, and it is not stored again.  The
\* workers are only names: the first one begins when it is idle.
Effected ==
    /\ family = "effects"
    /\ EffectsNext
    /\ attestors'[2] = {} /\ marker'[2] = "none" /\ 2 \notin spawned'
    /\ 2 \in Elems(hot') => 2 \in finalized'
    /\ reaped'[1] \subseteq {"w2"} /\ attestors'[1] \cap reaped'[1] = {}
    /\ work[2] = Idle /\ work'[2] # Idle => work[1] # Idle
    /\ UNCHANGED <<lgVars, gvVars>>

ACNext == (Folded \/ Governed \/ Effected) /\ UNCHANGED family

ACSpec == ACInit /\ [][ACNext]_acVars
=============================================================================
