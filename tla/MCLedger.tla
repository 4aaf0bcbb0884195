------------------------------ MODULE MCLedger ------------------------------
(***************************************************************************)
(* An instance for TLC of the ledger's records, and of the tree over its   *)
(* accounts: a behaviour is one of Ledger or one of AccountTree.           *)
(***************************************************************************)
EXTENDS Ledger, AccountTree, TLC

CONSTANTS auth, v, MaxFlushes, MaxTaken

VARIABLES
    part,     \* the module a behaviour follows
    flushed,  \* snapshots taken by flushes so far
    taken     \* snapshots and clones taken so far

MCIdentities == {auth, v}
MCGenesisStake == [a \in MCIdentities |-> IF a = v THEN 10 ELSE 0]
MCInitialBalances == {[a \in MCIdentities |-> IF a = auth THEN 14 ELSE 10]}

mcVars == <<lgVars, atVars, part, flushed, taken>>

MCInit ==
    /\ LGInit
    /\ AccountTreeInit /\ treeAccounts[auth] = 1 /\ treeAccounts[v] = NoAccount
    /\ part \in {"records", "tree"}
    /\ flushed = 0 /\ taken = 0

\* The ids of records are only names, so they are given out in the order in
\* which the records are applied; after the last one only evaluations go on.
Recorded ==
    /\ part = "records"
    /\ \/ applied # Records /\ LGNext /\ applied' = 1..Cardinality(applied')
       \/ /\ applied = Records
          /\ (evaluating = {} /\ LockedOps) \/ EvaluationStep
          /\ UNCHANGED <<stakingVars, dormancyVars, ownVars>>
    /\ UNCHANGED <<atVars, flushed, taken>>

\* The writers W that start in this step.
Starting(W) == {w \in W : job[w].pc = "idle" /\ job'[w].pc = "waiting"}

\* MaxTaken writers of the tree take their turns, MaxFlushes of them flushes.  A
\* checkpoint that no restart can follow is left out.
Treed ==
    /\ part = "tree"
    /\ AccountTreeNext
    /\ flushed' = flushed + Cardinality(Starting(Flushers))
    /\ taken' = taken + Cardinality(Starting(Writers))
    /\ flushed' <= MaxFlushes /\ taken' <= MaxTaken
    /\ faults = MaxFaults => saved' = saved
    /\ UNCHANGED lgVars

MCNext == (Recorded \/ Treed) /\ UNCHANGED part
MCSpec == MCInit /\ [][MCNext]_mcVars
=============================================================================
