------------------------------ MODULE Dormancy ------------------------------
(***************************************************************************)
(* The dormancy lifecycle: DormancyState (src/accounting/dormancy.rs) and  *)
(* the arms DormancyDeclare, DormancyHeartbeat, DormancyProofOfLife and    *)
(* DormancyReclaim of apply_op.  The witnesses of a declaration are        *)
(* checked before a record reaches apply_op.                               *)
(***************************************************************************)
EXTENDS Accounts

CONSTANTS
    DormancyThreshold,    \* DORMANCY_THRESHOLD, 5 years
    WakeupWindow          \* DORMANCY_WAKEUP_WINDOW, 2 years

ASSUME DormancyConstants == DormancyThreshold \in Nat \ {0} /\ WakeupWindow \in Nat

VARIABLES
    phase,                \* DormancyState.phases
    deadline,             \* wakeup_deadline of the declaration, 0 without one
    reclaimed,            \* DormancyState.reclaimed, 0 for no entry
    wokenAt               \* history: when the identity last woke up

dormancyVars == <<phase, deadline, reclaimed, wokenAt>>
doVars == <<accountVars, dormancyVars>>

\* Types.
DormancyTypeOK ==
    /\ AccountsTypeOK
    /\ phase \in [Identities -> {"Active", "Dormant", "Reclaimed"}]
    /\ deadline \in [Identities -> Nat]
    /\ reclaimed \in [Identities -> Nat]
    /\ wokenAt \in [Identities -> Times \cup {0}]

DormancyInit ==
    /\ phase = [a \in Identities |-> "Active"]
    /\ deadline = [a \in Identities |-> 0]
    /\ reclaimed = [a \in Identities |-> 0]
    /\ wokenAt = [a \in Identities |-> 0]
-----------------------------------------------------------------------------
DormancyDeclare(r, target, ts) ==
    /\ Apply(r, ts)
    /\ phase[target] = "Active"
    /\ ts - lastActive[target] >= DormancyThreshold
    /\ phase' = [phase EXCEPT ![target] = "Dormant"]
    /\ deadline' = [deadline EXCEPT ![target] = ts + WakeupWindow]
    /\ UNCHANGED <<available, lastActive, totalSupply, conservationPool, reclaimed, wokenAt>>

\* wake_up that resets last_active and keeps the declaration.
MutantWakeUp(a, ts) ==
    /\ phase[a] = "Dormant"
    /\ ts <= deadline[a]
    /\ wokenAt' = [wokenAt EXCEPT ![a] = ts]
    /\ Touch({a}, ts)
    /\ UNCHANGED <<available, totalSupply, conservationPool, phase, deadline, reclaimed>>

\* wake_up, from a heartbeat of the identity or a relayed proof of life.
WakeUp(a, ts) ==
    /\ phase[a] = "Dormant"
    /\ ts <= deadline[a]
    /\ phase' = [phase EXCEPT ![a] = "Active"]
    /\ deadline' = [deadline EXCEPT ![a] = 0]
    /\ wokenAt' = [wokenAt EXCEPT ![a] = ts]
    /\ Touch({a}, ts)
    /\ UNCHANGED <<available, totalSupply, conservationPool, reclaimed>>

DormancyHeartbeat(r, creator, ts) == Apply(r, ts) /\ WakeUp(creator, ts)

DormancyProofOfLife(r, target, ts) == Apply(r, ts) /\ WakeUp(target, ts)

\* The part of the amount named that the account can pay.
Reclaimable(a, amount) == Least(amount, available[a])

\* What fits under the cap of the pool leaves the account.  The mutant lets the
\* rest leave it too.
MutantMoved(amount) == amount
Moved(amount) == Funded(amount)

\* eligible_for_reclamation
EligibleForReclamation(a, ts) == phase[a] = "Dormant" /\ ts > deadline[a]

DormancyReclaim(r, a, amount, ts) ==
    LET actual == Reclaimable(a, amount)
    IN /\ Apply(r, ts)
       /\ ts - lastActive[a] >= DormancyThreshold
       /\ EligibleForReclamation(a, ts)
       /\ actual > 0
       /\ Debit(a, Moved(actual))
       /\ conservationPool' = conservationPool + Funded(actual)
       /\ phase' = [phase EXCEPT ![a] = "Reclaimed"]
       /\ reclaimed' = [reclaimed EXCEPT ![a] = actual]
       /\ deadline' = [deadline EXCEPT ![a] = 0]
       /\ UNCHANGED <<lastActive, totalSupply, wokenAt>>

DormancyOps(T) ==
    \E r \in Records, a \in Identities, ts \in T :
        \/ DormancyDeclare(r, a, ts)
        \/ DormancyHeartbeat(r, a, ts)
        \/ DormancyProofOfLife(r, a, ts)
        \/ \E amount \in Amounts : DormancyReclaim(r, a, amount, ts)

\* A replay applies the records in the order of their timestamps.  Live commits come in the
\* order of finality; Ledger has those.
InOrder == {ts \in Times : ts >= lastAppliedTs}

DOInit == AccountsInit /\ DormancyInit
DONext ==
    \/ DormancyOps(InOrder)
    \/ AccountOps(InOrder) /\ UNCHANGED dormancyVars
DOSpec == DOInit /\ [][DONext]_doVars
-----------------------------------------------------------------------------
Reclaims(a) == phase[a] # "Reclaimed" /\ phase'[a] = "Reclaimed"

\* A reclaim moves beat to the pool and destroys none, whatever the cap lets in.
DormancyConservation == Total(available) + conservationPool = totalSupply

NoticeStep ==
    \A a \in Identities : Reclaims(a) /\ wokenAt[a] > 0 =>
        lastAppliedTs' > wokenAt[a] + DormancyThreshold + WakeupWindow

\* An identity that woke up starts anew: it cannot be reclaimed before another
\* dormancy threshold and another wake-up window have passed since, whatever
\* was declared before.  So it is in the order of a replay; out of order a late record can
\* lower last_active.
WakingRestartsTheClock == [][NoticeStep]_doVars
=============================================================================
