------------------------------- MODULE Ledger -------------------------------
(***************************************************************************)
(* The ledger as a whole: every arm of apply_op and the two steps that     *)
(* change balances outside it, over one set of accounts.  Cross-zone       *)
(* transfers appear as the abstract escrow that CrossZone implements; this *)
(* module adds the witness bonds and the frozen idle-decay batches.        *)
(***************************************************************************)
EXTENDS Staking, Predictions, Dormancy

CONSTANTS
    WitnessBondMin,       \* WITNESS_BOND_MIN
    MaxDecay              \* bound: units an idle-decay batch moves per account

ASSUME LedgerConstants == WitnessBondMin \in Nat /\ MaxDecay \in Nat

VARIABLES
    bonded,               \* AccountState.witness_bonded
    deposit,              \* what the pending cross-zone transfers hold
    locks,                \* ids of the lock records
    pendingXzoneLocked    \* pending_xzone_locked

ownVars == <<bonded, deposit, locks, pendingXzoneLocked>>
lgVars == <<accountVars, stakingVars, predictionVars, dormancyVars, ownVars>>

X == INSTANCE Escrow WITH Transfers <- Records, Supply <- MaxSupply,
                          balance <- available, used <- locks

\* Types: no balance, stake, bond or pool underflows.
LedgerTypeOK ==
    /\ StakingTypeOK /\ PredictionsTypeOK /\ DormancyTypeOK
    /\ bonded \in [Identities -> Nat]
    /\ deposit \in [Records -> X!Deposits \cup {X!NoDeposit}]
    /\ locks \subseteq Records
    /\ pendingXzoneLocked \in Nat

LGInit ==
    /\ AccountsInit /\ StakingInit /\ PredictionsInit /\ DormancyInit
    /\ bonded = [a \in Identities |-> 0]
    /\ deposit = [t \in Records |-> X!NoDeposit]
    /\ locks = {}
    /\ pendingXzoneLocked = 0
-----------------------------------------------------------------------------
\* The bond stays bonded: no operation returns it.
WitnessRegister(r, a, bond, ts) ==
    /\ Apply(r, ts)
    /\ bond >= WitnessBondMin
    /\ bond <= available[a]
    /\ Debit(a, bond)
    /\ bonded' = [bonded EXCEPT ![a] = @ + bond]
    /\ Touch({a}, ts)
    /\ UNCHANGED <<totalSupply, conservationPool, deposit, locks, pendingXzoneLocked>>

\* apply_idle_decay_batch on a frozen batch: refused as a whole when it is not
\* conserved or an account can no longer pay its debit.  The mutant checks only
\* the first.
MutantPayable(debits) == TRUE
Payable(debits) == \A a \in Identities : debits[a] <= available[a]

IdleDecay(r, debits, credits, poolCredit, ts) ==
    /\ Apply(r, ts)
    /\ Total(debits) = poolCredit + Total(credits)
    /\ Payable(debits)
    /\ available' = [a \in Identities |-> available[a] - debits[a] + credits[a]]
    /\ conservationPool' = conservationPool + poolCredit
    /\ UNCHANGED <<lastActive, totalSupply>>
    /\ UNCHANGED ownVars

XZoneLock(r, from, to, amount, ts) ==
    /\ Apply(r, ts)
    /\ X!Deposit(r, from, to, amount)
    /\ pendingXzoneLocked' = pendingXzoneLocked + amount
    /\ Touch({from}, ts)
    /\ UNCHANGED <<totalSupply, conservationPool, bonded>>

XZoneClaim(r, t, ts) ==
    /\ Apply(r, ts)
    /\ X!Pay(t)
    /\ pendingXzoneLocked' = SatSub(pendingXzoneLocked, deposit[t].amount)
    /\ Touch({deposit[t].to}, ts)
    /\ UNCHANGED <<totalSupply, conservationPool, bonded>>

\* XZoneCancel, XZoneReject and XZoneAbort return one deposit, the two batches
\* any number; creator is the account of a third party that the arm touches.
XZoneReturn(r, T, creator, ts) ==
    /\ Apply(r, ts)
    /\ X!Return(T)
    /\ pendingXzoneLocked' = SatSub(pendingXzoneLocked, X!DepositSum(T))
    /\ Touch({deposit[t].from : t \in T} \cup creator, ts)
    /\ UNCHANGED <<totalSupply, conservationPool, bonded>>

OwnOps ==
    \/ \E r \in Records, a \in Identities, bond \in Amounts, ts \in Times :
          WitnessRegister(r, a, bond, ts)
    \/ \E r \in Records, debits, credits \in [Identities -> 0..MaxDecay],
         poolCredit \in 0..(MaxDecay * Cardinality(Identities)), ts \in Times :
          IdleDecay(r, debits, credits, poolCredit, ts)
    \/ \E r \in Records, from, to \in Identities, amount \in Amounts, ts \in Times :
          XZoneLock(r, from, to, amount, ts)
    \/ \E r, t \in Records, ts \in Times : XZoneClaim(r, t, ts)
    \/ \E r \in Records, T \in SUBSET Records, creator \in {{}} \cup {{a} : a \in Identities},
         ts \in Times : XZoneReturn(r, T, creator, ts)

\* An evaluation holds the lock; otherwise one operation after the other.
LGNext ==
    \/ /\ evaluating = {}
       /\ \/ /\ AccountOps(Times)
             /\ UNCHANGED <<stakingVars, predictionVars, dormancyVars, ownVars>>
          \/ /\ StakingOps
             /\ UNCHANGED <<predictionVars, dormancyVars, ownVars>>
          \/ /\ LockedOps
             /\ UNCHANGED <<stakingVars, dormancyVars, ownVars>>
          \/ /\ DormancyOps(Times)
             /\ UNCHANGED <<stakingVars, predictionVars, ownVars>>
          \/ /\ OwnOps
             /\ UNCHANGED <<stakingVars, predictionVars, dormancyVars>>
    \/ /\ EvaluationStep
       /\ UNCHANGED <<stakingVars, dormancyVars, ownVars>>

LGSpec == LGInit /\ [][LGNext]_lgVars
-----------------------------------------------------------------------------
\* Supply is conserved: what the accounts can spend, have staked and have
\* bonded, what predictions and cross-zone transfers hold and what the pool
\* holds add up to total_supply, in every order of every operation.
LedgerConservation ==
    Total(available) + Total(staked) + Total(bonded) + Total(PredictionStakes)
        + pendingXzoneLocked + conservationPool = totalSupply

\* The tracker of the escrow is the sum of what the transfers hold, so that no
\* saturating subtraction on it ever saturates.
EscrowTracked == pendingXzoneLocked = Total([t \in Records |-> deposit[t].amount])
=============================================================================
