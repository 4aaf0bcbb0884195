------------------------------ MODULE Accounts ------------------------------
(***************************************************************************)
(* Spendable balances, the Conservation Pool and the supply: the part of   *)
(* LedgerState every arm of apply_op shares, and the arms Mint, Transfer,  *)
(* Burn, PoolFund and WitnessReward.  Staking, Predictions and Dormancy    *)
(* extend this module and Ledger composes them.                            *)
(*                                                                         *)
(* Refusals that read per-identity history (the vesting schedule, the      *)
(* exchange classifier) are abstracted to "the operation may be refused":  *)
(* an action that can be taken need not be taken.                          *)
(***************************************************************************)
EXTENDS Units

CONSTANTS
    Identities,
    Authority,            \* the genesis authority
    Records,              \* ids of ledger records
    Amounts,              \* amounts that operations name
    Times,                \* timestamps that records carry
    MaxSupply,
    MaxWitnessReward,
    GenesisTransferCap,   \* MAX_SUPPLY / 100
    InitialBalances       \* balances that mints and transfers have led to

ASSUME AccountsConstants ==
    /\ IsFiniteSet(Identities) /\ Authority \in Identities
    /\ IsFiniteSet(Records) /\ Records \subseteq Nat
    /\ Amounts \subseteq Nat /\ Times \subseteq Nat
    /\ MaxSupply \in Nat /\ MaxWitnessReward \in Nat /\ GenesisTransferCap \in Nat
    /\ \A b \in InitialBalances : b \in [Identities -> Nat] /\ Total(b) <= MaxSupply

VARIABLES
    available,            \* AccountState.available
    lastActive,           \* AccountState.last_active
    totalSupply,
    conservationPool,
    applied,              \* applied_record_ids
    lastAppliedTs         \* last_applied_ts

accountVars == <<available, lastActive, totalSupply, conservationPool, applied,
                 lastAppliedTs>>

AccountsTypeOK ==
    /\ available \in [Identities -> Nat]
    /\ lastActive \in [Identities -> Times \cup {0}]
    /\ totalSupply \in 0..MaxSupply
    /\ conservationPool \in Nat
    /\ applied \subseteq Records
    /\ lastAppliedTs \in Times \cup {0}

AccountsInit ==
    /\ available \in InitialBalances
    /\ lastActive = [a \in Identities |-> 0]
    /\ totalSupply = Total(available)
    /\ conservationPool = 0
    /\ applied = {}
    /\ lastAppliedTs = 0
-----------------------------------------------------------------------------
\* pool_cap and pool_headroom: a tenth of the supply.
PoolCap == totalSupply \div 10
PoolHeadroom == SatSub(PoolCap, conservationPool)

\* The head and the tail of apply_op: a record is applied once.
Apply(r, ts) ==
    /\ r \in Records \ applied
    /\ applied' = applied \cup {r}
    /\ lastAppliedTs' = Greatest(ts, lastAppliedTs)

\* last_active is assigned, also when the record is older than the last one.
Touch(A, ts) == lastActive' = [a \in Identities |-> IF a \in A THEN ts ELSE lastActive[a]]

Credit(a, amount) == available' = [available EXCEPT ![a] = @ + amount]
Debit(a, amount) == available' = [available EXCEPT ![a] = @ - amount]

Mint(r, to, amount, ts) ==
    /\ Apply(r, ts)
    /\ totalSupply + amount <= MaxSupply
    /\ Credit(to, amount)
    /\ Touch({to}, ts)
    /\ totalSupply' = totalSupply + amount
    /\ UNCHANGED conservationPool

Transfer(r, from, to, amount, ts) ==
    /\ Apply(r, ts)
    /\ amount > 0 /\ from # to
    /\ amount <= available[from]
    /\ from = Authority /\ totalSupply >= MaxSupply => amount <= GenesisTransferCap
    /\ available' = [available EXCEPT ![from] = @ - amount, ![to] = @ + amount]
    /\ Touch({from, to}, ts)
    /\ UNCHANGED <<totalSupply, conservationPool>>

\* Burn moves beat to the pool and is not held to the cap.
Burn(r, amount, ts) ==
    /\ Apply(r, ts)
    /\ amount > 0
    /\ amount <= available[Authority]
    /\ Debit(Authority, amount)
    /\ Touch({Authority}, ts)
    /\ conservationPool' = conservationPool + amount
    /\ UNCHANGED totalSupply

\* The part of a contribution that fits under the cap; the rest goes back.
\* The mutant ignores the cap.
MutantFunded(amount) == amount
Funded(amount) == Least(amount, PoolHeadroom)

PoolFund(r, amount, ts) ==
    /\ Apply(r, ts)
    /\ amount > 0
    /\ amount <= available[Authority]
    /\ Debit(Authority, Funded(amount))
    /\ Touch({Authority}, ts)
    /\ conservationPool' = conservationPool + Funded(amount)
    /\ UNCHANGED totalSupply

\* The payer a reward names must be another identity; the pool pays.
WitnessReward(r, to, amount, ts) ==
    /\ Apply(r, ts)
    /\ 0 < amount /\ amount <= MaxWitnessReward
    /\ amount <= conservationPool
    /\ conservationPool' = conservationPool - amount
    /\ Credit(to, amount)
    /\ Touch({to}, ts)
    /\ UNCHANGED totalSupply

\* The operations, on records with timestamps in T.
AccountOps(T) ==
    \E r \in Records, amount \in Amounts, ts \in T :
        \/ \E to \in Identities : Mint(r, to, amount, ts)
        \/ \E from, to \in Identities : Transfer(r, from, to, amount, ts)
        \/ Burn(r, amount, ts)
        \/ PoolFund(r, amount, ts)
        \/ \E to \in Identities : WitnessReward(r, to, amount, ts)
=============================================================================
