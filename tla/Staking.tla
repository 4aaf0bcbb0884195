------------------------------- MODULE Staking -------------------------------
(***************************************************************************)
(* Stakes: the arms Stake, Unstake and Slash of apply_op, the genesis      *)
(* validators carved out of the authority's balance, and the rebuild of    *)
(* the staker index on load.  A stake is booked five times (the entry, the *)
(* account's staked, total_staked, the index, the active count) and every  *)
(* arm updates all five.                                                   *)
(***************************************************************************)
EXTENDS Accounts

CONSTANTS
    MinStake,
    UnstakeCooldown,
    GenesisStake,         \* identity -> stake of a genesis validator, 0 for others
    MaxJury               \* bound: members of a slash jury

\* A genesis validator's stake has the id "genesis-stake:<identity>".
StakeIds == Records \cup Identities

ASSUME StakingConstants ==
    /\ Identities \cap Nat = {}
    /\ MinStake \in Nat \ {0} /\ UnstakeCooldown \in Nat /\ MaxJury \in Nat
    /\ GenesisStake \in [Identities -> Nat]

VARIABLES
    staked,               \* AccountState.staked
    stakes,               \* id -> StakeEntry
    stakerIndex,          \* identity -> ids of its active stakes
    activeStakesCount,
    totalStaked

stakingVars == <<staked, stakes, stakerIndex, activeStakesCount, totalStaked>>

NoStake == [active |-> FALSE, amount |-> 0]
StakeEntry ==
    [staker : Identities, amount : Nat, at : Times \cup {0}, active : BOOLEAN]

Active(s) == stakes[s].active

\* Types: no balance underflows.
StakingTypeOK ==
    /\ AccountsTypeOK
    /\ staked \in [Identities -> Nat]
    /\ stakes \in [StakeIds -> StakeEntry \cup {NoStake}]
    /\ stakerIndex \in [Identities -> SUBSET StakeIds]
    /\ activeStakesCount \in Nat
    /\ totalStaked \in Nat

StakingInit ==
    /\ staked = [a \in Identities |-> 0]
    /\ stakes = [s \in StakeIds |-> NoStake]
    /\ stakerIndex = [a \in Identities |-> {}]
    /\ activeStakesCount = 0
    /\ totalStaked = 0
-----------------------------------------------------------------------------
\* What Stake and apply_genesis_validators record for a new stake.
AddStake(s, a, amount, ts) ==
    /\ staked' = [staked EXCEPT ![a] = @ + amount]
    /\ stakes' = [stakes EXCEPT ![s] =
          [staker |-> a, amount |-> amount, at |-> ts, active |-> TRUE]]
    /\ stakerIndex' = [stakerIndex EXCEPT ![a] = @ \cup {s}]
    /\ activeStakesCount' = activeStakesCount + 1
    /\ totalStaked' = totalStaked + amount

Stake(r, a, amount, ts) ==
    /\ Apply(r, ts)
    /\ amount >= MinStake
    /\ amount <= available[a]
    /\ Debit(a, amount)
    /\ Touch({a}, ts)
    /\ AddStake(r, a, amount, ts)
    /\ UNCHANGED <<totalSupply, conservationPool>>

\* A stake that was paid out is inactive.
Returnable(s) == Active(s)

Unstake(r, a, s, ts) ==
    /\ Apply(r, ts)
    /\ Returnable(s)
    /\ stakes[s].staker = a
    /\ ts - stakes[s].at >= UnstakeCooldown
    /\ Credit(a, stakes[s].amount)
    /\ Touch({a}, ts)
    /\ staked' = [staked EXCEPT ![a] = @ - stakes[s].amount]
    /\ stakes' = [stakes EXCEPT ![s].active = FALSE]
    /\ stakerIndex' = [stakerIndex EXCEPT ![a] = @ \ {s}]
    /\ activeStakesCount' = SatSub(activeStakesCount, 1)
    /\ totalStaked' = totalStaked - stakes[s].amount
    /\ UNCHANGED <<totalSupply, conservationPool>>
-----------------------------------------------------------------------------
\* The split of a slash: at most half the stake; half of it to the pool, three
\* tenths to the challenger, the remainder to the jury.
ActualSlash(amount, stake) == Least(amount, stake \div 2)
PoolShare(n) == n \div 2
ChallengerShare(n) == (3 * n) \div 10
JuryShare(n) == n - PoolShare(n) - ChallengerShare(n)

\* What the i-th of size jurors gets of share: the first ones absorb the dust
\* of the division.  The mutant drops it.
MutantJurorAmount(share, size, i) == share \div size
JurorAmount(share, size, i) ==
    share \div size + (IF i <= share % size THEN 1 ELSE 0)

\* What every identity gets of share, when the jury names it once or often.
JuryCredits(share, jury) ==
    [a \in Identities |->
        Total([i \in {j \in DOMAIN jury : jury[j] = a} |->
                  JurorAmount(share, Cardinality(DOMAIN jury), i)])]

\* The half for the pool, and the share of an empty jury.
PoolCredit(n, jury) ==
    PoolShare(n) + (IF DOMAIN jury = {} THEN JuryShare(n) ELSE 0)

Slash(r, offender, s, amount, challenger, jury, ts) ==
    LET n == ActualSlash(amount, stakes[s].amount)
        pooled == Funded(PoolCredit(n, jury))
        toChallenger == ChallengerShare(n) + (PoolCredit(n, jury) - pooled)
        credits == JuryCredits(JuryShare(n), jury)
    IN /\ Apply(r, ts)
       /\ Active(s)
       /\ stakes[s].staker = offender
       /\ n > 0
       /\ staked' = [staked EXCEPT ![offender] = @ - n]
       /\ stakes' = [stakes EXCEPT ![s].amount = @ - n, ![s].active = stakes[s].amount > n]
       /\ stakerIndex' = [stakerIndex EXCEPT ![offender] =
             IF stakes[s].amount > n THEN @ ELSE @ \ {s}]
       /\ activeStakesCount' =
             IF stakes[s].amount > n THEN activeStakesCount ELSE SatSub(activeStakesCount, 1)
       /\ totalStaked' = totalStaked - n
       /\ available' = [a \in Identities |->
             available[a] + credits[a] + (IF a = challenger THEN toChallenger ELSE 0)]
       /\ conservationPool' = conservationPool + pooled
       /\ Touch({offender, challenger} \cup {jury[i] : i \in DOMAIN jury}, ts)
       /\ UNCHANGED totalSupply

\* One round of the loop of apply_genesis_validators, which runs after every
\* replay: the carve is skipped when it was made before or the authority
\* cannot pay.  The mutant forgets the first check.
MutantCarvable(a) == GenesisStake[a] > 0
Carvable(a) == GenesisStake[a] > 0 /\ stakes[a] = NoStake

ApplyGenesisValidator(a) ==
    /\ Carvable(a)
    /\ GenesisStake[a] <= available[Authority]
    /\ Debit(Authority, GenesisStake[a])
    /\ AddStake(a, a, GenesisStake[a], 0)
    /\ UNCHANGED <<lastActive, totalSupply, conservationPool, applied,
                   lastAppliedTs>>

\* rebuild_staker_index, on every load: index and count are not serialized.
RebuildStakerIndex ==
    /\ stakerIndex' = [a \in Identities |->
          {s \in StakeIds : Active(s) /\ stakes[s].staker = a}]
    /\ activeStakesCount' = Cardinality({s \in StakeIds : Active(s)})
    /\ UNCHANGED <<accountVars, staked, stakes, totalStaked>>

StakingOps ==
    \/ \E r \in Records, a \in Identities, ts \in Times :
          \/ \E amount \in Amounts : Stake(r, a, amount, ts)
          \/ \E s \in StakeIds : Unstake(r, a, s, ts)
    \/ \E r \in Records, s \in StakeIds, offender, challenger \in Identities,
          amount \in Amounts, ts \in Times :
          \E size \in 0..MaxJury : \E jury \in [1..size -> Identities] :
              Slash(r, offender, s, amount, challenger, jury, ts)
    \/ \E a \in Identities : ApplyGenesisValidator(a)
    \/ RebuildStakerIndex

STInit == AccountsInit /\ StakingInit
STNext ==
    \/ StakingOps
    \/ AccountOps(Times) /\ UNCHANGED stakingVars
STSpec == STInit /\ [][STNext]_<<accountVars, stakingVars>>
-----------------------------------------------------------------------------
\* What the active stakes of an identity add up to.
StakeOf(a) ==
    Total([s \in {x \in StakeIds : Active(x) /\ stakes[x].staker = a} |-> stakes[s].amount])

\* The five books of a stake agree after every arm of apply_op: an account's
\* staked is the sum of its active entries, total_staked the sum over the
\* accounts, and the index and the count are those of the active entries.
StakeBooks ==
    /\ \A a \in Identities : staked[a] = StakeOf(a)
    /\ totalStaked = Total(staked)
    /\ \A a \in Identities :
          stakerIndex[a] = {s \in StakeIds : Active(s) /\ stakes[s].staker = a}
    /\ activeStakesCount = Cardinality({s \in StakeIds : Active(s)})

\* Staking moves beat between an account's available and its staked, and a
\* slash splits what it takes without losing or inventing the dust of its
\* three divisions.
StakingConservation ==
    Total(available) + Total(staked) + conservationPool = totalSupply

SlashUnderCapStep ==
    totalStaked' < totalStaked => conservationPool' <= Greatest(conservationPool, PoolCap)

\* The half of a slash that goes to the pool stops at the pool's cap, also when
\* an empty jury's share joins it.
SlashUnderCap == [][SlashUnderCapStep]_<<accountVars, stakingVars>>
=============================================================================
