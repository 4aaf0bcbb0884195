--------------------------- MODULE StakingProofs ---------------------------
(***************************************************************************)
(* Proofs about Accounts and Staking for every set of identities and       *)
(* records and every amount.                                               *)
(*                                                                         *)
(* Every operation gets one lemma that says where the beat it moves comes  *)
(* from and goes to; the theorems add them up.                             *)
(***************************************************************************)
EXTENDS Staking, UnitsTheorems

-----------------------------------------------------------------------------
\* A map of balances with n more units for a.
LEMMA TotalAdd ==
    ASSUME NEW f \in [Identities -> Nat], NEW g \in [Identities -> Nat],
           NEW a \in Identities, NEW n \in Nat,
           g[a] = f[a] + n, \A x \in Identities : x # a => g[x] = f[x]
    PROVE  Total(f) \in Nat /\ Total(g) = Total(f) + n
<1>1. IsFiniteSet(Identities) /\ f[a] \in Nat
  BY AccountsConstants
<1>2. Total(g) = Total(f) - f[a] + g[a]
  BY <1>1, TotalPut
<1>3. Total(f) \in Nat
  BY <1>1, UnitsFinite
<1> QED BY <1>1, <1>2, <1>3

\* Crediting an account.
LEMMA CreditTotal ==
    ASSUME available \in [Identities -> Nat], NEW a \in Identities, NEW n \in Nat, Credit(a, n)
    PROVE  /\ available' \in [Identities -> Nat]
           /\ Total(available) \in Nat /\ Total(available') = Total(available) + n
<1>1. /\ available' \in [Identities -> Nat] /\ available'[a] = available[a] + n
      /\ \A x \in Identities : x # a => available'[x] = available[x]
      /\ available \in [Identities -> Nat] /\ a \in Identities /\ n \in Nat
  BY DEF Credit
<1> QED BY ONLY <1>1, TotalAdd

\* A map of balances with n units taken from a, who has them.
LEMMA TotalTake ==
    ASSUME NEW f \in [Identities -> Nat], NEW g, NEW a \in Identities, NEW n \in Nat,
           n <= f[a], g = [f EXCEPT ![a] = @ - n]
    PROVE  /\ g \in [Identities -> Nat]
           /\ Total(f) \in Nat /\ Total(g) = Total(f) - n /\ Total(g) \in Nat
<1>1. /\ g \in [Identities -> Nat] /\ g[a] = f[a] - n /\ f[a] \in Nat
      /\ \A x \in Identities : x # a => g[x] = f[x]
  OBVIOUS
<1>2. /\ IsFiniteSet(Identities) /\ f \in [Identities -> Nat] /\ a \in Identities
      /\ g \in [Identities -> Nat] /\ \A x \in Identities : x # a => g[x] = f[x]
  BY <1>1, AccountsConstants
<1>3. Total(g) = Total(f) - f[a] + g[a]
  BY ONLY <1>2, TotalPut
<1>4. Total(f) \in Nat /\ Total(g) \in Nat
  BY <1>1, <1>2, UnitsFinite
<1> QED BY <1>1, <1>3, <1>4

\* The part of an amount that goes to the pool is an amount, and no more.
LEMMA FundedPart ==
    ASSUME AccountsTypeOK, NEW n \in Nat
    PROVE  Funded(n) \in Nat /\ Funded(n) <= n
<1>1. totalSupply \in Nat /\ conservationPool \in Nat
  BY AccountsConstants DEF AccountsTypeOK
<1>2. PoolCap \in Nat
  BY <1>1 DEF PoolCap
<1>3. PoolHeadroom \in Nat
  BY <1>1, <1>2 DEF PoolHeadroom, SatSub
<1> QED BY <1>3 DEF Funded, Least

\* Applying a record and touching accounts keep the types of what they assign.
LEMMA ApplyType ==
    ASSUME AccountsTypeOK, NEW r \in Records, NEW ts \in Times, Apply(r, ts)
    PROVE  applied' \subseteq Records /\ lastAppliedTs' \in Times \cup {0}
BY DEF AccountsTypeOK, Apply, Greatest

LEMMA TouchType ==
    ASSUME AccountsTypeOK, NEW A, NEW ts \in Times, Touch(A, ts)
    PROVE  lastActive' \in [Identities -> Times \cup {0}]
BY DEF AccountsTypeOK, Touch
-----------------------------------------------------------------------------
\* What every operation keeps equal, and the types of the accounts.
Flow == Total(available) + conservationPool

LEMMA MintFlow ==
    ASSUME AccountsTypeOK, NEW r \in Records, NEW to \in Identities, NEW amount \in Amounts,
           NEW ts \in Times, Mint(r, to, amount, ts)
    PROVE  AccountsTypeOK' /\ Flow' = Flow + amount /\ totalSupply' = totalSupply + amount
<1>1. /\ available \in [Identities -> Nat] /\ amount \in Nat /\ MaxSupply \in Nat
      /\ totalSupply \in Nat /\ conservationPool \in Nat
      /\ Credit(to, amount)
      /\ totalSupply' = totalSupply + amount /\ totalSupply' <= MaxSupply
      /\ conservationPool' = conservationPool
  BY AccountsConstants DEF AccountsTypeOK, Mint
<1>2. available' \in [Identities -> Nat] /\ Total(available') = Total(available) + amount
      /\ Total(available) \in Nat
  BY <1>1, CreditTotal
<1>3. AccountsTypeOK'
  BY <1>1, <1>2, ApplyType, TouchType DEF Mint, AccountsTypeOK
<1> QED BY <1>1, <1>2, <1>3 DEF Flow

LEMMA TransferFlow ==
    ASSUME AccountsTypeOK, NEW r \in Records, NEW from \in Identities, NEW to \in Identities,
           NEW amount \in Amounts, NEW ts \in Times, Transfer(r, from, to, amount, ts)
    PROVE  AccountsTypeOK' /\ Flow' = Flow /\ totalSupply' = totalSupply
<1> DEFINE mid == [available EXCEPT ![from] = @ - amount]
<1>1. /\ available \in [Identities -> Nat] /\ amount \in Nat /\ from # to
      /\ amount <= available[from] /\ conservationPool \in Nat
      /\ available' = [mid EXCEPT ![to] = @ + amount]
      /\ UNCHANGED <<totalSupply, conservationPool>>
  BY AccountsConstants DEF AccountsTypeOK, Transfer
<1>2. mid = [available EXCEPT ![from] = @ - amount]
  OBVIOUS
<1> HIDE DEF mid
<1>3. mid \in [Identities -> Nat] /\ Total(mid) = Total(available) - amount
      /\ Total(available) \in Nat
  BY <1>1, <1>2, TotalTake
<1>4. available' \in [Identities -> Nat] /\ Total(available') = Total(mid) + amount
  <2>1. /\ available' \in [Identities -> Nat] /\ available'[to] = mid[to] + amount
        /\ \A x \in Identities : x # to => available'[x] = mid[x]
        /\ mid \in [Identities -> Nat] /\ to \in Identities /\ amount \in Nat
    BY <1>1, <1>3
  <2> QED BY ONLY <2>1, TotalAdd
<1>5. AccountsTypeOK'
  BY <1>1, <1>4, ApplyType, TouchType DEF Transfer, AccountsTypeOK
<1> QED BY <1>1, <1>3, <1>4, <1>5 DEF Flow

LEMMA BurnFlow ==
    ASSUME AccountsTypeOK, NEW r \in Records, NEW amount \in Amounts, NEW ts \in Times,
           Burn(r, amount, ts)
    PROVE  AccountsTypeOK' /\ Flow' = Flow /\ totalSupply' = totalSupply
<1>1. /\ available \in [Identities -> Nat] /\ amount \in Nat /\ Authority \in Identities
      /\ amount <= available[Authority] /\ conservationPool \in Nat
      /\ available' = [available EXCEPT ![Authority] = @ - amount]
      /\ conservationPool' = conservationPool + amount /\ totalSupply' = totalSupply
  BY AccountsConstants DEF AccountsTypeOK, Burn, Debit
<1>2. available' \in [Identities -> Nat] /\ Total(available') = Total(available) - amount
      /\ Total(available) \in Nat
  BY <1>1, TotalTake
<1>3. AccountsTypeOK'
  BY <1>1, <1>2, ApplyType, TouchType DEF Burn, AccountsTypeOK
<1> QED BY <1>1, <1>2, <1>3 DEF Flow

LEMMA PoolFundFlow ==
    ASSUME AccountsTypeOK, NEW r \in Records, NEW amount \in Amounts, NEW ts \in Times,
           PoolFund(r, amount, ts)
    PROVE  AccountsTypeOK' /\ Flow' = Flow /\ totalSupply' = totalSupply
<1> DEFINE n == Funded(amount)
<1>1. /\ available \in [Identities -> Nat] /\ amount \in Nat /\ Authority \in Identities
      /\ amount <= available[Authority] /\ conservationPool \in Nat
      /\ available' = [available EXCEPT ![Authority] = @ - n]
      /\ conservationPool' = conservationPool + n /\ totalSupply' = totalSupply
  BY AccountsConstants DEF AccountsTypeOK, PoolFund, Debit
<1>2. n \in Nat /\ n <= amount
  BY <1>1, FundedPart
<1> HIDE DEF n
<1>3. n <= available[Authority]
  BY <1>1, <1>2
<1>4. available' \in [Identities -> Nat] /\ Total(available') = Total(available) - n
      /\ Total(available) \in Nat
  <2>1. /\ available \in [Identities -> Nat] /\ Authority \in Identities
        /\ n \in Nat /\ n <= available[Authority]
        /\ available' = [available EXCEPT ![Authority] = @ - n]
    BY ONLY <1>1, <1>2, <1>3
  <2> QED BY ONLY <2>1, TotalTake
<1>5. AccountsTypeOK'
  BY <1>1, <1>2, <1>4, ApplyType, TouchType DEF PoolFund, AccountsTypeOK
<1> QED BY <1>1, <1>2, <1>4, <1>5 DEF Flow

LEMMA WitnessRewardFlow ==
    ASSUME AccountsTypeOK, NEW r \in Records, NEW to \in Identities, NEW amount \in Amounts,
           NEW ts \in Times, WitnessReward(r, to, amount, ts)
    PROVE  AccountsTypeOK' /\ Flow' = Flow /\ totalSupply' = totalSupply
<1>1. /\ available \in [Identities -> Nat] /\ amount \in Nat
      /\ amount <= conservationPool /\ conservationPool \in Nat
      /\ Credit(to, amount)
      /\ conservationPool' = conservationPool - amount /\ totalSupply' = totalSupply
  BY AccountsConstants DEF AccountsTypeOK, WitnessReward
<1>2. available' \in [Identities -> Nat] /\ Total(available') = Total(available) + amount
      /\ Total(available) \in Nat
  BY <1>1, CreditTotal
<1>3. AccountsTypeOK'
  BY <1>1, <1>2, ApplyType, TouchType DEF WitnessReward, AccountsTypeOK
<1> QED BY <1>1, <1>2, <1>3 DEF Flow

\* The operations on accounts keep the types and move beat between the balances
\* and the pool, or mint it.
LEMMA AccountFlow ==
    ASSUME AccountsTypeOK, NEW T, T \subseteq Times, AccountOps(T)
    PROVE  /\ AccountsTypeOK'
           /\ Flow' + totalSupply = Flow + totalSupply'
           /\ applied \subseteq applied'
<1>1. /\ Total(available) \in Nat /\ conservationPool \in Nat /\ totalSupply \in Nat
      /\ MaxSupply \in Nat /\ Amounts \subseteq Nat
  BY AccountsConstants, UnitsFinite DEF AccountsTypeOK
<1>2. PICK r \in Records, amount \in Amounts, ts \in Times :
        \/ \E to \in Identities : Mint(r, to, amount, ts)
        \/ \E from, to \in Identities : Transfer(r, from, to, amount, ts)
        \/ Burn(r, amount, ts)
        \/ PoolFund(r, amount, ts)
        \/ \E to \in Identities : WitnessReward(r, to, amount, ts)
  BY DEF AccountOps
<1>3. CASE \E to \in Identities : Mint(r, to, amount, ts)
  <2>1. PICK to \in Identities : Mint(r, to, amount, ts)
    BY <1>3
  <2>2. AccountsTypeOK' /\ Flow' = Flow + amount /\ totalSupply' = totalSupply + amount
    BY <2>1, MintFlow
  <2> QED BY <1>1, <2>1, <2>2 DEF Flow, Mint, Apply
<1>4. CASE \E from, to \in Identities : Transfer(r, from, to, amount, ts)
  <2>1. PICK from \in Identities, to \in Identities : Transfer(r, from, to, amount, ts)
    BY <1>4
  <2>2. AccountsTypeOK' /\ Flow' = Flow /\ totalSupply' = totalSupply
    BY <2>1, TransferFlow
  <2> QED BY <1>1, <2>1, <2>2 DEF Flow, Transfer, Apply
<1>5. CASE Burn(r, amount, ts)
  <2>1. Burn(r, amount, ts)
    BY <1>5
  <2>2. AccountsTypeOK' /\ Flow' = Flow /\ totalSupply' = totalSupply
    BY <2>1, BurnFlow
  <2> QED BY <1>1, <2>1, <2>2 DEF Flow, Burn, Apply
<1>6. CASE PoolFund(r, amount, ts)
  <2>1. PoolFund(r, amount, ts)
    BY <1>6
  <2>2. AccountsTypeOK' /\ Flow' = Flow /\ totalSupply' = totalSupply
    BY <2>1, PoolFundFlow
  <2> QED BY <1>1, <2>1, <2>2 DEF Flow, PoolFund, Apply
<1>7. CASE \E to \in Identities : WitnessReward(r, to, amount, ts)
  <2>1. PICK to \in Identities : WitnessReward(r, to, amount, ts)
    BY <1>7
  <2>2. AccountsTypeOK' /\ Flow' = Flow /\ totalSupply' = totalSupply
    BY <2>1, WitnessRewardFlow
  <2> QED BY <1>1, <2>1, <2>2 DEF Flow, WitnessReward, Apply
<1> QED BY <1>2, <1>3, <1>4, <1>5, <1>6, <1>7
-----------------------------------------------------------------------------
\* What the entry s of a map st of stakes adds to the stake of a, and the sum of
\* these weights.
Weight(st, s, a) == IF st[s].active /\ st[s].staker = a THEN st[s].amount ELSE 0
WeightOf(st, a) == Total([s \in StakeIds |-> Weight(st, s, a)])

StakeMaps == [StakeIds -> StakeEntry \cup {NoStake}]

LEMMA StakeIdsFinite == IsFiniteSet(StakeIds)
BY AccountsConstants, FS_Union DEF StakeIds

LEMMA WeightType ==
    ASSUME NEW st \in StakeMaps, NEW s \in StakeIds, NEW a
    PROVE  Weight(st, s, a) \in Nat
<1>1. st[s] \in StakeEntry \cup {NoStake}
  BY DEF StakeMaps
<1>2. CASE st[s] = NoStake
  BY <1>2 DEF NoStake, Weight
<1>3. CASE st[s] \in StakeEntry
  BY <1>3 DEF StakeEntry, Weight
<1> QED BY <1>1, <1>2, <1>3

\* The sum over the entries of a is the sum of the weights over all entries.
LEMMA StakeOfIsWeight ==
    ASSUME NEW st \in StakeMaps, NEW a
    PROVE  Total([s \in {x \in StakeIds : st[x].active /\ st[x].staker = a} |-> st[s].amount])
             = WeightOf(st, a)
<1> DEFINE f == [s \in StakeIds |-> Weight(st, s, a)]
           D == {x \in StakeIds : st[x].active /\ st[x].staker = a}
           g == [s \in D |-> st[s].amount]
           z == [s \in StakeIds \ D |-> f[s]]
<1>1. f \in [StakeIds -> Nat]
  BY WeightType
<1>2. [s \in D |-> f[s]] = g
  BY DEF Weight
<1>3. \A s \in StakeIds \ D : f[s] = 0
  BY DEF Weight
<1>4. D \in SUBSET StakeIds
  OBVIOUS
<1>5. WeightOf(st, a) = Total(f)
  BY DEF WeightOf
<1> HIDE DEF f, D, g
<1>6. z \in [StakeIds \ D -> Nat] /\ \A s \in StakeIds \ D : z[s] = 0
  BY <1>1, <1>3
<1> HIDE DEF z
<1>7. Total(z) = 0
  BY <1>6, TotalZero
<1>8. Total(f) = Total([s \in D |-> f[s]]) + Total([s \in StakeIds \ D |-> f[s]])
  BY <1>1, <1>4, StakeIdsFinite, TotalPartition
<1>9. Total(g) \in Nat
  <2>1. g \in [D -> Nat]
    BY <1>1, <1>2, <1>4
  <2>2. IsFiniteSet(D)
    BY <1>4, StakeIdsFinite, FS_Subset
  <2> QED BY <2>1, <2>2, UnitsFinite
<1>10. Total(f) = Total(g) + Total(z)
  BY <1>2, <1>8 DEF z
<1>11. Total(g) = WeightOf(st, a)
  BY <1>5, <1>7, <1>9, <1>10
<1> QED BY <1>11 DEF g, D

\* Replacing one entry changes the sum by the difference of the weights.
LEMMA WeightChange ==
    ASSUME NEW st \in StakeMaps, NEW st2 \in StakeMaps, NEW s \in StakeIds, NEW a,
           \A x \in StakeIds : x # s => st2[x] = st[x]
    PROVE  /\ WeightOf(st, a) \in Nat /\ Weight(st, s, a) <= WeightOf(st, a)
           /\ WeightOf(st2, a) = WeightOf(st, a) - Weight(st, s, a) + Weight(st2, s, a)
<1> DEFINE f == [x \in StakeIds |-> Weight(st, x, a)]
           g == [x \in StakeIds |-> Weight(st2, x, a)]
<1>1. /\ f \in [StakeIds -> Nat] /\ g \in [StakeIds -> Nat]
      /\ f[s] = Weight(st, s, a) /\ g[s] = Weight(st2, s, a)
  BY WeightType
<1>2. \A x \in StakeIds : x # s => g[x] = f[x]
  BY DEF Weight
<1>3. WeightOf(st, a) = Total(f) /\ WeightOf(st2, a) = Total(g)
  BY DEF WeightOf
<1> HIDE DEF f, g
<1>4. Total(g) = Total(f) - f[s] + g[s]
  BY <1>1, <1>2, StakeIdsFinite, TotalPut
<1>5. Total(f) \in Nat /\ f[s] <= Total(f)
  BY <1>1, StakeIdsFinite, UnitsFinite, TotalAtLeast
<1> QED BY <1>1, <1>3, <1>4, <1>5
-----------------------------------------------------------------------------
\* The types of the books of stakes, without those of the accounts.
StakesTypeOK ==
    /\ staked \in [Identities -> Nat]
    /\ stakes \in StakeMaps
    /\ stakerIndex \in [Identities -> SUBSET StakeIds]
    /\ activeStakesCount \in Nat
    /\ totalStaked \in Nat

ActiveIds(st) == {s \in StakeIds : st[s].active}
One(st, s) == IF st[s].active THEN 1 ELSE 0

\* Replacing one entry changes the number of active entries by one at most.
LEMMA CountChange ==
    ASSUME NEW st \in StakeMaps, NEW st2 \in StakeMaps, NEW s \in StakeIds,
           \A x \in StakeIds : x # s => st2[x] = st[x]
    PROVE  /\ Cardinality(ActiveIds(st)) \in Nat /\ One(st, s) <= Cardinality(ActiveIds(st))
           /\ Cardinality(ActiveIds(st2)) = Cardinality(ActiveIds(st)) - One(st, s) + One(st2, s)
<1> DEFINE R == ActiveIds(st) \ {s}
<1>1. /\ ActiveIds(st) = IF st[s].active THEN R \cup {s} ELSE R
      /\ ActiveIds(st2) = IF st2[s].active THEN R \cup {s} ELSE R
      /\ R \in SUBSET StakeIds /\ s \notin R
  BY DEF ActiveIds
<1> HIDE DEF R
<1>2. IsFiniteSet(R)
  BY <1>1, StakeIdsFinite, FS_Subset
<1>3. Cardinality(R) \in Nat
  BY <1>2, FS_CardinalityType
<1>4. Cardinality(R \cup {s}) = Cardinality(R) + 1
  BY <1>1, <1>2, FS_AddElement
<1> QED BY <1>1, <1>3, <1>4 DEF One

\* A change of the entry s of a that all five books follow.
Rebook(s, a) ==
    /\ stakes' \in StakeMaps
    /\ \A x \in StakeIds : x # s => stakes'[x] = stakes[x]
    /\ \A b \in Identities : b # a => Weight(stakes, s, b) = 0 /\ Weight(stakes', s, b) = 0
    /\ staked' = [staked EXCEPT ![a] = @ - Weight(stakes, s, a) + Weight(stakes', s, a)]
    /\ stakerIndex' = [stakerIndex EXCEPT ![a] =
          IF stakes'[s].active THEN @ \cup {s} ELSE @ \ {s}]
    /\ stakes'[s].active => stakes'[s].staker = a
    /\ stakes[s].active => stakes[s].staker = a
    /\ activeStakesCount' = activeStakesCount - One(stakes, s) + One(stakes', s)
    /\ totalStaked' = totalStaked - Weight(stakes, s, a) + Weight(stakes', s, a)

\* Such a change keeps the books and moves the total by the difference.
LEMMA RebookKeeps ==
    ASSUME StakesTypeOK, StakeBooks, NEW s \in StakeIds, NEW a \in Identities, Rebook(s, a)
    PROVE  /\ StakesTypeOK' /\ StakeBooks'
           /\ Total(staked) \in Nat /\ Total(staked') \in Nat
           /\ Total(staked') = Total(staked) - Weight(stakes, s, a) + Weight(stakes', s, a)
<1>1. /\ stakes \in StakeMaps /\ stakes' \in StakeMaps /\ s \in StakeIds
      /\ \A x \in StakeIds : x # s => stakes'[x] = stakes[x]
  BY DEF Rebook, StakesTypeOK
<1>2. \A b \in Identities : StakeOf(b) = WeightOf(stakes, b) /\ StakeOf(b)' = WeightOf(stakes', b)
  BY <1>1, StakeOfIsWeight DEF StakeOf, Active
<1>3. \A b \in Identities :
        /\ Weight(stakes, s, b) \in Nat /\ Weight(stakes', s, b) \in Nat
        /\ WeightOf(stakes, b) \in Nat /\ Weight(stakes, s, b) <= WeightOf(stakes, b)
        /\ WeightOf(stakes', b) = WeightOf(stakes, b) - Weight(stakes, s, b) + Weight(stakes', s, b)
  BY <1>1, WeightChange, WeightType
<1>4. \A b \in Identities : staked[b] = WeightOf(stakes, b)
  BY <1>2 DEF StakeBooks
<1>5. /\ staked \in [Identities -> Nat]
      /\ staked' = [staked EXCEPT ![a] = @ - Weight(stakes, s, a) + Weight(stakes', s, a)]
      /\ \A b \in Identities : b # a => Weight(stakes, s, b) = 0 /\ Weight(stakes', s, b) = 0
  BY DEF Rebook, StakesTypeOK
<1>6. /\ staked'[a] = staked[a] - Weight(stakes, s, a) + Weight(stakes', s, a)
      /\ staked[a] \in Nat /\ staked'[a] \in Nat
      /\ \A b \in Identities : b # a => staked'[b] = staked[b]
      /\ staked' \in [Identities -> Nat]
  BY <1>3, <1>4, <1>5
<1>7. \A b \in Identities : staked'[b] = StakeOf(b)'
  <2> TAKE b \in Identities
  <2>1. CASE b = a
    BY <1>2, <1>3, <1>4, <1>6, <2>1
  <2>2. CASE b # a
    <3>1. WeightOf(stakes', b) = WeightOf(stakes, b)
      BY <1>3, <1>5, <2>2
    <3> QED BY <1>2, <1>4, <1>6, <2>2, <3>1
  <2> QED BY <2>1, <2>2
<1>8. /\ Total(staked) \in Nat /\ Total(staked') \in Nat
      /\ Total(staked') = Total(staked) - staked[a] + staked'[a]
  <2>1. /\ IsFiniteSet(Identities) /\ a \in Identities
        /\ staked \in [Identities -> Nat] /\ staked' \in [Identities -> Nat]
        /\ \A b \in Identities : b # a => staked'[b] = staked[b]
    BY <1>5, <1>6, AccountsConstants
  <2>2. Total(staked') = Total(staked) - staked[a] + staked'[a]
    BY ONLY <2>1, TotalPut
  <2>3. Total(staked) \in Nat /\ Total(staked') \in Nat
    BY ONLY <2>1, UnitsFinite
  <2> QED BY <2>2, <2>3
<1>9. Total(staked') = Total(staked) - Weight(stakes, s, a) + Weight(stakes', s, a)
  BY <1>3, <1>6, <1>8
<1>10. totalStaked' = Total(staked')
  BY <1>9 DEF StakeBooks, Rebook
<1>11. /\ activeStakesCount' = Cardinality({x \in StakeIds : Active(x)})'
       /\ activeStakesCount' \in Nat
  <2>1. activeStakesCount = Cardinality(ActiveIds(stakes))
    BY DEF StakeBooks, Active, ActiveIds
  <2>2. /\ Cardinality(ActiveIds(stakes)) \in Nat
        /\ One(stakes, s) <= Cardinality(ActiveIds(stakes))
        /\ Cardinality(ActiveIds(stakes')) =
             Cardinality(ActiveIds(stakes)) - One(stakes, s) + One(stakes', s)
    BY ONLY <1>1, CountChange
  <2>3. One(stakes, s) \in Nat /\ One(stakes', s) \in Nat
    BY DEF One
  <2>4. activeStakesCount' = activeStakesCount - One(stakes, s) + One(stakes', s)
    BY DEF Rebook
  <2>5. activeStakesCount' = Cardinality(ActiveIds(stakes')) /\ activeStakesCount' \in Nat
    BY <2>1, <2>2, <2>3, <2>4
  <2> QED BY <2>5 DEF Active, ActiveIds
<1>12. \A b \in Identities :
         stakerIndex'[b] = {x \in StakeIds : Active(x)' /\ stakes'[x].staker = b}
  <2> TAKE b \in Identities
  <2>1. stakerIndex[b] = {x \in StakeIds : stakes[x].active /\ stakes[x].staker = b}
    BY DEF StakeBooks, Active
  <2>2. stakerIndex'[b] = IF b = a
          THEN IF stakes'[s].active THEN stakerIndex[b] \cup {s} ELSE stakerIndex[b] \ {s}
          ELSE stakerIndex[b]
    BY DEF Rebook, StakesTypeOK
  <2>3. /\ stakes'[s].active => stakes'[s].staker = a
        /\ stakes[s].active => stakes[s].staker = a
    BY DEF Rebook
  <2>4. stakerIndex'[b] = {x \in StakeIds : stakes'[x].active /\ stakes'[x].staker = b}
    BY <1>1, <2>1, <2>2, <2>3
  <2> QED BY <2>4 DEF Active
<1>13. stakerIndex' \in [Identities -> SUBSET StakeIds]
  BY DEF Rebook, StakesTypeOK
<1>14. StakesTypeOK'
  BY <1>1, <1>6, <1>8, <1>10, <1>11, <1>13 DEF StakesTypeOK
<1>15. StakeBooks'
  BY <1>7, <1>10, <1>11, <1>12 DEF StakeBooks
<1> QED BY <1>8, <1>9, <1>14, <1>15
-----------------------------------------------------------------------------
\* The inductive invariant.  A record that was not applied has no stake yet: this
\* is why Stake never overwrites an entry that still counts.
FreshStakes == \A r \in Records \ applied : stakes[r] = NoStake

StakingInv == StakingTypeOK /\ StakeBooks /\ FreshStakes

\* What an operation on stakes has to show.
StakingKept ==
    /\ StakingInv'
    /\ Total(available') + Total(staked') + conservationPool'
         = Total(available) + Total(staked) + conservationPool
    /\ totalSupply' = totalSupply

LEMMA StakingTypes ==
    /\ StakingTypeOK <=> AccountsTypeOK /\ StakesTypeOK
    /\ StakingTypeOK' <=> AccountsTypeOK' /\ StakesTypeOK'
BY DEF StakingTypeOK, StakesTypeOK, StakeMaps

LEMMA AddStakeBooks ==
    ASSUME StakesTypeOK, StakeBooks, NEW s \in StakeIds, NEW a \in Identities,
           NEW n \in Nat, NEW ts \in Times \cup {0}, stakes[s] = NoStake, AddStake(s, a, n, ts)
    PROVE  /\ StakesTypeOK' /\ StakeBooks'
           /\ Total(staked) \in Nat /\ Total(staked') = Total(staked) + n
<1> DEFINE e == [staker |-> a, amount |-> n, at |-> ts, active |-> TRUE]
<1>1. e \in StakeEntry /\ e.active = TRUE /\ e.staker = a /\ e.amount = n
  BY DEF StakeEntry
<1>2. stakes' = [stakes EXCEPT ![s] = e]
  BY DEF AddStake
<1> HIDE DEF e
<1>3. /\ stakes' \in StakeMaps /\ stakes'[s] = e
      /\ \A x \in StakeIds : x # s => stakes'[x] = stakes[x]
  BY <1>1, <1>2 DEF StakesTypeOK, StakeMaps
<1>4. ~ stakes[s].active
  BY DEF NoStake
<1>5. /\ \A b \in Identities : Weight(stakes, s, b) = 0 /\ (b # a => Weight(stakes', s, b) = 0)
      /\ Weight(stakes', s, a) = n /\ One(stakes, s) = 0 /\ One(stakes', s) = 1
  BY <1>1, <1>3, <1>4 DEF Weight, One
<1>6. Rebook(s, a)
  <2> DEFINE old == Weight(stakes, s, a)
             new == Weight(stakes', s, a)
             was == One(stakes, s)
             is == One(stakes', s)
  <2>4. old = 0 /\ new = n /\ was = 0 /\ is = 1
    BY <1>5
  <2>5. /\ staked \in [Identities -> Nat] /\ staked' = [staked EXCEPT ![a] = @ + n]
         /\ activeStakesCount \in Nat /\ activeStakesCount' = activeStakesCount + 1
         /\ totalStaked \in Nat /\ totalStaked' = totalStaked + n
    BY DEF AddStake, StakesTypeOK
  <2> HIDE DEF old, new, was, is
  <2>1. staked' = [staked EXCEPT ![a] = @ - old + new]
    <3>1. staked[a] - old + new = staked[a] + n
      BY <2>4, <2>5
    <3> QED BY <2>5, <3>1
  <2>2. stakerIndex' = [stakerIndex EXCEPT ![a] =
           IF stakes'[s].active THEN @ \cup {s} ELSE @ \ {s}]
    BY <1>1, <1>3 DEF AddStake
  <2>3. /\ activeStakesCount' = activeStakesCount - was + is
        /\ totalStaked' = totalStaked - old + new
    BY <2>4, <2>5
  <2> QED BY <1>1, <1>3, <1>4, <1>5, <2>1, <2>2, <2>3 DEF Rebook, old, new, was, is
<1>7. /\ StakesTypeOK' /\ StakeBooks' /\ Total(staked) \in Nat
      /\ Total(staked') = Total(staked) - Weight(stakes, s, a) + Weight(stakes', s, a)
  BY <1>6, RebookKeeps
<1> QED BY <1>5, <1>7

LEMMA StakeKept ==
    ASSUME StakingInv, NEW r \in Records, NEW a \in Identities, NEW amount \in Amounts,
           NEW ts \in Times, Stake(r, a, amount, ts)
    PROVE  StakingKept
<1>1. /\ AccountsTypeOK /\ StakesTypeOK /\ StakeBooks /\ r \in StakeIds /\ amount \in Nat
      /\ stakes[r] = NoStake
  BY StakingTypes, AccountsConstants DEF StakingInv, FreshStakes, Stake, Apply, StakeIds
<1>2. AddStake(r, a, amount, ts) /\ totalSupply' = totalSupply
      /\ conservationPool' = conservationPool /\ applied' = applied \cup {r}
  BY DEF Stake, Apply
<1>3. /\ StakesTypeOK' /\ StakeBooks'
      /\ Total(staked) \in Nat /\ Total(staked') = Total(staked) + amount
  BY <1>1, <1>2, AddStakeBooks
<1>4. available' \in [Identities -> Nat] /\ Total(available') = Total(available) - amount
      /\ Total(available) \in Nat
  <2>1. /\ available \in [Identities -> Nat] /\ amount <= available[a]
        /\ available' = [available EXCEPT ![a] = @ - amount]
    BY DEF Stake, Debit, StakingInv, StakingTypeOK, AccountsTypeOK
  <2> QED BY <1>1, <2>1, TotalTake
<1>5. AccountsTypeOK'
  BY <1>1, <1>2, <1>4, ApplyType, TouchType DEF Stake, AccountsTypeOK
<1>6. FreshStakes'
  BY <1>2 DEF FreshStakes, AddStake, StakingInv, StakingTypeOK
<1>7. conservationPool \in Nat
  BY <1>1 DEF AccountsTypeOK
<1>8. StakingInv'
  BY <1>3, <1>5, <1>6, StakingTypes DEF StakingInv
<1>9. Total(available') + Total(staked') + conservationPool'
        = Total(available) + Total(staked) + conservationPool
  BY <1>1, <1>2, <1>3, <1>4, <1>7
<1> QED BY <1>2, <1>8, <1>9 DEF StakingKept

LEMMA GenesisKept ==
    ASSUME StakingInv, NEW a \in Identities, ApplyGenesisValidator(a)
    PROVE  StakingKept
<1> DEFINE n == GenesisStake[a]
<1>1. /\ AccountsTypeOK /\ StakesTypeOK /\ StakeBooks /\ a \in StakeIds /\ n \in Nat
      /\ stakes[a] = NoStake /\ a \notin Records /\ Authority \in Identities
  BY StakingTypes, AccountsConstants, StakingConstants
    DEF StakingInv, ApplyGenesisValidator, Carvable, StakeIds
<1>2. /\ AddStake(a, a, n, 0) /\ n <= available[Authority]
      /\ available' = [available EXCEPT ![Authority] = @ - n]
      /\ UNCHANGED <<lastActive, totalSupply, conservationPool, applied, lastAppliedTs>>
  BY DEF ApplyGenesisValidator, Debit
<1> HIDE DEF n
<1>3. /\ StakesTypeOK' /\ StakeBooks'
      /\ Total(staked) \in Nat /\ Total(staked') = Total(staked) + n
  BY <1>1, <1>2, AddStakeBooks
<1>4. available' \in [Identities -> Nat] /\ Total(available') = Total(available) - n
      /\ Total(available) \in Nat
  BY <1>1, <1>2, TotalTake DEF AccountsTypeOK
<1>5. AccountsTypeOK'
  BY <1>1, <1>2, <1>4 DEF AccountsTypeOK
<1>6. FreshStakes'
  BY <1>1, <1>2 DEF FreshStakes, AddStake, StakingInv, StakingTypeOK
<1>7. conservationPool \in Nat
  BY <1>1 DEF AccountsTypeOK
<1>8. StakingInv'
  BY <1>3, <1>5, <1>6, StakingTypes DEF StakingInv
<1>9. Total(available') + Total(staked') + conservationPool'
        = Total(available) + Total(staked) + conservationPool
  BY <1>1, <1>2, <1>3, <1>4, <1>7
<1> QED BY <1>2, <1>8, <1>9 DEF StakingKept

\* An active entry has its amount and staker, and the books cover it.
LEMMA ActiveEntry ==
    ASSUME StakesTypeOK, StakeBooks, NEW s \in StakeIds, Active(s)
    PROVE  /\ stakes[s] \in StakeEntry /\ stakes[s].staker \in Identities
           /\ stakes[s].amount \in Nat /\ stakes[s].at \in Times \cup {0}
           /\ stakes[s].amount <= staked[stakes[s].staker]
           /\ activeStakesCount >= 1
<1>1. stakes \in StakeMaps /\ stakes[s] \in StakeEntry \cup {NoStake} /\ stakes[s].active
  BY DEF StakesTypeOK, StakeMaps, Active
<1>2. stakes[s] # NoStake
  BY <1>1 DEF NoStake
<1>3. /\ stakes[s] \in StakeEntry /\ stakes[s].staker \in Identities
      /\ stakes[s].amount \in Nat /\ stakes[s].at \in Times \cup {0}
  BY <1>1, <1>2 DEF StakeEntry
<1> DEFINE a == stakes[s].staker
<1>4. Weight(stakes, s, a) = stakes[s].amount
  BY <1>1 DEF Weight
<1>5. staked[a] = WeightOf(stakes, a)
  <2>1. staked[a] = StakeOf(a)
    BY <1>3 DEF StakeBooks
  <2> QED BY <1>1, <2>1, StakeOfIsWeight DEF StakeOf, Active
<1>6. Weight(stakes, s, a) <= WeightOf(stakes, a)
  BY <1>1, WeightChange
<1>7. activeStakesCount = Cardinality(ActiveIds(stakes))
  BY DEF StakeBooks, Active, ActiveIds
<1>8. One(stakes, s) <= Cardinality(ActiveIds(stakes)) /\ Cardinality(ActiveIds(stakes)) \in Nat
  BY <1>1, CountChange
<1>9. One(stakes, s) = 1
  BY <1>1 DEF One
<1>10. activeStakesCount >= 1
  BY <1>7, <1>8, <1>9
<1> QED BY <1>3, <1>4, <1>5, <1>6, <1>10

\* Taking n units from an active entry, which stays active or is closed.
LEMMA TakeStakeBooks ==
    ASSUME StakesTypeOK, StakeBooks, NEW s \in StakeIds, NEW a \in Identities, NEW n \in Nat,
           NEW left \in StakeEntry, Active(s), stakes[s].staker = a,
           left.staker = a, n <= stakes[s].amount,
           stakes[s].amount - n = IF left.active THEN left.amount ELSE 0,
           stakes' = [stakes EXCEPT ![s] = left],
           staked' = [staked EXCEPT ![a] = @ - n],
           stakerIndex' = [stakerIndex EXCEPT ![a] = IF left.active THEN @ ELSE @ \ {s}],
           activeStakesCount' =
             IF left.active THEN activeStakesCount ELSE SatSub(activeStakesCount, 1),
           totalStaked' = totalStaked - n
    PROVE  /\ StakesTypeOK' /\ StakeBooks'
           /\ Total(staked) \in Nat /\ n <= Total(staked) /\ Total(staked') = Total(staked) - n
<1>1. /\ stakes[s].active /\ stakes[s].amount \in Nat /\ stakes[s].amount <= staked[a]
      /\ activeStakesCount >= 1 /\ activeStakesCount \in Nat /\ totalStaked \in Nat
      /\ staked \in [Identities -> Nat] /\ left.amount \in Nat
  BY ActiveEntry DEF StakesTypeOK, Active, StakeEntry
<1>2. /\ stakes' \in StakeMaps /\ stakes'[s] = left
      /\ \A x \in StakeIds : x # s => stakes'[x] = stakes[x]
  BY DEF StakesTypeOK, StakeMaps
<1> DEFINE old == Weight(stakes, s, a)
           new == Weight(stakes', s, a)
           was == One(stakes, s)
           is == One(stakes', s)
<1>3. /\ old = stakes[s].amount /\ new = IF left.active THEN left.amount ELSE 0
      /\ was = 1 /\ is = IF left.active THEN 1 ELSE 0
  BY <1>1, <1>2 DEF Weight, One
<1>4. \A b \in Identities : b # a => Weight(stakes, s, b) = 0 /\ Weight(stakes', s, b) = 0
  BY <1>2 DEF Weight
<1> HIDE DEF old, new, was, is
<1>5. new = old - n /\ old \in Nat /\ new \in Nat
  BY ONLY <1>1, <1>3, n \in Nat, n <= stakes[s].amount,
          stakes[s].amount - n = IF left.active THEN left.amount ELSE 0
<1>6. staked' = [staked EXCEPT ![a] = @ - old + new]
  <2>1. staked[a] - old + new = staked[a] - n
    BY ONLY <1>1, <1>5, n \in Nat, a \in Identities
  <2> QED BY ONLY <2>1, staked' = [staked EXCEPT ![a] = @ - n]
<1>7. totalStaked' = totalStaked - old + new
  BY ONLY <1>1, <1>5, n \in Nat, totalStaked' = totalStaked - n
<1>8. activeStakesCount' = activeStakesCount - was + is
  BY ONLY <1>1, <1>3,
          activeStakesCount' =
            IF left.active THEN activeStakesCount ELSE SatSub(activeStakesCount, 1)
     DEF SatSub
<1>9. s \in stakerIndex[a] /\ stakerIndex \in [Identities -> SUBSET StakeIds]
  BY ONLY StakesTypeOK, StakeBooks, s \in StakeIds, a \in Identities, Active(s),
          stakes[s].staker = a
     DEF StakeBooks, StakesTypeOK
<1>10. stakerIndex' = [stakerIndex EXCEPT ![a] =
           IF stakes'[s].active THEN @ \cup {s} ELSE @ \ {s}]
  <2>1. stakerIndex[a] \cup {s} = stakerIndex[a]
    BY ONLY <1>9
  <2> QED BY ONLY <1>2, <2>1,
                  stakerIndex' = [stakerIndex EXCEPT ![a] = IF left.active THEN @ ELSE @ \ {s}]
<1>11. Rebook(s, a)
  BY <1>2, <1>4, <1>6, <1>7, <1>8, <1>10 DEF Rebook, old, new, was, is
<1>12. /\ StakesTypeOK' /\ StakeBooks' /\ Total(staked) \in Nat /\ Total(staked') \in Nat
       /\ Total(staked') = Total(staked) - old + new
  BY <1>11, RebookKeeps DEF old, new
<1> QED BY <1>5, <1>12

LEMMA UnstakeKept ==
    ASSUME StakingInv, NEW r \in Records, NEW a \in Identities, NEW s \in StakeIds,
           NEW ts \in Times, Unstake(r, a, s, ts)
    PROVE  StakingKept
<1> DEFINE n == stakes[s].amount
           left == [stakes[s] EXCEPT !.active = FALSE]
<1>1. /\ AccountsTypeOK /\ StakesTypeOK /\ StakeBooks /\ Active(s) /\ stakes[s].staker = a
      /\ Apply(r, ts) /\ Touch({a}, ts) /\ Credit(a, n)
      /\ UNCHANGED <<totalSupply, conservationPool>>
  BY StakingTypes DEF StakingInv, Unstake, Returnable
<1>2. stakes[s] \in StakeEntry /\ n \in Nat
  BY <1>1, ActiveEntry
<1>3. left \in StakeEntry /\ left.staker = a /\ left.active = FALSE
  BY <1>1, <1>2 DEF StakeEntry
<1>4. stakes' = [stakes EXCEPT ![s] = left]
  BY <1>1 DEF Unstake, StakesTypeOK, StakeMaps
<1>5. /\ staked' = [staked EXCEPT ![a] = @ - n]
      /\ stakerIndex' = [stakerIndex EXCEPT ![a] = @ \ {s}]
      /\ activeStakesCount' = SatSub(activeStakesCount, 1)
      /\ totalStaked' = totalStaked - n
  BY DEF Unstake
<1>6. n <= n /\ n - n = 0
  BY <1>2
<1>7. n = stakes[s].amount
  OBVIOUS
<1> HIDE DEF n, left
<1>8. /\ StakesTypeOK' /\ StakeBooks'
      /\ Total(staked) \in Nat /\ Total(staked') = Total(staked) - n
  BY <1>1, <1>2, <1>3, <1>4, <1>5, <1>6, <1>7, TakeStakeBooks
<1>9. available' \in [Identities -> Nat] /\ Total(available) \in Nat
      /\ Total(available') = Total(available) + n
  BY <1>1, <1>2, CreditTotal DEF AccountsTypeOK
<1>10. AccountsTypeOK'
  BY <1>1, <1>9, ApplyType, TouchType DEF AccountsTypeOK
<1>11. FreshStakes'
  <2>1. applied' = applied \cup {r}
    BY <1>1 DEF Apply
  <2>2. s \notin Records \ applied
    BY <1>1 DEF StakingInv, FreshStakes, Active, NoStake
  <2> QED BY <1>4, <2>1, <2>2 DEF StakingInv, FreshStakes, StakingTypeOK
<1>12. StakingInv'
  BY <1>8, <1>10, <1>11, StakingTypes DEF StakingInv
<1>13. conservationPool \in Nat
  BY <1>1 DEF AccountsTypeOK
<1>14. Total(available') + Total(staked') + conservationPool'
         = Total(available) + Total(staked) + conservationPool
  BY <1>1, <1>2, <1>8, <1>9, <1>13
<1> QED BY <1>1, <1>12, <1>14 DEF StakingKept

LEMMA RebuildKept ==
    ASSUME StakingInv, RebuildStakerIndex
    PROVE  StakingKept
<1>1. /\ UNCHANGED accountVars /\ UNCHANGED <<staked, stakes, totalStaked>>
      /\ activeStakesCount' = activeStakesCount
  BY DEF RebuildStakerIndex, StakingInv, StakeBooks
<1>2. stakerIndex' = stakerIndex
  <2>1. stakerIndex' = [a \in Identities |-> stakerIndex[a]]
    BY DEF RebuildStakerIndex, StakingInv, StakeBooks
  <2> QED BY <2>1 DEF StakingInv, StakingTypeOK
<1>3. AccountsTypeOK /\ StakesTypeOK
  BY StakingTypes DEF StakingInv
<1>4. AccountsTypeOK' /\ StakesTypeOK'
  BY <1>1, <1>2, <1>3 DEF AccountsTypeOK, StakesTypeOK, accountVars
<1>5. StakeBooks' /\ FreshStakes'
  <2>1. StakeBooks /\ FreshStakes
    BY DEF StakingInv
  <2>2. StakeBooks'
    BY ONLY <1>1, <1>2, <2>1 DEF StakeBooks, StakeOf, Active
  <2>3. FreshStakes'
    BY ONLY <1>1, <2>1 DEF FreshStakes, accountVars
  <2> QED BY ONLY <2>2, <2>3
<1>6. StakingInv'
  BY <1>4, <1>5, StakingTypes DEF StakingInv
<1> QED BY <1>1, <1>6 DEF StakingKept, accountVars
-----------------------------------------------------------------------------
\* The sum of a constant amount.
LEMMA TotalConstant ==
    ASSUME NEW S, IsFiniteSet(S), NEW c \in Nat
    PROVE  Total([x \in S |-> c]) = Cardinality(S) * c
<1>1. UnitsOf([x \in S |-> c]) = S \X (1..c)
  BY DEF UnitsOf
<1>2. IsFiniteSet(1..c) /\ Cardinality(1..c) = c
  BY FS_Interval
<1> QED BY <1>1, <1>2, FS_Product DEF Total

\* The dust goes to the first jurors, one unit each.
LEMMA DustTotal ==
    ASSUME NEW n \in Nat, NEW m \in Nat, m <= n
    PROVE  Total([i \in 1..n |-> IF i <= m THEN 1 ELSE 0]) = m
<1> DEFINE f == [i \in 1..n |-> IF i <= m THEN 1 ELSE 0]
           p == [i \in 1..m |-> f[i]]
           q == [i \in (1..n) \ (1..m) |-> f[i]]
<1>1. IsFiniteSet(1..n) /\ f \in [1..n -> Nat] /\ 1..m \in SUBSET (1..n)
  BY FS_Interval
<1>2. Total(f) = Total(p) + Total(q)
  <2> DEFINE S == 1..n
             T == 1..m
  <2>1. IsFiniteSet(S) /\ f \in [S -> Nat] /\ T \in SUBSET S
    BY ONLY <1>1
  <2> HIDE DEF f, S, T
  <2>2. Total(f) = Total([i \in T |-> f[i]]) + Total([i \in S \ T |-> f[i]])
    BY ONLY <2>1, TotalPartition
  <2> QED BY ONLY <2>2 DEF S, T
<1>3. p = [i \in 1..m |-> 1]
  OBVIOUS
<1>4. q \in [(1..n) \ (1..m) -> Nat] /\ \A i \in (1..n) \ (1..m) : q[i] = 0
  OBVIOUS
<1>5. IsFiniteSet(1..m) /\ Cardinality(1..m) = m
  BY FS_Interval
<1> HIDE DEF f, p, q
<1>6. Total(p) = m * 1
  BY <1>3, <1>5, TotalConstant
<1>7. Total(q) = 0
  BY <1>4, TotalZero
<1> QED BY <1>2, <1>6, <1>7 DEF f

\* A jury, however it is made up, gets its share exactly; an empty one nothing.
LEMMA JuryTotal ==
    ASSUME NEW share \in Nat, NEW size \in Nat, NEW jury \in [1..size -> Identities]
    PROVE  /\ JuryCredits(share, jury) \in [Identities -> Nat]
           /\ Total(JuryCredits(share, jury)) = IF DOMAIN jury = {} THEN 0 ELSE share
<1> DEFINE w == [i \in 1..size |-> JurorAmount(share, size, i)]
           group(a) == {i \in 1..size : jury[i] = a}
           part(a) == [i \in group(a) |-> w[i]]
           credits == [a \in Identities |-> Total(part(a))]
<1>1. DOMAIN jury = 1..size /\ IsFiniteSet(1..size) /\ Cardinality(1..size) = size
  BY FS_Interval
<1>2. \A i \in 1..size :
        /\ size > 0 /\ share \div size \in Nat /\ JurorAmount(share, size, i) \in Nat
        /\ JurorAmount(share, size, i) = share \div size + (IF i <= share % size THEN 1 ELSE 0)
  BY DEF JurorAmount
<1>3. w \in [1..size -> Nat]
  BY <1>2
<1>4. JuryCredits(share, jury) = credits
  BY <1>1 DEF JuryCredits
<1> HIDE DEF w
<1>5. credits \in [Identities -> Nat]
  <2>1. ASSUME NEW a \in Identities PROVE Total(part(a)) \in Nat
    <3>1. IsFiniteSet(group(a)) /\ part(a) \in [group(a) -> Nat]
      BY <1>1, <1>3, FS_Subset
    <3> QED BY <3>1, UnitsFinite
  <2> QED BY <2>1
<1>6. Total(credits) = Total(w)
  <2> DEFINE T == 1..size
  <2>1. /\ IsFiniteSet(Identities) /\ IsFiniteSet(T)
        /\ w \in [T -> Nat] /\ jury \in [T -> Identities]
    BY <1>1, <1>3, AccountsConstants
  <2> HIDE DEF T
  <2>2. Total([a \in Identities |-> Total([i \in {i \in T : jury[i] = a} |-> w[i]])]) = Total(w)
    BY ONLY <2>1, TotalGroups
  <2> QED BY <2>2 DEF T
<1>7. CASE size = 0
  <2>1. 1..size = {} /\ DOMAIN jury = {}
    BY <1>1, <1>7
  <2>2. Total(w) = 0
    BY <1>3, <2>1, TotalZero
  <2> QED BY <1>4, <1>5, <1>6, <2>1, <2>2
<1>8. CASE size > 0
  <2> DEFINE q == share \div size
             m == share % size
             f == [i \in 1..size |-> q]
             h == [i \in 1..size |-> IF i <= m THEN 1 ELSE 0]
  <2>1. q \in Nat /\ m \in Nat /\ m <= size /\ size * q + m = share
    BY <1>8
  <2>2. \A i \in 1..size : w[i] = q + (IF i <= m THEN 1 ELSE 0)
    BY <1>2 DEF w
  <2> HIDE DEF q, m
  <2>3. f \in [1..size -> Nat] /\ h \in [1..size -> Nat]
    BY <2>1
  <2>4. w = [i \in 1..size |-> f[i] + h[i]]
    BY <1>3, <2>2
  <2>5. Total(f) = size * q /\ Total(h) = m
    BY <1>1, <2>1, TotalConstant, DustTotal
  <2> HIDE DEF f, h
  <2>6. Total(w) = Total(f) + Total(h)
    BY <1>1, <2>3, <2>4, TotalSum
  <2>7. 1 \in DOMAIN jury
    BY <1>1, <1>8
  <2> QED BY <1>4, <1>5, <1>6, <2>1, <2>5, <2>6, <2>7
<1> QED BY <1>7, <1>8

\* The three shares of a slash are amounts and add up to it.
LEMMA SharesAddUp ==
    ASSUME NEW n \in Nat
    PROVE  /\ PoolShare(n) \in Nat /\ ChallengerShare(n) \in Nat /\ JuryShare(n) \in Nat
           /\ PoolShare(n) + ChallengerShare(n) + JuryShare(n) = n
BY DEF PoolShare, ChallengerShare, JuryShare

LEMMA SlashKept ==
    ASSUME StakingInv, NEW r \in Records, NEW offender \in Identities, NEW s \in StakeIds,
           NEW amount \in Amounts, NEW challenger \in Identities, NEW size \in Nat,
           NEW jury \in [1..size -> Identities], NEW ts \in Times,
           Slash(r, offender, s, amount, challenger, jury, ts)
    PROVE  StakingKept
<1> DEFINE n == ActualSlash(amount, stakes[s].amount)
           gross == PoolCredit(n, jury)
           pooled == Funded(gross)
           toChallenger == ChallengerShare(n) + (gross - pooled)
           credits == JuryCredits(JuryShare(n), jury)
           mid == [a \in Identities |-> available[a] + credits[a]]
           left == [stakes[s] EXCEPT !.amount = @ - n, !.active = stakes[s].amount > n]
<1>1. /\ AccountsTypeOK /\ StakesTypeOK /\ StakeBooks /\ Active(s)
      /\ stakes[s].staker = offender /\ amount \in Nat
      /\ Apply(r, ts) /\ Touch({offender, challenger} \cup {jury[i] : i \in DOMAIN jury}, ts)
      /\ totalSupply' = totalSupply /\ conservationPool' = conservationPool + pooled
      /\ n > 0
  BY StakingTypes, AccountsConstants DEF StakingInv, Slash
<1>2. stakes[s] \in StakeEntry /\ stakes[s].amount \in Nat
  BY <1>1, ActiveEntry
<1>3. n \in Nat /\ n <= stakes[s].amount /\ stakes[s].amount > n
  BY <1>1, <1>2 DEF ActualSlash, Least
<1>4. /\ available' = [a \in Identities |->
            available[a] + credits[a] + (IF a = challenger THEN toChallenger ELSE 0)]
      /\ staked' = [staked EXCEPT ![offender] = @ - n]
      /\ totalStaked' = totalStaked - n
  BY DEF Slash
<1>5. stakes' = [stakes EXCEPT ![s] = left]
  BY <1>1 DEF Slash, StakesTypeOK, StakeMaps
<1>6. /\ stakerIndex' = [stakerIndex EXCEPT ![offender] =
            IF stakes[s].amount > n THEN @ ELSE @ \ {s}]
      /\ activeStakesCount' =
            IF stakes[s].amount > n THEN activeStakesCount ELSE SatSub(activeStakesCount, 1)
  BY DEF Slash
<1> HIDE DEF n
<1>7. /\ left \in StakeEntry /\ left.staker = offender /\ left.active = TRUE
      /\ left.amount = stakes[s].amount - n
  <2>1. (stakes[s].amount > n) = TRUE /\ stakes[s].amount - n \in Nat
    BY <1>2, <1>3
  <2>2. left = [stakes[s] EXCEPT !.amount = @ - n, !.active = TRUE]
    BY <2>1
  <2> QED BY <1>1, <1>2, <2>1, <2>2 DEF StakeEntry
<1> HIDE DEF left
<1>8. /\ StakesTypeOK' /\ StakeBooks'
      /\ Total(staked) \in Nat /\ Total(staked') = Total(staked) - n
  <2>1. /\ n \in Nat /\ left \in StakeEntry /\ left.staker = offender
        /\ n <= stakes[s].amount
        /\ stakes[s].amount - n = IF left.active THEN left.amount ELSE 0
    BY <1>3, <1>7
  <2>2. /\ stakerIndex' = [stakerIndex EXCEPT ![offender] = IF left.active THEN @ ELSE @ \ {s}]
        /\ activeStakesCount' =
              IF left.active THEN activeStakesCount ELSE SatSub(activeStakesCount, 1)
    BY <1>3, <1>6, <1>7
  <2> QED BY <1>1, <1>4, <1>5, <2>1, <2>2, TakeStakeBooks
<1>9. /\ JuryShare(n) \in Nat /\ ChallengerShare(n) \in Nat /\ PoolShare(n) \in Nat
      /\ PoolShare(n) + ChallengerShare(n) + JuryShare(n) = n
  BY <1>3, SharesAddUp
<1>10. /\ credits \in [Identities -> Nat]
       /\ Total(credits) = IF DOMAIN jury = {} THEN 0 ELSE JuryShare(n)
  BY ONLY <1>9, JuryTotal, size \in Nat, jury \in [1..size -> Identities]
<1>11. /\ gross \in Nat
       /\ gross = PoolShare(n) + (IF DOMAIN jury = {} THEN JuryShare(n) ELSE 0)
  BY ONLY <1>9 DEF PoolCredit
<1> HIDE DEF gross, credits
<1>12. pooled \in Nat /\ pooled <= gross
  BY <1>1, <1>11, FundedPart
<1> HIDE DEF pooled
<1>13. toChallenger \in Nat /\ toChallenger = ChallengerShare(n) + (gross - pooled)
  <2>1. gross - pooled \in Nat
    BY <1>11, <1>12
  <2>2. ChallengerShare(n) \in Nat
    BY <1>9
  <2> QED BY <2>1, <2>2
<1> HIDE DEF toChallenger
<1>14. /\ available \in [Identities -> Nat] /\ Total(available) \in Nat
       /\ Total(credits) \in Nat /\ Total(mid) = Total(available) + Total(credits)
       /\ mid \in [Identities -> Nat]
  <2>1. IsFiniteSet(Identities) /\ available \in [Identities -> Nat]
    BY <1>1, AccountsConstants DEF AccountsTypeOK
  <2>2. credits \in [Identities -> Nat]
    BY <1>10
  <2>3. Total(available) \in Nat /\ Total(credits) \in Nat
    BY ONLY <2>1, <2>2, UnitsFinite
  <2>4. Total([a \in Identities |-> available[a] + credits[a]])
          = Total(available) + Total(credits)
    BY ONLY <2>1, <2>2, TotalSum
  <2>5. mid \in [Identities -> Nat]
    BY <2>1, <2>2
  <2> QED BY <2>1, <2>3, <2>4, <2>5
<1>15. /\ available' \in [Identities -> Nat]
       /\ Total(available') = Total(mid) + toChallenger
  <2>1. /\ available' \in [Identities -> Nat]
        /\ available'[challenger] = mid[challenger] + toChallenger
        /\ \A x \in Identities : x # challenger => available'[x] = mid[x]
    <3>1. /\ toChallenger \in Nat /\ challenger \in Identities
          /\ \A x \in Identities : mid[x] \in Nat /\ mid[x] = available[x] + credits[x]
      BY ONLY <1>13, <1>14, challenger \in Identities
    <3>2. \A x \in Identities :
            available'[x] = mid[x] + (IF x = challenger THEN toChallenger ELSE 0)
      BY ONLY <1>4, <3>1
    <3> HIDE DEF mid
    <3>3. ASSUME NEW x \in Identities PROVE available'[x] \in Nat
      <4>1. /\ available'[x] = mid[x] + (IF x = challenger THEN toChallenger ELSE 0)
            /\ mid[x] \in Nat /\ toChallenger \in Nat
        BY ONLY <3>1, <3>2, x \in Identities
      <4> QED BY ONLY <4>1
    <3>4. available' = [x \in Identities |-> available'[x]]
      BY <1>4
    <3> QED BY <3>1, <3>2, <3>3, <3>4
  <2> HIDE DEF mid
  <2> QED BY <1>13, <1>14, <2>1, TotalAdd
<1> HIDE DEF mid
<1>16. AccountsTypeOK'
  <2>1. conservationPool' \in Nat /\ totalSupply' \in 0..MaxSupply
    BY <1>1, <1>12 DEF AccountsTypeOK
  <2> QED BY <1>1, <1>15, <2>1, ApplyType, TouchType DEF AccountsTypeOK
<1>17. FreshStakes'
  <2>1. applied' = applied \cup {r}
    BY <1>1 DEF Apply
  <2>2. s \notin Records \ applied
    BY <1>1 DEF StakingInv, FreshStakes, Active, NoStake
  <2> QED BY <1>5, <2>1, <2>2 DEF StakingInv, FreshStakes, StakingTypeOK
<1>18. StakingInv'
  BY <1>8, <1>16, <1>17, StakingTypes DEF StakingInv
<1>19. conservationPool \in Nat
  BY <1>1 DEF AccountsTypeOK
<1>20. Total(credits) + toChallenger + pooled = n
  <2> DEFINE c == ChallengerShare(n)
             p == PoolShare(n)
             j == JuryShare(n)
             t == Total(credits)
  <2>1. c \in Nat /\ p \in Nat /\ j \in Nat /\ p + c + j = n
    BY <1>9
  <2>2. /\ gross \in Nat /\ pooled \in Nat /\ toChallenger \in Nat
        /\ toChallenger = c + (gross - pooled)
    BY <1>11, <1>12, <1>13
  <2>3. gross + t = p + j
    <3>1. CASE DOMAIN jury = {}
      BY <1>10, <1>11, <2>1, <3>1
    <3>2. CASE DOMAIN jury # {}
      BY <1>10, <1>11, <2>1, <3>2
    <3> QED BY <3>1, <3>2
  <2>4. t \in Nat
    BY <1>14
  <2> HIDE DEF c, p, j, t
  <2>5. t + toChallenger + pooled = n
    <3>1. n \in Nat
      BY <1>3
    <3> QED BY ONLY <2>1, <2>2, <2>3, <2>4, <3>1
  <2> QED BY <2>5 DEF t
<1>21. Total(available') + Total(staked') + conservationPool'
         = Total(available) + Total(staked) + conservationPool
  <2> DEFINE A == Total(available)
             A2 == Total(available')
             S == Total(staked)
             S2 == Total(staked')
             t == Total(credits)
  <2>1. /\ A \in Nat /\ S \in Nat /\ t \in Nat /\ n \in Nat /\ pooled \in Nat
        /\ toChallenger \in Nat /\ conservationPool \in Nat
    BY <1>3, <1>8, <1>12, <1>13, <1>14, <1>19
  <2>2. /\ A2 = A + t + toChallenger /\ S2 = S - n
        /\ conservationPool' = conservationPool + pooled
        /\ t + toChallenger + pooled = n
    BY <1>1, <1>8, <1>14, <1>15, <1>20
  <2> HIDE DEF A, A2, S, S2, t
  <2>3. A2 + S2 + conservationPool' = A + S + conservationPool
    BY <2>1, <2>2
  <2> QED BY <2>3 DEF A, A2, S, S2
<1> QED BY <1>1, <1>18, <1>21 DEF StakingKept
-----------------------------------------------------------------------------
\* The operations on stakes keep the books and the sum of the three pots.
LEMMA StakingOpsKept ==
    ASSUME StakingInv, StakingOps
    PROVE  StakingKept
<1>1. CASE \E r \in Records, a \in Identities, ts \in Times :
             \/ \E amount \in Amounts : Stake(r, a, amount, ts)
             \/ \E s \in StakeIds : Unstake(r, a, s, ts)
  <2>1. PICK r \in Records, a \in Identities, ts \in Times :
          \/ \E amount \in Amounts : Stake(r, a, amount, ts)
          \/ \E s \in StakeIds : Unstake(r, a, s, ts)
    BY <1>1
  <2>2. CASE \E amount \in Amounts : Stake(r, a, amount, ts)
    BY <2>2, StakeKept
  <2>3. CASE \E s \in StakeIds : Unstake(r, a, s, ts)
    BY <2>3, UnstakeKept
  <2> QED BY <2>1, <2>2, <2>3
<1>2. CASE \E r \in Records, s \in StakeIds, offender, challenger \in Identities,
             amount \in Amounts, ts \in Times :
             \E size \in 0..MaxJury : \E jury \in [1..size -> Identities] :
                 Slash(r, offender, s, amount, challenger, jury, ts)
  <2>1. PICK r \in Records, s \in StakeIds, offender \in Identities,
             challenger \in Identities, amount \in Amounts, ts \in Times :
             \E size \in 0..MaxJury : \E jury \in [1..size -> Identities] :
                 Slash(r, offender, s, amount, challenger, jury, ts)
    BY <1>2
  <2>2. PICK size \in 0..MaxJury : \E jury \in [1..size -> Identities] :
                 Slash(r, offender, s, amount, challenger, jury, ts)
    BY <2>1
  <2>3. PICK jury \in [1..size -> Identities] :
                 Slash(r, offender, s, amount, challenger, jury, ts)
    BY <2>2
  <2>4. size \in Nat
    BY StakingConstants
  <2> QED BY <2>3, <2>4, SlashKept
<1>3. CASE \E a \in Identities : ApplyGenesisValidator(a)
  BY <1>3, GenesisKept
<1>4. CASE RebuildStakerIndex
  BY <1>4, RebuildKept
<1> QED BY <1>1, <1>2, <1>3, <1>4 DEF StakingOps

\* A step that leaves the stakes alone keeps their books.
LEMMA StakesIdle ==
    ASSUME StakingInv, AccountsTypeOK', UNCHANGED stakingVars, applied \subseteq applied'
    PROVE  StakingInv' /\ Total(staked') = Total(staked)
<1>1. StakesTypeOK
  BY StakingTypes DEF StakingInv
<1>2. StakesTypeOK'
  BY <1>1 DEF StakesTypeOK, stakingVars
<1>3. StakeBooks' /\ FreshStakes'
  <2>1. /\ staked' = staked /\ stakes' = stakes /\ stakerIndex' = stakerIndex
        /\ activeStakesCount' = activeStakesCount /\ totalStaked' = totalStaked
    BY DEF stakingVars
  <2>2. StakeBooks /\ FreshStakes
    BY DEF StakingInv
  <2>3. StakeBooks'
    BY ONLY <2>1, <2>2 DEF StakeBooks, StakeOf, Active
  <2>4. FreshStakes'
    BY ONLY <2>1, <2>2, applied \subseteq applied' DEF FreshStakes
  <2> QED BY ONLY <2>3, <2>4
<1>4. StakingTypeOK'
  BY <1>2, StakingTypes
<1> QED BY <1>3, <1>4 DEF StakingInv, stakingVars

LEMMA StakingStart ==
    ASSUME AccountsInit, StakingInit
    PROVE  StakingInv /\ Total(staked) = 0 /\ AccountsTypeOK
<1>1. AccountsTypeOK
  <2>1. available \in [Identities -> Nat] /\ Total(available) <= MaxSupply /\ MaxSupply \in Nat
    BY AccountsConstants DEF AccountsInit
  <2>2. Total(available) \in Nat
    BY <2>1, AccountsConstants, UnitsFinite
  <2> QED BY <2>1, <2>2 DEF AccountsInit, AccountsTypeOK
<1>2. StakesTypeOK
  BY DEF StakingInit, StakesTypeOK, StakeMaps
<1>3. FreshStakes
  BY DEF StakingInit, FreshStakes, StakeIds
<1>4. staked \in [Identities -> Nat] /\ \A a \in Identities : staked[a] = 0
  BY DEF StakingInit
<1>5. Total(staked) = 0
  BY <1>4, TotalZero
<1>6. \A s \in StakeIds : ~ Active(s)
  BY DEF StakingInit, Active, NoStake
<1>7. \A a \in Identities : StakeOf(a) = 0
  <2> TAKE a \in Identities
  <2>1. StakeOf(a) = WeightOf(stakes, a)
    BY <1>2, StakeOfIsWeight DEF StakeOf, Active, StakesTypeOK
  <2> DEFINE f == [s \in StakeIds |-> Weight(stakes, s, a)]
  <2>2. f \in [StakeIds -> Nat] /\ \A s \in StakeIds : f[s] = 0
    BY <1>6 DEF Weight, Active
  <2>3. WeightOf(stakes, a) = Total(f)
    BY DEF WeightOf
  <2> HIDE DEF f
  <2> QED BY <2>1, <2>2, <2>3, TotalZero
<1>8. StakeBooks
  <2>1. {s \in StakeIds : Active(s)} = {}
    BY <1>6
  <2>2. Cardinality({s \in StakeIds : Active(s)}) = 0
    BY <2>1, FS_EmptySet
  <2>3. \A a \in Identities :
          stakerIndex[a] = {s \in StakeIds : Active(s) /\ stakes[s].staker = a}
    BY <1>6 DEF StakingInit
  <2> QED BY <1>4, <1>5, <1>7, <2>2, <2>3 DEF StakeBooks, StakingInit
<1>9. StakingTypeOK
  BY <1>1, <1>2, StakingTypes
<1> QED BY <1>1, <1>3, <1>5, <1>8, <1>9 DEF StakingInv

\* The inductive invariant of STSpec.
STInv == StakingInv /\ StakingConservation

LEMMA STInductive == STSpec => []STInv
<1>1. STInit => STInv
  <2> SUFFICES ASSUME STInit PROVE STInv
    OBVIOUS
  <2>1. StakingInv /\ Total(staked) = 0 /\ AccountsTypeOK
    BY StakingStart DEF STInit
  <2>2. /\ totalSupply = Total(available) /\ conservationPool = 0 /\ totalSupply \in Nat
    BY <2>1, AccountsConstants DEF STInit, AccountsInit, AccountsTypeOK
  <2> QED BY <2>1, <2>2 DEF STInv, StakingConservation
<1>2. STInv /\ [STNext]_<<accountVars, stakingVars>> => STInv'
  <2> SUFFICES ASSUME STInv, [STNext]_<<accountVars, stakingVars>> PROVE STInv'
    OBVIOUS
  <2>1. StakingInv /\ StakingConservation /\ AccountsTypeOK /\ StakesTypeOK
    BY StakingTypes DEF STInv, StakingInv
  <2>2. /\ Total(available) \in Nat /\ Total(staked) \in Nat /\ conservationPool \in Nat
        /\ totalSupply \in Nat
    BY <2>1, AccountsConstants, UnitsFinite DEF AccountsTypeOK, StakesTypeOK
  <2>3. CASE StakingOps
    BY <2>1, <2>3, StakingOpsKept DEF StakingKept, STInv, StakingConservation
  <2>4. CASE AccountOps(Times) /\ UNCHANGED stakingVars
    <3>1. /\ AccountsTypeOK' /\ applied \subseteq applied'
          /\ Flow' + totalSupply = Flow + totalSupply'
      BY <2>1, <2>4, AccountFlow
    <3>2. StakingInv' /\ Total(staked') = Total(staked)
      BY <2>1, <2>4, <3>1, StakesIdle
    <3>3. Total(available') \in Nat /\ conservationPool' \in Nat /\ totalSupply' \in Nat
      BY <3>1, AccountsConstants, UnitsFinite DEF AccountsTypeOK
    <3>4. StakingConservation'
      <4>1. Total(available') + conservationPool' + totalSupply
              = Total(available) + conservationPool + totalSupply'
        BY ONLY <3>1 DEF Flow
      <4>2. Total(available) + Total(staked) + conservationPool = totalSupply
        BY ONLY <2>1 DEF StakingConservation
      <4>3. Total(available') + Total(staked') + conservationPool' = totalSupply'
        BY ONLY <2>2, <3>2, <3>3, <4>1, <4>2
      <4> QED BY ONLY <4>3 DEF StakingConservation
    <3> QED BY <3>2, <3>4 DEF STInv
  <2>5. CASE UNCHANGED <<accountVars, stakingVars>>
    <3>1. AccountsTypeOK' /\ applied \subseteq applied'
      BY <2>1, <2>5 DEF AccountsTypeOK, accountVars
    <3>2. StakingInv'
      BY <2>1, <2>5, <3>1, StakesIdle
    <3> QED BY <2>1, <2>5, <3>2 DEF STInv, StakingConservation, accountVars, stakingVars
  <2> QED BY <2>3, <2>4, <2>5 DEF STNext
<1> QED BY <1>1, <1>2, PTL DEF STSpec

\* No balance, stake or total ever leaves its type: no subtraction of Stake,
\* Unstake, Slash or the genesis carve underflows.
THEOREM StakingTypeCorrect == STSpec => []StakingTypeOK
BY STInductive, PTL DEF STInv, StakingInv

\* The five books of a stake agree, for any identities, records, juries and
\* order of operations, index rebuilds and genesis carves included.
THEOREM StakeBooksAgree == STSpec => []StakeBooks
BY STInductive, PTL DEF STInv, StakingInv

\* Staking, unstaking and slashing lose and invent nothing, the dust of the
\* divisions included.
THEOREM StakingConserves == STSpec => []StakingConservation
BY STInductive, PTL DEF STInv
-----------------------------------------------------------------------------
\* A credit to the pool stops at the cap, or leaves a pool beyond it alone.
LEMMA FundedUnderCap ==
    ASSUME AccountsTypeOK, NEW n \in Nat
    PROVE  conservationPool + Funded(n) <= Greatest(conservationPool, PoolCap)
<1>1. totalSupply \in Nat /\ conservationPool \in Nat
  BY AccountsConstants DEF AccountsTypeOK
<1>2. PoolCap \in Nat
  BY <1>1 DEF PoolCap
<1> QED BY <1>1, <1>2 DEF Funded, Least, PoolHeadroom, SatSub, Greatest

LEMMA SlashPools ==
    ASSUME StakingInv, NEW r, NEW offender, NEW s \in StakeIds, NEW amount \in Amounts,
           NEW challenger, NEW jury, NEW ts,
           Slash(r, offender, s, amount, challenger, jury, ts)
    PROVE  conservationPool' <= Greatest(conservationPool, PoolCap)
<1> DEFINE n == ActualSlash(amount, stakes[s].amount)
           gross == PoolCredit(n, jury)
<1>1. /\ AccountsTypeOK /\ StakesTypeOK /\ StakeBooks /\ Active(s) /\ amount \in Nat
      /\ conservationPool' = conservationPool + Funded(gross)
  BY StakingTypes, AccountsConstants DEF StakingInv, Slash
<1>2. stakes[s].amount \in Nat
  BY <1>1, ActiveEntry
<1>3. n \in Nat
  BY <1>1, <1>2 DEF ActualSlash, Least
<1> HIDE DEF n
<1>4. gross \in Nat
  <2>1. PoolShare(n) \in Nat /\ JuryShare(n) \in Nat
    BY <1>3, SharesAddUp
  <2> QED BY <2>1 DEF PoolCredit
<1> HIDE DEF gross
<1> QED BY <1>1, <1>4, FundedUnderCap

\* Only a slash takes from the stakes and gives to the pool, and what it gives
\* stops at the cap.
THEOREM SlashCapped == STSpec => SlashUnderCap
<1> DEFINE v == <<accountVars, stakingVars>>
<1>1. STInv /\ [STNext]_v => [SlashUnderCapStep]_v
  <2> SUFFICES ASSUME STInv, STNext PROVE SlashUnderCapStep
    OBVIOUS
  <2>1. StakingInv /\ AccountsTypeOK /\ StakesTypeOK
    BY StakingTypes DEF STInv, StakingInv
  <2>2. totalStaked \in Nat /\ conservationPool \in Nat /\ PoolCap \in Nat /\ Amounts \subseteq Nat
    BY <2>1, AccountsConstants DEF AccountsTypeOK, StakesTypeOK, PoolCap
  <2>3. conservationPool <= Greatest(conservationPool, PoolCap)
    BY <2>2 DEF Greatest
  <2>4. CASE \E r \in Records, a \in Identities, ts \in Times :
               \/ \E amount \in Amounts : Stake(r, a, amount, ts)
               \/ \E s \in StakeIds : Unstake(r, a, s, ts)
    <3>1. conservationPool' = conservationPool
      BY <2>4 DEF Stake, Unstake
    <3> QED BY <2>3, <3>1 DEF SlashUnderCapStep
  <2>5. CASE \E r \in Records, s \in StakeIds, offender, challenger \in Identities,
               amount \in Amounts, ts \in Times :
               \E size \in 0..MaxJury : \E jury \in [1..size -> Identities] :
                   Slash(r, offender, s, amount, challenger, jury, ts)
    <3>1. PICK r \in Records, s \in StakeIds, offender \in Identities,
               challenger \in Identities, amount \in Amounts, ts \in Times :
               \E size \in 0..MaxJury : \E jury \in [1..size -> Identities] :
                   Slash(r, offender, s, amount, challenger, jury, ts)
      BY <2>5
    <3> QED BY <2>1, <3>1, SlashPools DEF SlashUnderCapStep
  <2>6. CASE \E a \in Identities : ApplyGenesisValidator(a)
    <3>1. conservationPool' = conservationPool
      BY <2>6 DEF ApplyGenesisValidator
    <3> QED BY <2>3, <3>1 DEF SlashUnderCapStep
  <2>7. CASE RebuildStakerIndex
    <3>1. conservationPool' = conservationPool
      BY <2>7 DEF RebuildStakerIndex, accountVars
    <3> QED BY <2>3, <3>1 DEF SlashUnderCapStep
  <2>8. CASE AccountOps(Times) /\ UNCHANGED stakingVars
    BY <2>2, <2>8 DEF stakingVars, SlashUnderCapStep
  <2> QED BY <2>4, <2>5, <2>6, <2>7, <2>8 DEF STNext, StakingOps
<1> QED BY <1>1, STInductive, PTL DEF STSpec, SlashUnderCap
=============================================================================
