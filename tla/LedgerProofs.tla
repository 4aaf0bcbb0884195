---------------------------- MODULE LedgerProofs ----------------------------
(***************************************************************************)
(* Proofs about Predictions, Dormancy and Ledger.  One lemma per operation *)
(* says which pots it moves beat between; the theorems about PRSpec,       *)
(* DOSpec and LGSpec add them up.                                          *)
(***************************************************************************)
EXTENDS Ledger, StakingProofs

-----------------------------------------------------------------------------
\* The stakes that a map of predictions holds open.
PredictionMaps == [Records -> PredictionEntry \cup {NoPrediction}]
Staked(pr, p) == IF pr[p].outcome = "None" THEN pr[p].amount ELSE 0
StakesIn(pr) == [p \in Records |-> Staked(pr, p)]

LEMMA StakesInType ==
    ASSUME NEW pr \in PredictionMaps
    PROVE  StakesIn(pr) \in [Records -> Nat] /\ Total(StakesIn(pr)) \in Nat
<1>1. ASSUME NEW p \in Records PROVE Staked(pr, p) \in Nat
  <2>1. pr[p] \in PredictionEntry \cup {NoPrediction}
    BY DEF PredictionMaps
  <2>2. CASE pr[p] = NoPrediction
    BY <2>2 DEF NoPrediction, Staked
  <2>3. CASE pr[p] \in PredictionEntry
    BY <2>3 DEF PredictionEntry, Staked
  <2> QED BY <2>1, <2>2, <2>3
<1>2. StakesIn(pr) \in [Records -> Nat]
  BY <1>1 DEF StakesIn
<1> QED BY <1>2, AccountsConstants, UnitsFinite, Zenon

\* Replacing one entry moves the sum by the difference of what it holds.
LEMMA StakesInPut ==
    ASSUME NEW pr \in PredictionMaps, NEW pr2 \in PredictionMaps, NEW p \in Records,
           \A q \in Records : q # p => pr2[q] = pr[q]
    PROVE  /\ Total(StakesIn(pr)) \in Nat /\ Total(StakesIn(pr2)) \in Nat
           /\ Total(StakesIn(pr2)) = Total(StakesIn(pr)) - Staked(pr, p) + Staked(pr2, p)
<1> DEFINE f == StakesIn(pr)
           g == StakesIn(pr2)
<1>1. /\ IsFiniteSet(Records) /\ f \in [Records -> Nat] /\ g \in [Records -> Nat] /\ p \in Records
      /\ Total(f) \in Nat /\ Total(g) \in Nat
  BY AccountsConstants, StakesInType
<1>2. f[p] = Staked(pr, p) /\ g[p] = Staked(pr2, p) /\ \A q \in Records : q # p => g[q] = f[q]
  BY DEF StakesIn, Staked
<1> HIDE DEF f, g
<1>3. Total(g) = Total(f) - f[p] + g[p]
  BY ONLY <1>1, <1>2, TotalPut
<1> QED BY <1>1, <1>2, <1>3 DEF f, g

\* The inductive invariant of predictions: a record that was not applied has no
\* entry, and an evaluation has only open ones before it.
PredictionsInv ==
    /\ PredictionsTypeOK
    /\ \A r \in Records \ applied : predictions[r] = NoPrediction
    /\ \A p \in evaluating : Open(p)

PredictionFlow == Total(available) + Total(PredictionStakes) + conservationPool

PredictionsKept ==
    /\ PredictionsInv' /\ applied \subseteq applied'
    /\ PredictionFlow' = PredictionFlow /\ totalSupply' = totalSupply

LEMMA PredictionStakesIn ==
    PredictionStakes = StakesIn(predictions) /\ PredictionStakes' = StakesIn(predictions')
BY DEF PredictionStakes, StakesIn, Staked, Open

LEMMA PredictKept ==
    ASSUME PredictionsInv, evaluating = {}, NEW r \in Records, NEW a \in Identities,
           NEW amount \in Amounts, NEW epoch \in Epochs, NEW claim \in Claims,
           NEW value \in PredictedValues, NEW ts \in Times,
           Predict(r, a, amount, epoch, claim, value, ts)
    PROVE  PredictionsKept
<1> DEFINE e == [predictor |-> a, amount |-> amount, epoch |-> epoch, claim |-> claim,
                 value |-> value, outcome |-> "None"]
<1>1. /\ AccountsTypeOK /\ predictions \in PredictionMaps /\ amount \in Nat
      /\ available \in [Identities -> Nat] /\ conservationPool \in Nat
      /\ r \notin applied /\ predictions[r] = NoPrediction
  BY AccountsConstants, Zenon
    DEF PredictionsInv, PredictionsTypeOK, AccountsTypeOK, PredictionMaps, Predict, Apply
<1>2. /\ amount <= available[a] /\ available' = [available EXCEPT ![a] = @ - amount]
      /\ predictions' = [predictions EXCEPT ![r] = e]
      /\ Apply(r, ts) /\ Touch({a}, ts) /\ applied' = applied \cup {r}
      /\ UNCHANGED <<totalSupply, conservationPool, passes, evaluating, observed, skipped>>
  BY DEF Predict, Debit, Apply
<1>3. e \in PredictionEntry /\ e.outcome = "None" /\ e.amount = amount
  BY <1>1, Zenon DEF PredictionEntry
<1> HIDE DEF e
<1>4. /\ predictions' \in PredictionMaps /\ predictions'[r] = e
      /\ \A q \in Records : q # r => predictions'[q] = predictions[q]
  BY <1>1, <1>2, <1>3, Zenon DEF PredictionMaps
<1>5. Staked(predictions, r) = 0 /\ Staked(predictions', r) = amount
  BY <1>1, <1>3, <1>4 DEF Staked, NoPrediction
<1>6. /\ Total(PredictionStakes) \in Nat
      /\ Total(PredictionStakes') = Total(PredictionStakes) + amount
  <2>1. /\ Total(StakesIn(predictions)) \in Nat
        /\ Total(StakesIn(predictions')) =
             Total(StakesIn(predictions)) - Staked(predictions, r) + Staked(predictions', r)
    BY <1>1, <1>4, StakesInPut, Zenon
  <2> QED BY <1>1, <1>5, <2>1, PredictionStakesIn
<1>7. /\ available' \in [Identities -> Nat] /\ Total(available) \in Nat
      /\ Total(available') = Total(available) - amount
  BY <1>1, <1>2, TotalTake
<1>8. AccountsTypeOK'
  BY <1>1, <1>2, <1>7, ApplyType, TouchType DEF AccountsTypeOK
<1>9. PredictionsInv'
  BY <1>2, <1>4, <1>8 DEF PredictionsInv, PredictionsTypeOK, PredictionMaps
<1>10. PredictionFlow' = PredictionFlow
  BY <1>1, <1>2, <1>6, <1>7 DEF PredictionFlow
<1> QED BY <1>2, <1>9, <1>10, Zenon DEF PredictionsKept

\* The two passes over a seal move nothing.
LEMMA EvaluatePredictionsKept ==
    ASSUME PredictionsInv, NEW epoch \in Epochs, NEW seen \in Observation,
           EvaluatePredictions(epoch, seen)
    PROVE  PredictionsKept
<1>1. /\ UNCHANGED accountVars /\ UNCHANGED <<predictions, skipped>>
      /\ evaluating' = PredictionsFor(epoch)
      /\ observed' \in Observation \cup {NoObservation}
  BY DEF EvaluatePredictions
<1>2. passes' \in [Epochs -> 0..MaxPasses]
  BY PredictionsConstants DEF EvaluatePredictions, PredictionsInv, PredictionsTypeOK
<1>3. evaluating' \subseteq Records /\ \A p \in evaluating' : Open(p)'
  BY <1>1 DEF PredictionsFor, Open
<1>4. AccountsTypeOK'
  BY <1>1 DEF PredictionsInv, PredictionsTypeOK, AccountsTypeOK, accountVars
<1>5. PredictionsInv'
  BY <1>1, <1>2, <1>3, <1>4, Zenon DEF PredictionsInv, PredictionsTypeOK, accountVars
<1> QED BY <1>1, <1>5 DEF PredictionsKept, PredictionFlow, PredictionStakes, Open, accountVars

LEMMA SkipEvaluationKept ==
    ASSUME PredictionsInv, NEW epoch \in Epochs, SkipEvaluation(epoch)
    PROVE  PredictionsKept
<1>1. /\ UNCHANGED accountVars /\ UNCHANGED <<predictions, evaluating, observed>>
      /\ skipped' = skipped \cup PredictionsFor(epoch)
  BY DEF SkipEvaluation
<1>2. passes' \in [Epochs -> 0..MaxPasses]
  BY PredictionsConstants DEF SkipEvaluation, PredictionsInv, PredictionsTypeOK
<1>3. skipped' \subseteq Records
  BY <1>1 DEF PredictionsFor, PredictionsInv, PredictionsTypeOK
<1>4. AccountsTypeOK'
  BY <1>1 DEF PredictionsInv, PredictionsTypeOK, AccountsTypeOK, accountVars
<1>5. PredictionsInv'
  BY <1>1, <1>2, <1>3, <1>4, Zenon DEF PredictionsInv, PredictionsTypeOK, accountVars, Open
<1> QED BY <1>1, <1>5 DEF PredictionsKept, PredictionFlow, PredictionStakes, Open, accountVars

\* What one round of an evaluation pays out to the predictor: the rest of the
\* stake goes to the pool, or the excess comes from it.
LEMMA RoundPays ==
    ASSUME PredictionsInv, NEW p \in Records, NEW multiplier \in {0, 1},
           EvaluateNext(p, multiplier)
    PROVE  LET n == predictions[p].amount
               a == predictions[p].predictor
           IN /\ predictions[p] \in PredictionEntry /\ Open(p)
              /\ \E gain \in Nat :
                   /\ Credit(a, gain)
                   /\ conservationPool' = conservationPool + n - gain
                   /\ conservationPool' \in Nat
                   /\ predictions'[p].outcome = "Correct" => n <= gain /\ 10 * gain <= 11 * n
                   /\ predictions'[p].outcome = "Wrong" /\ conservationPool < PoolCap =>
                         gain < n \/ n = 0
<1> DEFINE n == predictions[p].amount
           a == predictions[p].predictor
           correct == EvaluateClaim(predictions[p].claim, predictions[p].value, Handed(observed))
<1>1. /\ AccountsTypeOK /\ predictions \in PredictionMaps /\ conservationPool \in Nat
      /\ Open(p) /\ totalSupply \in Nat
  BY AccountsConstants
    DEF PredictionsInv, PredictionsTypeOK, AccountsTypeOK, PredictionMaps, EvaluateNext
<1>2. predictions[p] \in PredictionEntry
  BY <1>1 DEF PredictionMaps, NoPrediction, Open
<1>3. n \in Nat
  BY <1>2 DEF PredictionEntry
<1>4. /\ IF correct THEN PayCorrect(p, multiplier) ELSE ConfiscateWrong(p)
      /\ predictions' = [predictions EXCEPT ![p].outcome = IF correct THEN "Correct" ELSE "Wrong"]
  BY DEF EvaluateNext
<1>5. predictions'[p].outcome = IF correct THEN "Correct" ELSE "Wrong"
  BY <1>1, <1>2, <1>4, Zenon DEF PredictionMaps, PredictionEntry
<1> HIDE DEF correct
<1>6. CASE correct
  <2> DEFINE reward == Reward(n, multiplier)
  <2>1. reward \in Nat /\ reward <= conservationPool /\ 10 * reward <= n
    <3>1. n \div 10 \in Nat /\ 10 * (n \div 10) <= n
      BY <1>3
    <3> DEFINE m == (n \div 10) * multiplier
    <3>2. m \in Nat /\ 10 * m <= n
      <4>1. CASE multiplier = 0
        BY <1>3, <3>1, <4>1
      <4>2. CASE multiplier = 1
        BY <1>3, <3>1, <4>2
      <4> QED BY <4>1, <4>2, Zenon
    <3>3. reward = Least(m, conservationPool)
      BY DEF Reward
    <3> HIDE DEF m, reward
    <3> QED BY <1>1, <1>3, <3>2, <3>3 DEF Least
  <2>2. conservationPool' = conservationPool - reward /\ Credit(a, n + reward)
    BY <1>4, <1>6 DEF PayCorrect
  <2> HIDE DEF reward, n, a
  <2>3. /\ n + reward \in Nat /\ conservationPool' = conservationPool + n - (n + reward)
        /\ conservationPool' \in Nat /\ n <= n + reward /\ 10 * (n + reward) <= 11 * n
    BY <1>1, <1>3, <2>1, <2>2
  <2>4. predictions'[p].outcome # "Wrong"
    BY <1>5, <1>6, Zenon
  <2> QED BY <1>1, <1>2, <2>2, <2>3, <2>4, Zenon DEF n, a
<1>7. CASE ~correct
  <2> DEFINE pooled == Funded(n)
  <2>1. pooled \in Nat /\ pooled <= n
    BY <1>1, <1>3, FundedPart, Zenon
  <2>2. conservationPool < PoolCap => pooled > 0 \/ n = 0
    <3>1. PoolCap \in Nat
      BY <1>1 DEF PoolCap
    <3> QED BY <1>1, <1>3, <3>1 DEF Funded, Least, PoolHeadroom, SatSub
  <2>3. conservationPool' = conservationPool + pooled /\ Credit(a, n - pooled)
    BY <1>4, <1>7 DEF ConfiscateWrong
  <2> HIDE DEF pooled, n, a
  <2>4. /\ n - pooled \in Nat /\ conservationPool' = conservationPool + n - (n - pooled)
        /\ conservationPool' \in Nat
        /\ conservationPool < PoolCap => n - pooled < n \/ n = 0
    BY <1>1, <1>3, <2>1, <2>2, <2>3
  <2>5. predictions'[p].outcome # "Correct"
    BY <1>5, <1>7
  <2> QED BY <1>1, <1>2, <2>3, <2>4, <2>5, Zenon DEF n, a
<1> QED BY <1>6, <1>7, Zenon

LEMMA EvaluateNextKept ==
    ASSUME PredictionsInv, NEW p \in Records, NEW multiplier \in {0, 1},
           EvaluateNext(p, multiplier)
    PROVE  PredictionsKept
<1> DEFINE n == predictions[p].amount
           a == predictions[p].predictor
<1>1. PICK gain \in Nat : /\ Credit(a, gain)
                          /\ conservationPool' = conservationPool + n - gain
                          /\ conservationPool' \in Nat
  BY RoundPays, Zenon
<1>2. /\ predictions[p] \in PredictionEntry /\ Open(p) /\ n \in Nat /\ a \in Identities
      /\ predictions[p].outcome = "None"
  BY RoundPays DEF PredictionEntry, Open
<1>3. /\ AccountsTypeOK /\ predictions \in PredictionMaps /\ conservationPool \in Nat
      /\ available \in [Identities -> Nat]
  BY DEF PredictionsInv, PredictionsTypeOK, AccountsTypeOK, PredictionMaps
<1>4. /\ evaluating' = evaluating \ {p} /\ skipped' = skipped \ {p}
      /\ observed' \in {NoObservation, observed}
      /\ UNCHANGED <<lastActive, totalSupply, applied, lastAppliedTs, passes>>
  BY DEF EvaluateNext
<1>5. PICK o \in {"Correct", "Wrong"} :
        predictions' = [predictions EXCEPT ![p] = [@ EXCEPT !.outcome = o]]
  BY Zenon DEF EvaluateNext
<1>6. /\ predictions' \in PredictionMaps /\ predictions'[p].outcome # "None"
      /\ \A q \in Records : q # p => predictions'[q] = predictions[q]
  <2>1. [predictions[p] EXCEPT !.outcome = o] \in PredictionEntry
    BY <1>2, <1>5 DEF PredictionEntry
  <2> QED BY <1>2, <1>3, <1>5, <2>1 DEF PredictionMaps, PredictionEntry
<1>7. Staked(predictions, p) = n /\ Staked(predictions', p) = 0
  BY <1>2, <1>6 DEF Staked
<1> HIDE DEF n, a
<1>8. /\ Total(PredictionStakes) \in Nat
      /\ Total(PredictionStakes') = Total(PredictionStakes) - n
  <2>1. /\ Total(StakesIn(predictions)) \in Nat
        /\ Total(StakesIn(predictions')) =
             Total(StakesIn(predictions)) - Staked(predictions, p) + Staked(predictions', p)
    BY <1>3, <1>6, StakesInPut, Zenon
  <2> QED BY <1>2, <1>7, <2>1, PredictionStakesIn
<1>9. /\ available' \in [Identities -> Nat] /\ Total(available) \in Nat
      /\ Total(available') = Total(available) + gain
  BY <1>1, <1>2, <1>3, CreditTotal, Zenon
<1>10. AccountsTypeOK'
  BY <1>1, <1>3, <1>4, <1>9, Zenon DEF AccountsTypeOK
<1>11. PredictionsInv'
  <2>1. p \in evaluating /\ p \in applied
    BY <1>2 DEF EvaluateNext, PredictionsInv, NoPrediction
  <2>2. \A q \in evaluating' : Open(q)'
    BY <1>4, <1>6, Zenon DEF PredictionsInv, PredictionsTypeOK, Open
  <2>3. \A q \in Records \ applied' : predictions'[q] = NoPrediction
    BY <1>4, <1>6, <2>1, Zenon DEF PredictionsInv
  <2>4. PredictionsTypeOK'
    BY <1>4, <1>6, <1>10, Zenon DEF PredictionsInv, PredictionsTypeOK, PredictionMaps
  <2> QED BY <2>2, <2>3, <2>4, Zenon DEF PredictionsInv
<1>12. PredictionFlow' = PredictionFlow
  BY <1>1, <1>2, <1>3, <1>8, <1>9, SMTT(20) DEF PredictionFlow
<1> QED BY <1>4, <1>11, <1>12, Zenon DEF PredictionsKept

\* Every step of predictions keeps the sum; other steps leave them alone.
LEMMA LockedOpsKept ==
    ASSUME PredictionsInv, evaluating = {}, LockedOps
    PROVE  PredictionsKept
BY PredictKept, EvaluatePredictionsKept, SkipEvaluationKept DEF LockedOps

LEMMA EvaluationStepKept ==
    ASSUME PredictionsInv, EvaluationStep
    PROVE  PredictionsKept
BY EvaluateNextKept, Zenon DEF EvaluationStep

LEMMA PredictionsIdle ==
    ASSUME PredictionsInv, AccountsTypeOK', UNCHANGED predictionVars, applied \subseteq applied'
    PROVE  PredictionsInv' /\ Total(PredictionStakes') = Total(PredictionStakes)
<1>1. PredictionsTypeOK'
  BY DEF PredictionsInv, PredictionsTypeOK, predictionVars
<1>2. /\ \A r \in Records \ applied' : predictions'[r] = NoPrediction
      /\ \A p \in evaluating' : Open(p)'
  BY DEF PredictionsInv, predictionVars, Open
<1> QED BY <1>1, <1>2, Zenon DEF PredictionsInv, PredictionStakes, Open, predictionVars

LEMMA PredictionsStart ==
    ASSUME AccountsTypeOK, PredictionsInit
    PROVE  PredictionsInv /\ Total(PredictionStakes) = 0
<1>1. PredictionsInv
  BY PredictionsConstants DEF PredictionsInit, PredictionsInv, PredictionsTypeOK
<1>2. PredictionStakes \in [Records -> Nat] /\ \A p \in Records : PredictionStakes[p] = 0
  BY DEF PredictionsInit, PredictionStakes, Open, NoPrediction
<1>3. Total(PredictionStakes) = 0
  BY <1>2, TotalZero
<1> QED BY <1>1, <1>3

LEMMA AccountsStart ==
    ASSUME AccountsInit
    PROVE  /\ AccountsTypeOK /\ Total(available) \in Nat
           /\ totalSupply = Total(available) /\ conservationPool = 0
<1>1. available \in [Identities -> Nat] /\ Total(available) <= MaxSupply /\ MaxSupply \in Nat
  BY AccountsConstants DEF AccountsInit
<1>2. Total(available) \in Nat
  BY <1>1, AccountsConstants, UnitsFinite
<1> QED BY <1>1, <1>2 DEF AccountsInit, AccountsTypeOK

\* The sums are natural numbers, so that SMT may calculate with them.
LEMMA FlowTypes ==
    ASSUME AccountsTypeOK
    PROVE  Total(available) \in Nat /\ conservationPool \in Nat /\ totalSupply \in Nat
BY AccountsConstants, UnitsFinite DEF AccountsTypeOK

PRInv == PredictionsInv /\ PredictionConservation

LEMMA PRInductive == PRSpec => []PRInv
<1>1. PRInit => PRInv
  <2> SUFFICES ASSUME PRInit PROVE PRInv
    OBVIOUS
  <2> QED BY AccountsStart, PredictionsStart DEF PRInit, PRInv, PredictionConservation
<1>2. PRInv /\ [PRNext]_prVars => PRInv'
  <2> SUFFICES ASSUME PRInv, [PRNext]_prVars PROVE PRInv'
    OBVIOUS
  <2>1. PredictionsInv /\ PredictionConservation /\ AccountsTypeOK /\ predictions \in PredictionMaps
    BY DEF PRInv, PredictionsInv, PredictionsTypeOK, PredictionMaps
  <2>2. CASE evaluating = {} /\ LockedOps
    BY <2>1, <2>2, LockedOpsKept
      DEF PredictionsKept, PredictionFlow, PRInv, PredictionConservation
  <2>3. CASE evaluating = {} /\ AccountOps(Times) /\ UNCHANGED predictionVars
    <3>1. /\ AccountsTypeOK' /\ applied \subseteq applied'
          /\ Flow' + totalSupply = Flow + totalSupply'
      BY <2>1, <2>3, AccountFlow
    <3>2. PredictionsInv' /\ Total(PredictionStakes') = Total(PredictionStakes)
      BY <2>1, <2>3, <3>1, PredictionsIdle
    <3>3. /\ Total(available) \in Nat /\ conservationPool \in Nat /\ totalSupply \in Nat
          /\ Total(PredictionStakes) \in Nat
      BY <2>1, FlowTypes, StakesInType, PredictionStakesIn, Zenon
    <3>4. Total(available') \in Nat /\ conservationPool' \in Nat /\ totalSupply' \in Nat
      BY <3>1, AccountsConstants, UnitsFinite DEF AccountsTypeOK
    <3>5. PredictionConservation'
      BY <2>1, <3>1, <3>2, <3>3, <3>4 DEF PredictionConservation, Flow
    <3> QED BY <3>2, <3>5 DEF PRInv
  <2>4. CASE EvaluationStep
    BY <2>1, <2>4, EvaluationStepKept, Zenon
      DEF PredictionsKept, PredictionFlow, PRInv, PredictionConservation
  <2>5. CASE UNCHANGED prVars
    <3>1. AccountsTypeOK' /\ applied \subseteq applied'
      BY <2>1, <2>5 DEF AccountsTypeOK, accountVars, prVars
    <3>2. PredictionsInv' /\ Total(PredictionStakes') = Total(PredictionStakes)
      BY <2>1, <2>5, <3>1, PredictionsIdle DEF prVars
    <3> QED BY <2>1, <2>5, <3>2, Zenon DEF PRInv, PredictionConservation, prVars, accountVars
  <2> QED BY <2>2, <2>3, <2>4, <2>5 DEF PRNext
<1> QED BY <1>1, <1>2, PTL DEF PRSpec

\* Predictions move beat between the balances, their stakes and the pool, and
\* lose none: for any number of predictions, epochs and passes over a seal.
THEOREM PredictionsConserve == PRSpec => []PredictionConservation
BY PRInductive, PTL DEF PRInv

\* No subtraction of a prediction, a payout or a confiscation underflows.
THEOREM PredictionsTypeCorrect == PRSpec => []PredictionsTypeOK
BY PRInductive, PTL DEF PRInv, PredictionsInv

\* A step that is no round of an evaluation settles no open prediction.
LEMMA OpenStays ==
    ASSUME PredictionsInv, LockedOps \/ UNCHANGED predictionVars, NEW p \in Records, Open(p)
    PROVE  predictions'[p] = predictions[p]
<1>1. CASE UNCHANGED predictionVars
  BY <1>1, Zenon DEF predictionVars
<1>2. CASE LockedOps
  <2>1. CASE \E r \in Records, a \in Identities, amount \in Amounts, epoch \in Epochs,
               claim \in Claims, value \in PredictedValues, ts \in Times :
               Predict(r, a, amount, epoch, claim, value, ts)
    <3>1. PICK r \in Records, a \in Identities, amount \in Amounts, epoch \in Epochs,
               claim \in Claims, value \in PredictedValues, ts \in Times :
               Predict(r, a, amount, epoch, claim, value, ts)
      BY <2>1, Zenon
    <3>2. p # r
      <4>1. r \notin applied
        BY ONLY <3>1 DEF Predict, Apply
      <4>2. r \notin applied => predictions[r] = NoPrediction
        BY Zenon DEF PredictionsInv
      <4> QED BY ONLY <4>1, <4>2, Open(p) DEF Open, NoPrediction
    <3>3. PICK entry : predictions' = [predictions EXCEPT ![r] = entry]
      BY <3>1, Zenon DEF Predict
    <3>4. predictions \in PredictionMaps
      BY DEF PredictionsInv, PredictionsTypeOK, PredictionMaps
    <3> QED BY ONLY <3>2, <3>3, <3>4, p \in Records, Zenon DEF PredictionMaps
  <2>2. CASE \E epoch \in Epochs, seen \in Observation : EvaluatePredictions(epoch, seen)
    BY <2>2 DEF EvaluatePredictions
  <2>3. CASE \E epoch \in Epochs : SkipEvaluation(epoch)
    BY <2>3 DEF SkipEvaluation
  <2> QED BY <1>2, <2>1, <2>2, <2>3, Zenon DEF LockedOps
<1> QED BY <1>1, <1>2

\* Whoever predicts right gets the stake and at most a tenth more; whoever
\* predicts wrong loses some of it unless the pool is full.
THEOREM PayoutsBounded == PRSpec => PayoutBounds
<1>1. PRInv /\ [PRNext]_prVars => [PayoutStep]_prVars
  <2> SUFFICES ASSUME PRInv, PRNext, NEW p \in Records, Open(p)
               PROVE  LET a == predictions[p].predictor
                          amount == predictions[p].amount
                          gain == available'[a] - available[a]
                      IN CASE predictions'[p].outcome = "None" -> TRUE
                           [] predictions'[p].outcome = "Correct" ->
                                amount <= gain /\ 10 * gain <= 11 * amount
                           [] predictions'[p].outcome = "Wrong" ->
                                0 <= gain /\ (conservationPool < PoolCap => gain < amount \/ amount = 0)
    BY Zenon DEF PayoutStep
  <2>1. PredictionsInv /\ available \in [Identities -> Nat]
    BY DEF PRInv, PredictionsInv, PredictionsTypeOK, AccountsTypeOK
  <2>2. CASE LockedOps \/ UNCHANGED predictionVars
    <3>1. predictions'[p].outcome = "None"
      BY <2>1, <2>2, OpenStays, Zenon DEF Open
    <3> QED BY <3>1, Zenon
  <2>3. CASE EvaluationStep
    <3>1. PICK q \in Records, multiplier \in {0, 1} : EvaluateNext(q, multiplier)
      BY <2>3 DEF EvaluationStep
    <3>2. CASE p # q
      <4>1. predictions'[p] = predictions[p]
        BY <2>1, <3>1, <3>2 DEF EvaluateNext, PredictionsInv, PredictionsTypeOK
      <4> QED BY <4>1, Zenon DEF Open
    <3>3. CASE p = q
      <4> DEFINE n == predictions[p].amount
                 a == predictions[p].predictor
      <4>1. PICK gain \in Nat :
              /\ Credit(a, gain)
              /\ predictions'[p].outcome = "Correct" => n <= gain /\ 10 * gain <= 11 * n
              /\ predictions'[p].outcome = "Wrong" /\ conservationPool < PoolCap =>
                    gain < n \/ n = 0
        BY <2>1, <3>1, <3>3, RoundPays
      <4>2. predictions[p] \in PredictionEntry /\ a \in Identities
        BY <2>1, <3>1, <3>3, RoundPays, Zenon DEF PredictionEntry
      <4>3. available'[a] - available[a] = gain
        BY <2>1, <4>1, <4>2 DEF Credit
      <4>4. predictions'[p].outcome \in {"Correct", "Wrong"}
        BY <2>1, <3>1, <3>3, <4>2, Zenon
          DEF EvaluateNext, PredictionsInv, PredictionsTypeOK, PredictionEntry
      <4>5. CASE predictions'[p].outcome = "Correct"
        BY <4>1, <4>3, <4>5, Zenon
      <4>6. CASE predictions'[p].outcome = "Wrong"
        BY <4>1, <4>3, <4>6
      <4> QED BY <4>4, <4>5, <4>6
    <3> QED BY <3>2, <3>3, Zenon
  <2> QED BY <2>2, <2>3, Zenon DEF PRNext
<1> QED BY <1>1, PRInductive, PTL DEF PRSpec, PayoutBounds
-----------------------------------------------------------------------------
DormancyKept ==
    /\ DormancyTypeOK' /\ applied \subseteq applied'
    /\ Flow' = Flow /\ totalSupply' = totalSupply

LEMMA DeclareKept ==
    ASSUME DormancyTypeOK, NEW r \in Records, NEW a \in Identities, NEW ts \in Times,
           DormancyDeclare(r, a, ts)
    PROVE  DormancyKept
<1>1. /\ AccountsTypeOK /\ Apply(r, ts) /\ ts + WakeupWindow \in Nat
      /\ UNCHANGED <<available, lastActive, totalSupply, conservationPool, reclaimed, wokenAt>>
  BY AccountsConstants, DormancyConstants DEF DormancyTypeOK, DormancyDeclare
<1>2. AccountsTypeOK'
  BY <1>1, ApplyType, Zenon DEF AccountsTypeOK
<1>3. phase' \in [Identities -> {"Active", "Dormant", "Reclaimed"}] /\ deadline' \in [Identities -> Nat]
  BY <1>1 DEF DormancyTypeOK, DormancyDeclare
<1> QED BY <1>1, <1>2, <1>3, Zenon DEF DormancyKept, DormancyTypeOK, Flow, Apply

LEMMA WakeUpKept ==
    ASSUME DormancyTypeOK, NEW r \in Records, NEW a \in Identities, NEW ts \in Times,
           Apply(r, ts), WakeUp(a, ts)
    PROVE  DormancyKept
<1>1. /\ AccountsTypeOK /\ Touch({a}, ts)
      /\ UNCHANGED <<available, totalSupply, conservationPool, reclaimed>>
  BY Zenon DEF DormancyTypeOK, WakeUp
<1>2. AccountsTypeOK'
  BY <1>1, ApplyType, TouchType, Zenon DEF AccountsTypeOK
<1>3. /\ phase' \in [Identities -> {"Active", "Dormant", "Reclaimed"}]
      /\ deadline' \in [Identities -> Nat] /\ wokenAt' \in [Identities -> Times \cup {0}]
  BY Zenon DEF DormancyTypeOK, WakeUp
<1> QED BY <1>1, <1>2, <1>3, Zenon DEF DormancyKept, DormancyTypeOK, Flow, Apply

LEMMA ReclaimKept ==
    ASSUME DormancyTypeOK, NEW r \in Records, NEW a \in Identities, NEW amount \in Amounts,
           NEW ts \in Times, DormancyReclaim(r, a, amount, ts)
    PROVE  DormancyKept
<1> DEFINE n == Reclaimable(a, amount)
           moved == Funded(n)
<1>1. /\ AccountsTypeOK /\ Apply(r, ts) /\ amount \in Nat
      /\ available \in [Identities -> Nat] /\ conservationPool \in Nat
      /\ available' = [available EXCEPT ![a] = @ - moved]
      /\ conservationPool' = conservationPool + moved
      /\ reclaimed' = [reclaimed EXCEPT ![a] = n]
      /\ UNCHANGED <<lastActive, totalSupply, wokenAt>>
  BY AccountsConstants, Zenon
    DEF DormancyTypeOK, AccountsTypeOK, DormancyReclaim, Debit, Moved
<1>2. n \in Nat /\ n <= available[a]
  BY <1>1 DEF Reclaimable, Least
<1> HIDE DEF n
<1>3. moved \in Nat /\ moved <= n
  BY <1>1, <1>2, FundedPart, Zenon
<1> HIDE DEF moved
<1>4. moved <= available[a] /\ available[a] \in Nat
  BY <1>1, <1>2, <1>3
<1>5. /\ available' \in [Identities -> Nat] /\ Total(available) \in Nat
      /\ Total(available') = Total(available) - moved
  <2>1. /\ available \in [Identities -> Nat] /\ a \in Identities
        /\ moved \in Nat /\ moved <= available[a]
        /\ available' = [available EXCEPT ![a] = @ - moved]
    BY <1>1, <1>3, <1>4
  <2> QED BY ONLY <2>1, TotalTake
<1>6. AccountsTypeOK'
  BY <1>1, <1>3, <1>5, ApplyType DEF AccountsTypeOK
<1>7. /\ phase' \in [Identities -> {"Active", "Dormant", "Reclaimed"}]
      /\ deadline' \in [Identities -> Nat] /\ reclaimed' \in [Identities -> Nat]
  BY <1>1, <1>2, Zenon DEF DormancyTypeOK, DormancyReclaim
<1>8. Flow' = Flow
  BY <1>1, <1>3, <1>5 DEF Flow
<1> QED BY <1>1, <1>6, <1>7, <1>8, Zenon DEF DormancyKept, DormancyTypeOK, Apply

LEMMA DormancyOpsKept ==
    ASSUME DormancyTypeOK, NEW T, T \subseteq Times, DormancyOps(T)
    PROVE  DormancyKept
<1>1. PICK r \in Records, a \in Identities, ts \in Times :
        \/ DormancyDeclare(r, a, ts)
        \/ DormancyHeartbeat(r, a, ts)
        \/ DormancyProofOfLife(r, a, ts)
        \/ \E amount \in Amounts : DormancyReclaim(r, a, amount, ts)
  BY DEF DormancyOps
<1>2. CASE DormancyHeartbeat(r, a, ts) \/ DormancyProofOfLife(r, a, ts)
  BY <1>2, WakeUpKept DEF DormancyHeartbeat, DormancyProofOfLife
<1>3. CASE DormancyDeclare(r, a, ts)
  BY <1>3, DeclareKept, Zenon
<1>4. CASE \E amount \in Amounts : DormancyReclaim(r, a, amount, ts)
  BY <1>4, ReclaimKept, Zenon
<1> QED BY <1>1, <1>2, <1>3, <1>4, Zenon

LEMMA DormancyIdle ==
    ASSUME DormancyTypeOK, AccountsTypeOK', UNCHANGED dormancyVars
    PROVE  DormancyTypeOK'
BY DEF DormancyTypeOK, dormancyVars

\* Records arrive in the order of their timestamps: an identity was active when
\* it last woke up or later, and a declaration that stands was made a threshold
\* after that.
ClockInv ==
    \A a \in Identities :
        /\ wokenAt[a] <= lastActive[a] /\ lastActive[a] <= lastAppliedTs
        /\ phase[a] = "Dormant" => deadline[a] >= wokenAt[a] + DormancyThreshold + WakeupWindow

DOInv == DormancyTypeOK /\ DormancyConservation /\ ClockInv

\* An operation in order touches accounts at the new lastAppliedTs.
LEMMA AccountsTouchInOrder ==
    ASSUME AccountOps(InOrder), AccountsTypeOK
    PROVE  /\ lastAppliedTs' >= lastAppliedTs
           /\ \A a \in Identities : lastActive'[a] \in {lastActive[a], lastAppliedTs'}
<1>1. lastAppliedTs \in Nat /\ \A ts \in InOrder : ts \in Nat /\ ts >= lastAppliedTs
  BY AccountsConstants DEF AccountsTypeOK, InOrder
<1>2. PICK r \in Records, amount \in Amounts, ts \in InOrder :
        \/ \E to \in Identities : Mint(r, to, amount, ts)
        \/ \E from, to \in Identities : Transfer(r, from, to, amount, ts)
        \/ Burn(r, amount, ts)
        \/ PoolFund(r, amount, ts)
        \/ \E to \in Identities : WitnessReward(r, to, amount, ts)
  BY Zenon DEF AccountOps
<1>3. lastAppliedTs' = Greatest(ts, lastAppliedTs)
  BY <1>2, Zenon DEF Mint, Transfer, Burn, PoolFund, WitnessReward, Apply
<1>4. lastAppliedTs' = ts
  BY <1>1, <1>3 DEF Greatest
<1>5. \E A : Touch(A, ts)
  BY <1>2, Zenon DEF Mint, Transfer, Burn, PoolFund, WitnessReward
<1> QED BY <1>1, <1>4, <1>5, Zenon DEF Touch

\* The clocks are natural numbers.
LEMMA ClockTypes ==
    ASSUME DormancyTypeOK
    PROVE  /\ lastAppliedTs \in Nat /\ DormancyThreshold \in Nat /\ WakeupWindow \in Nat
           /\ lastActive \in [Identities -> Nat] /\ wokenAt \in [Identities -> Nat]
           /\ deadline \in [Identities -> Nat]
           /\ \A ts \in InOrder : ts \in Nat /\ ts >= lastAppliedTs
<1>1. Times \cup {0} \subseteq Nat /\ DormancyThreshold \in Nat /\ WakeupWindow \in Nat
  BY AccountsConstants, DormancyConstants
<1>2. /\ lastAppliedTs \in Times \cup {0} /\ lastActive \in [Identities -> Times \cup {0}]
      /\ wokenAt \in [Identities -> Times \cup {0}] /\ deadline \in [Identities -> Nat]
  BY DEF DormancyTypeOK, AccountsTypeOK
<1>3. \A ts \in InOrder : ts \in Nat /\ ts >= lastAppliedTs
  BY <1>1 DEF InOrder
<1>4. lastActive \in [Identities -> Nat] /\ wokenAt \in [Identities -> Nat]
  BY <1>1, <1>2, Zenon
<1> QED BY <1>1, <1>2, <1>3, <1>4

\* The operations of the lifecycle, in order, keep the clocks.
LEMMA DormancyKeepsClocks ==
    ASSUME DormancyTypeOK, ClockInv, DormancyOps(InOrder)
    PROVE  ClockInv'
<1>1. PICK r \in Records, a \in Identities, ts \in InOrder :
        \/ DormancyDeclare(r, a, ts)
        \/ DormancyHeartbeat(r, a, ts)
        \/ DormancyProofOfLife(r, a, ts)
        \/ \E amount \in Amounts : DormancyReclaim(r, a, amount, ts)
  BY DEF DormancyOps
<1>2. /\ ts \in Nat /\ lastAppliedTs \in Nat /\ ts >= lastAppliedTs
      /\ lastActive \in [Identities -> Nat] /\ wokenAt \in [Identities -> Nat]
      /\ deadline \in [Identities -> Nat] /\ DormancyThreshold \in Nat /\ WakeupWindow \in Nat
      /\ phase \in [Identities -> {"Active", "Dormant", "Reclaimed"}]
  BY ClockTypes DEF DormancyTypeOK
<1>3. lastAppliedTs' = ts
  <2>1. lastAppliedTs' = Greatest(ts, lastAppliedTs)
    BY <1>1, Zenon DEF DormancyDeclare, DormancyHeartbeat, DormancyProofOfLife, DormancyReclaim, Apply
  <2> QED BY <1>2, <2>1 DEF Greatest
<1> SUFFICES ASSUME NEW b \in Identities
             PROVE  /\ wokenAt'[b] <= lastActive'[b] /\ lastActive'[b] <= lastAppliedTs'
                    /\ phase'[b] = "Dormant" =>
                          deadline'[b] >= wokenAt'[b] + DormancyThreshold + WakeupWindow
  BY Zenon DEF ClockInv
<1>4. /\ wokenAt[b] \in Nat /\ lastActive[b] \in Nat /\ deadline[b] \in Nat
      /\ wokenAt[b] <= lastActive[b] /\ lastActive[b] <= lastAppliedTs
      /\ phase[b] = "Dormant" => deadline[b] >= wokenAt[b] + DormancyThreshold + WakeupWindow
  BY <1>2, Zenon DEF ClockInv
<1>5. CASE DormancyDeclare(r, a, ts)
  <2>1. /\ lastActive' = lastActive /\ wokenAt' = wokenAt
        /\ deadline' = [deadline EXCEPT ![a] = ts + WakeupWindow]
        /\ phase' = [phase EXCEPT ![a] = "Dormant"]
        /\ ts - lastActive[a] >= DormancyThreshold
    BY <1>5, Zenon DEF DormancyDeclare
  <2>2. CASE b = a
    BY <1>2, <1>3, <1>4, <2>1, <2>2
  <2>3. CASE b # a
    BY <1>2, <1>3, <1>4, <2>1, <2>3
  <2> QED BY <2>2, <2>3, Zenon
<1>6. CASE DormancyHeartbeat(r, a, ts) \/ DormancyProofOfLife(r, a, ts)
  <2>1. /\ wokenAt' = [wokenAt EXCEPT ![a] = ts] /\ phase' = [phase EXCEPT ![a] = "Active"]
        /\ deadline' = [deadline EXCEPT ![a] = 0]
        /\ lastActive' = [c \in Identities |-> IF c \in {a} THEN ts ELSE lastActive[c]]
    BY <1>6 DEF DormancyHeartbeat, DormancyProofOfLife, WakeUp, Touch
  <2>2. CASE b = a
    BY <1>2, <1>3, <2>1, <2>2
  <2>3. CASE b # a
    BY <1>2, <1>3, <1>4, <2>1, <2>3
  <2> QED BY <2>2, <2>3
<1>7. CASE \E amount \in Amounts : DormancyReclaim(r, a, amount, ts)
  <2>1. /\ lastActive' = lastActive /\ wokenAt' = wokenAt
        /\ deadline' = [deadline EXCEPT ![a] = 0] /\ phase' = [phase EXCEPT ![a] = "Reclaimed"]
    BY <1>7, Zenon DEF DormancyReclaim
  <2>2. CASE b = a
    BY <1>2, <1>3, <1>4, <2>1, <2>2
  <2>3. CASE b # a
    BY <1>2, <1>3, <1>4, <2>1, <2>3
  <2> QED BY <2>2, <2>3
<1> QED BY <1>1, <1>5, <1>6, <1>7, Zenon

LEMMA DOInductive == DOSpec => []DOInv
<1>1. DOInit => DOInv
  <2> SUFFICES ASSUME DOInit PROVE DOInv
    OBVIOUS
  <2>1. /\ AccountsTypeOK /\ Total(available) \in Nat /\ totalSupply = Total(available)
        /\ conservationPool = 0
    BY AccountsStart DEF DOInit
  <2>2. DormancyTypeOK /\ ClockInv
    BY <2>1 DEF DOInit, AccountsInit, DormancyInit, DormancyTypeOK, ClockInv
  <2> QED BY <2>1, <2>2 DEF DOInv, DormancyConservation
<1>2. DOInv /\ [DONext]_doVars => DOInv'
  <2> SUFFICES ASSUME DOInv, [DONext]_doVars PROVE DOInv'
    OBVIOUS
  <2>1. /\ DormancyTypeOK /\ DormancyConservation /\ ClockInv /\ AccountsTypeOK
        /\ InOrder \subseteq Times
        /\ Total(available) \in Nat /\ conservationPool \in Nat /\ totalSupply \in Nat
    BY FlowTypes DEF DOInv, DormancyTypeOK, InOrder
  <2>2. CASE DormancyOps(InOrder)
    <3>1. DormancyKept
      BY <2>1, <2>2, DormancyOpsKept
    <3>2. ClockInv'
      BY <2>1, <2>2, DormancyKeepsClocks
    <3> QED BY <2>1, <3>1, <3>2 DEF DormancyKept, DOInv, DormancyConservation, Flow
  <2>3. CASE AccountOps(InOrder) /\ UNCHANGED dormancyVars
    <3>1. AccountsTypeOK' /\ Flow' + totalSupply = Flow + totalSupply'
      BY <2>1, <2>3, AccountFlow, Zenon
    <3>2. DormancyTypeOK'
      BY <2>1, <2>3, <3>1, DormancyIdle, Zenon
    <3>3. Total(available') \in Nat /\ conservationPool' \in Nat /\ totalSupply' \in Nat
      BY <3>1, AccountsConstants, UnitsFinite DEF AccountsTypeOK
    <3>4. DormancyConservation'
      BY <2>1, <3>1, <3>3 DEF DormancyConservation, Flow
    <3>5. /\ lastAppliedTs' >= lastAppliedTs
          /\ \A a \in Identities : lastActive'[a] \in {lastActive[a], lastAppliedTs'}
      BY <2>1, <2>3, AccountsTouchInOrder, Zenon
    <3>6. ClockInv'
      <4>1. /\ lastAppliedTs \in Nat /\ lastAppliedTs' \in Nat
            /\ \A a \in Identities : lastActive[a] \in Nat /\ wokenAt[a] \in Nat
        <5>1. lastAppliedTs' \in Nat
          BY <3>1, AccountsConstants DEF AccountsTypeOK
        <5> QED BY <2>1, <5>1, ClockTypes, Zenon
      <4>2. UNCHANGED <<wokenAt, phase, deadline>>
        BY ONLY <2>3, Zenon DEF dormancyVars
      <4>3. ASSUME NEW a \in Identities PROVE wokenAt[a] <= lastActive'[a] /\ lastActive'[a] <= lastAppliedTs'
        <5>1. /\ wokenAt[a] <= lastActive[a] /\ lastActive[a] <= lastAppliedTs
              /\ lastAppliedTs <= lastAppliedTs'
          BY <2>1, <3>5, <4>1, Zenon DEF ClockInv
        <5>2. lastActive'[a] = lastActive[a] \/ lastActive'[a] = lastAppliedTs'
          BY ONLY <3>5, a \in Identities, Zenon
        <5> QED BY ONLY <4>1, <5>1, <5>2, a \in Identities
      <4> QED BY ONLY <2>1, <4>2, <4>3, Zenon DEF ClockInv
    <3> QED BY <3>2, <3>4, <3>6, Zenon DEF DOInv
  <2>4. CASE UNCHANGED doVars
    BY <2>1, <2>4, Zenon DEF DOInv, doVars, accountVars, dormancyVars, DormancyTypeOK, AccountsTypeOK,
                      DormancyConservation, ClockInv
  <2> QED BY <2>2, <2>3, <2>4 DEF DONext
<1> QED BY <1>1, <1>2, PTL DEF DOSpec

\* A reclaim sends to the pool what it takes from the account, whatever the cap
\* of the pool lets in.
THEOREM DormancyConserves == DOSpec => []DormancyConservation
BY DOInductive, PTL DEF DOInv

\* No subtraction of a reclaim underflows, and deadlines stay in their range.
THEOREM DormancyTypeCorrect == DOSpec => []DormancyTypeOK
BY DOInductive, PTL DEF DOInv

\* No declaration that an identity answered can be used against it: after it
\* woke up a reclaim needs another threshold and another window.
THEOREM WakingRestarts == DOSpec => WakingRestartsTheClock
<1>1. DOInv /\ [DONext]_doVars => [NoticeStep]_doVars
  <2> SUFFICES ASSUME DOInv, DONext, NEW a \in Identities, Reclaims(a)
               PROVE  lastAppliedTs' > wokenAt[a] + DormancyThreshold + WakeupWindow
    BY DEF NoticeStep
  <2>1. ~ UNCHANGED dormancyVars
    BY Zenon DEF Reclaims, dormancyVars
  <2>2. PICK r \in Records, b \in Identities, ts \in InOrder :
          \/ DormancyDeclare(r, b, ts)
          \/ DormancyHeartbeat(r, b, ts)
          \/ DormancyProofOfLife(r, b, ts)
          \/ \E amount \in Amounts : DormancyReclaim(r, b, amount, ts)
    BY <2>1, Zenon DEF DONext, DormancyOps
  <2>3. phase \in [Identities -> {"Active", "Dormant", "Reclaimed"}]
    BY Zenon DEF DOInv, DormancyTypeOK
  <2>4. \E amount \in Amounts : DormancyReclaim(r, b, amount, ts)
    BY <2>2, <2>3, Zenon
      DEF Reclaims, DormancyDeclare, DormancyHeartbeat, DormancyProofOfLife, WakeUp
  <2>5. b = a
    BY <2>3, <2>4, Zenon DEF Reclaims, DormancyReclaim
  <2>6. phase[a] = "Dormant" /\ ts > deadline[a] /\ lastAppliedTs' = Greatest(ts, lastAppliedTs)
    BY <2>4, <2>5, Zenon DEF DormancyReclaim, EligibleForReclamation, Apply
  <2>7. /\ ts \in Nat /\ lastAppliedTs \in Nat /\ deadline[a] \in Nat /\ wokenAt[a] \in Nat
        /\ DormancyThreshold \in Nat /\ WakeupWindow \in Nat
    BY ClockTypes, Zenon DEF DOInv
  <2>8. deadline[a] >= wokenAt[a] + DormancyThreshold + WakeupWindow
    BY <2>6, Zenon DEF DOInv, ClockInv
  <2>9. lastAppliedTs' >= ts /\ lastAppliedTs' \in Nat
    BY ONLY <2>6, <2>7 DEF Greatest
  <2> QED BY ONLY <2>6, <2>7, <2>8, <2>9
<1> QED BY <1>1, DOInductive, PTL DEF DOSpec, WakingRestartsTheClock
-----------------------------------------------------------------------------
\* The escrow of the ledger.
DepositMaps == [Records -> X!Deposits \cup {X!NoDeposit}]
AmountsOf(dep) == [t \in Records |-> dep[t].amount]

\* The inductive invariant of the ledger's own pots: an id that was not locked
\* holds nothing.
OwnInv ==
    /\ bonded \in [Identities -> Nat]
    /\ deposit \in DepositMaps
    /\ locks \subseteq Records
    /\ pendingXzoneLocked \in Nat
    /\ EscrowTracked
    /\ \A t \in Records \ locks : deposit[t] = X!NoDeposit

OwnFlow == Total(available) + Total(bonded) + pendingXzoneLocked + conservationPool

OwnKept ==
    /\ OwnInv' /\ AccountsTypeOK' /\ applied \subseteq applied'
    /\ OwnFlow' = OwnFlow /\ totalSupply' = totalSupply

LEMMA AmountsType ==
    ASSUME NEW dep \in DepositMaps
    PROVE  /\ AmountsOf(dep) \in [Records -> Nat] /\ Total(AmountsOf(dep)) \in Nat
           /\ \A t \in Records : AmountsOf(dep)[t] = dep[t].amount
<1>1. ASSUME NEW t \in Records PROVE dep[t].amount \in Nat
  <2>1. dep[t] \in X!Deposits \cup {X!NoDeposit}
    BY DEF DepositMaps
  <2>2. CASE dep[t] = X!NoDeposit
    BY <2>2 DEF X!NoDeposit
  <2>3. CASE dep[t] \in X!Deposits
    BY <2>3, AccountsConstants, Zenon DEF X!Deposits
  <2> QED BY <2>1, <2>2, <2>3
<1>2. AmountsOf(dep) \in [Records -> Nat]
  BY <1>1 DEF AmountsOf
<1> QED BY <1>2, AccountsConstants, UnitsFinite, Zenon DEF AmountsOf

\* Replacing one deposit moves the sum by the difference.
LEMMA AmountsPut ==
    ASSUME NEW dep \in DepositMaps, NEW dep2 \in DepositMaps, NEW t \in Records,
           \A u \in Records : u # t => dep2[u] = dep[u]
    PROVE  /\ Total(AmountsOf(dep)) \in Nat /\ Total(AmountsOf(dep2)) \in Nat
           /\ dep[t].amount \in Nat /\ dep[t].amount <= Total(AmountsOf(dep))
           /\ Total(AmountsOf(dep2)) = Total(AmountsOf(dep)) - dep[t].amount + dep2[t].amount
<1> DEFINE f == AmountsOf(dep)
           g == AmountsOf(dep2)
<1>1. /\ IsFiniteSet(Records) /\ f \in [Records -> Nat] /\ g \in [Records -> Nat] /\ t \in Records
      /\ Total(f) \in Nat /\ Total(g) \in Nat
  BY AccountsConstants, AmountsType, Zenon
<1>2. f[t] = dep[t].amount /\ g[t] = dep2[t].amount /\ \A u \in Records : u # t => g[u] = f[u]
  BY AmountsType, Zenon
<1> HIDE DEF f, g
<1>3. Total(g) = Total(f) - f[t] + g[t] /\ f[t] <= Total(f)
  BY ONLY <1>1, <1>2, TotalPut, TotalAtLeast
<1> QED BY <1>1, <1>2, <1>3, Zenon DEF f, g

LEMMA TrackedAmounts ==
    /\ EscrowTracked <=> pendingXzoneLocked = Total(AmountsOf(deposit))
    /\ EscrowTracked' <=> pendingXzoneLocked' = Total(AmountsOf(deposit'))
BY DEF EscrowTracked, AmountsOf

\* No deposit is one of nothing.
LEMMA NoAmount == X!NoDeposit.amount = 0
BY Zenon DEF X!NoDeposit

LEMMA OwnTypes ==
    ASSUME OwnInv, AccountsTypeOK
    PROVE  /\ available \in [Identities -> Nat] /\ Total(available) \in Nat
           /\ bonded \in [Identities -> Nat] /\ Total(bonded) \in Nat
           /\ pendingXzoneLocked \in Nat /\ conservationPool \in Nat /\ totalSupply \in Nat
BY AccountsConstants, UnitsFinite DEF OwnInv, AccountsTypeOK

LEMMA WitnessRegisterKept ==
    ASSUME OwnInv, AccountsTypeOK, NEW r \in Records, NEW a \in Identities,
           NEW bond \in Amounts, NEW ts \in Times, WitnessRegister(r, a, bond, ts)
    PROVE  OwnKept
<1>1. /\ available \in [Identities -> Nat] /\ bond \in Nat /\ bond <= available[a]
      /\ available' = [available EXCEPT ![a] = @ - bond]
      /\ bonded' = [bonded EXCEPT ![a] = @ + bond]
      /\ Apply(r, ts) /\ Touch({a}, ts)
      /\ UNCHANGED <<totalSupply, conservationPool, deposit, locks, pendingXzoneLocked>>
  BY OwnTypes, AccountsConstants, Zenon DEF WitnessRegister, Debit
<1>2. /\ available' \in [Identities -> Nat] /\ Total(available) \in Nat
      /\ Total(available') = Total(available) - bond
  BY <1>1, TotalTake
<1>3. /\ bonded' \in [Identities -> Nat] /\ bonded'[a] = bonded[a] + bond
      /\ \A x \in Identities : x # a => bonded'[x] = bonded[x]
      /\ bonded \in [Identities -> Nat] /\ a \in Identities /\ bond \in Nat
  BY <1>1, OwnTypes
<1>4. Total(bonded) \in Nat /\ Total(bonded') = Total(bonded) + bond
  BY ONLY <1>3, TotalAdd, Zenon
<1>5. AccountsTypeOK'
  BY <1>1, <1>2, ApplyType, TouchType, Zenon DEF AccountsTypeOK
<1>6. OwnInv'
  BY <1>1, <1>3, Zenon DEF OwnInv, EscrowTracked
<1>7. OwnFlow' = OwnFlow
  <2>1. /\ Total(available) \in Nat /\ Total(bonded) \in Nat /\ bond \in Nat
        /\ pendingXzoneLocked \in Nat /\ conservationPool \in Nat
    BY <1>3, OwnTypes, Zenon
  <2>2. pendingXzoneLocked' = pendingXzoneLocked /\ conservationPool' = conservationPool
    BY ONLY <1>1, Zenon
  <2> QED BY ONLY <1>2, <1>4, <2>1, <2>2 DEF OwnFlow
<1> QED BY <1>1, <1>5, <1>6, <1>7, Zenon DEF OwnKept, Apply

LEMMA IdleDecayKept ==
    ASSUME OwnInv, AccountsTypeOK, NEW r \in Records, NEW debits \in [Identities -> 0..MaxDecay],
           NEW credits \in [Identities -> 0..MaxDecay], NEW poolCredit \in Nat,
           NEW ts \in Times, IdleDecay(r, debits, credits, poolCredit, ts)
    PROVE  OwnKept
<1> DEFINE mid == [a \in Identities |-> available[a] - debits[a]]
<1>1. /\ IsFiniteSet(Identities) /\ available \in [Identities -> Nat]
      /\ debits \in [Identities -> Nat] /\ credits \in [Identities -> Nat]
  BY OwnTypes, AccountsConstants, LedgerConstants
<1>2. /\ Total(debits) = poolCredit + Total(credits)
      /\ \A a \in Identities : debits[a] <= available[a]
      /\ available' = [a \in Identities |-> available[a] - debits[a] + credits[a]]
      /\ conservationPool' = conservationPool + poolCredit
      /\ Apply(r, ts) /\ UNCHANGED <<lastActive, totalSupply>> /\ UNCHANGED ownVars
  BY Zenon DEF IdleDecay, Payable
<1>3. mid \in [Identities -> Nat]
  BY <1>1, <1>2
<1>4. available = [a \in Identities |-> mid[a] + debits[a]]
  BY <1>1
<1>5. available' = [a \in Identities |-> mid[a] + credits[a]] /\ available' \in [Identities -> Nat]
  BY <1>1, <1>2, <1>3
<1> HIDE DEF mid
<1>6. Total([a \in Identities |-> mid[a] + debits[a]]) = Total(mid) + Total(debits)
  BY ONLY <1>1, <1>3, TotalSum
<1>7. Total([a \in Identities |-> mid[a] + credits[a]]) = Total(mid) + Total(credits)
  BY ONLY <1>1, <1>3, TotalSum
<1>8. Total(mid) \in Nat /\ Total(debits) \in Nat /\ Total(credits) \in Nat
  BY ONLY <1>1, <1>3, UnitsFinite, Zenon
<1>9. Total(available') = Total(available) - poolCredit
  <2>1. Total(available) = Total(mid) + Total(debits)
    BY ONLY <1>4, <1>6, Zenon
  <2>2. Total(available') = Total(mid) + Total(credits)
    BY ONLY <1>5, <1>7, Zenon
  <2>3. poolCredit \in Nat /\ Total(debits) = poolCredit + Total(credits)
    BY <1>2, Zenon
  <2> QED BY ONLY <1>8, <2>1, <2>2, <2>3
<1>10. AccountsTypeOK'
  BY <1>2, <1>5, ApplyType DEF AccountsTypeOK
<1>11. OwnInv'
  BY <1>2, Zenon DEF OwnInv, EscrowTracked, ownVars
<1>12. OwnFlow' = OwnFlow
  BY <1>2, <1>9, OwnTypes DEF OwnFlow, ownVars
<1> QED BY <1>2, <1>10, <1>11, <1>12, Zenon DEF OwnKept, Apply

LEMMA XZoneLockKept ==
    ASSUME OwnInv, AccountsTypeOK, NEW r \in Records, NEW from \in Identities,
           NEW to \in Identities, NEW amount \in Amounts, NEW ts \in Times,
           XZoneLock(r, from, to, amount, ts)
    PROVE  OwnKept
<1> DEFINE e == [from |-> from, to |-> to, amount |-> amount]
<1>1. /\ amount \in Nat /\ amount <= available[from] /\ r \in Records /\ r \notin locks
      /\ available' = [available EXCEPT ![from] = @ - amount]
      /\ deposit' = [deposit EXCEPT ![r] = e] /\ locks' = locks \cup {r}
      /\ pendingXzoneLocked' = pendingXzoneLocked + amount
      /\ Apply(r, ts) /\ Touch({from}, ts)
      /\ UNCHANGED <<totalSupply, conservationPool, bonded>>
  BY AccountsConstants, Zenon DEF XZoneLock, X!Deposit
<1>2. e \in X!Deposits /\ e.amount = amount
  BY Zenon DEF X!Deposits
<1> HIDE DEF e
<1>3. /\ deposit \in DepositMaps /\ deposit' \in DepositMaps /\ deposit'[r] = e
      /\ \A u \in Records : u # r => deposit'[u] = deposit[u]
      /\ deposit[r] = X!NoDeposit
  BY <1>1, <1>2, Zenon DEF OwnInv, DepositMaps
<1>4. deposit[r].amount = 0
  <2>1. deposit[r] = X!NoDeposit
    BY ONLY <1>3, Zenon
  <2> QED BY ONLY <2>1, NoAmount, Zenon
<1>5. /\ Total(AmountsOf(deposit)) \in Nat
      /\ Total(AmountsOf(deposit')) = Total(AmountsOf(deposit)) - deposit[r].amount + deposit'[r].amount
  BY <1>3, AmountsPut, Zenon
<1>6. EscrowTracked' /\ pendingXzoneLocked' \in Nat
  <2>1. pendingXzoneLocked = Total(AmountsOf(deposit))
    BY TrackedAmounts, Zenon DEF OwnInv
  <2>2. pendingXzoneLocked' = Total(AmountsOf(deposit'))
    <3>1. pendingXzoneLocked' = pendingXzoneLocked + amount /\ amount \in Nat
      BY ONLY <1>1, Zenon
    <3>2. deposit'[r].amount = amount
      BY ONLY <1>2, <1>3, Zenon
    <3> QED BY ONLY <1>4, <1>5, <2>1, <3>1, <3>2
  <2> QED BY <1>1, <2>2, TrackedAmounts DEF OwnInv
<1>7. /\ available' \in [Identities -> Nat] /\ Total(available) \in Nat
      /\ Total(available') = Total(available) - amount
  <2>1. available \in [Identities -> Nat] /\ Total(available) \in Nat
    BY OwnTypes
  <2>2. /\ amount \in Nat /\ amount <= available[from]
        /\ available' = [available EXCEPT ![from] = @ - amount]
    BY ONLY <1>1, Zenon
  <2> QED BY ONLY <2>1, <2>2, from \in Identities, TotalTake
<1>8. AccountsTypeOK'
  BY <1>1, <1>7, ApplyType, TouchType DEF AccountsTypeOK
<1>9. OwnInv'
  BY <1>1, <1>3, <1>6, Zenon DEF OwnInv
<1>10. OwnFlow' = OwnFlow
  <2>1. /\ Total(bonded) \in Nat /\ conservationPool \in Nat /\ pendingXzoneLocked \in Nat
        /\ Total(available) \in Nat
    BY OwnTypes, Zenon
  <2>2. /\ bonded' = bonded /\ conservationPool' = conservationPool /\ amount \in Nat
        /\ pendingXzoneLocked' = pendingXzoneLocked + amount
    BY ONLY <1>1
  <2>3. Total(available') = Total(available) - amount
    BY ONLY <1>7, Zenon
  <2> QED BY ONLY <2>1, <2>2, <2>3 DEF OwnFlow
<1> QED BY <1>1, <1>8, <1>9, <1>10 DEF OwnKept, Apply

LEMMA XZoneClaimKept ==
    ASSUME OwnInv, AccountsTypeOK, NEW r \in Records, NEW t \in Records, NEW ts \in Times,
           XZoneClaim(r, t, ts)
    PROVE  OwnKept
<1> DEFINE n == deposit[t].amount
           to == deposit[t].to
<1>1. /\ deposit[t] # X!NoDeposit /\ Credit(to, n)
      /\ deposit' = [deposit EXCEPT ![t] = X!NoDeposit] /\ locks' = locks
      /\ pendingXzoneLocked' = SatSub(pendingXzoneLocked, n)
      /\ Apply(r, ts) /\ Touch({to}, ts)
      /\ UNCHANGED <<totalSupply, conservationPool, bonded>>
  BY Zenon DEF XZoneClaim, X!Pay, X!HeldDeposits, Credit
<1>2. deposit[t] \in X!Deposits /\ to \in Identities /\ n \in Nat
  BY <1>1, AccountsConstants DEF OwnInv, DepositMaps, X!Deposits
<1>3. /\ deposit \in DepositMaps /\ deposit' \in DepositMaps /\ deposit'[t] = X!NoDeposit
      /\ \A u \in Records : u # t => deposit'[u] = deposit[u]
  BY <1>1 DEF OwnInv, DepositMaps
<1>4. deposit'[t].amount = 0
  <2>1. deposit'[t] = X!NoDeposit
    BY ONLY <1>3, Zenon
  <2> QED BY ONLY <2>1, NoAmount
<1>5. /\ Total(AmountsOf(deposit)) \in Nat /\ n <= Total(AmountsOf(deposit))
      /\ Total(AmountsOf(deposit')) = Total(AmountsOf(deposit)) - n + deposit'[t].amount
  BY <1>3, AmountsPut, Zenon
<1> HIDE DEF n, to
<1>6. /\ EscrowTracked' /\ pendingXzoneLocked' \in Nat
      /\ pendingXzoneLocked' = pendingXzoneLocked - n
  <2>1. pendingXzoneLocked = Total(AmountsOf(deposit))
    BY TrackedAmounts, Zenon DEF OwnInv
  <2>2. pendingXzoneLocked' = pendingXzoneLocked - n /\ pendingXzoneLocked' \in Nat
    <3>1. /\ pendingXzoneLocked' = SatSub(pendingXzoneLocked, n)
          /\ n \in Nat /\ pendingXzoneLocked \in Nat /\ n <= pendingXzoneLocked
      BY ONLY <1>1, <1>2, <1>5, <2>1, Zenon
    <3> QED BY ONLY <3>1 DEF SatSub
  <2>3. pendingXzoneLocked' = Total(AmountsOf(deposit'))
    <3> DEFINE before == Total(AmountsOf(deposit))
               after  == Total(AmountsOf(deposit'))
    <3>1. before \in Nat /\ n \in Nat /\ after = before - n + deposit'[t].amount
      BY ONLY <1>2, <1>5, Zenon
    <3>2. pendingXzoneLocked' = before - n
      BY ONLY <2>1, <2>2, Zenon
    <3> HIDE DEF before, after
    <3>3. pendingXzoneLocked' = after
      BY ONLY <1>4, <3>1, <3>2
    <3> QED BY ONLY <3>3, Zenon DEF after
  <2> QED BY <2>2, <2>3, TrackedAmounts, Zenon
<1>7. /\ available' \in [Identities -> Nat] /\ Total(available) \in Nat
      /\ Total(available') = Total(available) + n
  BY <1>1, <1>2, OwnTypes, CreditTotal
<1>8. AccountsTypeOK'
  BY <1>1, <1>7, ApplyType, TouchType DEF AccountsTypeOK
<1>9. OwnInv'
  BY <1>1, <1>3, <1>6, Zenon DEF OwnInv
<1>10. OwnFlow' = OwnFlow
  <2>1. /\ Total(bonded) \in Nat /\ conservationPool \in Nat /\ pendingXzoneLocked \in Nat
        /\ Total(available) \in Nat
    BY OwnTypes, Zenon
  <2>2. bonded' = bonded /\ conservationPool' = conservationPool
    BY ONLY <1>1, Zenon
  <2>3. Total(available') = Total(available) + n /\ pendingXzoneLocked' = pendingXzoneLocked - n
    BY ONLY <1>6, <1>7, Zenon
  <2>4. n \in Nat
    BY ONLY <1>2, Zenon
  <2> QED BY ONLY <2>1, <2>2, <2>3, <2>4 DEF OwnFlow
<1> QED BY <1>1, <1>8, <1>9, <1>10 DEF OwnKept, Apply

LEMMA XZoneReturnKept ==
    ASSUME OwnInv, AccountsTypeOK, NEW r \in Records, NEW T \in SUBSET Records, NEW creator,
           NEW ts \in Times, XZoneReturn(r, T, creator, ts)
    PROVE  OwnKept
<1> DEFINE w == [t \in T |-> deposit[t].amount]
           k == [t \in T |-> deposit[t].from]
           h == [a \in Identities |-> Total([t \in {t \in T : k[t] = a} |-> w[t]])]
           f == AmountsOf(deposit)
           g == AmountsOf(deposit')
           fR == [t \in Records \ T |-> f[t]]
           gT == [t \in T |-> g[t]]
           gR == [t \in Records \ T |-> g[t]]
<1>1. /\ \A t \in T : deposit[t] # X!NoDeposit
      /\ available' = [a \in Identities |-> available[a] + X!DepositSumOf(a, T)]
      /\ deposit' = [t \in Records |-> IF t \in T THEN X!NoDeposit ELSE deposit[t]]
      /\ locks' = locks /\ pendingXzoneLocked' = SatSub(pendingXzoneLocked, X!DepositSum(T))
      /\ Apply(r, ts) /\ Touch({deposit[t].from : t \in T} \cup creator, ts)
      /\ UNCHANGED <<totalSupply, conservationPool, bonded>>
  BY Zenon DEF XZoneReturn, X!Return, X!HeldDeposits
<1>2. /\ deposit \in DepositMaps /\ deposit' \in DepositMaps
      /\ IsFiniteSet(Identities) /\ IsFiniteSet(Records) /\ IsFiniteSet(T) /\ IsFiniteSet(Records \ T)
      /\ \A t \in T : deposit[t] \in X!Deposits
  BY <1>1, AccountsConstants, FS_Subset, FS_Difference, Zenon DEF OwnInv, DepositMaps
<1>3. w \in [T -> Nat] /\ k \in [T -> Identities] /\ X!DepositSum(T) = Total(w)
  BY <1>2, AccountsConstants, Zenon DEF X!Deposits, X!DepositSum
<1>4. /\ f \in [Records -> Nat] /\ g \in [Records -> Nat] /\ Total(f) \in Nat /\ Total(g) \in Nat
      /\ \A t \in Records : f[t] = deposit[t].amount /\ g[t] = deposit'[t].amount
  BY <1>2, AmountsType, Zenon
<1>5. [t \in T |-> f[t]] = w /\ gR = fR /\ \A t \in T : gT[t] = 0
  <2>1. \A t \in T : deposit'[t] = X!NoDeposit
    BY <1>1, Zenon
  <2>2. \A t \in Records \ T : deposit'[t] = deposit[t]
    BY <1>1, Zenon
  <2>3. \A t \in Records : f[t] = deposit[t].amount /\ g[t] = deposit'[t].amount
    BY ONLY <1>4, Zenon
  <2> HIDE DEF f, g
  <2>4. [t \in T |-> f[t]] = w
    BY <2>3, Zenon
  <2>5. gR = fR
    BY <2>2, <2>3
  <2>6. \A t \in T : gT[t] = 0
    BY <2>1, <2>3, NoAmount, Zenon
  <2> QED BY ONLY <2>4, <2>5, <2>6, Zenon
<1>6. Total(f) = Total(w) + Total(fR)
  <2>1. Total(f) = Total([t \in T |-> f[t]]) + Total([t \in Records \ T |-> f[t]])
    <3> HIDE DEF f
    <3> QED BY <1>2, <1>4, TotalPartition, Zenon
  <2> QED BY <1>5, <2>1, Zenon
<1>7. Total(g) = Total(fR)
  <2>1. Total(g) = Total(gT) + Total(gR)
    <3> HIDE DEF g
    <3> QED BY <1>2, <1>4, TotalPartition, Zenon
  <2>2. Total(gT) = 0
    <3>1. gT \in [T -> Nat]
      BY <1>4, Zenon
    <3> HIDE DEF gT
    <3> QED BY <1>5, <3>1, TotalZero, Zenon
  <2>3. Total(gR) \in Nat
    <3>1. gR \in [Records \ T -> Nat]
      BY <1>4, Zenon
    <3> HIDE DEF gR
    <3> QED BY <1>2, <3>1, UnitsFinite, Zenon
  <2>4. gR = fR
    BY ONLY <1>5, Zenon
  <2> HIDE DEF gT, gR, fR, g
  <2> QED BY ONLY <2>1, <2>2, <2>3, <2>4
<1>8. Total(w) \in Nat
  <2> HIDE DEF w
  <2> QED BY <1>2, <1>3, UnitsFinite, Zenon
<1>9. Total(fR) \in Nat
  BY <1>4, <1>7, Zenon
<1>10. Total(h) = Total(w)
  <2> HIDE DEF w, k
  <2>1. IsFiniteSet(Identities) /\ IsFiniteSet(T) /\ w \in [T -> Nat] /\ k \in [T -> Identities]
    BY <1>2, <1>3, Zenon
  <2>2. Total([a \in Identities |-> Total([t \in {t \in T : k[t] = a} |-> w[t]])]) = Total(w)
    BY ONLY <2>1, TotalGroups
  <2> QED BY <2>2, Zenon
<1>11. ASSUME NEW a \in Identities PROVE X!DepositSumOf(a, T) = h[a] /\ h[a] \in Nat
  <2> DEFINE D == {t \in T : deposit[t].from = a}
             d == [t \in D |-> deposit[t].amount]
  <2>1. X!DepositSumOf(a, T) = Total(d)
    BY DEF X!DepositSumOf, X!DepositSum
  <2>2. {t \in T : k[t] = a} = D
    OBVIOUS
  <2>3. [t \in D |-> w[t]] = d
    BY Zenon
  <2>4. h[a] = Total(d)
    BY <2>2, <2>3, Zenon
  <2>5. d \in [D -> Nat] /\ IsFiniteSet(D)
    BY <1>2, <1>3, FS_Subset, Zenon
  <2>6. Total(d) \in Nat
    <3> HIDE DEF d, D
    <3> QED BY <2>5, UnitsFinite, Zenon
  <2> QED BY <2>1, <2>4, <2>6, Zenon
<1>12. h \in [Identities -> Nat]
  BY <1>11, Zenon
<1> HIDE DEF w, k, h, f, g, fR, gT, gR
<1>13. /\ available' = [a \in Identities |-> available[a] + h[a]]
       /\ available' \in [Identities -> Nat]
  <2>1. available' = [a \in Identities |-> available[a] + X!DepositSumOf(a, T)]
    BY ONLY <1>1, Zenon
  <2>2. available' = [a \in Identities |-> available[a] + h[a]]
    BY ONLY <1>11, <2>1, Zenon
  <2>3. available \in [Identities -> Nat]
    BY OwnTypes, Zenon
  <2> QED BY ONLY <1>12, <2>2, <2>3
<1>14. Total(available') = Total(available) + Total(w)
  <2>1. IsFiniteSet(Identities) /\ available \in [Identities -> Nat] /\ h \in [Identities -> Nat]
    BY <1>2, <1>12, OwnTypes
  <2>2. Total([a \in Identities |-> available[a] + h[a]]) = Total(available) + Total(h)
    BY ONLY <2>1, TotalSum, Zenon
  <2> QED BY <1>10, <1>13, <2>2, Zenon
<1>15. /\ EscrowTracked' /\ pendingXzoneLocked' \in Nat
       /\ pendingXzoneLocked' = pendingXzoneLocked - Total(w)
  <2>1. pendingXzoneLocked = Total(f)
    BY TrackedAmounts, Zenon DEF OwnInv, f
  <2>2. pendingXzoneLocked' = SatSub(Total(f), Total(w))
    BY <1>1, <1>3, <2>1, Zenon
  <2>3. SatSub(Total(f), Total(w)) = Total(g) /\ Total(f) - Total(w) = Total(g)
    BY <1>6, <1>7, <1>8, <1>9 DEF SatSub
  <2> QED BY <1>4, <2>1, <2>2, <2>3, TrackedAmounts DEF g
<1>16. AccountsTypeOK'
  BY <1>1, <1>13, ApplyType, TouchType DEF AccountsTypeOK
<1>17. OwnInv'
  BY <1>1, <1>2, <1>15, Zenon DEF OwnInv
<1>18. OwnFlow' = OwnFlow
  <2>1. bonded' = bonded /\ conservationPool' = conservationPool
    BY ONLY <1>1, Zenon
  <2>2. /\ Total(available) \in Nat /\ Total(bonded) \in Nat
        /\ pendingXzoneLocked \in Nat /\ conservationPool \in Nat
    BY OwnTypes, Zenon
  <2> QED BY ONLY <1>8, <1>14, <1>15, <2>1, <2>2 DEF OwnFlow
<1> QED BY <1>1, <1>16, <1>17, <1>18 DEF OwnKept, Apply
-----------------------------------------------------------------------------
LEMMA OwnOpsKept ==
    ASSUME OwnInv, AccountsTypeOK, OwnOps
    PROVE  OwnKept
<1>1. CASE \E r \in Records, a \in Identities, bond \in Amounts, ts \in Times :
             WitnessRegister(r, a, bond, ts)
  BY <1>1, WitnessRegisterKept, Zenon
<1>2. CASE \E r \in Records, debits, credits \in [Identities -> 0..MaxDecay],
             poolCredit \in 0..(MaxDecay * Cardinality(Identities)), ts \in Times :
             IdleDecay(r, debits, credits, poolCredit, ts)
  <2>1. PICK r \in Records, debits \in [Identities -> 0..MaxDecay],
             credits \in [Identities -> 0..MaxDecay],
             poolCredit \in 0..(MaxDecay * Cardinality(Identities)), ts \in Times :
             IdleDecay(r, debits, credits, poolCredit, ts)
    BY <1>2, Zenon
  <2>2. poolCredit \in Nat
    <3>1. MaxDecay * Cardinality(Identities) \in Nat
      BY AccountsConstants, LedgerConstants, FS_CardinalityType
    <3> QED BY <3>1
  <2> QED BY <2>1, <2>2, IdleDecayKept, Zenon
<1>3. CASE \E r \in Records, from, to \in Identities, amount \in Amounts, ts \in Times :
             XZoneLock(r, from, to, amount, ts)
  BY <1>3, XZoneLockKept, Zenon
<1>4. CASE \E r, t \in Records, ts \in Times : XZoneClaim(r, t, ts)
  BY <1>4, XZoneClaimKept, Zenon
<1>5. CASE \E r \in Records, T \in SUBSET Records,
             creator \in {{}} \cup {{a} : a \in Identities}, ts \in Times :
             XZoneReturn(r, T, creator, ts)
  BY <1>5, XZoneReturnKept, Zenon
<1> QED BY <1>1, <1>2, <1>3, <1>4, <1>5 DEF OwnOps

LEMMA OwnIdle ==
    ASSUME OwnInv, UNCHANGED ownVars
    PROVE  OwnInv' /\ Total(bonded') = Total(bonded) /\ pendingXzoneLocked' = pendingXzoneLocked
BY Zenon DEF OwnInv, ownVars, EscrowTracked

LEMMA StakingApplies ==
    ASSUME StakingOps
    PROVE  applied \subseteq applied'
<1>1. CASE \E r \in Records, a \in Identities, ts \in Times :
             \/ \E amount \in Amounts : Stake(r, a, amount, ts)
             \/ \E s \in StakeIds : Unstake(r, a, s, ts)
  BY <1>1 DEF Stake, Unstake, Apply
<1>2. CASE \E r \in Records, s \in StakeIds, offender, challenger \in Identities,
             amount \in Amounts, ts \in Times :
             \E size \in 0..MaxJury : \E jury \in [1..size -> Identities] :
                 Slash(r, offender, s, amount, challenger, jury, ts)
  <2>1. PICK r \in Records, ts \in Times : Apply(r, ts)
    BY <1>2 DEF Slash
  <2> QED BY <2>1 DEF Apply
<1>3. CASE \E a \in Identities : ApplyGenesisValidator(a)
  BY <1>3, Zenon DEF ApplyGenesisValidator
<1>4. CASE RebuildStakerIndex
  BY <1>4, Zenon DEF RebuildStakerIndex, accountVars
<1> QED BY <1>1, <1>2, <1>3, <1>4 DEF StakingOps

\* The inductive invariant of the ledger: the ones of its parts and the sum.
LGInv == StakingInv /\ PredictionsInv /\ DormancyTypeOK /\ OwnInv /\ LedgerConservation

\* The pots of the ledger are natural numbers.
LEMMA PotTypes ==
    ASSUME StakingInv, PredictionsInv, OwnInv
    PROVE  /\ AccountsTypeOK /\ Total(available) \in Nat /\ Total(staked) \in Nat
           /\ Total(bonded) \in Nat /\ Total(PredictionStakes) \in Nat
           /\ pendingXzoneLocked \in Nat /\ conservationPool \in Nat /\ totalSupply \in Nat
<1>1. AccountsTypeOK /\ staked \in [Identities -> Nat] /\ predictions \in PredictionMaps
  BY Zenon DEF StakingInv, StakingTypeOK, PredictionsInv, PredictionsTypeOK, PredictionMaps
<1>2. Total(staked) \in Nat
  BY <1>1, AccountsConstants, UnitsFinite, Zenon
<1>3. Total(PredictionStakes) \in Nat
  BY <1>1, StakesInType, PredictionStakesIn
<1> QED BY <1>1, <1>2, <1>3, OwnTypes

LEMMA LGInductive == LGSpec => []LGInv
<1>1. LGInit => LGInv
  <2> SUFFICES ASSUME LGInit PROVE LGInv
    OBVIOUS
  <2>1. /\ AccountsTypeOK /\ Total(available) \in Nat /\ totalSupply = Total(available)
        /\ conservationPool = 0
    BY AccountsStart DEF LGInit
  <2>2. StakingInv /\ Total(staked) = 0
    BY StakingStart DEF LGInit
  <2>3. PredictionsInv /\ Total(PredictionStakes) = 0
    BY <2>1, PredictionsStart, Zenon DEF LGInit
  <2>4. DormancyTypeOK
    BY <2>1, Zenon DEF LGInit, DormancyInit, DormancyTypeOK
  <2>5. bonded \in [Identities -> Nat] /\ \A a \in Identities : bonded[a] = 0
    BY DEF LGInit
  <2>6. Total(bonded) = 0
    BY <2>5, TotalZero, Zenon
  <2>7. deposit \in DepositMaps /\ \A t \in Records : deposit[t] = X!NoDeposit
    BY DEF LGInit, DepositMaps
  <2>8. Total(AmountsOf(deposit)) = 0
    <3>1. \A t \in Records : deposit[t].amount = 0
      BY <2>7 DEF X!NoDeposit
    <3>2. /\ AmountsOf(deposit) \in [Records -> Nat]
          /\ \A t \in Records : AmountsOf(deposit)[t] = 0
      BY <2>7, <3>1, AmountsType, Zenon
    <3> QED BY <3>2, TotalZero, Zenon
  <2>9. OwnInv
    BY <2>5, <2>7, <2>8, TrackedAmounts DEF OwnInv, LGInit
  <2>10. LedgerConservation
    BY <2>1, <2>2, <2>3, <2>6 DEF LedgerConservation, LGInit
  <2> QED BY <2>2, <2>3, <2>4, <2>9, <2>10 DEF LGInv
<1>2. LGInv /\ [LGNext]_lgVars => LGInv'
  <2> SUFFICES ASSUME LGInv, [LGNext]_lgVars PROVE LGInv'
    OBVIOUS
  <2>1. /\ StakingInv /\ PredictionsInv /\ DormancyTypeOK /\ OwnInv /\ LedgerConservation
        /\ AccountsTypeOK
    BY PotTypes, Zenon DEF LGInv
  <2>2. /\ Total(available) \in Nat /\ Total(staked) \in Nat /\ Total(bonded) \in Nat
        /\ Total(PredictionStakes) \in Nat /\ pendingXzoneLocked \in Nat
        /\ conservationPool \in Nat /\ totalSupply \in Nat
    BY <2>1, PotTypes, Zenon
  <2>2a. Total(available) + Total(staked) + Total(bonded) + Total(PredictionStakes)
          + pendingXzoneLocked + conservationPool = totalSupply
    BY ONLY <2>1, Zenon DEF LedgerConservation
  <2>3. CASE /\ AccountOps(Times)
             /\ UNCHANGED <<stakingVars, predictionVars, dormancyVars, ownVars>>
    <3>1. /\ AccountsTypeOK' /\ applied \subseteq applied'
          /\ Flow' + totalSupply = Flow + totalSupply'
      BY <2>1, <2>3, AccountFlow
    <3>2. StakingInv' /\ Total(staked') = Total(staked)
      BY <2>1, <2>3, <3>1, StakesIdle, Zenon
    <3>3. PredictionsInv' /\ Total(PredictionStakes') = Total(PredictionStakes)
      BY <2>1, <2>3, <3>1, PredictionsIdle, Zenon
    <3>4. DormancyTypeOK'
      BY <2>1, <2>3, <3>1, DormancyIdle, Zenon
    <3>5. OwnInv' /\ Total(bonded') = Total(bonded) /\ pendingXzoneLocked' = pendingXzoneLocked
      BY <2>1, <2>3, OwnIdle, Zenon
    <3>6. Total(available') \in Nat /\ conservationPool' \in Nat /\ totalSupply' \in Nat
      BY <3>1, AccountsConstants, UnitsFinite DEF AccountsTypeOK
    <3>7. LedgerConservation'
      <4>1. Total(available') + conservationPool' + totalSupply
              = Total(available) + conservationPool + totalSupply'
        BY ONLY <3>1 DEF Flow
      <4>2. /\ Total(staked') = Total(staked) /\ Total(PredictionStakes') = Total(PredictionStakes)
            /\ Total(bonded') = Total(bonded) /\ pendingXzoneLocked' = pendingXzoneLocked
        BY ONLY <3>2, <3>3, <3>5, Zenon
      <4>3. Total(available') + Total(staked') + Total(bonded') + Total(PredictionStakes')
              + pendingXzoneLocked' + conservationPool' = totalSupply'
        BY ONLY <2>2, <2>2a, <3>6, <4>1, <4>2, SMTT(40)
      <4> QED BY ONLY <4>3, Zenon DEF LedgerConservation
    <3> QED BY <3>2, <3>3, <3>4, <3>5, <3>7 DEF LGInv
  <2>4. CASE StakingOps /\ UNCHANGED <<predictionVars, dormancyVars, ownVars>>
    <3>1. StakingKept /\ applied \subseteq applied'
      BY <2>1, <2>4, StakingOpsKept, StakingApplies
    <3>2. StakingInv' /\ AccountsTypeOK' /\ totalSupply' = totalSupply
      BY <3>1 DEF StakingKept, StakingInv, StakingTypeOK
    <3>3. PredictionsInv' /\ Total(PredictionStakes') = Total(PredictionStakes)
      BY <2>1, <2>4, <3>1, <3>2, PredictionsIdle, Zenon
    <3>4. DormancyTypeOK'
      BY <2>1, <2>4, <3>2, DormancyIdle, Zenon
    <3>5. OwnInv' /\ Total(bonded') = Total(bonded) /\ pendingXzoneLocked' = pendingXzoneLocked
      BY <2>1, <2>4, OwnIdle, Zenon
    <3>6. /\ Total(available') \in Nat /\ conservationPool' \in Nat /\ Total(staked') \in Nat
      BY <3>2, AccountsConstants, UnitsFinite DEF AccountsTypeOK, StakingInv, StakingTypeOK
    <3>7. LedgerConservation'
      <4>1. /\ Total(available') + Total(staked') + conservationPool'
                 = Total(available) + Total(staked) + conservationPool
            /\ totalSupply' = totalSupply
        BY ONLY <3>1 DEF StakingKept
      <4>2. /\ Total(PredictionStakes') = Total(PredictionStakes) /\ Total(bonded') = Total(bonded)
            /\ pendingXzoneLocked' = pendingXzoneLocked
        BY ONLY <3>3, <3>5, Zenon
      <4>3. Total(available') + Total(staked') + Total(bonded') + Total(PredictionStakes')
              + pendingXzoneLocked' + conservationPool' = totalSupply'
        BY ONLY <2>2, <2>2a, <3>6, <4>1, <4>2, SMTT(40)
      <4> QED BY ONLY <4>3 DEF LedgerConservation
    <3> QED BY <3>2, <3>3, <3>4, <3>5, <3>7 DEF LGInv
  <2>5. CASE /\ (evaluating = {} /\ LockedOps) \/ EvaluationStep
             /\ UNCHANGED <<stakingVars, dormancyVars, ownVars>>
    <3>1. PredictionsKept
      BY <2>1, <2>5, LockedOpsKept, EvaluationStepKept
    <3>2. /\ PredictionsInv' /\ AccountsTypeOK' /\ applied \subseteq applied'
          /\ predictions' \in PredictionMaps /\ totalSupply' = totalSupply
      BY <3>1 DEF PredictionsKept, PredictionsInv, PredictionsTypeOK, PredictionMaps
    <3>3. StakingInv' /\ Total(staked') = Total(staked)
      BY <2>1, <2>5, <3>2, StakesIdle, Zenon
    <3>4. DormancyTypeOK'
      BY <2>1, <2>5, <3>2, DormancyIdle, Zenon
    <3>5. OwnInv' /\ Total(bonded') = Total(bonded) /\ pendingXzoneLocked' = pendingXzoneLocked
      BY <2>1, <2>5, OwnIdle, Zenon
    <3>6. Total(available') \in Nat /\ conservationPool' \in Nat /\ Total(PredictionStakes') \in Nat
      BY <3>2, AccountsConstants, UnitsFinite, StakesInType, PredictionStakesIn DEF AccountsTypeOK
    <3>7. LedgerConservation'
      <4>1. Total(available') + Total(PredictionStakes') + conservationPool'
              = Total(available) + Total(PredictionStakes) + conservationPool
        BY ONLY <3>1 DEF PredictionsKept, PredictionFlow
      <4>2. /\ Total(staked') = Total(staked) /\ Total(bonded') = Total(bonded)
            /\ pendingXzoneLocked' = pendingXzoneLocked /\ totalSupply' = totalSupply
        BY ONLY <3>2, <3>3, <3>5, Zenon
      <4>3. Total(available') + Total(staked') + Total(bonded') + Total(PredictionStakes')
              + pendingXzoneLocked' + conservationPool' = totalSupply'
        BY ONLY <2>2, <2>2a, <3>6, <4>1, <4>2, SMTT(40)
      <4> QED BY ONLY <4>3 DEF LedgerConservation
    <3> QED BY <3>2, <3>3, <3>4, <3>5, <3>7 DEF LGInv
  <2>6. CASE DormancyOps(Times) /\ UNCHANGED <<stakingVars, predictionVars, ownVars>>
    <3>1. DormancyKept
      BY <2>1, <2>6, DormancyOpsKept
    <3>2. DormancyTypeOK' /\ AccountsTypeOK' /\ applied \subseteq applied' /\ totalSupply' = totalSupply
      BY <3>1 DEF DormancyKept, DormancyTypeOK
    <3>3. StakingInv' /\ Total(staked') = Total(staked)
      BY <2>1, <2>6, <3>2, StakesIdle, Zenon
    <3>4. PredictionsInv' /\ Total(PredictionStakes') = Total(PredictionStakes)
      BY <2>1, <2>6, <3>2, PredictionsIdle, Zenon
    <3>5. OwnInv' /\ Total(bonded') = Total(bonded) /\ pendingXzoneLocked' = pendingXzoneLocked
      BY <2>1, <2>6, OwnIdle, Zenon
    <3>6. Total(available') \in Nat /\ conservationPool' \in Nat
      BY <3>2, AccountsConstants, UnitsFinite DEF AccountsTypeOK
    <3>7. LedgerConservation'
      <4>1. Total(available') + conservationPool' = Total(available) + conservationPool
        BY ONLY <3>1 DEF DormancyKept, Flow
      <4>2. /\ Total(staked') = Total(staked) /\ Total(PredictionStakes') = Total(PredictionStakes)
            /\ Total(bonded') = Total(bonded) /\ pendingXzoneLocked' = pendingXzoneLocked
            /\ totalSupply' = totalSupply
        BY ONLY <3>2, <3>3, <3>4, <3>5, Zenon
      <4>3. Total(available') + Total(staked') + Total(bonded') + Total(PredictionStakes')
              + pendingXzoneLocked' + conservationPool' = totalSupply'
        BY ONLY <2>2, <2>2a, <3>6, <4>1, <4>2, SMTT(40)
      <4> QED BY ONLY <4>3 DEF LedgerConservation
    <3> QED BY <3>2, <3>3, <3>4, <3>5, <3>7 DEF LGInv
  <2>7. CASE OwnOps /\ UNCHANGED <<stakingVars, predictionVars, dormancyVars>>
    <3>1. OwnKept
      BY <2>1, <2>7, OwnOpsKept, Zenon
    <3>2. OwnInv' /\ AccountsTypeOK' /\ applied \subseteq applied' /\ totalSupply' = totalSupply
      BY <3>1 DEF OwnKept
    <3>3. StakingInv' /\ Total(staked') = Total(staked)
      BY <2>1, <2>7, <3>2, StakesIdle, Zenon
    <3>4. PredictionsInv' /\ Total(PredictionStakes') = Total(PredictionStakes)
      BY <2>1, <2>7, <3>2, PredictionsIdle, Zenon
    <3>5. DormancyTypeOK'
      BY <2>1, <2>7, <3>2, DormancyIdle, Zenon
    <3>6. /\ Total(available') \in Nat /\ conservationPool' \in Nat /\ Total(bonded') \in Nat
          /\ pendingXzoneLocked' \in Nat
      BY <3>2, AccountsConstants, UnitsFinite DEF AccountsTypeOK, OwnInv
    <3>7. LedgerConservation'
      <4>1. Total(available') + Total(bonded') + pendingXzoneLocked' + conservationPool'
              = Total(available) + Total(bonded) + pendingXzoneLocked + conservationPool
        BY ONLY <3>1 DEF OwnKept, OwnFlow
      <4>2. /\ Total(staked') = Total(staked) /\ Total(PredictionStakes') = Total(PredictionStakes)
            /\ totalSupply' = totalSupply
        BY ONLY <3>2, <3>3, <3>4, Zenon
      <4>3. Total(available') + Total(staked') + Total(bonded') + Total(PredictionStakes')
              + pendingXzoneLocked' + conservationPool' = totalSupply'
        BY ONLY <2>2, <2>2a, <3>6, <4>1, <4>2, SMTT(40)
      <4> QED BY ONLY <4>3 DEF LedgerConservation
    <3> QED BY <3>2, <3>3, <3>4, <3>5, <3>7 DEF LGInv
  <2>8. CASE UNCHANGED lgVars
    <3>1. /\ UNCHANGED accountVars /\ UNCHANGED stakingVars /\ UNCHANGED predictionVars
          /\ UNCHANGED dormancyVars /\ UNCHANGED ownVars
      BY <2>8, Zenon DEF lgVars
    <3>2. AccountsTypeOK' /\ applied \subseteq applied'
      BY <2>1, <3>1, Zenon DEF AccountsTypeOK, accountVars
    <3>3. StakingInv' /\ PredictionsInv' /\ DormancyTypeOK' /\ OwnInv'
      BY <2>1, <3>1, <3>2, StakesIdle, PredictionsIdle, DormancyIdle, OwnIdle
    <3>4. LedgerConservation'
      BY <2>1, <3>1, Zenon DEF LedgerConservation, accountVars, stakingVars, predictionVars, ownVars,
                        PredictionStakes, Open
    <3> QED BY <3>3, <3>4, Zenon DEF LGInv
  <2> QED BY <2>3, <2>4, <2>5, <2>6, <2>7, <2>8 DEF LGNext
<1> QED BY <1>1, <1>2, PTL DEF LGSpec

\* Supply is conserved by every operation of the ledger, for any identities,
\* records, amounts and order: nothing is lost or invented.
THEOREM LedgerConserves == LGSpec => []LedgerConservation
BY LGInductive, PTL DEF LGInv

\* The books of stakes also agree when every other operation runs beside them.
THEOREM LedgerStakeBooks == LGSpec => []StakeBooks
BY LGInductive, PTL DEF LGInv, StakingInv

\* The tracker of the escrow never drifts from what the transfers hold.
THEOREM LedgerEscrowTracked == LGSpec => []EscrowTracked
BY LGInductive, PTL DEF LGInv, OwnInv

\* No pot of the ledger underflows.
THEOREM LedgerTypeCorrect == LGSpec => []LedgerTypeOK
<1>1. LGInv => LedgerTypeOK
  BY DEF LGInv, StakingInv, PredictionsInv, OwnInv, LedgerTypeOK, DepositMaps
<1> QED BY <1>1, LGInductive, PTL
=============================================================================
