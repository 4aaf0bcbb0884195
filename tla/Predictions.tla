----------------------------- MODULE Predictions -----------------------------
(***************************************************************************)
(* Predictions: the Predict arm of apply_op, and evaluate_predictions,     *)
(* which every processed seal calls for its own epoch.  A node processes a *)
(* seal when it ingests it, and the node that made the seal a second time  *)
(* in its epoch loop; both take the ledger lock with try_write and skip    *)
(* the evaluation when it is contended.  The loop of an evaluation runs    *)
(* under the lock: nothing else applies while evaluating is not empty.     *)
(***************************************************************************)
EXTENDS Accounts

CONSTANTS
    Epochs,               \* epochs of a zone that are sealed
    Sandbox,              \* the zone is a sandbox zone
    MinPredictionStake,
    PredictedValues,
    Counts,               \* record and identity counts of an epoch
    MaxPasses             \* bound: passes over one seal, 2 on its creator

ASSUME PredictionsConstants ==
    /\ Sandbox \in BOOLEAN /\ MinPredictionStake \in Nat /\ MaxPasses \in Nat
    /\ PredictedValues \subseteq Nat /\ Counts \subseteq Nat

VARIABLES
    predictions,          \* id -> PredictionEntry
    passes,               \* passes made over the seal of an epoch
    evaluating,           \* ids the running evaluation has still to visit
    observed,             \* the counts of the epoch under evaluation
    skipped               \* open predictions that a contended pass left behind

predictionVars == <<predictions, passes, evaluating, observed, skipped>>

Claims == {"Active", "Volume", "IdentityCount"}
NoPrediction == [outcome |-> "Absent", amount |-> 0]
PredictionEntry ==
    [predictor : Identities, amount : Nat, epoch : Epochs, claim : Claims,
     value : PredictedValues, outcome : {"None", "Correct", "Wrong"}]
Observation == [records : Counts, identities : Counts]
NoObservation == [records |-> 0, identities |-> 0]

Open(p) == predictions[p].outcome = "None"

\* Types: neither a balance nor the pool underflows.
PredictionsTypeOK ==
    /\ AccountsTypeOK
    /\ predictions \in [Records -> PredictionEntry \cup {NoPrediction}]
    /\ passes \in [Epochs -> 0..MaxPasses]
    /\ evaluating \subseteq Records
    /\ observed \in Observation \cup {NoObservation}
    /\ skipped \subseteq Records

PredictionsInit ==
    /\ predictions = [p \in Records |-> NoPrediction]
    /\ passes = [e \in Epochs |-> 0]
    /\ evaluating = {}
    /\ observed = NoObservation
    /\ skipped = {}
-----------------------------------------------------------------------------
\* A prediction for an epoch that is already sealed is accepted as well.
Predict(r, a, amount, epoch, claim, value, ts) ==
    /\ Apply(r, ts)
    /\ ~Sandbox => amount >= MinPredictionStake
    /\ amount <= available[a]
    /\ Debit(a, amount)
    /\ Touch({a}, ts)
    /\ predictions' = [predictions EXCEPT ![r] =
          [predictor |-> a, amount |-> amount, epoch |-> epoch, claim |-> claim,
           value |-> value, outcome |-> "None"]]
    /\ UNCHANGED <<totalSupply, conservationPool, passes, evaluating, observed, skipped>>

\* within_margin: off by at most a fifth of what happened.
Difference(m, n) == Greatest(m, n) - Least(m, n)
WithinMargin(value, actual) == 5 * Difference(value, actual) <= Greatest(actual, 1)

EvaluateClaim(claim, value, seen) ==
    CASE claim = "Active" -> (seen.records > 0) = (value > 0)
      [] claim = "Volume" -> WithinMargin(value, seen.records)
      [] claim = "IdentityCount" -> WithinMargin(value, seen.identities)

\* The counts a pass hands to evaluate_predictions: both callers give 0 for
\* actual_identity_count.
Handed(seen) == [seen EXCEPT !.identities = 0]

\* What evaluate_predictions collects.
PredictionsFor(epoch) == {p \in Records : Open(p) /\ predictions[p].epoch = epoch}

\* A pass that gets the lock.
EvaluatePredictions(epoch, seen) ==
    /\ passes[epoch] < MaxPasses
    /\ passes' = [passes EXCEPT ![epoch] = @ + 1]
    /\ evaluating' = PredictionsFor(epoch)
    /\ observed' = IF PredictionsFor(epoch) = {} THEN NoObservation ELSE seen
    /\ UNCHANGED <<accountVars, predictions, skipped>>

\* A pass that finds the lock contended.
SkipEvaluation(epoch) ==
    /\ passes[epoch] < MaxPasses
    /\ passes' = [passes EXCEPT ![epoch] = @ + 1]
    /\ skipped' = skipped \cup PredictionsFor(epoch)
    /\ UNCHANGED <<accountVars, predictions, evaluating, observed>>

\* A tenth of the stake, nothing for an identity classified as an exchange,
\* and never more than the pool holds.
Reward(amount, multiplier) == Least((amount \div 10) * multiplier, conservationPool)

PayCorrect(p, multiplier) ==
    LET reward == Reward(predictions[p].amount, multiplier)
    IN /\ conservationPool' = conservationPool - reward
       /\ Credit(predictions[p].predictor, predictions[p].amount + reward)

\* The stake goes to the pool as far as the cap allows, the rest back.  The
\* mutant takes what the pool holds for its room.
MutantConfiscateWrong(p) ==
    LET pooled == Least(predictions[p].amount, conservationPool)
    IN /\ conservationPool' = conservationPool + pooled
       /\ Credit(predictions[p].predictor, predictions[p].amount - pooled)
ConfiscateWrong(p) ==
    LET pooled == Funded(predictions[p].amount)
    IN /\ conservationPool' = conservationPool + pooled
       /\ Credit(predictions[p].predictor, predictions[p].amount - pooled)

\* One round of the loop, in the order of the ids.
EvaluateNext(p, multiplier) ==
    LET correct == EvaluateClaim(predictions[p].claim, predictions[p].value,
                                 Handed(observed))
    IN /\ p \in evaluating
       /\ \A q \in evaluating : p <= q
       /\ IF correct THEN PayCorrect(p, multiplier) ELSE ConfiscateWrong(p)
       /\ predictions' = [predictions EXCEPT ![p].outcome =
             IF correct THEN "Correct" ELSE "Wrong"]
       /\ evaluating' = evaluating \ {p}
       /\ skipped' = skipped \ {p}
       /\ observed' = IF evaluating = {p} THEN NoObservation ELSE observed
       /\ UNCHANGED <<lastActive, totalSupply, applied, lastAppliedTs, passes>>

\* The steps that take the lock, and the rounds of an evaluation that holds it.
LockedOps ==
    \/ \E r \in Records, a \in Identities, amount \in Amounts, epoch \in Epochs,
          claim \in Claims, value \in PredictedValues, ts \in Times :
          Predict(r, a, amount, epoch, claim, value, ts)
    \/ \E epoch \in Epochs, seen \in Observation : EvaluatePredictions(epoch, seen)
    \/ \E epoch \in Epochs : SkipEvaluation(epoch)
EvaluationStep == \E p \in Records, multiplier \in {0, 1} : EvaluateNext(p, multiplier)

PRInit == AccountsInit /\ PredictionsInit
PRNext ==
    \/ evaluating = {} /\ LockedOps
    \/ evaluating = {} /\ AccountOps(Times) /\ UNCHANGED predictionVars
    \/ EvaluationStep

prVars == <<accountVars, predictionVars>>
PRSpec == PRInit /\ [][PRNext]_prVars

\* A pass over the seal of an epoch, when the epochs before it were sealed.
Processed(epoch) ==
    /\ evaluating = {}
    /\ \A e \in Epochs : e < epoch => passes[e] > 0
    /\ \/ \E seen \in Observation : EvaluatePredictions(epoch, seen)
       \/ SkipEvaluation(epoch)
SealsInOrder == \A e \in Epochs : passes'[e] # passes[e] => Processed(e)

\* The epoch loop keeps sealing, one epoch after the other, every seal is
\* processed, and an evaluation that holds the lock runs to its end.
PRFairSpec ==
    /\ PRInit
    /\ [][PRNext /\ SealsInOrder]_prVars
    /\ \A epoch \in Epochs : WF_prVars(Processed(epoch))
    /\ WF_prVars(EvaluationStep)
-----------------------------------------------------------------------------
\* What open predictions hold.
PredictionStakes == [p \in Records |-> IF Open(p) THEN predictions[p].amount ELSE 0]

\* A stake leaves the balance with Predict and comes back, or goes to the pool,
\* once: also when the seal is processed twice, the pool is too small for the
\* rewards or has no room for the stakes.
PredictionConservation ==
    Total(available) + Total(PredictionStakes) + conservationPool = totalSupply

PayoutStep ==
    \A p \in Records : Open(p) =>
        LET a == predictions[p].predictor
            amount == predictions[p].amount
            gain == available'[a] - available[a]
        IN CASE predictions'[p].outcome = "None" -> TRUE
             [] predictions'[p].outcome = "Correct" -> amount <= gain /\ 10 * gain <= 11 * amount
             [] predictions'[p].outcome = "Wrong" ->
                   0 <= gain /\ (conservationPool < PoolCap => gain < amount \/ amount = 0)

\* A correct prediction gets its stake back and at most a tenth more; a wrong
\* one loses some of its stake unless the pool is full.
PayoutBounds == [][PayoutStep]_prVars

\* "If contended, predictions will be evaluated on the next epoch cycle or by
\* the ingest pipeline": a prediction that a contended pass left behind is
\* evaluated later, where a later epoch is sealed.
ContendedEvaluated ==
    \A p \in Records :
        (p \in skipped /\ \E e \in Epochs : e > predictions[p].epoch) ~> p \notin skipped
=============================================================================
