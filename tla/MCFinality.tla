----------------------------- MODULE MCFinality -----------------------------
(***************************************************************************)
(* An instance of SealFinality for TLC.  A seal of wa lists one record of  *)
(* wb; wa has half of the stake, so that the seal settles on the other     *)
(* half only as long as the engine knows its creator.                      *)
(***************************************************************************)
EXTENDS SealFinality, TLC

CONSTANTS o1, s1, wa, wb, wc

MCStake == [w \in {wa, wb, wc} |-> IF w = wa THEN 2 ELSE 1]
MCCreatorOf == [i \in {o1, s1} |-> IF i = s1 THEN wa ELSE wb]
MCListed == [s \in {s1} |-> {o1}]
MCClusterOf == [w \in {wa, wb, wc} |-> IF w = wa THEN 1 ELSE 2]

\* A behaviour meets one of four things: a second registration by the creator, a
\* conflict, a round of the memory prune, or a phantom, which is the record and not the
\* seal.  Beside a prune, only the record is attested by its creator; it has a third
\* attester only while there is neither seal nor prune.
MCNext ==
    /\ SealFinalityNext
    /\ (\E s \in LocalSeals : registrar'[s].pc # "resolve") =>
           conflicted' = {} /\ ~swept' /\ pruneTicks' = 0
    /\ conflicted' # {} =>
           Cardinality(conflicted') = 1 /\ ~swept' /\ pruneTicks' = 0 /\ lapsed' = {}
    /\ phantoms' # {} \/ mistaken' # {} =>
           /\ s1 \notin stored' /\ engine'.atts[s1] = {}
           /\ conflicted' = {} /\ ~swept' /\ pruneTicks' = 0
    /\ swept' \/ pruneTicks' > 0 => wa \notin engine'.atts[s1]
    /\ wc \in engine'.atts[o1] => s1 \notin stored' /\ ~swept' /\ pruneTicks' = 0

MCSpec == SealFinalityInit /\ [][MCNext]_sfVars /\ SealFinalityFairness
=============================================================================
