----------------------------- MODULE Governance -----------------------------
(***************************************************************************)
(* Conviction voting: GovernanceState of src/src/accounting/governance.rs  *)
(* as apply_governance_op of src/src/accounting/ledger.rs drives it.  Each *)
(* action is one governance record folded into the ledger: the arm of its  *)
(* operation, then the settlement of every proposal whose voting is over   *)
(* at the record's timestamp.  An operation that fails returns before the  *)
(* settlement and changes nothing.                                         *)
(*                                                                         *)
(* A fold of records applies the governance records after the ledger       *)
(* records and in timestamp order, so govStakes, the active governance     *)
(* stake of each identity, changes between two folds and not within one.   *)
(* An inactive delegation reads as none everywhere, and is none here.  No  *)
(* caller challenges a committee, so there are no challenges here.         *)
(***************************************************************************)
EXTENDS Conviction

CONSTANTS
    Voters,             \* identities that stake, vote and delegate
    Exchanges,          \* identities that the exchange classifier has classified
    Proposals,          \* ids of propose records
    Category,           \* Category[p]: "parameter", "critical", "protocol_upgrade" or "other"
    Committee,          \* Committee[p]: the members, or NoCommittee
    NoCommittee,
    NoOne,              \* no delegate
    MaxStake,           \* bound on a stake
    MinProposalStake, VotingPeriod, CommitteeVotingPeriod, ExecutionDelay, ChallengePeriod,
    TransitionPeriod    \* TransitionPeriod[kind]: transition_days of an upgrade kind

ASSUME GovernanceConstants ==
    /\ IsFiniteSet(Voters) /\ IsFiniteSet(Proposals)
    /\ Exchanges \subseteq Voters
    /\ NoOne \notin Voters
    /\ \A p \in Proposals : Committee[p] = NoCommittee \/ Committee[p] \subseteq Voters
    /\ MaxStake \in Nat
    /\ MinProposalStake \in Nat
    /\ VotingPeriod \in Nat \ {0} /\ CommitteeVotingPeriod \in Nat \ {0}
    /\ ExecutionDelay \in Nat /\ ChallengePeriod \in Nat

VARIABLES
    govStakes,          \* governance_stake_for of every identity
    proposals,          \* a map from the ids of the proposals made so far
    delegate,           \* the active delegation of every identity, or NoOne
    delegations,        \* active_delegations_count
    counts,             \* proposal_status_counts
    changes,            \* how many entries of param_changes name the proposal
    outcome,            \* upgrade_outcomes
    lastGov             \* timestamp of the last governance record that was applied

gvVars == <<govStakes, proposals, delegate, delegations, counts, changes, outcome, lastGov>>

Statuses == {"active", "passed", "rejected", "expired", "executed", "cancelled"}
Directions == {"for", "against", "abstain"}
Outcomes == {"none", "vote_open", "passed", "failed", "active"}
\* supermajority_threshold of every UpgradeKind, in hundredths.
Threshold == [soft_fork |-> 50, hard_fork |-> 67, emergency |-> 75]
UpgradeKinds == DOMAIN Threshold
NotPassed == -1         \* passed_at = None

Ballots == [stake : Nat, own : Nat, dir : Directions, at : Nat]
IsProposal(prop) ==
    /\ prop.proposer \in Voters /\ prop.status \in Statuses
    /\ prop.deadline \in Nat /\ prop.passedAt \in Nat \cup {NotPassed}
    /\ DOMAIN prop.votes \subseteq Voters
    /\ \A i \in DOMAIN prop.votes : prop.votes[i] \in Ballots

With(P, p) == {q \in DOMAIN P : P[q].status = p}

GovernanceInit ==
    /\ govStakes \in [Voters -> 0..MaxStake]
    /\ proposals = [p \in {} |-> NoOne]
    /\ delegate = [i \in Voters |-> NoOne]
    /\ delegations = 0
    /\ counts = [s \in Statuses |-> 0]
    /\ changes = [p \in Proposals |-> 0]
    /\ outcome = [p \in Proposals |-> "none"]
    /\ lastGov = 0
-----------------------------------------------------------------------------
(* Weights and settlement *)

\* The active delegators of an identity.
DelegatorsFor(D, i) == {d \in Voters : D[d] = i}

\* effective_voting_stake: own stake and that of the delegators who have not voted.
EffectiveVotingStake(i, p) ==
    govStakes[i] + Total([d \in DelegatorsFor(delegate, i) \ DOMAIN proposals[p].votes |->
                              govStakes[d]])

\* The fold without the delegators' own ballots taken out.
MutantReconciled(votes, D) ==
    [i \in DOMAIN votes |->
        [votes[i] EXCEPT !.stake = votes[i].own + Total([d \in DelegatorsFor(D, i) |-> govStakes[d]])]]

\* reconcile_effective_stakes: the frozen own stake, and the present stakes of the
\* delegators who cast no ballot of their own.
Reconciled(votes, D) ==
    [i \in DOMAIN votes |->
        [votes[i] EXCEPT !.stake =
            votes[i].own + Total([d \in DelegatorsFor(D, i) \ DOMAIN votes |-> govStakes[d]])]]

TotalGovernanceStaked == Total(govStakes)

\* settle_proposal on reconciled votes: participation of a quarter of the stake, then
\* a supermajority of 67 in 100 of the decisive weight.
Verdict(votes, now) ==
    LET for == TallyOf(votes, "for", now)
        decisive == for + TallyOf(votes, "against", now)
    IN  IF Participating(votes) * 4 < TotalGovernanceStaked \/ decisive = 0 THEN "expired"
        ELSE IF for * 100 >= decisive * 67 THEN "passed" ELSE "rejected"

SettleProposal(prop, D, now) ==
    LET votes == Reconciled(prop.votes, D)
        verdict == Verdict(votes, now)
    IN  [prop EXCEPT !.votes = votes, !.status = verdict,
                     !.passedAt = IF verdict = "passed" THEN now ELSE @]

MutantDue(P, now) == {p \in With(P, "active") : now > P[p].deadline}

\* The proposals that the tail of apply_governance_op settles.
Due(P, now) == {p \in With(P, "active") : now >= P[p].deadline}

\* The transition that only increments.
MutantRecounted(C, from, P, S) ==
    [s \in Statuses |-> C[s] + Cardinality({p \in S : P[p].status = s})]

\* record_status_transition for every p of S, from one status to the one of P[p].
Recounted(C, from, P, S) ==
    [s \in Statuses |-> (IF s = from THEN SatSub(C[s], Cardinality(S)) ELSE C[s])
                            + Cardinality({p \in S : P[p].status = s})]

\* The tail of apply_governance_op: P, D and C are the state that the arm leaves.
AutoSettle(P, D, C, ts) ==
    LET due == Due(P, ts)
        settled == [p \in DOMAIN P |-> IF p \in due THEN SettleProposal(P[p], D, ts) ELSE P[p]]
    IN  /\ proposals' = settled
        /\ counts' = Recounted(C, "active", settled, due)
        /\ lastGov' = ts
-----------------------------------------------------------------------------
(* Records *)

Deadline(p, ts) ==
    ts + (IF Committee[p] # NoCommittee THEN CommitteeVotingPeriod ELSE VotingPeriod)

\* Propose, create_proposal: the record's id is the id of the proposal.
Propose(i, p, ts) ==
    /\ i \notin Exchanges
    /\ govStakes[i] >= MinProposalStake
    /\ p \notin DOMAIN proposals
    /\ Category[p] = "critical" => Committee[p] # NoCommittee
    /\ LET prop == [proposer |-> i, status |-> "active", deadline |-> Deadline(p, ts),
                    passedAt |-> NotPassed, votes |-> [v \in {} |-> NoOne]]
           P == [q \in DOMAIN proposals \cup {p} |-> IF q = p THEN prop ELSE proposals[q]]
       IN  AutoSettle(P, delegate, [counts EXCEPT !["active"] = @ + 1], ts)
    /\ UNCHANGED <<govStakes, delegate, delegations, changes, outcome>>

\* Vote, cast_vote_with_own.
Vote(i, p, dir, ts) ==
    /\ i \notin Exchanges
    /\ p \in DOMAIN proposals
    /\ proposals[p].status = "active" /\ ts < proposals[p].deadline
    /\ i \notin DOMAIN proposals[p].votes
    /\ EffectiveVotingStake(i, p) # 0
    /\ Committee[p] # NoCommittee => i \in Committee[p]
    /\ LET ballot == [stake |-> EffectiveVotingStake(i, p), own |-> govStakes[i],
                      dir |-> dir, at |-> ts]
           votes == [v \in DOMAIN proposals[p].votes \cup {i} |->
                        IF v = i THEN ballot ELSE proposals[p].votes[v]]
       IN  AutoSettle([proposals EXCEPT ![p].votes = votes], delegate, counts, ts)
    /\ UNCHANGED <<govStakes, delegate, delegations, changes, outcome>>

\* The execution without the delays, and the one that forgets the new status.
MutantCanExecute(p, ts) == proposals[p].status = "passed"
MutantExecuted(p) == proposals

\* can_execute and the challenge period of execute_proposal.
CanExecute(p, ts) ==
    /\ proposals[p].status = "passed"
    /\ ts >= proposals[p].passedAt + ExecutionDelay
    /\ Committee[p] # NoCommittee => ts >= proposals[p].passedAt + ChallengePeriod

Executed(p) == [proposals EXCEPT ![p].status = "executed"]

\* evaluate_protocol_upgrade_proposal: raw stakes, and the threshold of the
\* kind that the executing record names.
UpgradeOutcome(p, kind, now) ==
    LET votes == proposals[p].votes
        raw(dir) == Total([i \in {j \in DOMAIN votes : votes[j].dir = dir} |-> votes[i].stake])
        decisive == raw("for") + raw("against")
    IN  IF now < proposals[p].deadline THEN "vote_open"
        ELSE IF decisive = 0 \/ raw("for") * 100 < decisive * Threshold[kind] THEN "failed"
        ELSE IF now >= proposals[p].deadline + TransitionPeriod[kind] THEN "active" ELSE "passed"

\* Execute.  The executing record names the parameter and its value, or the kind of
\* the upgrade; metadata that is missing or malformed changes nothing.
Execute(i, p, valid, kind, ts) ==
    /\ i \notin Exchanges
    /\ p \in DOMAIN proposals
    /\ CanExecute(p, ts)
    /\ changes' = IF Category[p] = "parameter" /\ valid
                  THEN [changes EXCEPT ![p] = @ + 1] ELSE changes
    /\ outcome' = IF Category[p] = "protocol_upgrade" /\ valid
                  THEN [outcome EXCEPT ![p] = UpgradeOutcome(p, kind, ts)] ELSE outcome
    /\ AutoSettle(Executed(p), delegate, Recounted(counts, "passed", Executed(p), {p}), ts)
    /\ UNCHANGED <<govStakes, delegate, delegations>>

\* Cancel, cancel_proposal: by the proposer, as long as no record has settled it.
Cancel(i, p, ts) ==
    /\ i \notin Exchanges
    /\ p \in DOMAIN proposals
    /\ proposals[p].status = "active"
    /\ proposals[p].proposer = i
    /\ LET P == [proposals EXCEPT ![p].status = "cancelled"]
       IN  AutoSettle(P, delegate, Recounted(counts, "active", P, {p}), ts)
    /\ UNCHANGED <<govStakes, delegate, delegations, changes, outcome>>

\* Delegate: at most one delegate, and not to one's own delegator.
Delegate(i, d, ts) ==
    /\ i \notin Exchanges
    /\ i # d
    /\ delegate[i] = NoOne
    /\ delegate[d] # i
    /\ delegate' = [delegate EXCEPT ![i] = d]
    /\ delegations' = delegations + 1
    /\ AutoSettle(proposals, delegate', counts, ts)
    /\ UNCHANGED <<govStakes, changes, outcome>>

\* An undelegation that may be repeated, with a plain decrement.
MutantUndelegate(i, ts) ==
    /\ i \notin Exchanges
    /\ delegate' = [delegate EXCEPT ![i] = NoOne]
    /\ delegations' = delegations - 1
    /\ AutoSettle(proposals, delegate', counts, ts)
    /\ UNCHANGED <<govStakes, changes, outcome>>

\* Undelegate.
Undelegate(i, ts) ==
    /\ i \notin Exchanges
    /\ delegate[i] # NoOne
    /\ delegate' = [delegate EXCEPT ![i] = NoOne]
    /\ delegations' = SatSub(delegations, 1)
    /\ AutoSettle(proposals, delegate', counts, ts)
    /\ UNCHANGED <<govStakes, changes, outcome>>

\* The stakes and unstakes of a later fold.
ChangeStake(i, amount) ==
    /\ govStakes' = [govStakes EXCEPT ![i] = amount]
    /\ UNCHANGED <<proposals, delegate, delegations, counts, changes, outcome, lastGov>>

GovernanceRecord(ts) ==
    \/ \E i \in Voters, p \in Proposals : Propose(i, p, ts)
    \/ \E i \in Voters, p \in Proposals, dir \in Directions : Vote(i, p, dir, ts)
    \/ \E i \in Voters, p \in Proposals, valid \in BOOLEAN, kind \in UpgradeKinds :
            Execute(i, p, valid, kind, ts)
    \/ \E i \in Voters, p \in Proposals : Cancel(i, p, ts)
    \/ \E i, d \in Voters : Delegate(i, d, ts)
    \/ \E i \in Voters : Undelegate(i, ts)

GovernanceNext ==
    \/ \E ts \in lastGov..MaxTime : GovernanceRecord(ts)
    \/ \E i \in Voters, amount \in 0..MaxStake : ChangeStake(i, amount)

GovernanceSpec == GovernanceInit /\ [][GovernanceNext]_gvVars
-----------------------------------------------------------------------------
(* Properties *)

\* Types.
GovernanceTypeOK ==
    /\ govStakes \in [Voters -> 0..MaxStake]
    /\ DOMAIN proposals \subseteq Proposals
    /\ \A p \in DOMAIN proposals : IsProposal(proposals[p])
    /\ delegate \in [Voters -> Voters \cup {NoOne}]
    /\ delegations \in Nat
    /\ counts \in [Statuses -> Nat]
    /\ changes \in [Proposals -> Nat]
    /\ outcome \in [Proposals -> Outcomes]
    /\ lastGov \in Nat

\* The counters that replace scans, active_delegations_count and
\* proposal_status_counts, equal what a scan of the maps would find, after any
\* interleaving of arms and settlements: no saturating decrement ever bites.
CountersExact ==
    /\ \A s \in Statuses : counts[s] = Cardinality(With(proposals, s))
    /\ delegations = Cardinality({i \in Voters : delegate[i] # NoOne})

\* After a governance record is applied no proposal is open whose voting had ended by
\* that record's time: apply_governance_op settles all of them, whatever its operation.
SettledInTime == \A p \in With(proposals, "active") : lastGov < proposals[p].deadline

\* A proposal changes its parameter at most once and only as an executed one: anyone may
\* send another record that executes it, with another value, and apply_governance_op
\* refuses it, whatever was settled, cancelled or executed in between.
ParamChangedOnce ==
    \A p \in Proposals :
        /\ changes[p] <= 1
        /\ changes[p] = 1 => p \in With(proposals, "executed")

\* When a proposal is settled no stake weighs twice: the weights of its ballots are
\* covered by the frozen stakes of those who voted and the present stakes of those
\* who did not, however delegations, stakes and direct votes were interleaved.
WeighedOnceStep ==
    \A p \in With(proposals, "active") :
        proposals'[p].status \in {"passed", "rejected", "expired"} =>
            LET votes == proposals'[p].votes
            IN  Participating(votes) <=
                    Total([i \in Voters |->
                              IF i \in DOMAIN votes THEN votes[i].own ELSE govStakes[i]])

WeighedOnce == [][WeighedOnceStep]_gvVars

\* A verdict stands: a settled or cancelled proposal keeps its ballots and its status,
\* except that a passed one may execute, and then not before ExecutionDelay has
\* passed since its voting ended, nor before the challenge period of its committee.
VerdictStandsStep ==
    \A p \in DOMAIN proposals :
        proposals[p].status # "active" =>
            /\ proposals'[p].votes = proposals[p].votes
            /\ \/ proposals'[p].status = proposals[p].status
               \/ /\ proposals[p].status = "passed"
                  /\ proposals'[p].status = "executed"
                  /\ lastGov' >= proposals[p].deadline + ExecutionDelay
                  /\ Committee[p] # NoCommittee =>
                        lastGov' >= proposals[p].deadline + ChallengePeriod

VerdictStands == [][VerdictStandsStep]_gvVars
=============================================================================
