-------------------------- MODULE GovernanceProofs --------------------------
(***************************************************************************)
(* Proofs about Governance, for every set of voters and proposals, every   *)
(* committee and every length of the periods: types, exact counters,       *)
(* settlement in time, execution at most once, verdicts that stand, and    *)
(* ballots in which no stake weighs twice.                                 *)
(*                                                                         *)
(* Every record ends in AutoSettle.  One lemma says what AutoSettle does   *)
(* to any book of proposals with its counters; an action then only has to  *)
(* say which book its own arm hands on.                                    *)
(***************************************************************************)
EXTENDS Governance, UnitsTheorems

Rolls == UNION {[V -> Ballots] : V \in SUBSET Voters}
ProposalRecords ==
    [proposer : Voters, status : Statuses, deadline : Nat,
     passedAt : Nat \cup {NotPassed}, votes : Rolls]
Books == UNION {[S -> ProposalRecords] : S \in SUBSET Proposals}
Delegations == [Voters -> Voters \cup {NoOne}]

\* The counters of a book.
Counted(P, C) == C \in [Statuses -> Nat] /\ \A s \in Statuses : C[s] = Cardinality(With(P, s))

\* A proposal that has passed did so when its voting was over.
PassedLate(P) ==
    \A p \in DOMAIN P :
        P[p].status \in {"passed", "executed"} =>
            P[p].passedAt \in Nat /\ P[p].passedAt >= P[p].deadline

SoundBook(P, C) == P \in Books /\ Counted(P, C) /\ PassedLate(P)

Verdicts == {"passed", "rejected", "expired"}
-----------------------------------------------------------------------------
(* Rolls of votes and books of proposals *)

LEMMA RollShape ==
    ASSUME NEW v
    PROVE  v \in Rolls <=> /\ v = [i \in DOMAIN v |-> v[i]] /\ DOMAIN v \subseteq Voters
                           /\ \A i \in DOMAIN v : v[i] \in Ballots
<1>1. ASSUME v \in Rolls
      PROVE  /\ v = [i \in DOMAIN v |-> v[i]] /\ DOMAIN v \subseteq Voters
             /\ \A i \in DOMAIN v : v[i] \in Ballots
  <2>1. PICK V \in SUBSET Voters : v \in [V -> Ballots]
    BY <1>1 DEF Rolls
  <2> QED BY <2>1
<1>2. ASSUME v = [i \in DOMAIN v |-> v[i]], DOMAIN v \subseteq Voters,
             \A i \in DOMAIN v : v[i] \in Ballots
      PROVE  v \in Rolls
  <2>1. v \in [DOMAIN v -> Ballots] /\ DOMAIN v \in SUBSET Voters
    BY <1>2
  <2> QED BY <2>1 DEF Rolls
<1> QED BY <1>1, <1>2

LEMMA BookShape ==
    ASSUME NEW P
    PROVE  P \in Books <=> /\ P = [p \in DOMAIN P |-> P[p]] /\ DOMAIN P \subseteq Proposals
                           /\ \A p \in DOMAIN P : P[p] \in ProposalRecords
<1>1. ASSUME P \in Books
      PROVE  /\ P = [p \in DOMAIN P |-> P[p]] /\ DOMAIN P \subseteq Proposals
             /\ \A p \in DOMAIN P : P[p] \in ProposalRecords
  <2>1. PICK S \in SUBSET Proposals : P \in [S -> ProposalRecords]
    BY <1>1 DEF Books
  <2> QED BY <2>1
<1>2. ASSUME P = [p \in DOMAIN P |-> P[p]], DOMAIN P \subseteq Proposals,
             \A p \in DOMAIN P : P[p] \in ProposalRecords
      PROVE  P \in Books
  <2>1. P \in [DOMAIN P -> ProposalRecords] /\ DOMAIN P \in SUBSET Proposals
    BY <1>2
  <2> QED BY <2>1 DEF Books
<1> QED BY <1>1, <1>2

\* The proposals of a book with one status are finitely many.
LEMMA WithFinite ==
    ASSUME NEW P \in Books, NEW s
    PROVE  IsFiniteSet(With(P, s)) /\ Cardinality(With(P, s)) \in Nat
<1>1. With(P, s) \subseteq Proposals
  BY BookShape DEF With
<1> QED BY <1>1, GovernanceConstants, FS_Subset, FS_CardinalityType

\* The stakes of some voters add up.
LEMMA StakesAddUp ==
    ASSUME govStakes \in [Voters -> Nat], NEW S \in SUBSET Voters
    PROVE  /\ [d \in S |-> govStakes[d]] \in [S -> Nat] /\ IsFiniteSet(S)
           /\ Total([d \in S |-> govStakes[d]]) \in Nat
<1>1. IsFiniteSet(S)
  BY GovernanceConstants, FS_Subset
<1>2. [d \in S |-> govStakes[d]] \in [S -> Nat]
  OBVIOUS
<1> QED BY <1>1, <1>2, UnitsFinite

\* reconcile_effective_stakes changes the stake of each ballot and nothing else.
LEMMA ReconciledRoll ==
    ASSUME govStakes \in [Voters -> Nat], NEW votes \in Rolls, NEW D
    PROVE  /\ Reconciled(votes, D) \in Rolls
           /\ DOMAIN Reconciled(votes, D) = DOMAIN votes
           /\ \A i \in DOMAIN votes :
                /\ Reconciled(votes, D)[i].own = votes[i].own
                /\ Reconciled(votes, D)[i].stake =
                      votes[i].own + Total([d \in DelegatorsFor(D, i) \ DOMAIN votes |-> govStakes[d]])
<1> DEFINE r == Reconciled(votes, D)
<1>1. DOMAIN r = DOMAIN votes /\ r = [i \in DOMAIN r |-> r[i]] /\ DOMAIN r \subseteq Voters
  BY RollShape DEF Reconciled
<1>2. ASSUME NEW i \in DOMAIN votes
      PROVE  /\ r[i] \in Ballots /\ r[i].own = votes[i].own
             /\ r[i].stake = votes[i].own
                    + Total([d \in DelegatorsFor(D, i) \ DOMAIN votes |-> govStakes[d]])
  <2> DEFINE t == Total([d \in DelegatorsFor(D, i) \ DOMAIN votes |-> govStakes[d]])
  <2>1. t \in Nat
    BY StakesAddUp DEF DelegatorsFor
  <2>2. votes[i] \in Ballots
    BY RollShape
  <2>3. r[i] = [votes[i] EXCEPT !.stake = votes[i].own + t]
    BY DEF Reconciled
  <2> HIDE DEF t, r
  <2>4. votes[i].own \in Nat /\ votes[i].own + t \in Nat
    BY <2>1, <2>2 DEF Ballots
  <2>5. r[i] \in Ballots /\ r[i].own = votes[i].own /\ r[i].stake = votes[i].own + t
    BY <2>2, <2>3, <2>4 DEF Ballots
  <2> QED BY <2>5 DEF t
<1> HIDE DEF r
<1>3. r \in Rolls
  BY <1>1, <1>2, RollShape, Zenon
<1> QED BY <1>1, <1>2, <1>3, Zenon DEF r
-----------------------------------------------------------------------------
(* Settlement *)

\* settle_proposal reaches a verdict, reconciles the ballots, notes when a proposal
\* passed, and keeps the rest of it.
LEMMA SettledProposal ==
    ASSUME govStakes \in [Voters -> Nat], NEW prop \in ProposalRecords, NEW D, NEW now \in Nat,
           prop.deadline <= now
    PROVE  LET s == SettleProposal(prop, D, now)
           IN  /\ s \in ProposalRecords
               /\ s.status \in Verdicts
               /\ s.votes = Reconciled(prop.votes, D)
               /\ s.deadline = prop.deadline
               /\ s.status = "passed" => s.passedAt \in Nat /\ s.passedAt >= s.deadline
<1> DEFINE votes == Reconciled(prop.votes, D)
           verdict == Verdict(votes, now)
           at == IF verdict = "passed" THEN now ELSE prop.passedAt
<1>1. votes \in Rolls
  BY ReconciledRoll DEF ProposalRecords
<1>2. verdict \in Verdicts
  BY DEF Verdict, Verdicts
<1>3. SettleProposal(prop, D, now) =
        [prop EXCEPT !.votes = votes, !.status = verdict, !.passedAt = at]
  BY DEF SettleProposal
<1>4. prop = [proposer |-> prop.proposer, status |-> prop.status, deadline |-> prop.deadline,
              passedAt |-> prop.passedAt, votes |-> prop.votes]
  BY DEF ProposalRecords
<1>5. at \in Nat \cup {NotPassed} /\ (verdict = "passed" => at = now)
  BY DEF ProposalRecords
<1> HIDE DEF votes, verdict, at
<1>6. SettleProposal(prop, D, now) =
        [proposer |-> prop.proposer, status |-> verdict, deadline |-> prop.deadline,
         passedAt |-> at, votes |-> votes]
  BY <1>3, <1>4, Zenon
<1>7. prop.proposer \in Voters /\ prop.deadline \in Nat /\ verdict \in Statuses
  BY <1>2 DEF ProposalRecords, Verdicts, Statuses
<1>8. SettleProposal(prop, D, now) \in ProposalRecords
  BY <1>1, <1>5, <1>6, <1>7 DEF ProposalRecords
<1> QED BY <1>2, <1>5, <1>6, <1>8 DEF votes

\* record_status_transition keeps the counters exact: P and R differ on the proposals
\* of S, which leave the status from.
LEMMA RecountedExactly ==
    ASSUME NEW P \in Books, NEW C, Counted(P, C), NEW R \in Books, DOMAIN R = DOMAIN P,
           NEW from \in Statuses, NEW S \in SUBSET With(P, from),
           \A p \in DOMAIN P \ S : R[p].status = P[p].status,
           \A p \in S : R[p].status # from
    PROVE  Counted(R, Recounted(C, from, R, S))
<1> DEFINE In(s) == {p \in S : R[p].status = s}
           N == Recounted(C, from, R, S)
<1>1. IsFiniteSet(S) /\ Cardinality(S) \in Nat
  BY WithFinite, FS_Subset, FS_CardinalityType
<1>2. ASSUME NEW s \in Statuses
      PROVE  /\ IsFiniteSet(In(s)) /\ Cardinality(In(s)) \in Nat
             /\ IsFiniteSet(With(P, s)) /\ C[s] = Cardinality(With(P, s)) /\ C[s] \in Nat
  <2>1. IsFiniteSet(In(s))
    BY <1>1, FS_Subset
  <2> QED BY <2>1, WithFinite, FS_CardinalityType DEF Counted
<1>3. \A s \in Statuses :
        N[s] = (IF s = from THEN SatSub(C[s], Cardinality(S)) ELSE C[s]) + Cardinality(In(s))
  BY DEF Recounted
<1>4. ASSUME NEW s \in Statuses PROVE N[s] = Cardinality(With(R, s))
  <2>1. CASE s = from
    <3>1. In(s) = {}
      BY <2>1
    <3>2. With(R, s) = With(P, s) \ S
      BY <2>1 DEF With
    <3>3. With(P, s) \cap S = S
      BY <2>1
    <3> DEFINE W == With(P, s)
    <3>4. IsFiniteSet(W) /\ W \cap S = S /\ C[s] = Cardinality(W) /\ C[s] \in Nat
      BY <1>2, <3>3, Zenon
    <3> HIDE DEF W, N, In
    <3>5. Cardinality(W \ S) = Cardinality(W) - Cardinality(S) /\ IsFiniteSet(W \ S)
      <4>1. /\ IsFiniteSet(W \ S)
            /\ Cardinality(W \ S) = Cardinality(W) - Cardinality(W \cap S)
        BY <3>4, FS_Difference, Zenon
      <4> QED BY <3>4, <4>1, Zenon
    <3>6. Cardinality(W \ S) \in Nat /\ Cardinality(In(s)) = 0
      BY <3>1, <3>5, FS_CardinalityType, FS_EmptySet
    <3>7. N[s] = SatSub(C[s], Cardinality(S)) + 0
      BY <1>3, <2>1, <3>6
    <3>8. SatSub(C[s], Cardinality(S)) = Cardinality(W \ S)
      BY <1>1, <3>4, <3>5, <3>6 DEF SatSub
    <3>9. N[s] = Cardinality(W \ S)
      BY ONLY <3>6, <3>7, <3>8
    <3> QED BY <3>2, <3>9 DEF W
  <2>2. CASE s # from
    <3>1. With(R, s) = With(P, s) \cup In(s) /\ With(P, s) \cap In(s) = {}
      BY <2>2 DEF With
    <3> DEFINE W == With(P, s)
               I == In(s)
    <3>2. /\ IsFiniteSet(W) /\ IsFiniteSet(I) /\ W \cap I = {} /\ With(R, s) = W \cup I
          /\ C[s] = Cardinality(W) /\ Cardinality(I) \in Nat /\ Cardinality(W) \in Nat
      BY <1>2, <3>1, Zenon
    <3>3. N[s] = C[s] + Cardinality(I)
      BY <1>3, <2>2
    <3> HIDE DEF W, I, N
    <3>4. Cardinality(W \cup I) = Cardinality(W) + Cardinality(I) - Cardinality(W \cap I)
      BY <3>2, FS_Union, Zenon
    <3>5. Cardinality(W \cap I) = 0
      BY <3>2, FS_EmptySet, Zenon
    <3> QED BY ONLY <3>2, <3>3, <3>4, <3>5
  <2> QED BY <2>1, <2>2
<1>5. N = [s \in Statuses |-> N[s]]
  BY DEF Recounted
<1>6. \A s \in Statuses : Cardinality(With(R, s)) \in Nat
  BY WithFinite
<1> HIDE DEF N
<1>7. N \in [Statuses -> Nat]
  BY <1>4, <1>5, <1>6
<1> QED BY <1>4, <1>7 DEF Counted, N

\* The tail of apply_governance_op, on a sound book: it settles what is due, at least
\* all that was open past its deadline, and leaves every other proposal alone.
LEMMA AutoSettleSound ==
    ASSUME govStakes \in [Voters -> Nat], NEW P, NEW D, NEW C, SoundBook(P, C),
           NEW ts \in Nat, AutoSettle(P, D, C, ts)
    PROVE  /\ SoundBook(proposals', counts')
           /\ DOMAIN proposals' = DOMAIN P
           /\ \A p \in DOMAIN P :
                IF p \in Due(P, ts)
                THEN proposals'[p].status \in Verdicts
                     /\ proposals'[p].votes = Reconciled(P[p].votes, D)
                ELSE proposals'[p] = P[p]
           /\ \A p \in With(proposals', "active") : ts < proposals'[p].deadline
           /\ lastGov' = ts
<1> DEFINE due == Due(P, ts)
           R == proposals'
<1>1. /\ R = [p \in DOMAIN P |-> IF p \in due THEN SettleProposal(P[p], D, ts) ELSE P[p]]
      /\ counts' = Recounted(C, "active", R, due)
      /\ lastGov' = ts
  BY DEF AutoSettle
<1>2. /\ P \in Books /\ Counted(P, C) /\ PassedLate(P)
      /\ P = [p \in DOMAIN P |-> P[p]] /\ DOMAIN P \subseteq Proposals
      /\ \A p \in DOMAIN P : P[p] \in ProposalRecords
  BY BookShape DEF SoundBook
<1>3. /\ due \subseteq With(P, "active") /\ due \subseteq DOMAIN P
      /\ \A p \in due : P[p].deadline <= ts
  BY <1>2 DEF Due, With, ProposalRecords
<1>4. DOMAIN R = DOMAIN P /\ R = [p \in DOMAIN R |-> R[p]]
  BY <1>1
<1>5. ASSUME NEW p \in due
      PROVE  /\ R[p] \in ProposalRecords /\ R[p].status \in Verdicts
             /\ R[p].votes = Reconciled(P[p].votes, D)
             /\ R[p].status = "passed" => R[p].passedAt \in Nat /\ R[p].passedAt >= R[p].deadline
  <2>1. R[p] = SettleProposal(P[p], D, ts) /\ P[p] \in ProposalRecords /\ P[p].deadline <= ts
    BY <1>1, <1>2, <1>3
  <2> HIDE DEF R, due
  <2> QED BY <2>1, SettledProposal
<1>6. \A p \in DOMAIN P \ due : R[p] = P[p]
  BY <1>1
<1> HIDE DEF R, due
<1>7. R \in Books
  BY <1>2, <1>4, <1>5, <1>6, BookShape
<1>8. Counted(R, counts')
  <2>1. \A p \in DOMAIN P \ due : R[p].status = P[p].status
    BY <1>6
  <2>2. \A p \in due : R[p].status # "active"
    BY <1>5 DEF Verdicts
  <2>3. "active" \in Statuses
    BY DEF Statuses
  <2> QED BY <1>1, <1>2, <1>3, <1>4, <1>7, <2>1, <2>2, <2>3, RecountedExactly
<1>9. PassedLate(R)
  <2> SUFFICES ASSUME NEW p \in DOMAIN P, R[p].status \in {"passed", "executed"}
               PROVE  R[p].passedAt \in Nat /\ R[p].passedAt >= R[p].deadline
    BY <1>4 DEF PassedLate
  <2>1. CASE p \in due
    BY <1>5, <2>1 DEF Verdicts
  <2>2. CASE p \notin due
    BY <1>2, <1>6, <2>2 DEF PassedLate
  <2> QED BY <2>1, <2>2
<1>10. ASSUME NEW p \in With(R, "active") PROVE ts < R[p].deadline
  <2>1. p \in DOMAIN P /\ R[p].status = "active"
    BY <1>4 DEF With
  <2>2. p \notin due
    BY <1>5, <2>1 DEF Verdicts
  <2>3. R[p] = P[p] /\ P[p].deadline \in Nat
    BY <1>2, <1>6, <2>1, <2>2 DEF ProposalRecords
  <2>4. ~(ts >= P[p].deadline)
    BY <2>1, <2>2, <2>3 DEF due, Due, With
  <2> QED BY ONLY <2>3, <2>4, ts \in Nat
<1> QED BY <1>1, <1>4, <1>5, <1>6, <1>7, <1>8, <1>9, <1>10, Zenon DEF SoundBook, R, due
-----------------------------------------------------------------------------
(* What the arm of an operation hands to the settlement *)

\* What a book says of the parameter changes, and of the upgrade outcomes: both come from
\* one execution, of a proposal whose vote is over.
LoggedOnce(P, ch, out) ==
    \A p \in Proposals :
        /\ ch[p] <= 1
        /\ ch[p] = 1 \/ out[p] # "none" => p \in With(P, "executed")
        /\ out[p] # "vote_open"

\* A book in which the active proposals are active or cancelled, and the others stand
\* as VerdictStands has it.
Follows(P, ts) ==
    \A p \in DOMAIN proposals :
        /\ p \in DOMAIN P
        /\ proposals[p].status = "active" => P[p].status \in {"active", "cancelled"}
        /\ proposals[p].status # "active" =>
            /\ P[p].votes = proposals[p].votes
            /\ \/ P[p].status = proposals[p].status
               \/ /\ proposals[p].status = "passed" /\ P[p].status = "executed"
                  /\ ts >= proposals[p].deadline + ExecutionDelay
                  /\ Committee[p] # NoCommittee => ts >= proposals[p].deadline + ChallengePeriod

Hands(P, D, C, ts) ==
    /\ SoundBook(P, C) /\ Follows(P, ts)
    /\ changes' \in [Proposals -> Nat] /\ outcome' \in [Proposals -> Outcomes]
    /\ LoggedOnce(P, changes', outcome')
    /\ UNCHANGED govStakes
    /\ AutoSettle(P, D, C, ts)

DelegationCounted == delegations = Cardinality({i \in Voters : delegate[i] # NoOne})

GovInv ==
    /\ govStakes \in [Voters -> 0..MaxStake]
    /\ SoundBook(proposals, counts)
    /\ delegate \in Delegations /\ DelegationCounted
    /\ changes \in [Proposals -> Nat] /\ outcome \in [Proposals -> Outcomes]
    /\ LoggedOnce(proposals, changes, outcome)
    /\ lastGov \in Nat
    /\ SettledInTime

LEMMA StakesAreNat ==
    ASSUME GovInv PROVE govStakes \in [Voters -> Nat]
BY GovernanceConstants DEF GovInv

\* What the invariant says of the book itself.
LEMMA BookOf ==
    ASSUME GovInv
    PROVE  /\ proposals \in Books /\ Counted(proposals, counts) /\ PassedLate(proposals)
           /\ proposals = [p \in DOMAIN proposals |-> proposals[p]]
           /\ DOMAIN proposals \subseteq Proposals
           /\ \A p \in DOMAIN proposals : proposals[p] \in ProposalRecords
BY BookShape DEF GovInv, SoundBook

\* create_proposal adds an open proposal without ballots.
LEMMA ProposeHands ==
    ASSUME GovInv, NEW ts \in Nat, NEW i \in Voters, NEW p \in Proposals, Propose(i, p, ts)
    PROVE  \E P, C : Hands(P, delegate, C, ts)
<1> DEFINE prop == [proposer |-> i, status |-> "active", deadline |-> Deadline(p, ts),
                    passedAt |-> NotPassed, votes |-> [v \in {} |-> NoOne]]
           P == [q \in DOMAIN proposals \cup {p} |-> IF q = p THEN prop ELSE proposals[q]]
           C == [counts EXCEPT !["active"] = @ + 1]
<1>1. /\ AutoSettle(P, delegate, C, ts) /\ p \notin DOMAIN proposals
      /\ UNCHANGED <<govStakes, changes, outcome>>
  BY DEF Propose
<1>2. prop \in ProposalRecords
  <2>1. Deadline(p, ts) \in Nat
    BY ONLY GovernanceConstants, ts \in Nat, p \in Proposals DEF Deadline
  <2> DEFINE v == [x \in {} |-> NoOne]
  <2>2. v \in Rolls
    BY RollShape, Zenon
  <2>3. "active" \in Statuses /\ NotPassed \in Nat \cup {NotPassed}
    BY DEF Statuses
  <2> HIDE DEF v
  <2>4. [proposer |-> i, status |-> "active", deadline |-> Deadline(p, ts),
         passedAt |-> NotPassed, votes |-> v] \in ProposalRecords
    BY <2>1, <2>2, <2>3 DEF ProposalRecords
  <2> QED BY <2>4 DEF v
<1>3. prop.status = "active"
  OBVIOUS
<1> HIDE DEF prop
<1>4. /\ DOMAIN P = DOMAIN proposals \cup {p} /\ P = [q \in DOMAIN P |-> P[q]] /\ P[p] = prop
      /\ \A q \in DOMAIN proposals : P[q] = proposals[q]
  BY <1>1
<1> HIDE DEF P
<1>5. P \in Books
  BY <1>2, <1>4, BookOf, BookShape
<1>6. Counted(P, C)
  <2>1. counts \in [Statuses -> Nat] /\ \A s \in Statuses : counts[s] = Cardinality(With(proposals, s))
    BY BookOf DEF Counted
  <2>2. "active" \in Statuses
    BY DEF Statuses
  <2>3. C \in [Statuses -> Nat]
    BY <2>1, <2>2
  <2>4. ASSUME NEW s \in Statuses, s # "active" PROVE C[s] = Cardinality(With(P, s))
    <3>1. With(P, s) = With(proposals, s)
      BY <1>3, <1>4, <2>4 DEF With
    <3> QED BY <2>1, <2>4, <3>1
  <2>5. C["active"] = Cardinality(With(P, "active"))
    <3> DEFINE W == With(proposals, "active")
    <3>1. With(P, "active") = W \cup {p} /\ p \notin W
      BY <1>1, <1>3, <1>4 DEF With
    <3>2. IsFiniteSet(W)
      BY BookOf, WithFinite
    <3>3. C["active"] = Cardinality(W) + 1
      BY <2>1, <2>2
    <3> HIDE DEF W, C
    <3>4. Cardinality(W \cup {p}) = Cardinality(W) + 1
      BY <3>1, <3>2, FS_AddElement
    <3> QED BY <3>1, <3>3, <3>4
  <2> QED BY <2>3, <2>4, <2>5 DEF Counted
<1>7. PassedLate(P)
  BY <1>3, <1>4, BookOf DEF PassedLate
<1>8. Follows(P, ts)
  BY <1>4 DEF Follows
<1>9. LoggedOnce(P, changes', outcome')
  BY <1>1, <1>4 DEF GovInv, LoggedOnce, With
<1> HIDE DEF C
<1>10. Hands(P, delegate, C, ts)
  BY <1>1, <1>5, <1>6, <1>7, <1>8, <1>9 DEF Hands, SoundBook, GovInv
<1> QED BY <1>10

\* A book that changes the proposal p, and nothing of its status, keeps the counters.
LEMMA SameStatuses ==
    ASSUME NEW P, NEW R, NEW C, Counted(P, C), DOMAIN R = DOMAIN P,
           \A p \in DOMAIN P : R[p].status = P[p].status
    PROVE  Counted(R, C)
<1>1. ASSUME NEW s PROVE With(R, s) = With(P, s)
  BY DEF With
<1> QED BY <1>1 DEF Counted

\* cast_vote_with_own adds a ballot to an open proposal.
LEMMA VoteHands ==
    ASSUME GovInv, NEW ts \in Nat, NEW i \in Voters, NEW p \in Proposals, NEW dir \in Directions,
           Vote(i, p, dir, ts)
    PROVE  \E P, C : Hands(P, delegate, C, ts)
<1> DEFINE stake == EffectiveVotingStake(i, p)
           ballot == [stake |-> stake, own |-> govStakes[i], dir |-> dir, at |-> ts]
           votes == [v \in DOMAIN proposals[p].votes \cup {i} |->
                        IF v = i THEN ballot ELSE proposals[p].votes[v]]
           P == [proposals EXCEPT ![p].votes = votes]
<1>1. /\ AutoSettle(P, delegate, counts, ts) /\ p \in DOMAIN proposals
      /\ proposals[p].status = "active" /\ UNCHANGED <<govStakes, changes, outcome>>
  BY DEF Vote
<1>2. proposals[p] \in ProposalRecords /\ proposals[p].votes \in Rolls
  BY <1>1, BookOf DEF ProposalRecords
<1>3. ballot \in Ballots
  <2>1. Total([d \in DelegatorsFor(delegate, i) \ DOMAIN proposals[p].votes |-> govStakes[d]]) \in Nat
    BY StakesAddUp, StakesAreNat DEF DelegatorsFor
  <2>2. stake \in Nat /\ govStakes[i] \in Nat
    BY <2>1, StakesAreNat DEF EffectiveVotingStake
  <2> HIDE DEF stake
  <2> QED BY <2>2 DEF Ballots
<1> HIDE DEF ballot
<1>4. votes \in Rolls
  <2>1. /\ DOMAIN votes = DOMAIN proposals[p].votes \cup {i}
        /\ votes = [v \in DOMAIN votes |-> votes[v]]
        /\ votes[i] = ballot
        /\ \A v \in DOMAIN proposals[p].votes : votes[v] \in {ballot, proposals[p].votes[v]}
    OBVIOUS
  <2> HIDE DEF votes
  <2> QED BY <1>2, <1>3, <2>1, RollShape
<1> HIDE DEF votes
<1>5. /\ DOMAIN P = DOMAIN proposals /\ P = [q \in DOMAIN P |-> P[q]]
      /\ P[p] = [proposals[p] EXCEPT !.votes = votes]
      /\ \A q \in DOMAIN proposals : q # p => P[q] = proposals[q]
  BY <1>1, BookOf
<1>6. /\ P[p] \in ProposalRecords /\ P[p].status = proposals[p].status
      /\ P[p].deadline = proposals[p].deadline /\ P[p].passedAt = proposals[p].passedAt
  BY <1>2, <1>4, <1>5 DEF ProposalRecords
<1> HIDE DEF P
<1>7. P \in Books
  BY <1>5, <1>6, BookOf, BookShape
<1>8. Counted(P, counts)
  <2>1. \A q \in DOMAIN proposals : P[q].status = proposals[q].status
    BY <1>5, <1>6, Zenon
  <2> QED BY <1>5, <2>1, BookOf, SameStatuses
<1>9. PassedLate(P)
  BY <1>5, <1>6, BookOf, Zenon DEF PassedLate
<1>10. Follows(P, ts)
  BY <1>1, <1>5, <1>6, Zenon DEF Follows
<1>11. LoggedOnce(P, changes', outcome')
  BY <1>1, <1>5, <1>6 DEF GovInv, LoggedOnce, With
<1>12. Hands(P, delegate, counts, ts)
  BY <1>1, <1>7, <1>8, <1>9, <1>10, <1>11 DEF Hands, SoundBook, GovInv
<1> QED BY <1>12

\* A proposal whose status is changed, as Execute and Cancel do.
LEMMA StatusChanged ==
    ASSUME GovInv, NEW p \in DOMAIN proposals, NEW to \in Statuses, to # proposals[p].status,
           to \in {"passed", "executed"} => proposals[p].status = "passed"
    PROVE  LET P == [proposals EXCEPT ![p].status = to]
           IN  /\ SoundBook(P, Recounted(counts, proposals[p].status, P, {p}))
               /\ DOMAIN P = DOMAIN proposals
               /\ P[p].status = to /\ P[p].votes = proposals[p].votes
               /\ \A q \in DOMAIN proposals : q # p => P[q] = proposals[q]
<1> DEFINE P == [proposals EXCEPT ![p].status = to]
           from == proposals[p].status
<1>1. /\ DOMAIN P = DOMAIN proposals /\ P = [q \in DOMAIN P |-> P[q]]
      /\ P[p] = [proposals[p] EXCEPT !.status = to]
      /\ \A q \in DOMAIN proposals : q # p => P[q] = proposals[q]
  BY BookOf
<1>2. proposals[p] \in ProposalRecords
  BY BookOf
<1>3. /\ P[p] \in ProposalRecords /\ P[p].status = to /\ P[p].votes = proposals[p].votes
      /\ P[p].deadline = proposals[p].deadline /\ P[p].passedAt = proposals[p].passedAt
  BY <1>1, <1>2 DEF ProposalRecords
<1> HIDE DEF P
<1>4. P \in Books
  BY <1>1, <1>3, BookOf, BookShape
<1>5. Counted(P, Recounted(counts, from, P, {p}))
  <2>1. /\ from \in Statuses /\ {p} \in SUBSET With(proposals, from)
        /\ \A q \in DOMAIN proposals \ {p} : P[q].status = proposals[q].status
        /\ \A q \in {p} : P[q].status # from
    BY <1>1, <1>2, <1>3 DEF With, ProposalRecords
  <2> HIDE DEF from
  <2> QED BY <1>1, <1>4, <2>1, BookOf, RecountedExactly
<1>6. PassedLate(P)
  BY <1>1, <1>3, BookOf DEF PassedLate
<1> QED BY <1>1, <1>3, <1>4, <1>5, <1>6 DEF SoundBook, P

\* execute_proposal: the delays have passed since the voting ended, so the outcome of
\* an upgrade is never that its vote is open.
LEMMA ExecuteHands ==
    ASSUME GovInv, NEW ts \in Nat, NEW i \in Voters, NEW p \in Proposals, NEW valid \in BOOLEAN,
           NEW kind \in UpgradeKinds, Execute(i, p, valid, kind, ts)
    PROVE  \E P, C : Hands(P, delegate, C, ts)
<1> DEFINE P == Executed(p)
           C == Recounted(counts, "passed", P, {p})
<1>1. /\ AutoSettle(P, delegate, C, ts) /\ p \in DOMAIN proposals /\ CanExecute(p, ts)
      /\ changes' = IF Category[p] = "parameter" /\ valid
                    THEN [changes EXCEPT ![p] = @ + 1] ELSE changes
      /\ outcome' = IF Category[p] = "protocol_upgrade" /\ valid
                    THEN [outcome EXCEPT ![p] = UpgradeOutcome(p, kind, ts)] ELSE outcome
      /\ UNCHANGED govStakes
  BY DEF Execute
<1>2. proposals[p].status = "passed" /\ proposals[p].deadline \in Nat
      /\ proposals[p].passedAt \in Nat /\ proposals[p].passedAt >= proposals[p].deadline
  BY <1>1, BookOf DEF CanExecute, PassedLate, ProposalRecords
<1>3. /\ ts >= proposals[p].deadline + ExecutionDelay /\ ts >= proposals[p].deadline
      /\ Committee[p] # NoCommittee => ts >= proposals[p].deadline + ChallengePeriod
  <2> DEFINE at == proposals[p].passedAt
             dl == proposals[p].deadline
  <2>1. /\ at \in Nat /\ dl \in Nat /\ at >= dl /\ ExecutionDelay \in Nat /\ ChallengePeriod \in Nat
        /\ ts >= at + ExecutionDelay
        /\ Committee[p] # NoCommittee => ts >= at + ChallengePeriod
    BY <1>1, <1>2, GovernanceConstants DEF CanExecute
  <2> HIDE DEF at, dl
  <2>2. /\ ts >= dl + ExecutionDelay /\ ts >= dl
        /\ Committee[p] # NoCommittee => ts >= dl + ChallengePeriod
    BY <2>1
  <2> QED BY <2>2 DEF dl
<1>4. /\ SoundBook(P, C) /\ DOMAIN P = DOMAIN proposals
      /\ P[p].status = "executed" /\ P[p].votes = proposals[p].votes
      /\ \A q \in DOMAIN proposals : q # p => P[q] = proposals[q]
  <2>1. "executed" \in Statuses /\ "executed" # proposals[p].status
    BY <1>2 DEF Statuses
  <2> QED BY <1>1, <1>2, <2>1, StatusChanged, Zenon DEF Executed
<1> HIDE DEF P, C
<1>5. Follows(P, ts)
  BY <1>2, <1>3, <1>4 DEF Follows
<1>6. UpgradeOutcome(p, kind, ts) \in Outcomes \ {"none", "vote_open"}
  <2>1. ~(ts < proposals[p].deadline)
    BY ONLY <1>2, <1>3, ts \in Nat
  <2> QED BY <2>1 DEF UpgradeOutcome, Outcomes
<1>7. p \notin With(proposals, "executed")
  BY <1>2 DEF With
<1>8. changes[p] = 0
  BY <1>7 DEF GovInv, LoggedOnce
<1>9. /\ changes' \in [Proposals -> Nat] /\ changes'[p] <= 1
      /\ \A q \in Proposals : q # p => changes'[q] = changes[q]
  <2>1. changes \in [Proposals -> Nat]
    BY Zenon DEF GovInv
  <2>2. changes' = [changes EXCEPT ![p] = @ + 1] \/ changes' = changes
    BY ONLY <1>1
  <2> QED BY ONLY <1>8, <2>1, <2>2, p \in Proposals
<1>10. /\ outcome' \in [Proposals -> Outcomes] /\ outcome'[p] # "vote_open"
       /\ \A q \in Proposals : q # p => outcome'[q] = outcome[q]
  BY <1>1, <1>6, Zenon DEF GovInv, LoggedOnce
<1>11. LoggedOnce(P, changes', outcome')
  <2> SUFFICES ASSUME NEW q \in Proposals
               PROVE  /\ changes'[q] <= 1
                      /\ changes'[q] = 1 \/ outcome'[q] # "none" => q \in With(P, "executed")
                      /\ outcome'[q] # "vote_open"
    BY Zenon DEF LoggedOnce
  <2>1. CASE q = p
    BY <1>1, <1>4, <1>9, <1>10, <2>1, Zenon DEF With
  <2>2. CASE q # p
    BY <1>4, <1>9, <1>10, <2>2 DEF GovInv, LoggedOnce, With
  <2> QED BY <2>1, <2>2
<1>12. Hands(P, delegate, C, ts)
  BY <1>1, <1>4, <1>5, <1>9, <1>10, <1>11 DEF Hands
<1> QED BY <1>12

\* cancel_proposal closes an open proposal.
LEMMA CancelHands ==
    ASSUME GovInv, NEW ts \in Nat, NEW i \in Voters, NEW p \in Proposals, Cancel(i, p, ts)
    PROVE  \E P, C : Hands(P, delegate, C, ts)
<1> DEFINE P == [proposals EXCEPT ![p].status = "cancelled"]
           C == Recounted(counts, "active", P, {p})
<1>1. /\ AutoSettle(P, delegate, C, ts) /\ p \in DOMAIN proposals
      /\ proposals[p].status = "active" /\ UNCHANGED <<govStakes, changes, outcome>>
  BY DEF Cancel
<1>2. /\ SoundBook(P, C) /\ DOMAIN P = DOMAIN proposals
      /\ P[p].status = "cancelled"
      /\ \A q \in DOMAIN proposals : q # p => P[q] = proposals[q]
  <2>1. "cancelled" \in Statuses /\ "cancelled" # proposals[p].status
    BY <1>1 DEF Statuses
  <2> QED BY <1>1, <2>1, StatusChanged, Zenon
<1> HIDE DEF P, C
<1>3. Follows(P, ts)
  BY <1>1, <1>2 DEF Follows
<1>4. LoggedOnce(P, changes', outcome')
  BY <1>1, <1>2 DEF GovInv, LoggedOnce, With
<1>5. Hands(P, delegate, C, ts)
  BY <1>1, <1>2, <1>3, <1>4 DEF Hands, GovInv
<1> QED BY <1>5

\* delegate and undelegate hand the book on as it is.
LEMMA DelegationHands ==
    ASSUME GovInv, NEW ts \in Nat, NEW i \in Voters, NEW d \in Voters,
           Delegate(i, d, ts) \/ Undelegate(i, ts)
    PROVE  Hands(proposals, delegate', counts, ts)
<1>1. /\ AutoSettle(proposals, delegate', counts, ts)
      /\ UNCHANGED <<govStakes, changes, outcome>>
  BY DEF Delegate, Undelegate
<1> QED BY <1>1 DEF Hands, Follows, GovInv

\* Their counter stays exact.
LEMMA DelegationsCounted ==
    ASSUME GovInv, NEW ts, NEW i \in Voters, NEW d \in Voters,
           Delegate(i, d, ts) \/ Undelegate(i, ts)
    PROVE  delegate' \in Delegations /\ DelegationCounted'
<1> DEFINE S == {j \in Voters : delegate[j] # NoOne}
           T == {j \in Voters : delegate'[j] # NoOne}
<1>1. IsFiniteSet(S) /\ delegations = Cardinality(S) /\ delegate \in Delegations
  BY GovernanceConstants, FS_Subset DEF GovInv, DelegationCounted
<1>2. Cardinality(S) \in Nat
  BY <1>1, FS_CardinalityType
<1>3. CASE Delegate(i, d, ts)
  <2>1. delegate' \in Delegations /\ T = S \cup {i} /\ i \notin S
    BY <1>1, <1>3, GovernanceConstants DEF Delegate, Delegations
  <2>2. delegations' = Cardinality(S) + 1
    BY <1>1, <1>3 DEF Delegate
  <2> HIDE DEF S, T
  <2>3. Cardinality(T) = Cardinality(S) + 1
    BY <1>1, <2>1, FS_AddElement, Zenon
  <2> QED BY <2>1, <2>2, <2>3, Zenon DEF DelegationCounted, T
<1>4. CASE Undelegate(i, ts)
  <2>1. delegate' \in Delegations /\ T = S \ {i} /\ i \in S
    BY <1>1, <1>4 DEF Undelegate, Delegations
  <2>2. delegations' = SatSub(Cardinality(S), 1)
    BY <1>1, <1>4 DEF Undelegate
  <2> HIDE DEF S, T
  <2>3. Cardinality(T) = Cardinality(S) - 1 /\ IsFiniteSet(T)
    BY <1>1, <2>1, FS_RemoveElement
  <2>4. Cardinality(T) \in Nat
    BY <2>3, FS_CardinalityType
  <2>5. delegations' = Cardinality(T)
    BY <1>2, <2>2, <2>3, <2>4 DEF SatSub
  <2> QED BY <2>1, <2>5 DEF DelegationCounted, T
<1> QED BY <1>3, <1>4, Zenon
-----------------------------------------------------------------------------
(* Weights *)

\* In reconciled ballots no stake weighs twice: a delegator's stake counts with its
\* one delegate, and only if the delegator has not voted.
LEMMA NoStakeTwice ==
    ASSUME govStakes \in [Voters -> Nat], NEW votes \in Rolls, NEW D
    PROVE  LET r == Reconciled(votes, D)
           IN  Participating(r) <=
                  Total([i \in Voters |-> IF i \in DOMAIN r THEN r[i].own ELSE govStakes[i]])
<1> DEFINE r == Reconciled(votes, D)
           V == DOMAIN votes
           T == {d \in Voters \ V : D[d] \in V}
           k == [d \in T |-> D[d]]
           w == [d \in T |-> govStakes[d]]
           own == [i \in V |-> votes[i].own]
           del == [i \in V |-> Total([t \in {t \in T : k[t] = i} |-> w[t]])]
           h == [i \in Voters |-> IF i \in DOMAIN r THEN r[i].own ELSE govStakes[i]]
           rest == [x \in Voters \ V |-> govStakes[x]]
<1>1. /\ DOMAIN r = V /\ V \in SUBSET Voters
      /\ \A i \in V : /\ votes[i] \in Ballots /\ r[i].own = votes[i].own
                      /\ r[i].stake = votes[i].own
                            + Total([d \in DelegatorsFor(D, i) \ V |-> govStakes[d]])
  <2>1. V \in SUBSET Voters /\ \A i \in V : votes[i] \in Ballots
    BY RollShape
  <2>2. /\ DOMAIN r = V
        /\ \A i \in V : /\ r[i].own = votes[i].own
                        /\ r[i].stake = votes[i].own
                              + Total([d \in DelegatorsFor(D, i) \ V |-> govStakes[d]])
    BY ReconciledRoll, Zenon
  <2> HIDE DEF r, V
  <2> QED BY <2>1, <2>2
<1>2. IsFiniteSet(V) /\ IsFiniteSet(T) /\ IsFiniteSet(Voters) /\ IsFiniteSet(Voters \ V)
  BY <1>1, GovernanceConstants, FS_Subset, Zenon
<1>3. /\ own \in [V -> Nat] /\ w \in [T -> Nat] /\ k \in [T -> V] /\ rest \in [Voters \ V -> Nat]
      /\ h \in [Voters -> Nat]
  BY <1>1, Zenon DEF Ballots
<1>4. ASSUME NEW i \in V
      PROVE  /\ Total([d \in DelegatorsFor(D, i) \ V |-> govStakes[d]]) = del[i]
             /\ del[i] \in Nat
  <2> DEFINE G == {t \in T : k[t] = i}
  <2>1. DelegatorsFor(D, i) \ V = G
    BY <1>1 DEF DelegatorsFor
  <2>2. [d \in G |-> govStakes[d]] = [t \in G |-> w[t]]
    OBVIOUS
  <2>3. del[i] = Total([t \in G |-> w[t]])
    OBVIOUS
  <2>4. Total([d \in G |-> govStakes[d]]) \in Nat
    BY StakesAddUp, Zenon
  <2> HIDE DEF G, del, w
  <2> QED BY <2>1, <2>2, <2>3, <2>4
<1>5. Total(del) = Total(w)
  <2>1. IsFiniteSet(V) /\ IsFiniteSet(T) /\ w \in [T -> Nat] /\ k \in [T -> V]
    BY <1>2, <1>3
  <2> HIDE DEF k, w, V, T
  <2>2. Total([i \in V |-> Total([t \in {t \in T : k[t] = i} |-> w[t]])]) = Total(w)
    BY ONLY <2>1, TotalGroups
  <2> QED BY <2>2
<1>6. del \in [V -> Nat]
  <2>1. del = [i \in V |-> del[i]]
    OBVIOUS
  <2> HIDE DEF del
  <2> QED BY <1>4, <2>1, Zenon
<1>7. Participating(r) = Total(own) + Total(del)
  <2> DEFINE st == [i \in DOMAIN r |-> r[i].stake]
  <2>1. st = [i \in V |-> own[i] + del[i]]
    <3>1. \A i \in V : r[i].stake = own[i] + del[i]
      <4> HIDE DEF del, r
      <4> QED BY <1>1, <1>4, Zenon
    <3> HIDE DEF own, del, r, V
    <3> QED BY <1>1, <3>1
  <2>2. Total([i \in V |-> own[i] + del[i]]) = Total(own) + Total(del)
    <3> HIDE DEF own, del, V
    <3> QED BY ONLY <1>2, <1>3, <1>6, TotalSum
  <2> HIDE DEF own, del, V, r
  <2> QED BY <2>1, <2>2 DEF Participating
<1>8. Total(h) = Total(own) + Total(rest)
  <2>1. [x \in V |-> h[x]] = own /\ [x \in Voters \ V |-> h[x]] = rest
    BY <1>1, Zenon
  <2>2. Total(h) = Total([x \in V |-> h[x]]) + Total([x \in Voters \ V |-> h[x]])
    <3>1. V \in SUBSET Voters /\ h \in [Voters -> Nat] /\ IsFiniteSet(Voters)
      BY <1>1, <1>2, <1>3
    <3> HIDE DEF h, V
    <3> QED BY ONLY <3>1, TotalPartition
  <2> HIDE DEF h, own, rest, V
  <2> QED BY ONLY <2>1, <2>2
<1>9. Total(w) <= Total(rest)
  <2>1. [x \in T |-> rest[x]] = w
    OBVIOUS
  <2>2. T \in SUBSET (Voters \ V)
    OBVIOUS
  <2> DEFINE more == [x \in (Voters \ V) \ T |-> rest[x]]
  <2>3. more \in [(Voters \ V) \ T -> Nat] /\ IsFiniteSet((Voters \ V) \ T)
    BY <1>2, FS_Difference
  <2>4. Total(more) \in Nat /\ Total(w) \in Nat
    <3> HIDE DEF more, w
    <3> QED BY <1>2, <1>3, <2>3, UnitsFinite
  <2>5. Total(rest) = Total([x \in T |-> rest[x]]) + Total(more)
    <3> DEFINE U == Voters \ V
    <3>1. IsFiniteSet(U) /\ rest \in [U -> Nat] /\ T \in SUBSET U
      BY <1>2, <1>3, <2>2
    <3>2. more = [x \in U \ T |-> rest[x]]
      OBVIOUS
    <3> HIDE DEF U, rest, T, more
    <3> QED BY <3>1, <3>2, TotalPartition
  <2> HIDE DEF more, w, rest, T
  <2> QED BY ONLY <2>1, <2>4, <2>5
<1>10. Total(own) \in Nat /\ Total(w) \in Nat /\ Total(rest) \in Nat
  <2> HIDE DEF own, w, rest, V, T
  <2> QED BY <1>2, <1>3, UnitsFinite
<1>11. Participating(r) <= Total(h)
  <2> HIDE DEF own, w, rest, del, h, r
  <2> QED BY <1>5, <1>7, <1>8, <1>9, <1>10
<1> QED BY <1>11
-----------------------------------------------------------------------------
(* Steps *)

\* What the settlement makes of what an arm hands to it.
LEMMA RecordSettles ==
    ASSUME GovInv, NEW ts \in Nat, NEW P, NEW D, NEW C, Hands(P, D, C, ts)
    PROVE  /\ (govStakes \in [Voters -> 0..MaxStake])'
           /\ SoundBook(proposals', counts')
           /\ changes' \in [Proposals -> Nat] /\ outcome' \in [Proposals -> Outcomes]
           /\ LoggedOnce(proposals', changes', outcome')
           /\ lastGov' \in Nat /\ SettledInTime'
           /\ VerdictStandsStep /\ WeighedOnceStep
<1>1. /\ SoundBook(proposals', counts') /\ DOMAIN proposals' = DOMAIN P
      /\ \A p \in DOMAIN P :
            IF p \in Due(P, ts)
            THEN proposals'[p].status \in Verdicts
                 /\ proposals'[p].votes = Reconciled(P[p].votes, D)
            ELSE proposals'[p] = P[p]
      /\ \A p \in With(proposals', "active") : ts < proposals'[p].deadline
      /\ lastGov' = ts
  BY StakesAreNat, AutoSettleSound, Zenon DEF Hands
<1>2. /\ Follows(P, ts) /\ LoggedOnce(P, changes', outcome') /\ UNCHANGED govStakes
      /\ changes' \in [Proposals -> Nat] /\ outcome' \in [Proposals -> Outcomes]
  BY DEF Hands
<1>3. \A p \in Due(P, ts) : p \in DOMAIN P /\ P[p].status = "active"
  BY DEF Due, With
<1>4. LoggedOnce(proposals', changes', outcome')
  <2>1. \A p \in With(P, "executed") : p \in With(proposals', "executed")
    BY <1>1, <1>3 DEF With
  <2> QED BY <1>2, <2>1 DEF LoggedOnce
<1>5. SettledInTime'
  BY <1>1, Zenon DEF SettledInTime
<1>6. VerdictStandsStep
  <2> SUFFICES ASSUME NEW p \in DOMAIN proposals, proposals[p].status # "active"
               PROVE  /\ proposals'[p].votes = proposals[p].votes
                      /\ \/ proposals'[p].status = proposals[p].status
                         \/ /\ proposals[p].status = "passed"
                            /\ proposals'[p].status = "executed"
                            /\ lastGov' >= proposals[p].deadline + ExecutionDelay
                            /\ Committee[p] # NoCommittee =>
                                  lastGov' >= proposals[p].deadline + ChallengePeriod
    BY Zenon DEF VerdictStandsStep
  <2>1. p \in DOMAIN P /\ p \notin Due(P, ts)
    BY <1>2, <1>3, Zenon DEF Follows
  <2>2. proposals'[p] = P[p]
    BY <1>1, <2>1, Zenon
  <2> QED BY <1>1, <1>2, <2>2, Zenon DEF Follows
<1>7. WeighedOnceStep
  <2> SUFFICES ASSUME NEW p \in With(proposals, "active"), proposals'[p].status \in Verdicts
               PROVE  LET votes == proposals'[p].votes
                      IN  Participating(votes) <=
                            Total([i \in Voters |->
                                      IF i \in DOMAIN votes THEN votes[i].own ELSE govStakes[i]])
    BY DEF WeighedOnceStep, Verdicts
  <2>1. p \in DOMAIN P /\ P[p].status \in {"active", "cancelled"}
    BY <1>2, Zenon DEF Follows, With
  <2>2. p \in Due(P, ts)
    BY <1>1, <2>1, Zenon DEF Verdicts
  <2>3. proposals'[p].votes = Reconciled(P[p].votes, D)
    BY <1>1, <2>1, <2>2
  <2>4. P[p].votes \in Rolls
    BY <2>1, BookShape DEF Hands, SoundBook, ProposalRecords
  <2> QED BY <2>3, <2>4, StakesAreNat, NoStakeTwice
<1> QED BY <1>1, <1>2, <1>4, <1>5, <1>6, <1>7, Zenon DEF GovInv

LEMMA GovInitially == GovernanceInit => GovInv
<1> SUFFICES ASSUME GovernanceInit PROVE GovInv
  OBVIOUS
<1>1. IsFiniteSet({}) /\ Cardinality({}) = 0
  BY FS_EmptySet
<1>2. DOMAIN proposals = {} /\ proposals = [p \in DOMAIN proposals |-> proposals[p]]
  BY DEF GovernanceInit
<1>3. \A s : With(proposals, s) = {}
  BY <1>2 DEF With
<1>4. SoundBook(proposals, counts)
  <2>1. proposals \in Books
    BY <1>2, BookShape, Zenon
  <2>2. Counted(proposals, counts)
    BY <1>1, <1>3, Zenon DEF GovernanceInit, Counted
  <2> QED BY <1>2, <2>1, <2>2 DEF SoundBook, PassedLate
<1>5. DelegationCounted /\ delegate \in Delegations
  <2>1. {i \in Voters : delegate[i] # NoOne} = {}
    BY DEF GovernanceInit
  <2>2. delegate \in Delegations
    BY DEF GovernanceInit, Delegations
  <2> QED BY <1>1, <2>1, <2>2, Zenon DEF GovernanceInit, DelegationCounted
<1>6. LoggedOnce(proposals, changes, outcome)
  BY DEF GovernanceInit, LoggedOnce
<1> QED BY <1>3, <1>4, <1>5, <1>6 DEF GovernanceInit, GovInv, SettledInTime, Outcomes

\* A record keeps the invariant, lets verdicts stand and weighs no stake twice.
LEMMA RecordKeeps ==
    ASSUME GovInv, NEW ts \in Nat, GovernanceRecord(ts)
    PROVE  GovInv' /\ VerdictStandsStep /\ WeighedOnceStep
<1>1. ASSUME NEW P, NEW D, NEW C, Hands(P, D, C, ts),
             delegate' \in Delegations, DelegationCounted'
      PROVE  GovInv' /\ VerdictStandsStep /\ WeighedOnceStep
  BY <1>1, RecordSettles DEF GovInv
<1>2. ASSUME UNCHANGED <<delegate, delegations>>
      PROVE  delegate' \in Delegations /\ DelegationCounted'
  BY <1>2 DEF GovInv, DelegationCounted
<1>3. CASE \E i \in Voters, p \in Proposals : Propose(i, p, ts)
  <2>1. PICK i \in Voters, p \in Proposals : Propose(i, p, ts)
    BY <1>3, Zenon
  <2>2. UNCHANGED <<delegate, delegations>>
    BY <2>1 DEF Propose
  <2>3. PICK P, C : Hands(P, delegate, C, ts)
    BY <2>1, ProposeHands
  <2> QED BY <1>1, <1>2, <2>2, <2>3
<1>4. CASE \E i \in Voters, p \in Proposals, dir \in Directions : Vote(i, p, dir, ts)
  <2>1. PICK i \in Voters, p \in Proposals, dir \in Directions : Vote(i, p, dir, ts)
    BY <1>4
  <2>2. UNCHANGED <<delegate, delegations>>
    BY <2>1 DEF Vote
  <2>3. PICK P, C : Hands(P, delegate, C, ts)
    BY <2>1, VoteHands
  <2> QED BY <1>1, <1>2, <2>2, <2>3
<1>5. CASE \E i \in Voters, p \in Proposals, valid \in BOOLEAN, kind \in UpgradeKinds :
                Execute(i, p, valid, kind, ts)
  <2>1. PICK i \in Voters, p \in Proposals, valid \in BOOLEAN, kind \in UpgradeKinds :
                Execute(i, p, valid, kind, ts)
    BY <1>5, Zenon
  <2>2. UNCHANGED <<delegate, delegations>>
    BY <2>1 DEF Execute
  <2>3. PICK P, C : Hands(P, delegate, C, ts)
    BY <2>1, ExecuteHands
  <2> QED BY <1>1, <1>2, <2>2, <2>3
<1>6. CASE \E i \in Voters, p \in Proposals : Cancel(i, p, ts)
  <2>1. PICK i \in Voters, p \in Proposals : Cancel(i, p, ts)
    BY <1>6
  <2>2. UNCHANGED <<delegate, delegations>>
    BY <2>1 DEF Cancel
  <2>3. PICK P, C : Hands(P, delegate, C, ts)
    BY <2>1, CancelHands
  <2> QED BY <1>1, <1>2, <2>2, <2>3
<1>7. ASSUME NEW i \in Voters, NEW d \in Voters, Delegate(i, d, ts) \/ Undelegate(i, ts)
      PROVE  GovInv' /\ VerdictStandsStep /\ WeighedOnceStep
  <2>1. Hands(proposals, delegate', counts, ts)
    BY <1>7, DelegationHands
  <2>2. delegate' \in Delegations /\ DelegationCounted'
    BY <1>7, DelegationsCounted, Zenon
  <2> QED BY <1>1, <2>1, <2>2
<1> QED BY <1>3, <1>4, <1>5, <1>6, <1>7 DEF GovernanceRecord

\* Between two folds the stakes change, and nothing else does.
LEMMA StakesMove ==
    ASSUME GovInv, NEW i \in Voters, NEW amount \in 0..MaxStake, ChangeStake(i, amount)
    PROVE  GovInv'
<1>1. govStakes' \in [Voters -> 0..MaxStake]
  BY DEF GovInv, ChangeStake
<1> QED BY <1>1 DEF GovInv, ChangeStake, DelegationCounted, SettledInTime

\* A step that leaves the book alone breaks no verdict.
LEMMA BookAlone ==
    ASSUME UNCHANGED proposals
    PROVE  VerdictStandsStep /\ WeighedOnceStep
<1>1. VerdictStandsStep
  BY DEF VerdictStandsStep
<1>2. WeighedOnceStep
  <2>1. \A p \in With(proposals, "active") :
            proposals'[p].status \notin {"passed", "rejected", "expired"}
    BY DEF With
  <2> QED BY <2>1 DEF WeighedOnceStep
<1> QED BY <1>1, <1>2

LEMMA GovInductive ==
    GovInv /\ [GovernanceNext]_gvVars =>
        GovInv' /\ VerdictStandsStep /\ WeighedOnceStep
<1> SUFFICES ASSUME GovInv, [GovernanceNext]_gvVars
             PROVE  GovInv' /\ VerdictStandsStep /\ WeighedOnceStep
  OBVIOUS
<1>1. CASE \E ts \in lastGov..MaxTime : GovernanceRecord(ts)
  <2>1. PICK ts \in lastGov..MaxTime : GovernanceRecord(ts)
    BY <1>1
  <2>2. ts \in Nat
    BY ConvictionConstants DEF GovInv
  <2> QED BY <2>1, <2>2, RecordKeeps
<1>2. CASE \E i \in Voters, amount \in 0..MaxStake : ChangeStake(i, amount)
  <2>1. PICK i \in Voters, amount \in 0..MaxStake : ChangeStake(i, amount)
    BY <1>2
  <2>2. UNCHANGED proposals
    BY <2>1 DEF ChangeStake
  <2> QED BY <2>1, <2>2, StakesMove, BookAlone
<1>3. CASE UNCHANGED gvVars
  <2>1. GovInv'
    BY <1>3 DEF gvVars, GovInv, DelegationCounted, SettledInTime
  <2> QED BY <1>3, <2>1, BookAlone DEF gvVars
<1> QED BY <1>1, <1>2, <1>3 DEF GovernanceNext

LEMMA GovInvariant == GovernanceSpec => []GovInv
BY GovInitially, GovInductive, PTL DEF GovernanceSpec
-----------------------------------------------------------------------------
(* Theorems *)

\* Type correctness of GovernanceState under every governance record.
THEOREM GovernanceTypeCorrect == GovernanceSpec => []GovernanceTypeOK
<1>1. ASSUME GovInv PROVE GovernanceTypeOK
  <2>1. \A p \in DOMAIN proposals : IsProposal(proposals[p])
    <3> SUFFICES ASSUME NEW p \in DOMAIN proposals PROVE IsProposal(proposals[p])
      OBVIOUS
    <3>1. proposals[p] \in ProposalRecords /\ proposals[p].votes \in Rolls
      BY <1>1, BookOf DEF ProposalRecords
    <3>2. /\ DOMAIN proposals[p].votes \subseteq Voters
          /\ \A i \in DOMAIN proposals[p].votes : proposals[p].votes[i] \in Ballots
      BY <3>1, RollShape
    <3> QED BY <3>1, <3>2 DEF ProposalRecords, IsProposal
  <2>2. delegations \in Nat
    <3>1. IsFiniteSet({i \in Voters : delegate[i] # NoOne})
      BY GovernanceConstants, FS_Subset
    <3> QED BY <1>1, <3>1, FS_CardinalityType, Zenon DEF GovInv, DelegationCounted
  <2>3. counts \in [Statuses -> Nat] /\ DOMAIN proposals \subseteq Proposals
    BY <1>1, BookOf, Zenon DEF Counted
  <2> QED BY <1>1, <2>1, <2>2, <2>3 DEF GovInv, GovernanceTypeOK, Delegations
<1> QED BY <1>1, GovInvariant, PTL

\* The counters that replace scans are exact: active_delegations_count and
\* proposal_status_counts are what a scan of the maps would find.
THEOREM CountersStayExact == GovernanceSpec => []CountersExact
<1>1. ASSUME GovInv PROVE CountersExact
  BY <1>1 DEF GovInv, SoundBook, Counted, DelegationCounted, CountersExact
<1> QED BY <1>1, GovInvariant, PTL

\* No applied governance record leaves a proposal open that was due at its time.
THEOREM SettlementIsTimely == GovernanceSpec => []SettledInTime
<1>1. GovInv => SettledInTime
  BY DEF GovInv
<1> QED BY <1>1, GovInvariant, PTL

\* A proposal changes its parameter at most once, as an executed one, whoever sends
\* further records that execute it.
THEOREM ParamsChangeOnce == GovernanceSpec => []ParamChangedOnce
<1>1. GovInv => ParamChangedOnce
  BY DEF GovInv, LoggedOnce, ParamChangedOnce
<1> QED BY <1>1, GovInvariant, PTL

\* Verdicts stand, and an execution waits for its delays.
THEOREM VerdictsStand == GovernanceSpec => VerdictStands
<1>1. GovInv /\ [GovernanceNext]_gvVars => [VerdictStandsStep]_gvVars
  BY GovInductive
<1> QED BY <1>1, GovInvariant, PTL DEF GovernanceSpec, VerdictStands

\* No stake weighs twice in a proposal that is settled (reconcile_effective_stakes).
THEOREM StakesWeighOnce == GovernanceSpec => WeighedOnce
<1>1. GovInv /\ [GovernanceNext]_gvVars => [WeighedOnceStep]_gvVars
  BY GovInductive
<1> QED BY <1>1, GovInvariant, PTL DEF GovernanceSpec, WeighedOnce
=============================================================================
