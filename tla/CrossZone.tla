----------------------------- MODULE CrossZone -----------------------------
(***************************************************************************)
(* Cross-zone transfers (src/accounting/cross_zone.rs) as the ledger       *)
(* applies them (the XZone arms of apply_op in src/accounting/ledger.rs)   *)
(* and as epoch seals attach proofs to them (src/network/epoch.rs).        *)
(*                                                                         *)
(* A lock moves beat from the sender's balance into escrow.  A seal of the *)
(* source zone attaches a Merkle proof, the finality witnesses collected   *)
(* so far and the committee of the destination zone.  From then on only a  *)
(* claim, an abort signed by that committee or the 30-day reap may release *)
(* the escrow; before, the sender may cancel, the recipient may reject and *)
(* the authority may refund after the 24 h claim window.  What a seal      *)
(* attached is only in memory and in snapshots: a boot that replays the    *)
(* lock record finds the lock without it.                                  *)
(***************************************************************************)
EXTENDS Units

CONSTANTS
    Identities,       \* account holders
    Transfers,        \* ids of lock records
    Amounts,          \* amounts a lock may carry
    Supply,           \* beat in circulation plus beat in escrow
    ClaimTimeout,     \* CLAIM_TIMEOUT_SECS
    ReapHorizon,      \* REAP_HORIZON_SECS
    PruneAge,         \* the 48 h of the epoch loop's prune_cutoff
    CommitteeSizes,   \* sizes a finality committee may have
    SealEpochs,       \* epoch numbers a seal may carry
    MaxTime,          \* bound on the clock
    MaxRestarts,      \* bound on boots
    MaxLockTime       \* bound on the timestamps of locks

ASSUME XZoneConstants ==
    /\ IsFiniteSet(Identities) /\ IsFiniteSet(Transfers)
    /\ Amounts \subseteq Nat /\ Supply \in Nat
    /\ ClaimTimeout \in Nat /\ ReapHorizon \in Nat /\ PruneAge \in Nat
    /\ CommitteeSizes \subseteq Nat /\ SealEpochs \subseteq Nat
    /\ MaxTime \in Nat /\ MaxLockTime \in Nat /\ MaxRestarts \in Nat

VARIABLES
    available,        \* AccountState::available of every identity
    pendingXzoneLocked, \* LedgerState::pending_xzone_locked
    pending,          \* CrossZoneState::pending; status "Absent": no entry
    totalLocked,      \* CrossZoneState::total_locked
    count,            \* locked_count, claimed_count, refunded_count, aborted_count
    needsProof,       \* ids in needs_proof_index
    applied,          \* lock records in applied_record_ids
    batches,          \* XZoneTimeoutRefund and XZoneStaleReap records in flight
    now,              \* wall clock of the node
    restarts,         \* boots so far
    proved            \* history: transfers that a seal gave a proof and no boot took it from

xzVars == <<available, pendingXzoneLocked, pending, totalLocked, count,
            needsProof, applied, batches, now, restarts, proved>>
bootVars == <<restarts, proved>>

Statuses == {"Locked", "Claimed", "Refunded", "Aborted"}

\* PendingTransfer.  proof: merkle_proof is non-empty.  signers, committee and
\* epoch: the verified source_seal_signers, source_committee_size and
\* source_seal_epoch.  anchor: the size in dest_finality_committee, 0 for None.
PendingTransfer ==
    [status : Statuses, sender : Identities, recipient : Identities,
     amount : Nat, lockedAt : Nat, expiresAt : Nat, proof : BOOLEAN,
     signers : Nat, committee : Nat, epoch : Nat, anchor : Nat]

Absent == [status |-> "Absent"]

\* A collection of finality witnesses for a seal (SealFinalityCollection), and
\* what stands for none: no collection yet, or the consensus lock is contended.
Collections ==
    UNION {[signers : 1..size, committee : {size}, epoch : SealEpochs] :
              size \in CommitteeSizes}
NoCollection == [signers |-> 0, committee |-> 0, epoch |-> 0]

\* An emitted batch record: what it releases, which transfers, and when it was
\* emitted.
Batches == [kind : {"Refund", "Reap"}, ids : SUBSET Transfers, at : Nat]

Locked(t) == pending[t].status = "Locked"
Unsealed(t) == Locked(t) /\ ~pending[t].proof
Sealed(t) == Locked(t) /\ pending[t].proof

\* The entries with a status.
With(s) == {t \in Transfers : pending[t].status = s}

\* n of a committee of size members: at least two thirds, and not of nobody.
Quorum(n, size) == size > 0 /\ 3 * n >= 2 * size
-----------------------------------------------------------------------------
XZInit ==
    /\ available \in [Identities -> 0..Supply]
    /\ Total(available) = Supply
    /\ pendingXzoneLocked = 0
    /\ pending = [t \in Transfers |-> Absent]
    /\ totalLocked = 0
    /\ count = [s \in Statuses |-> 0]
    /\ needsProof = {}
    /\ applied = {}
    /\ batches = {}
    /\ now = 0
    /\ restarts = 0 /\ proved = {}

\* The balance check of XZoneLock.
Covers(sender, amount) == available[sender] >= amount

\* The id is new to apply_op and to lock_transfer; dropping the first check
\* leaves a pruned id open for reuse.
MutantFresh(t) == pending[t] = Absent
Fresh(t) == t \notin applied /\ pending[t] = Absent

\* unindex_needs_proof, and forgetting to call it.
MutantUnindexed(T) == needsProof
Unindexed(T) == needsProof \ T

\* XZoneLock with lock_transfer: the sender's balance is checked first, the
\* transfer entered, then the balance debited.
XZoneLock(t, sender, recipient, amount, ts) ==
    /\ Fresh(t)
    /\ ts <= now
    /\ Covers(sender, amount)
    /\ amount > 0
    /\ pending' = [pending EXCEPT ![t] =
          [status |-> "Locked", sender |-> sender, recipient |-> recipient,
           amount |-> amount, lockedAt |-> ts, expiresAt |-> ts + ClaimTimeout,
           proof |-> FALSE, signers |-> 0, committee |-> 0, epoch |-> 0,
           anchor |-> 0]]
    /\ totalLocked' = totalLocked + amount
    /\ needsProof' = needsProof \cup {t}
    /\ count' = [count EXCEPT !["Locked"] = @ + 1]
    /\ available' = [available EXCEPT ![sender] = @ - amount]
    /\ pendingXzoneLocked' = pendingXzoneLocked + amount
    /\ applied' = applied \cup {t}
    /\ UNCHANGED <<batches, now, bootVars>>

\* What every release of one transfer does: the new status, the trackers of
\* the escrow, and the credit to the account the escrow goes to.
Release(t, status, to) ==
    /\ pending' = [pending EXCEPT ![t].status = status]
    /\ totalLocked' = SatSub(totalLocked, pending[t].amount)
    /\ count' = [count EXCEPT !["Locked"] = SatSub(@, 1), ![status] = @ + 1]
    /\ available' = [available EXCEPT ![to] = @ + pending[t].amount]
    /\ pendingXzoneLocked' = SatSub(pendingXzoneLocked, pending[t].amount)
    /\ UNCHANGED <<applied, batches, now, bootVars>>

\* XZoneClaim with claim_transfer.  The escrow goes to the recipient the lock
\* names, for the amount the lock holds.
XZoneClaim(t, claimer, ts) ==
    /\ Locked(t)
    /\ claimer = pending[t].recipient
    /\ ts <= pending[t].expiresAt
    /\ pending[t].proof
    /\ Quorum(pending[t].signers, pending[t].committee)
    /\ Release(t, "Claimed", claimer)
    /\ UNCHANGED needsProof

\* XZoneCancel with cancel_transfer.
XZoneCancel(t, canceller) ==
    /\ Locked(t)
    /\ canceller = pending[t].sender
    /\ ~pending[t].proof
    /\ Release(t, "Refunded", canceller)
    /\ needsProof' = Unindexed({t})

\* XZoneReject with reject_transfer.
XZoneReject(t, rejector) ==
    /\ Locked(t)
    /\ rejector = pending[t].recipient
    /\ ~pending[t].proof
    /\ Release(t, "Refunded", pending[t].sender)
    /\ needsProof' = Unindexed({t})

\* XZoneAbort with verify_abort_quorum and abort_transfer: n valid signatures
\* of the destination committee whose hash and size the seal anchored.
XZoneAbort(t, n, size) ==
    /\ pending[t] # Absent
    /\ size = pending[t].anchor
    /\ Quorum(n, size)
    /\ Locked(t)
    /\ pending[t].proof /\ pending[t].epoch # 0
    /\ Release(t, "Aborted", pending[t].sender)
    /\ UNCHANGED needsProof
-----------------------------------------------------------------------------
\* set_finality_witnesses, skipped when there is no collection.
WithWitnesses(transfer, coll) ==
    IF coll = NoCollection THEN transfer
    ELSE [transfer EXCEPT !.signers = coll.signers,
                          !.committee = coll.committee, !.epoch = coll.epoch]

\* attach_xzone_proofs_from_seal_with_finality: a seal holds the lock records
\* of the transfers in sealed, found through the index.  When a lock is the only record of its seal its
\* Merkle path has no siblings, so set_proof stores an empty proof and still
\* takes the transfer off the index.
AttachXZoneProofs(sealed, onlyRecord, coll, anchor) ==
    /\ onlyRecord => Cardinality(sealed) = 1
    /\ LET todo == {t \in sealed : Unsealed(t)}
       IN /\ pending' = [t \in Transfers |->
                IF t \notin todo THEN pending[t]
                ELSE [WithWitnesses(pending[t], coll) EXCEPT
                        !.proof = ~onlyRecord,
                        !.anchor = IF anchor = 0 THEN @ ELSE anchor]]
          /\ needsProof' = Unindexed(todo)
          /\ proved' = IF onlyRecord THEN proved ELSE proved \cup todo
    /\ UNCHANGED <<available, pendingXzoneLocked, totalLocked, count, applied,
                   batches, now, restarts>>

\* The genesis authority freezes a batch in a record.  Records emitted at
\* different times are different records, also when they list the same ids.
Emit(kind, ids) ==
    /\ ids # {}
    /\ \A b \in batches : b.kind = kind => b.at # now
    /\ batches' = batches \cup {[kind |-> kind, ids |-> ids, at |-> now]}
    /\ UNCHANGED <<available, pendingXzoneLocked, pending, totalLocked, count,
                   needsProof, applied, now, bootVars>>

\* compute_expired_refund_batch
EmitRefundBatch ==
    Emit("Refund", {t \in Transfers : Unsealed(t) /\ now > pending[t].expiresAt})

\* Sealed locks past the reap horizon.  The mutant passes over those whose seal
\* had no witnesses.
MutantStale == {t \in Transfers : /\ Sealed(t) /\ pending[t].committee # 0
                                 /\ now > pending[t].expiresAt + ReapHorizon}
Stale == {t \in Transfers : Sealed(t) /\ now > pending[t].expiresAt + ReapHorizon}

\* compute_stale_reap_batch
EmitReapBatch ==
    Emit("Reap", Stale)

\* The beat held by the transfers of T, and the part of it that a sent.
Held(T) == Total([t \in T |-> pending[t].amount])
HeldFor(a, T) == Held({t \in T : pending[t].sender = a})

\* The loop of a refund batch over the transfers T it still applies to.
RefundAll(T) ==
    /\ pending' = [t \in Transfers |->
          IF t \in T THEN [pending[t] EXCEPT !.status = "Refunded"] ELSE pending[t]]
    /\ totalLocked' = SatSub(totalLocked, Held(T))
    /\ count' = [count EXCEPT !["Locked"] = SatSub(@, Cardinality(T)),
                              !["Refunded"] = @ + Cardinality(T)]
    /\ available' = [a \in Identities |-> available[a] + HeldFor(a, T)]
    /\ pendingXzoneLocked' = SatSub(pendingXzoneLocked, Held(T))
    /\ UNCHANGED <<applied, now, bootVars>>

\* The transfers a refund batch still applies to.  Skipping the status check
\* refunds a transfer twice; skipping the proof check refunds a sealed one.
MutantRefundableTwice(ids) == {t \in ids : pending[t] # Absent /\ ~pending[t].proof}
MutantRefundableSealed(ids) == {t \in ids : Locked(t)}
Refundable(ids) == {t \in ids : Unsealed(t)}

\* XZoneTimeoutRefund with apply_refund_batch.
ApplyRefundBatch(b) ==
    /\ b.kind = "Refund"
    /\ RefundAll(Refundable(b.ids))
    /\ needsProof' = Unindexed(Refundable(b.ids))
    /\ batches' = batches \ {b}

\* XZoneStaleReap with apply_reap_batch.
ApplyReapBatch(b) ==
    /\ b.kind = "Reap"
    /\ RefundAll({t \in b.ids : Sealed(t)})
    /\ batches' = batches \ {b}
    /\ UNCHANGED needsProof

\* What prune_completed drops, called by the epoch loop with now - 48 h.
Old(t) == pending[t] # Absent /\ pending[t].lockedAt + PruneAge <= now
Completed == {t \in Transfers : Old(t) /\ ~Locked(t)}

\* prune_completed
PruneCompleted ==
    LET gone == Completed
        Dropped(s) == Cardinality(With(s) \cap gone)
    IN /\ gone # {}
       /\ pending' = [t \in Transfers |-> IF t \in gone THEN Absent ELSE pending[t]]
       /\ count' = [s \in Statuses |->
                       IF s = "Locked" THEN count[s] ELSE SatSub(count[s], Dropped(s))]
       /\ UNCHANGED <<available, pendingXzoneLocked, totalLocked, needsProof,
                      applied, batches, now, bootVars>>

\* A lock as its record makes it, without what a seal attached.
Unproved(transfer) ==
    [transfer EXCEPT !.proof = FALSE, !.signers = 0, !.committee = 0, !.epoch = 0, !.anchor = 0]

\* The node boots: the snapshot is loaded and the records after it are replayed.  Locks
\* that a seal reached only after the snapshot come back as the replay of their records
\* makes them.  The index is not serialized; recount_status rebuilds it and the counters
\* from the entries.
Restart ==
    /\ restarts < MaxRestarts
    /\ \E unsaved \in SUBSET With("Locked") :
          /\ pending' = [t \in Transfers |->
                IF t \in unsaved THEN Unproved(pending[t]) ELSE pending[t]]
          /\ needsProof' = unsaved \cup {t \in Transfers : Unsealed(t)}
          /\ proved' = proved \ unsaved
    /\ count' = [s \in Statuses |-> Cardinality(With(s))]
    /\ restarts' = restarts + 1
    /\ UNCHANGED <<available, pendingXzoneLocked, totalLocked, applied, batches, now>>

Tick ==
    /\ now < MaxTime
    /\ now' = now + 1
    /\ UNCHANGED <<available, pendingXzoneLocked, pending, totalLocked, count,
                   needsProof, applied, batches, bootVars>>

XZNext ==
    \/ \E t \in Transfers, s, r \in Identities, amount \in Amounts, ts \in 0..MaxLockTime :
          XZoneLock(t, s, r, amount, ts)
    \/ \E t \in Transfers, a \in Identities, ts \in 0..now : XZoneClaim(t, a, ts)
    \/ \E t \in Transfers, a \in Identities : XZoneCancel(t, a)
    \/ \E t \in Transfers, a \in Identities : XZoneReject(t, a)
    \/ \E t \in Transfers, size \in CommitteeSizes : \E n \in 0..size :
          XZoneAbort(t, n, size)
    \/ \E sealed \in SUBSET needsProof \ {{}}, only \in BOOLEAN,
         coll \in Collections \cup {NoCollection}, anchor \in CommitteeSizes \cup {0} :
          AttachXZoneProofs(sealed, only, coll, anchor)
    \/ EmitRefundBatch
    \/ \E b \in batches : ApplyRefundBatch(b)
    \/ EmitReapBatch
    \/ \E b \in batches : ApplyReapBatch(b)
    \/ PruneCompleted
    \/ Restart
    \/ Tick

\* The clock advances and the genesis authority's epoch loop keeps emitting
\* its batches and applying the records it emitted.
XZFairness ==
    /\ WF_xzVars(Tick)
    /\ WF_xzVars(EmitRefundBatch)
    /\ WF_xzVars(\E b \in batches : ApplyRefundBatch(b))
    /\ WF_xzVars(EmitReapBatch)
    /\ WF_xzVars(\E b \in batches : ApplyReapBatch(b))

XZSpec == XZInit /\ [][XZNext]_xzVars
XZFairSpec == XZSpec /\ XZFairness
-----------------------------------------------------------------------------
\* Types.
XZTypeOK ==
    /\ available \in [Identities -> Nat]
    /\ pendingXzoneLocked \in Nat
    /\ pending \in [Transfers -> PendingTransfer \cup {Absent}]
    /\ totalLocked \in Nat
    /\ count \in [Statuses -> Nat]
    /\ needsProof \subseteq Transfers
    /\ applied \subseteq Transfers
    /\ batches \subseteq Batches
    /\ now \in Nat /\ restarts \in Nat
    /\ proved \subseteq Transfers

\* What every transfer holds in escrow.
EscrowOf == [t \in Transfers |-> IF Locked(t) THEN pending[t].amount ELSE 0]

\* The ledger's tracker and the cross-zone tracker of the escrow agree with
\* each other and with the amounts of the transfers that are Locked, whatever
\* order locks, releases, batches and prunes came in.
EscrowBooks ==
    /\ pendingXzoneLocked = Total(EscrowOf)
    /\ totalLocked = Total(EscrowOf)

\* No beat is created or lost between the balances and the escrow.
EscrowConservation == Total(available) + pendingXzoneLocked = Supply

\* The four status counters are the numbers of entries with that status.
StatusCounts == \A s \in Statuses : count[s] = Cardinality(With(s))

\* The index of locks that wait for a proof only names locks that wait: a seal
\* can never attach a proof to a transfer that was released or sealed before.
IndexSound == \A t \in needsProof : Unsealed(t)

\* A batch in flight lists only transfers that were locked and are overdue, by
\* the reap horizon if it is a reap; what is pruned meanwhile stays used.
BatchesOverdue ==
    \A b \in batches : \A t \in b.ids :
        /\ t \in applied
        /\ pending[t] # Absent =>
              now > pending[t].expiresAt + (IF b.kind = "Reap" THEN ReapHorizon ELSE 0)

SealSplitsStep ==
    \A t \in Transfers : Locked(t) /\ pending'[t].status # "Locked" =>
        IF t \in proved
        THEN \/ pending'[t].status \in {"Claimed", "Aborted"}
             \/ now > pending[t].expiresAt + ReapHorizon
        ELSE pending'[t].status = "Refunded"

\* Once a seal has given a lock its proof, the lock is claimed or aborted, or else not
\* refunded before the reap horizon, and no other lock is claimed or aborted: no batch
\* that was frozen before, no second seal and no release of another transfer takes the
\* proof away.  Only a boot does, of a lock that the snapshot holds without it; that one
\* is then refunded like a lock that no seal has reached.
SealSplitsReleases == [][SealSplitsStep]_xzVars

ReleasedStep == \A t \in applied : ~Locked(t) => pending'[t] \in {pending[t], Absent}

\* Released is final: no step re-opens a released transfer, changes how it was
\* released, or locks under an id that was used before, pruned or not.  (A boot is one
\* here whose snapshot holds the releases that needed a proof.)
ReleasedIsFinal == [][ReleasedStep]_xzVars

\* Every lock is eventually released: escrow never holds beat for ever, also
\* when the proof came without witnesses or without an anchor.
EveryLockReleased ==
    \A t \in Transfers : Locked(t) ~> ~Locked(t)
-----------------------------------------------------------------------------
\* The escrow that the entries of pending stand for.
Deposited ==
    [t \in Transfers |->
        IF Locked(t) THEN [from |-> pending[t].sender, to |-> pending[t].recipient,
                           amount |-> pending[t].amount]
        ELSE [amount |-> 0]]

E == INSTANCE Escrow WITH balance <- available, deposit <- Deposited, used <- applied

\* Every lock, release and batch is a step of the abstract escrow, and seals,
\* boots, prunes and the clock are invisible to it: an amount is paid or
\* returned once, whole, to the party the lock names.
ImplementsEscrow == E!ESSpec
=============================================================================
