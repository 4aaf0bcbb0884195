---------------------------- MODULE PendingDrain ----------------------------
(***************************************************************************)
(* Commit on finality, during one life of the process.  Ingest parks the   *)
(* delta of a ledger record (src/network/ingest.rs, phase 4) in the        *)
(* PendingLedger and in CF_PENDING_DELTAS; consensus queues the record     *)
(* when it becomes Finalized; the drain loop (src/network/pending_drain.rs)*)
(* applies it to the ledger, and the sweep loop discards what is too old.  *)
(* These are tasks of one process that only the locks order, so an action  *)
(* is what a task does between two releases of a lock or two writes.       *)
(*                                                                         *)
(* An operation is reduced to what the ledger needs of earlier records:    *)
(* Needs[r] are the records whose effects the operation of r spends.  Time *)
(* is left out of the sweep: a parked delta may be past either cutoff.     *)
(***************************************************************************)
EXTENDS Naturals, Sequences, FiniteSets

CONSTANTS
    Records,          \* record ids, ordered as the keys of the database
    Timestamp,        \* record.timestamp
    Creator,          \* the identity that signed the record
    Needs,            \* what apply_op of the record needs in the ledger
    MaxPerIdentity,   \* MAX_PENDING_PER_IDENTITY
    MaxTotal,         \* MAX_TOTAL_PENDING
    MaxQueue,         \* MAX_FINALIZATION_QUEUE
    EarlySettled,     \* records that may settle before they are stored, or
                      \* without an attestation to carry the news
    MaxPrunes,        \* bound on the prunes of the finality monitor
    MaxReadErrors,    \* bound on the reads of CF_RECORDS that fail
    MaxUpsets         \* bound on the two together

ASSUME PendingConstants ==
    /\ Records \subseteq Nat
    /\ Timestamp \in [Records -> Nat \ {0}]
    /\ Needs \in [Records -> SUBSET Records]
    /\ MaxPerIdentity \in Nat /\ MaxTotal \in Nat /\ MaxQueue \in Nat
    /\ EarlySettled \subseteq Records
    /\ MaxPrunes \in Nat /\ MaxReadErrors \in Nat /\ MaxUpsets \in Nat

VARIABLES
    stored,           \* CF_RECORDS
    rows,             \* CF_PENDING_DELTAS
    applied,          \* CF_APPLIED
    finalized,        \* FinalizedIndex, the finalized: keys of CF_METADATA
    ingest,           \* where the ingest of a record is
    parked,           \* PendingLedger.by_record
    level,            \* AWCConsensus.confirmation_levels
    queue,            \* AWCConsensus.finalization_queue
    bootIds,          \* boot_reconcile_ids
    batch, step,      \* finalized_ids of the drain, and where its head is
    sweeping,         \* to_drop of the sweep
    swept,            \* what the sweep has taken and not yet erased
    ledger,           \* the LedgerState in memory
    settled,          \* history: records whose attestations reached the quorum
    direct,           \* history: records applied by the fallback of ingest
    refused,          \* history: finalized records that apply_op refused
    prunes, readErrors

durableVars == <<stored, rows, applied, finalized>>
ingestVars == <<stored, ingest>>
consensusVars == <<level, queue, finalized, settled, prunes>>
drainVars == <<bootIds, batch, step, refused, readErrors>>
sweepVars == <<sweeping, swept>>
pdVars == <<ingestVars, rows, applied, parked, consensusVars, drainVars, sweepVars,
            ledger, direct>>

Levels == {"Pending", "Sealed", "Finalized"}
IngestSteps == {"none", "stored", "checked", "parked", "rejected", "direct", "done"}
DrainSteps == {"guard", "forget", "take", "rederive", "apply", "mark", "erase"}

\* Deltas of the creator of r among the parked ones.
BucketOf(p, r) == {q \in p : Creator[q] = Creator[r]}

\* Types, and the caps that PendingLedger and the finality queue promise.
PendingTypeOK ==
    /\ stored \subseteq Records /\ rows \subseteq Records
    /\ applied \subseteq Records /\ finalized \subseteq Records
    /\ ingest \in [Records -> IngestSteps]
    /\ parked \subseteq Records
    /\ Cardinality(parked) <= MaxTotal
    /\ \A r \in parked : Cardinality(BucketOf(parked, r)) <= MaxPerIdentity
    /\ level \in [Records -> Levels]
    /\ queue \in Seq(Records) /\ Len(queue) <= MaxQueue
    /\ bootIds \in Seq(Records) /\ batch \in Seq(Records)
    /\ step \in DrainSteps
    /\ sweeping \subseteq Records /\ swept \subseteq Records
    /\ ledger \in [effects : [Records -> Nat], ids : SUBSET Records, lastTs : Nat]
    /\ settled \subseteq Records /\ direct \subseteq Records /\ refused \subseteq Records
    /\ prunes \in 0..MaxPrunes /\ readErrors \in 0..MaxReadErrors

PendingInit ==
    /\ stored = {} /\ rows = {} /\ applied = {} /\ finalized = {}
    /\ ingest = [r \in Records |-> "none"]
    /\ parked = {}
    /\ level = [r \in Records |-> "Pending"]
    /\ queue = <<>> /\ bootIds = <<>> /\ batch = <<>> /\ step = "guard"
    /\ sweeping = {} /\ swept = {}
    /\ ledger = [effects |-> [r \in Records |-> 0], ids |-> {}, lastTs |-> 0]
    /\ settled = {} /\ direct = {} /\ refused = {}
    /\ prunes = 0 /\ readErrors = 0
-----------------------------------------------------------------------------
\* The head guard of apply_op (applied_record_ids), and whether the arm of the
\* operation accepts the ledger it finds.
Accepts(led, r) == r \in led.ids \/ \A q \in Needs[r] : led.effects[q] > 0

\* apply_op without its head guard.
MutantApplyOp(led, r) ==
    IF \A q \in Needs[r] : led.effects[q] > 0
    THEN [effects |-> [led.effects EXCEPT ![r] = @ + 1],
          ids |-> led.ids \cup {r},
          lastTs |-> IF Timestamp[r] > led.lastTs THEN Timestamp[r] ELSE led.lastTs]
    ELSE led

\* The ledger that apply_op leaves.
ApplyOp(led, r) ==
    IF r \notin led.ids /\ Accepts(led, r)
    THEN [effects |-> [led.effects EXCEPT ![r] = @ + 1],
          ids |-> led.ids \cup {r},
          lastTs |-> IF Timestamp[r] > led.lastTs THEN Timestamp[r] ELSE led.lastTs]
    ELSE led

\* PendingLedger::insert.
CanPark(p, r) ==
    /\ r \notin p
    /\ Cardinality(p) < MaxTotal
    /\ Cardinality(BucketOf(p, r)) < MaxPerIdentity
-----------------------------------------------------------------------------
\* Phase 2 of ingest stores the record; one that is stored is never ingested again.
StoreRecord(r) ==
    /\ ingest[r] = "none"
    /\ stored' = stored \cup {r}
    /\ ingest' = [ingest EXCEPT ![r] = "stored"]
    /\ UNCHANGED <<rows, applied, parked, consensusVars, drainVars, sweepVars, ledger, direct>>

\* was_already_applied is read before any lock is taken.
CheckApplied(r) ==
    /\ ingest[r] = "stored"
    /\ ingest' = [ingest EXCEPT ![r] = IF r \in applied THEN "done" ELSE "checked"]
    /\ UNCHANGED <<stored, rows, applied, parked, consensusVars, drainVars, sweepVars,
                   ledger, direct>>

ParkDelta(r) ==
    /\ ingest[r] = "checked"
    /\ CanPark(parked, r)
    /\ parked' = parked \cup {r}
    /\ ingest' = [ingest EXCEPT ![r] = "parked"]
    /\ UNCHANGED <<stored, rows, applied, consensusVars, drainVars, sweepVars, ledger, direct>>

\* The row that ingest forgets to write.
MutantPutRow(r) ==
    /\ ingest[r] = "parked"
    /\ ingest' = [ingest EXCEPT ![r] = "done"]
    /\ UNCHANGED <<stored, rows, applied, parked, consensusVars, drainVars, sweepVars,
                   ledger, direct>>

PutRow(r) ==
    /\ ingest[r] = "parked"
    /\ rows' = rows \cup {r}
    /\ ingest' = [ingest EXCEPT ![r] = "done"]
    /\ UNCHANGED <<stored, applied, parked, consensusVars, drainVars, sweepVars, ledger, direct>>

\* tentative_fallback_to_direct: a delta that PendingLedger refuses is applied
\* without waiting for finality, and a task of the blocking pool marks it later.
RejectDelta(r) ==
    /\ ingest[r] = "checked"
    /\ ~CanPark(parked, r)
    /\ ingest' = [ingest EXCEPT ![r] = "rejected"]
    /\ UNCHANGED <<stored, rows, applied, parked, consensusVars, drainVars, sweepVars,
                   ledger, direct>>

DirectApply(r) ==
    /\ ingest[r] = "rejected"
    /\ ledger' = ApplyOp(ledger, r)
    /\ ingest' = [ingest EXCEPT ![r] = IF Accepts(ledger, r) THEN "direct" ELSE "done"]
    /\ direct' = IF Accepts(ledger, r) THEN direct \cup {r} ELSE direct
    /\ UNCHANGED <<stored, rows, applied, parked, consensusVars, drainVars, sweepVars>>

MarkDirect(r) ==
    /\ ingest[r] = "direct"
    /\ applied' = applied \cup {r}
    /\ ingest' = [ingest EXCEPT ![r] = "done"]
    /\ UNCHANGED <<stored, rows, parked, consensusVars, drainVars, sweepVars, ledger, direct>>
-----------------------------------------------------------------------------
\* enqueue_finalized drops the event when the queue is full.
EnqueueFinalized(r) == queue' = IF Len(queue) < MaxQueue THEN Append(queue, r) ELSE queue

\* A seal that queues its records for commit.
MutantSeal(r) ==
    /\ r \in stored
    /\ level[r] = "Pending"
    /\ level' = [level EXCEPT ![r] = "Sealed"]
    /\ EnqueueFinalized(r)
    /\ UNCHANGED <<ingestVars, rows, applied, parked, finalized, settled, prunes, drainVars,
                   sweepVars, ledger, direct>>

\* register_seal_records, or recompute_confirmation below the quorum.
Seal(r) ==
    /\ r \in stored
    /\ level[r] = "Pending"
    /\ level' = [level EXCEPT ![r] = "Sealed"]
    /\ UNCHANGED <<ingestVars, rows, applied, parked, queue, finalized, settled, prunes,
                   drainVars, sweepVars, ledger, direct>>

\* The edge to Finalized of recompute_confirmation, force_finalized and
\* promote_seal_members.
Finalize(r) ==
    /\ r \in stored \cup EarlySettled
    /\ level[r] # "Finalized"
    /\ level' = [level EXCEPT ![r] = "Finalized"]
    /\ settled' = settled \cup {r}
    /\ EnqueueFinalized(r)
    /\ UNCHANGED <<ingestVars, rows, applied, parked, finalized, prunes, drainVars, sweepVars,
                   ledger, direct>>

\* The durable half of finality, written after the consensus lock is released:
\* feed_attestation, route_member_finality and the parity sweep of the prune loop.
IndexFinalized(r) ==
    /\ level[r] = "Finalized"
    /\ r \notin finalized
    /\ finalized' = finalized \cup {r}
    /\ UNCHANGED <<ingestVars, rows, applied, parked, level, queue, settled, prunes, drainVars,
                   sweepVars, ledger, direct>>

\* finality_monitor_loop indexes a record that settled when the stakes moved.  It
\* neither raises the level nor queues the record.
MonitorSettles(r) ==
    /\ r \in EarlySettled
    /\ level[r] # "Finalized"
    /\ r \notin finalized
    /\ finalized' = finalized \cup {r}
    /\ settled' = settled \cup {r}
    /\ UNCHANGED <<ingestVars, rows, applied, parked, level, queue, prunes, drainVars, sweepVars,
                   ledger, direct>>

\* What the monitor has consensus forget: the records in the index, and those
\* that are not stored.
Forgotten == finalized \cup (Records \ stored)

\* prune_where drops their levels; an attestation that a peer pushes again then
\* crosses the edge once more.
PruneFinalized ==
    /\ prunes < MaxPrunes /\ prunes + readErrors < MaxUpsets
    /\ \E r \in Forgotten : level[r] # "Pending"
    /\ level' = [r \in Records |-> IF r \in Forgotten THEN "Pending" ELSE level[r]]
    /\ prunes' = prunes + 1
    /\ UNCHANGED <<ingestVars, rows, applied, parked, queue, finalized, settled, drainVars,
                   sweepVars, ledger, direct>>
-----------------------------------------------------------------------------
\* drain_newly_finalized and the ids of the boot replay.
DrainTick ==
    /\ batch = <<>>
    /\ queue \o bootIds # <<>>
    /\ batch' = queue \o bootIds
    /\ queue' = <<>>
    /\ bootIds' = <<>>
    /\ UNCHANGED <<ingestVars, rows, applied, parked, level, finalized, settled, prunes, step,
                   refused, readErrors, sweepVars, ledger, direct>>

\* The drain is at a step of record r, the head of its batch.
At(r, s) == batch # <<>> /\ r = Head(batch) /\ step = s

Leave == batch' = Tail(batch) /\ step' = "guard"
Stay(s) == step' = s /\ UNCHANGED batch

\* is_applied, read before the lock of the PendingLedger is taken.
DrainGuard(r) ==
    /\ At(r, "guard")
    /\ Stay(IF r \in applied THEN "forget" ELSE "take")
    /\ UNCHANGED <<ingestVars, rows, applied, parked, consensusVars, bootIds, refused,
                   readErrors, sweepVars, ledger, direct>>

ForgetDelta(r) ==
    /\ At(r, "forget")
    /\ parked' = parked \ {r}
    /\ rows' = rows \ {r}
    /\ Leave
    /\ UNCHANGED <<ingestVars, applied, consensusVars, bootIds, refused, readErrors, sweepVars,
                   ledger, direct>>

TakeDelta(r) ==
    /\ At(r, "take")
    /\ parked' = parked \ {r}
    /\ Stay(IF r \in parked THEN "apply" ELSE "rederive")
    /\ UNCHANGED <<ingestVars, rows, applied, consensusVars, bootIds, refused, readErrors,
                   sweepVars, ledger, direct>>

\* A missing delta taken for the record of some other kind.
MutantRederive(r) ==
    /\ At(r, "rederive")
    /\ rows' = rows \ {r}
    /\ Leave
    /\ UNCHANGED <<ingestVars, applied, parked, consensusVars, bootIds, refused, readErrors,
                   sweepVars, ledger, direct>>

\* rederive_swept_delta, after the stale row is erased.
Rederive(r) ==
    /\ At(r, "rederive")
    /\ rows' = rows \ {r}
    /\ IF r \in applied \/ r \notin stored THEN Leave ELSE Stay("apply")
    /\ UNCHANGED <<ingestVars, applied, parked, consensusVars, bootIds, refused, readErrors,
                   sweepVars, ledger, direct>>

\* A read that fails: here the delta is parked again, in rederive it is given up.
ReadFails(r) ==
    /\ readErrors < MaxReadErrors /\ prunes + readErrors < MaxUpsets
    /\ \/ At(r, "apply") /\ parked' = IF CanPark(parked, r) THEN parked \cup {r} ELSE parked
       \/ At(r, "rederive") /\ UNCHANGED parked
    /\ rows' = IF step = "rederive" THEN rows \ {r} ELSE rows
    /\ readErrors' = readErrors + 1
    /\ Leave
    /\ UNCHANGED <<ingestVars, applied, consensusVars, bootIds, refused, sweepVars, ledger, direct>>

\* apply_single_record under the write lock.
Commit(r) ==
    /\ At(r, "apply")
    /\ Accepts(ledger, r)
    /\ ledger' = ApplyOp(ledger, r)
    /\ Stay("mark")
    /\ UNCHANGED <<ingestVars, rows, applied, parked, consensusVars, bootIds, refused, readErrors,
                   sweepVars, direct>>

\* A refused operation that is marked as if it had been applied.
MutantRefuse(r) ==
    /\ At(r, "apply")
    /\ ~Accepts(ledger, r)
    /\ rows' = rows \ {r}
    /\ refused' = refused \cup {r}
    /\ applied' = applied \cup {r}
    /\ Leave
    /\ UNCHANGED <<ingestVars, parked, consensusVars, bootIds, readErrors, sweepVars, ledger,
                   direct>>

\* An operation that the ledger refuses is dropped, with its row.
Refuse(r) ==
    /\ At(r, "apply")
    /\ ~Accepts(ledger, r)
    /\ rows' = rows \ {r}
    /\ refused' = refused \cup {r}
    /\ Leave
    /\ UNCHANGED <<ingestVars, applied, parked, consensusVars, bootIds, readErrors, sweepVars,
                   ledger, direct>>

MarkApplied(r) ==
    /\ At(r, "mark")
    /\ applied' = applied \cup {r}
    /\ Stay("erase")
    /\ UNCHANGED <<ingestVars, rows, parked, consensusVars, bootIds, refused, readErrors, sweepVars,
                   ledger, direct>>

EraseRow(r) ==
    /\ At(r, "erase")
    /\ rows' = rows \ {r}
    /\ Leave
    /\ UNCHANGED <<ingestVars, applied, parked, consensusVars, bootIds, refused, readErrors,
                   sweepVars, ledger, direct>>
-----------------------------------------------------------------------------
\* sweep_stale_pending chooses what to drop: past the soft cutoff only a record
\* that is still Pending, past the hard one any record.
SweepPick(r, hard) ==
    /\ r \in parked \ (sweeping \cup swept)
    /\ hard \/ level[r] = "Pending"
    /\ sweeping' = sweeping \cup {r}
    /\ UNCHANGED <<ingestVars, rows, applied, parked, consensusVars, drainVars, swept, ledger,
                   direct>>

\* It takes the deltas that the drain has not taken meanwhile, then erases the
\* rows of all that it chose.
SweepTake(r) ==
    /\ r \in sweeping
    /\ sweeping' = sweeping \ {r}
    /\ swept' = swept \cup {r}
    /\ parked' = parked \ {r}
    /\ UNCHANGED <<ingestVars, rows, applied, consensusVars, drainVars, ledger, direct>>

SweepErase(r) ==
    /\ r \in swept
    /\ swept' = swept \ {r}
    /\ rows' = rows \ {r}
    /\ UNCHANGED <<ingestVars, applied, parked, consensusVars, drainVars, sweeping, ledger,
                   direct>>
-----------------------------------------------------------------------------
IngestStep(r) ==
    \/ CheckApplied(r) \/ ParkDelta(r) \/ PutRow(r)
    \/ RejectDelta(r) \/ DirectApply(r) \/ MarkDirect(r)

DrainStep(r) ==
    \/ DrainGuard(r) \/ ForgetDelta(r) \/ TakeDelta(r) \/ Rederive(r)
    \/ Commit(r) \/ Refuse(r) \/ MarkApplied(r) \/ EraseRow(r)

PendingNext ==
    \/ DrainTick
    \/ PruneFinalized
    \/ \E r \in Records :
        \/ StoreRecord(r) \/ IngestStep(r)
        \/ Seal(r) \/ Finalize(r) \/ IndexFinalized(r) \/ MonitorSettles(r)
        \/ DrainStep(r) \/ ReadFails(r)
        \/ (\E hard \in BOOLEAN : SweepPick(r, hard)) \/ SweepTake(r) \/ SweepErase(r)

PendingSpec == PendingInit /\ [][PendingNext]_pdVars

\* The drain loop ticks for ever and runs each tick to its end, on every node.
PendingFairness ==
    /\ WF_pdVars(DrainTick)
    /\ WF_pdVars(\E r \in Records : DrainStep(r))

PendingLiveSpec == PendingSpec /\ PendingFairness
-----------------------------------------------------------------------------
\* A record has its effect on the ledger at most once: is_applied, take, the late
\* mark of the fallback, a second event for the same record and the head guard of
\* apply_op, taken together.
AppliedOnce == \A r \in Records : ledger.effects[r] <= 1

\* What CF_APPLIED holds is in the ledger, so no later check takes a record that
\* was never applied for a duplicate.
MarkedIsApplied == \A r \in applied : ledger.effects[r] > 0

\* The ledger moves for a finalized record, or for one that the caps of the
\* PendingLedger turned away (ingest.rs, phase 4).
CommitGated == \A r \in Records : ledger.effects[r] > 0 => r \in settled \cup direct

\* The row of a parked delta is on disk, so that a crash loses no delta that is
\* still to be committed: the exceptions are a row that ingest is about to write,
\* a delta whose record the drain has committed, refused or has in hand, and one
\* that a failed read put back without its row.
ParkedIsDurable ==
    \A r \in parked \ rows :
        \/ ingest[r] = "parked"
        \/ r \in applied \cup refused
        \/ batch # <<>> /\ r = Head(batch)
        \/ readErrors > 0

\* A record that reaches finality is committed, or refused by apply_op, whatever
\* the sweep does to its delta in between, unless a read of CF_RECORDS fails.
FinalizedCommits ==
    \A r \in Records \ EarlySettled :
        r \in settled ~> r \in applied \cup refused \/ readErrors > 0
=============================================================================
