--------------------------- MODULE PendingRestart ---------------------------
(***************************************************************************)
(* Commit on finality across restarts.  The node of PendingDrain also      *)
(* checkpoints its ledger (snapshot_loop of src/bin/elara_node.rs) and may *)
(* stop at any point, on its way up included.  On the way up it folds the  *)
(* stored records into the checkpoint, or into an empty ledger when there  *)
(* is none, clears applied_record_ids, and rehydrates the PendingLedger    *)
(* from its rows, one record at a time; the loops start after that.        *)
(*                                                                         *)
(* The node is past genesis: CF_APPLIED is not empty, so the migration of  *)
(* the applied ids does not run, and the operations leave the total supply *)
(* alone, so the supply check never asks for a full rebuild.               *)
(***************************************************************************)
EXTENDS PendingDrain

CONSTANT MaxRestarts    \* bound on the restarts

ASSUME RestartConstants == MaxRestarts \in Nat

VARIABLES
    checkpoint,         \* the "ledger" snapshot in CF_METADATA
    boot,               \* how far the node is on its way up
    todo,               \* what the loop of that phase has still to visit
    failed,             \* failed_token: operations the fold could not apply
    reconcile,          \* finalized rows to be re-armed
    restarts,
    unmarked,           \* history: records that a restart found stored and not in CF_APPLIED
    absent,             \* history: records without effect when the last fold ended
    owed                \* history: finalized rows that the last boot replay went through

bootVars == <<boot, todo, failed, reconcile>>
historyVars == <<restarts, unmarked, absent, owed>>
restartVars == <<checkpoint, bootVars, historyVars>>
prVars == <<pdVars, restartVars>>

BootPhases == {"up", "fold", "retry", "rows"}

NoCheckpoint == [saved |-> FALSE, ledger |-> [effects |-> [r \in Records |-> 0],
                                              ids |-> {}, lastTs |-> 0]]

\* Types.
RestartTypeOK ==
    /\ PendingTypeOK
    /\ checkpoint.saved \in BOOLEAN
    /\ checkpoint.ledger.effects \in [Records -> Nat]
    /\ checkpoint.ledger.ids = {}
    /\ checkpoint.ledger.lastTs \in Nat
    /\ boot \in BootPhases
    /\ todo \subseteq Records /\ failed \subseteq Records
    /\ reconcile \in Seq(Records)
    /\ restarts \in 0..MaxRestarts
    /\ unmarked \subseteq Records /\ absent \subseteq Records /\ owed \subseteq Records

RestartInit ==
    /\ PendingInit
    /\ checkpoint = NoCheckpoint
    /\ boot = "up" /\ todo = {} /\ failed = {} /\ reconcile = <<>>
    /\ restarts = 0
    /\ unmarked = {} /\ absent = {} /\ owed = {}
-----------------------------------------------------------------------------
\* A cycle of snapshot_loop that keeps the ids of the ledger it clones.
MutantSaveCheckpoint ==
    /\ boot = "up"
    /\ checkpoint' = [saved |-> TRUE, ledger |-> ledger]
    /\ UNCHANGED <<pdVars, bootVars, historyVars>>

\* One cycle of snapshot_loop.  Cloning the ledger drops applied_record_ids.
SaveCheckpoint ==
    /\ boot = "up"
    /\ checkpoint' = [saved |-> TRUE, ledger |-> [ledger EXCEPT !.ids = {}]]
    /\ UNCHANGED <<pdVars, bootVars, historyVars>>
-----------------------------------------------------------------------------
\* The floor taken inclusively, and the replay that trusts CF_APPLIED.
MutantInclusiveScope == {r \in stored : checkpoint.saved => Timestamp[r] >= checkpoint.ledger.lastTs}
MutantMarkedScope == {r \in stored \ applied : checkpoint.saved => Timestamp[r] > checkpoint.ledger.lastTs}

\* What the replay visits: incremental_ledger_replay starts above the floor,
\* rebuild_ledger_streaming from the first record.
ReplayScope == {r \in stored : checkpoint.saved => Timestamp[r] > checkpoint.ledger.lastTs}

\* bulk_load_attestations recomputes a level from the attestations that are still
\* on disk, and queues nothing.
RestoredLevels ==
    {f \in [Records -> Levels] :
        \A r \in Records : f[r] \in {"Pending", level[r]}
                            \cup (IF r \in settled THEN {"Finalized"} ELSE {})}

\* The process stops, with all that is in memory, and starts again.  A record whose
\* ingest was cut short is stored, so no peer's copy of it is ingested again.
Restart ==
    /\ restarts < MaxRestarts
    /\ restarts' = restarts + 1
    /\ unmarked' = unmarked \cup (stored \ applied)
    /\ owed' = {}
    /\ ledger' = checkpoint.ledger
    /\ boot' = "fold" /\ todo' = ReplayScope /\ failed' = {} /\ reconcile' = <<>>
    /\ level' \in RestoredLevels
    /\ parked' = {} /\ bootIds' = <<>>
    /\ queue' = <<>> /\ batch' = <<>> /\ step' = "guard"
    /\ sweeping' = {} /\ swept' = {}
    /\ ingest' = [r \in Records |-> IF ingest[r] = "none" THEN "none" ELSE "done"]
    /\ UNCHANGED <<stored, rows, applied, finalized, settled, direct, refused, prunes,
                   readErrors, checkpoint, absent>>

\* The order of CF_IDX_TIMESTAMP.
Earlier(a, b) == Timestamp[a] < Timestamp[b] \/ (Timestamp[a] = Timestamp[b] /\ a < b)

\* The next record of the loop, in the order of the timestamps.
ReplayRecord(r) ==
    /\ boot \in {"fold", "retry"} /\ r \in todo
    /\ \A q \in todo \ {r} : Earlier(r, q)
    /\ ledger' = ApplyOp(ledger, r)
    /\ todo' = todo \ {r}
    /\ failed' = IF boot = "fold" /\ ~Accepts(ledger, r) THEN failed \cup {r} ELSE failed
    /\ UNCHANGED <<stored, rows, applied, parked, ingest, consensusVars, drainVars, sweepVars, direct,
                   checkpoint, boot, reconcile, historyVars>>

\* rebuild_ledger_streaming gives the operations that failed one more attempt, in the
\* same order; incremental_ledger_replay does not.
RetryFailed ==
    /\ boot = "fold" /\ todo = {} /\ ~checkpoint.saved
    /\ boot' = "retry" /\ todo' = failed
    /\ UNCHANGED <<pdVars, checkpoint, failed, reconcile, historyVars>>

\* list_cf_raw gives the first rows in key order, one more than fit.
ListedRows == {r \in rows : Cardinality({q \in rows : q < r}) <= MaxTotal}

\* main clears the ids of the ledger, and boot_replay_pending_deltas goes through the
\* rows: those of marked records are erased.
ListRows ==
    /\ boot = (IF checkpoint.saved THEN "fold" ELSE "retry") /\ todo = {}
    /\ ledger' = [ledger EXCEPT !.ids = {}]
    /\ absent' = {r \in Records : ledger.effects[r] = 0}
    /\ rows' = rows \ (ListedRows \cap applied)
    /\ boot' = "rows" /\ todo' = ListedRows \ applied
    /\ UNCHANGED <<stored, applied, parked, ingest, consensusVars, drainVars, sweepVars, direct,
                   checkpoint, failed, reconcile, restarts, unmarked, owed>>

\* PendingLedger::boot_replay inserts the deltas in key order.
InsertRow(r) ==
    /\ boot = "rows" /\ r \in todo
    /\ \A q \in todo \ {r} : r < q
    /\ CanPark(parked, r)
    /\ parked' = parked \cup {r}
    /\ todo' = todo \ {r}
    /\ reconcile' = IF r \in finalized THEN Append(reconcile, r) ELSE reconcile
    /\ UNCHANGED <<stored, rows, applied, ingest, consensusVars, drainVars, sweepVars, ledger, direct,
                   checkpoint, boot, failed, historyVars>>

\* The first that insert rejects ends it with an error, before the ids are re-armed.
RejectRow(r) ==
    /\ boot = "rows" /\ r \in todo
    /\ \A q \in todo \ {r} : r < q
    /\ ~CanPark(parked, r)
    /\ boot' = "up" /\ todo' = {} /\ reconcile' = <<>>
    /\ UNCHANGED <<pdVars, checkpoint, failed, historyVars>>

\* The boot replay that forgets the crash window between finality and drain.
MutantRearm ==
    /\ boot = "rows" /\ todo = {}
    /\ boot' = "up" /\ reconcile' = <<>>
    /\ owed' = parked \cap finalized
    /\ UNCHANGED <<pdVars, checkpoint, todo, failed, restarts, unmarked, absent>>

\* The finalized rows go to boot_reconcile_ids, and the loops start.
Rearm ==
    /\ boot = "rows" /\ todo = {}
    /\ bootIds' = reconcile
    /\ boot' = "up" /\ reconcile' = <<>>
    /\ owed' = parked \cap finalized
    /\ UNCHANGED <<ingestVars, rows, applied, parked, consensusVars, batch, step, refused, readErrors,
                   sweepVars, ledger, direct, checkpoint, todo, failed, restarts, unmarked, absent>>
-----------------------------------------------------------------------------
\* A step of the node that runs, and one of main on the way up.
Running == boot = "up" /\ PendingNext /\ UNCHANGED restartVars

BootStep ==
    \/ RetryFailed \/ ListRows \/ Rearm
    \/ \E r \in Records : ReplayRecord(r) \/ InsertRow(r) \/ RejectRow(r)

RestartNext == Running \/ SaveCheckpoint \/ Restart \/ BootStep

\* main runs to its end, and the drain loop of PendingDrain in every incarnation of
\* the process.
RestartFairness ==
    /\ WF_prVars(BootStep)
    /\ WF_prVars(boot = "up" /\ DrainTick /\ UNCHANGED restartVars)
    /\ WF_prVars(boot = "up" /\ (\E r \in Records : DrainStep(r)) /\ UNCHANGED restartVars)

RestartSpec == RestartInit /\ [][RestartNext]_prVars /\ RestartFairness
-----------------------------------------------------------------------------
\* A restart never repeats a commit that reached CF_APPLIED: only a record that
\* some restart found without its mark can have its effect twice.
CommittedOnce == \A r \in Records \ unmarked : ledger.effects[r] <= 1

\* A marked record that a restart leaves out of the ledger has a timestamp at or
\* below that of a checkpoint, or spends what a record pays that the replay left out
\* too or met later.
LostBelowFloor ==
    boot = "up" =>
        \A r \in applied :
            ledger.effects[r] = 0 =>
                \/ checkpoint.saved /\ Timestamp[r] <= checkpoint.ledger.lastTs
                \/ \E q \in Needs[r] : q \in absent \/ Earlier(r, q)

\* What CF_APPLIED holds is in the ledger that the node came up with.
MarkedIsReplayed == boot = "up" => MarkedIsApplied

\* A finalized record whose row the last boot replay went through is committed or
\* refused: a crash between finality and the drain loses nothing that is on disk,
\* unless the caps of the PendingLedger reject a row.
RearmedCommits ==
    \A r \in Records :
        (restarts = MaxRestarts /\ r \in owed) ~> r \in applied \cup refused
=============================================================================
