# A verification project for elara-mesh

TLA+ modules that model parts of the elara-mesh node, TLC configurations that
check them on small instances, and TLAPS proofs of the properties that matter
most for every value of the constants. Paths below are relative to
`src/src/` of the repository.

## 1. The system

An elara node keeps a DAG of signed records. A record may carry a ledger
operation (`beat_op`), which `LedgerState::apply_op` turns into movements of
beat between accounts, stakes, the escrow of cross-zone transfers, predictions
and the conservation pool. The rest of the node decides which records reach that
function, when and in which order:

* **ingest** stores a record, and parks its operation in the pending ledger;
* **witnesses** attest records and seals; **consensus** raises a record's
  confirmation level and queues it when it is final, and the **finalized index**
  keeps that durably and triggers what happens once at finality;
* the **drain** takes finalized deltas out of the pending ledger and applies them;
* **epoch seals** commit to the records of a zone, prove cross-zone locks, trigger
  the evaluation of predictions and the refund and reap batches;
* **checkpoints** and **replays** bring the ledger back after a restart;
* the **account tree** commits to the accounts, and each seal carries its root;
* **governance** records decide on parameters and upgrades by stake;
* **key rotation**, **zone transitions**, **gossip**, **transport** and **routes**
  surround this.

`PROJECT.json` lists all parts with what is modelled of each and why the others
are not.

| part | source | modules |
| --- | --- | --- |
| cross-zone transfers | `accounting/cross_zone.rs`, XZone arms of `accounting/ledger.rs`, attach and emission in `network/epoch.rs` | `CrossZone`, `Escrow` |
| accounts, mint, transfer, rewards, burn | `accounting/ledger.rs` | `Accounts` |
| stakes, slashing, genesis carve | `accounting/ledger.rs` | `Staking` |
| predictions | `accounting/ledger.rs`, `network/epoch.rs` | `Predictions` |
| dormancy | `accounting/dormancy.rs`, arms of `accounting/ledger.rs` | `Dormancy` |
| the ledger as a whole | `accounting/ledger.rs` | `Ledger` |
| commit on finality | `accounting/pending_ledger.rs`, `network/pending_drain.rs`, `network/ingest.rs`, `network/consensus.rs` | `PendingDrain` |
| restart | `bin/elara_node.rs`, `storage/rocks.rs` | `PendingRestart` |
| confirmation of records and seals | `network/consensus.rs`, `network/state.rs`, `network/ingest.rs`, loops of `network/epoch.rs`, `network/gossip.rs` and `bin/elara_node.rs` | `SealFinality` |
| effects of finality | `network/finalized.rs`, `network/reward.rs` | `FinalityEffects` |
| governance | `accounting/governance.rs`, `network/protocol_upgrade.rs`, `apply_governance_op` | `Governance`, `Conviction` |
| account tree | `network/account_merkle.rs`, its callers in `network/epoch.rs`, `network/ingest.rs`, `network/routes/admin.rs` and `bin/elara_node.rs` | `AccountTree` |

## 2. The modules

`Units` defines `Total(f)`, the sum of a map of amounts, as the number of its
units. A count of a finite set instead of a recursive sum lets `UnitsTheorems`
prove the laws of sums (replace one entry, add, move) from the library's
cardinality theorems, so that conservation can be proved for any number of
accounts.

### Cross-zone transfers: `CrossZone`, `Escrow`

`pending` is the map of `PendingTransfer` entries, `totalLocked` and
`pendingXzoneLocked` the two trackers of the escrow, `count` the status
counters, `needsProof` the index of locks that wait for a proof. An action stands
for an arm of `apply_op` with the `CrossZoneState` call it makes: lock, claim,
cancel, reject, abort. `AttachXZoneProofs` is the seal handler.
`EmitRefundBatch` and `EmitReapBatch` freeze a list of transfers in a record;
the record is applied later, when other records may have released some of them.
Pruning is an action too, and so is a boot: `Restart` loads the snapshot and replays
the records after it. Seals attach proofs outside the records, and
`accounting/cross_zone.rs:123` says that proofs do not survive a replay; hence a lock
that was sealed after the snapshot comes back unsealed, and can then be cancelled, refunded
and sealed again. `proved` is history: the transfers that a seal gave a proof and
no boot took it from. A Merkle proof is a boolean, a set of finality signatures is its
size and the size of the committee.

`Restart` keeps every release. So does the code, but for one case that is not modelled: a
claim, an abort or a reap that was applied after the snapshot needs the proof that the replay does
not have, `claim_transfer` (`cross_zone.rs:503`) and its like reject the replayed record, and
the transfer is locked again. `ReleasedIsFinal` and `ImplementsEscrow` are therefore about
boots whose snapshot holds the releases that needed a proof. An entry that was pruned after the
snapshot does not come back either in the model.

`Escrow` is what the component promises: a deposit is made once under an id,
and paid to the recipient or returned to the sender once, whole. `CrossZone`
implements it (`ImplementsEscrow`) and `Ledger` uses it.

### Operations of the ledger: `Accounts`, `Staking`, `Predictions`, `Dormancy`, `Ledger`

`Accounts` holds `available`, `lastActive`, `totalSupply`, `conservationPool`
and `applied`, the head guard of `apply_op`; each arm is an action with `Apply`
as its first conjunct. `Staking` adds the entry of a stake, `staked` of the
account, `total_staked`, the staker index, the active count, the three shares of a
slash with their rounding, and the genesis carve. `Predictions` splits an
evaluation into steps, one per prediction, and includes the `try_write` that may
skip it. `Dormancy` has declaration, wake-up and reclaim with the threshold and
the window. `Ledger` composes all of them with witness bonds, idle-decay batches
and the abstract escrow over one set of accounts.

An idle-decay batch is any map of debits and credits up to `MaxDecay`, because
it is computed on an earlier state than the one it is applied to; the formula
itself is not modelled.

### Commit on finality: `PendingDrain`, `PendingRestart`

`PendingDrain` follows one record through `StoreRecord`, `CheckApplied`
(`is_applied` is read before any lock), `ParkDelta` and `PutRow`, or
`RejectDelta`, `DirectApply` and `MarkDirect` when the caps refuse it. `Seal`,
`Finalize` and `IndexFinalized` are the edges of the confirmation level and the
write of the FinalizedIndex. The drain is a process of one batch, with one
action per lock it takes: `DrainTick`, `DrainGuard`, `ForgetDelta`, `TakeDelta`,
`Rederive` (rebuild a delta that the sweep removed), `ReadFails`, `Commit` or
`Refuse`, `MarkApplied`, `EraseRow`. The sweep is `SweepPick`, `SweepTake`,
`SweepErase`. `PruneFinalized` lets consensus forget a record, after which
replayed attestations can finalize it again. The balance of accounts is abstracted to
`Needs`: an operation succeeds when the operations it spends from have been applied.

`PendingRestart` adds `SaveCheckpoint`, `Restart` and the way up, one action per
record it handles. `Restart` may come at any point, of the boot too: what is in
memory is gone, and the levels are restored without events. Then `boot` goes
through the phases of `main`. In "fold", `ReplayRecord` folds the stored records above the
checkpoint's floor into the ledger, in the order of timestamps. Without a checkpoint
they are folded into an empty ledger, and `RetryFailed` gives those that failed
another round ("retry"). `ListRows` clears the ids, erases the rows of marked records
and lists the others up to the cap ("rows"). `InsertRow` rehydrates one, `RejectRow`
ends the boot at the first that the caps refuse, and `Rearm` hands the finalized ones
to the drain. The tasks of `PendingDrain` run only when the node is "up".
`unmarked`, `absent` and `owed` are history variables; no guard reads them.

Left out of both: a record deleted while its delta is parked, the refusal of a
pinned genesis mint (same effect as `Refuse`), failing row writes, the updates
of other registers at commit.

### Confirmation: `SealFinality`

`engine` is `AWCConsensus`, and each of its methods an operator from an engine
to an engine: `AddAttestation`, `AddSealAttestation`, `RegisterCreators`, `RegisterSeal`,
`ParkUnresolved`, `ResolveLate`, `Recompute`, `PruneWhere`, `PruneOlderThan` and
so on. An action is one hold of the engine's mutex by one of the tasks around it:
`Feed` (`feed_attestation`), the three stages of ingest (`IngestStore`, `IngestLateMember`,
`IngestSeal`), the creator's second registration of its seal in two steps
(`CreatorResolves`, `CreatorRegisters`), the finality monitor (`Monitor`,
`CollectPhantoms`, `MonitorPrune`), the epoch loop (`PromoteAnchored`), the pull loop
(`Refeed`, `Recheck`) and the memory prune (`SweepFinal`, `MemoryPrune`). What a task
promoted is in `routing` until `Route` writes it to the index. `lapsed` and `mistaken` are
history: the seals of which the engine forgot something, and the ids that were pruned
as phantoms although they were stored.

Stakes are constant, effective stake is stake, the cluster of a witness is a
constant and any entry may be past a prune's cutoff.

### Effects of finality: `FinalityEffects`

A path that finalizes a record inserts it with a marker in the same batch
(`InsertMarked`) or without one (`InsertPlain`); a batch that cannot be written
(`InsertFails`) still counts in memory. A worker is a detached task or the sweep on one
record: `Begin` takes the single-flight claim, `CreditWitnesses` and `Flip` are the credit
and its durable bit, `ReadBudget` reads who is to be paid and what the pool has,
`CheckReward` and then `StoreReward` or `RewardFails` are one reward, and `Finish` removes the
marker when all of it is done. `Panic` drops a worker and its
claim, `Crash` everything that is not durable; `Scan` is the sweep. `hot` is the
bounded set of ids in memory.

Workers read the witnesses of a record from the durable attestations. `ReapAttestation` is
the loop that deletes these after thirty days, and `CreditBlind` and `ReadBlind` are reads that
fail; both give the worker an empty list, which it takes for a record that nobody
attested. The history variables `reaped` and `blind` say when that happened.

### Governance: `Governance`, `Conviction`

`Conviction` is the integer arithmetic of a vote's weight: the series for
e^-t in fixed point with its rounding, the square root, the cap of one voter.
`Governance` folds one governance record per action (propose, vote, delegate,
undelegate, execute, cancel), each followed by the settlement of every proposal
whose time is over, as `apply_governance_op` does it. Stakes change between two
folds of records.

### The account tree: `AccountTree`

`dirty` is `smt_dirty`. A flush has two halves: `SealSnapshot`, `WitnessSnapshot`
and `RepairSnapshot` take accounts out of the ledger under its lock;
`TakeGate`, then `Commit` or `FailWrite`, write them under
`account_smt_write_gate`. `CloneAccounts`, `TakeGate`, and `ReconcileCommit` or
`ReconcileAbort` are the operator's reconciliation of orphan leaves. `Checkpoint` saves the
accounts, without the marks. `Restart` forgets marks and flushes and starts from the saved accounts. What
its replay adds is marked; the replay may leave out records that were committed
below its floor, as `commit_floor` shows, and may apply stored ones that
were not committed, so that the accounts after a boot are the saved ones or later ones. Then the
leaves of the genesis ids are brought up to date. A boot that folds everything into an empty ledger is not
modelled.
The state of an account is a number that grows with its operations; the tree is
its leaves, and the assignment of leaves that the root commits to, which a writer
computes from the nodes it read when it took the gate. There is one flush of each
kind at a time. `older` and `late` of a job are history.

## 3. What TLC checks

Deadlock checking is off in every run: each instance has a finite stock of
records and clock ticks, and a node that has handled them all may stand still.

| run | result | what it asks |
| --- | --- | --- |
| `xzone` | holds | two transfers through every interleaving of all release paths and a boot: both trackers, soundness of the index, conservation, finality of a release, the split of release paths by the seal as long as no boot loses its proof, refinement of `Escrow`; and every lock is released in the end |
| `accounting` | holds | one family of operations at a time, in depth. Stakes: books, slash dust, pool cap. Predictions: repeated and skipped evaluations, bounds on payouts. Dormancy, in the order of a replay: a wake-up restarts threshold and window. Governance: exact counters, settlement in time, a parameter changed once and not before the delays, no stake weighed twice, verdicts that stand. Effects: credit and rewards once, and lost only when the attestations are deleted or cannot be read; claims released |
| `ledger` | holds | all operations over one set of accounts conserve supply; nothing underflows; the books of stakes agree. And the account tree: the root is that of the leaves, a flush leaves no leaf behind that no mark and no other flush stands for, a reconciliation is exact for the accounts it cloned |
| `commit` | holds | at most one effect, only after finality or by the fallback; marks are not ahead of effects; parked deltas are durable; finalized records are committed or refused unless a read fails |
| `commit_restart` | holds | with checkpoints and restarts at any point, of the boot too: types and caps; nothing that was marked is applied twice; what is lost lies at or below the checkpoint's floor, or spends what the replay left out or met later; a finalized record that the last boot rehydrated is committed or refused |
| `finality` | holds | no creator counts for its own record; the members of a settled seal are final in every order of arrival, as long as the engine keeps the seal; a level that falls has left its finality in the index; every final level reaches the index outside two windows of the prunes |
| `predictions_contended`, `ledger_lag`, `commit_overflow`, `commit_twice`, `commit_floor`, `finality_inherit` | violated | a sentence of a comment that the code does not keep; section 6 |

What is proved for every value of the constants and says less than the properties above is
not repeated in the runs: the types of `CrossZone`, `Staking`, `Predictions`, `Dormancy`,
`PendingDrain`, `SealFinality` and `AccountTree`, `StatusCounts`, `BatchesOverdue`,
`EscrowTracked` and `IndexCounts` (section 4).

Two runs combine instances that do not interact: in `accounting` the variable
`family` and in `ledger` the variable `part` select the one a behaviour follows. The
others' variables do not move.

**Bounds.** Two identities are enough for a sender, a recipient and a third party to
coincide or differ in each operation. Two transfers let a batch list one that was
released and one that was not. Three or four records give the longest chains of
interest (stake, slash, unstake; declare, wake, declare, reclaim). Amounts are
chosen so that a tenth, a half, three tenths and a fifth round differently, and
supplies so that the pool's cap is hit and not hit. Two records in the drain
give reordering, a quota of one gives the fallback, a queue of three or one
gives room or overflow. `MaxUpsets` bounds failing reads and prunes together: in `commit`
one or the other meets each place of the drain. In `commit_restart` two records see one
restart, without sweeps or prunes (`MCNext`); the second alone sees two restarts, with both. The
first spends what the second pays, against the order of timestamps, and the pending ledger has room
for one delta, so that the replay fails on a record and the boot on a row.
In `finality` a seal lists one record; its creator has half of the stake, so
that it settles only while the engine knows the creator; a behaviour meets one of a second
registration, a conflict, a prune and a phantom, each against everything else. In the
effects two workers meet on one record, with two lapses and a hot set of one. In
governance two voters and two proposals, one with a committee, and Q = 10 for the fixed
point. In the tree two accounts, two writers under way, two flushes in all, and one failed write or
restart. Only finitely many boots (`MaxRestarts`) matter to `EveryLockReleased`: a node that boots again and
again before it emits a batch releases nothing. The named bounds
(`MaxTime`, `MaxPasses`, `MaxPrunes`, `MaxReadErrors`, `MaxUpsets`, `MaxRestarts`, `MaxDecay`, `MaxJury`,
`MaxPruneTicks`, `MaxLapses`, `MaxBudget`, `MaxStake`, `MaxState`, `MaxFaults`, `MaxFlushes`, `MaxTaken`)
only limit how often the environment acts. `MaxUnresolved`, `Capacity`, `MaxScan` and
`MaxDelete` are limits of the code, made small enough to be hit.

**Fairness.** `XZFairSpec`: the clock advances, and the epoch loop of the
authority emits the batches that are due and they are applied; claims and cancels
are not fair, since users may never send them. `PRFairSpec`: each seal is
processed and a started evaluation ends. `PendingLiveSpec` and `RestartSpec`:
the drain loop ticks and a started batch goes on, and a boot that is not cut short
runs to its end; ingest, finality, sweep and restart are not fair. `SealFinalityFairness`: the monitor ticks and a task that promoted
records goes on to the index. Both are strong: the monitor's own prune holds the index for
reading again and again, and the lock of the index is a fair one, so that a task which
waits for it gets its turn; attestations, ingest and the memory prune are not fair. These are
loops that `elara_node.rs` spawns for the life of the process.

## 4. What is proved

Constants are arbitrary finite sets and naturals (`ASSUME` in the modules).

* **CrossZone** (`CrossZoneProofs`): `XZInv` joins types, both books,
  conservation, counters, index soundness, `BatchesOverdue` and the fact that
  an entry comes from an applied record. The books alone are not inductive: the
  saturating subtraction of a release is exact only because the amount is part of
  the sum. One lemma per handler; batches use the law of `Total` for a set of
  entries, and `BatchesOverdue` is what carries the horizon from the state where a
  batch was frozen to the one where it is applied. The action properties follow from a lemma on how one entry may
  change. `SealSplitsReleases` rests on a second invariant: a lock has its proof exactly while it is in `proved`.
* **Refinement** (`CrossZoneProofs`, last section): each step of `CrossZone` is a step of
  `Escrow` or leaves it alone.
* **Staking** (`StakingProofs`): types, agreement of the books, conservation
  and the cap. The inductive invariant `STInv` adds that a record that was not
  applied has no entry.
* **Predictions, Dormancy, Ledger** (`LedgerProofs`): types, conservation, bounds on
  payouts, restart of the dormancy clock for records in the order of a replay (`ClockInv` relates the
  declarations to the clock), and for the composition `LedgerConservation`, `StakeBooks`,
  `EscrowTracked` and `LedgerTypeOK`, from one lemma per operation that says
  between which pots it moves beat.
* **Commit on finality** (`PendingProofs`): `PDInv` says that the ids held by the
  ledger are exactly the records with an effect, that marks are among them, and
  that every event in flight (queue, batch, boot ids) is of a settled record. From
  it: at most one effect while the process runs, marks not ahead of effects,
  commits gated, and the caps. `RowsOK` adds what `ParkedIsDurable` needs: a delta that the
  sweep has taken is not parked again, and a row is erased only after the mark. All of it
  holds for every interleaving and any number of prunes and read errors.
* **Restart** (`PendingProofs`, second half): `RestartTypeOK`, `CommittedOnce` and
  `LostBelowFloor`, for any number of restarts at any point. `PDInv` does not survive a
  restart, which clears the ids. `RestartInv` takes its place: an effect is dated at or
  below the newest timestamp of the ledger that holds it, so that a replay above the floor meets none of
  them again (`LedgerOK`, `ReplayOK`); an effect is in the ids, or marked, or of
  a record that some restart found unmarked (`EffectOK`); a task that saw no mark holds a
  record that has none yet, or that the ids protect (`HeldOK`); and a record
  that the replay passed over needs one that has no effect or comes later in its order
  (`ReplayOK`, `LossOK`). The last is part of `LostBelowFloor` because the floor alone does not explain
  every loss: a record that spends what a later one pays may commit, when finality came in the other
  order, and then fail in the replay, which goes by timestamps. The instance of
  `commit_restart` has such a pair.
* **Confirmation** (`FinalityProofs`): types, and that no creator counts for its own
  record. One lemma per method of the engine says that it maps an engine that is `Sound`
  to one that is; the actions then only combine them. `DowngradeKeepsFinality` and
  `MembersFinalWhileKept` rest on `SettledInv`. `Grounded`: a final level that the index
  does not hold and no task carries there comes from attestations on a record whose creator is known,
  so that nothing the engine learns later takes it back; without it the
  late news of a creator, which discards an attestation, could lower a level unnoticed.
  `KeptSeal`: of a seal that has not lapsed the engine knows the creator and the
  list, each listed record is a member or parked for that very seal and still awaited, and the members are final
  once the seal is settled. A record can be parked for one seal only. When two seals
  list a record that is not stored yet, the later takes the place of the earlier, which is why `lapsed`
  counts that among what the engine forgets.
* **Governance** (`GovernanceProofs`): `GovernanceTypeOK`, `CountersExact`, `SettledInTime`,
  `ParamChangedOnce`, `VerdictStands` and `WeighedOnce`, for any voters, proposals, committees
  and periods. Every record ends in `AutoSettle`; one lemma says what it does
  to any book of proposals with exact counters, and one per arm which book the arm hands
  to it. `GovInv` adds that a proposal which passed did so at or after its deadline: the
  gates of execution count from that time. Counters are exact because a settlement
  moves each proposal once, a fact about the cardinality of the proposals in each status. `WeighedOnce` groups the stakes
  by the voter they weigh with (`TotalGroups` of `UnitsTheorems`). The weights
  themselves are only used as naturals; `Conviction` is checked by TLC.
* **Effects** (`BackgroundProofs`, first half): credit and rewards once, nothing lost but by deleted or
  unreadable attestations, claims released, an index that counts all it holds, for any number of
  workers, panics, crashes, failed writes and reads. `EffectsInv` says that no two workers are on the same
  record and what a worker at each step knows of its record's marker; without it a second worker could credit
  between the credit and the bit of the first, or store a reward that another has just looked for.
* **Account tree** (`BackgroundProofs`, second half): `TreeInv` has two parts. `Serialized`: the
  one writer at work holds the gate and builds on the persisted root; hence
  `RootMatchesLeaves`, and `ReconcileExact` because the compared root is the one that is committed.
  `Entries`: an entry under way that is not its account's any more is outdated by a mark,
  by a younger flush under way, or is late because a younger one has ended; hence `FlushLeavesNoLag`.
  `TypeInv` adds that jobs carry hashes of ids, and gives `AccountTreeTypeOK`: writers and the gate go together.

Every safety property of a passing run is also a theorem. Only model-checked: liveness
(`EveryLockReleased`, `FinalizedCommits`, `RearmedCommits`, `FinalIsIndexed`),
because the prover does not handle fairness, and the arithmetic of `Conviction`, a
recursive series of which nothing can be proved without induction over data.

## 5. Not modelled

The modules cover the parts of the node where state is shared between tasks and
survives restarts. They are a small part of the repository by lines: it
has 376,000 lines with its tools, tests, bindings and reports, and the map names less than three
hundredths of them. What is left out:

* around the ledger: balances locked by parked deltas at validation, the
  idle-decay formula, vesting, limits, delegation and custody registers;
* of confirmation: the evictions at the memory caps, cross-zone parents, witness
  profiles and the discount for correlated witnesses, committees, liveness decay,
  changing stakes, `forget_record`, the bulk load at boot, orphan promotion and global seals;
* of cross-zone transfers: a boot that loses a release, or brings a pruned entry back (section 2);
* of dormancy: records that commit out of timestamp order. A late record lowers `last_active`
  (`accounting/ledger.rs:1374`), and the code promises nothing of the clock then; `Dormancy` applies records in the order of a replay;
* of the effects: a node that is not the genesis authority and the other early returns of `distribute_rewards`
  (`network/reward.rs:310`: a zero base reward, the genesis phase, a record that is itself a reward),
  a clock before the epoch, a probe of the index or of a marker that fails, and epoch rewards;
* of governance: challenge, revote and the anchors' veto, which have no caller
  outside tests, and the emergency switch;
* of the account tree: the node algorithm of `elara-smt` and its proofs, the
  flush after a bootstrap, the check of the sealed root at boot, the root a seal reads when
  nothing is marked, and two witness flushes at a time;
* whole parts: leader election and conflicts of seals, comparison of replicas,
  key rotation, zone transitions, gossip, discovery, transport, routes, realms and mandates,
  content policies, tools and cryptography. Each needs several nodes side by side, is pure
  computation on documents, or is I/O; `PROJECT.json` gives the reason for each.

Arithmetic is on naturals: the type invariants show that no subtraction
underflows, and every sum is bounded by the supply.

## 6. Disagreements between code and text

Six have a run whose one property states the text; `PROJECT.json` quotes it.

* `predictions_contended`: a prediction that both passes over its epoch's seal
  skip because the ledger lock is busy stays open; no later epoch returns to it.
* `commit_overflow`: the event of a finalized delta that a full queue drops is not made
  up for by a reconcile path while the process runs.
* `commit_twice`: the replay at boot folds records that wait for finality, which
  are applied again when it comes.
* `commit_floor`: a record committed out of timestamp order after a checkpoint
  is left out by the next boot, and stays marked (`MarkedIsReplayed`).
* `finality_inherit`: a seal that is registered and not attested yet loses its list
  of records to any round of the memory prune, and later settles without them.
* `ledger_lag`: the handler of the reconciliation says that it can neither "miss a phantom nor over-delete a
  live account" (`network/routes/admin.rs:255`), and `network/account_merkle.rs:969` that with
  the gate held the worst case is "a spurious abort + operator re-run, never a wrong commit".
  The accounts are cloned before the gate is asked for (`network/routes/admin.rs:295`). An account that
  is created after the clone and flushed before the gate is free looks like an orphan; the tree without
  it has the root of the clone, so that the comparison passes and the leaf of a live account is deleted,
  without a mark. Cloning under the gate would close it.

`LagIsMarked`, the property of `ledger_lag`, fails in three more ways, which other values of the constants
of `MCLedger_lag.cfg` show:

* late (`MaxDelete = 0`, `MaxFlushes = 2`): a witness flush waits for the gate while a younger repair of the same account
  takes its snapshot and writes; the older state is written last. `network/ingest.rs:5069` says that a wait is safe because the scope is derived again
  on every call, "so nothing is lost by waiting"; but the snapshot is taken before the wait;
* failed (`MaxDelete = 0`, `MaxFaults = 1`): a failed flush is harmless because "a later flush retries the
  dirty set" (`network/ingest.rs:5044`); the snapshot has taken its ids out of the set already;
* restarted (the same constants): the marks are not saved, and the replay does not apply again what the
  checkpoint holds; an operation that a checkpoint saved before its flush leaves its leaf behind.

Smaller ones met while translating the code, which the modules reproduce and no
run states:

* a read error in the drain puts a delta back "so the next pass can retry", after
  its event is consumed (`network/pending_drain.rs:174`); `FinalizedCommits`
  therefore excepts a failed read;
* startup suppresses events of restored levels because "the drain loop sweeps"
  the rehydrated deltas (`network/consensus.rs:2442`); it does so only for what is
  in the FinalizedIndex, which is written after the level;
* boot replay takes a quota rejection for corruption (`network/pending_drain.rs:642`);
  a row outlives its delta until the drain erases it, so that a crash can leave
  one row more than the quota, at which the next boot gives up and re-arms nothing;
* `needs_proof_index` is not exact (`accounting/cross_zone.rs:310`): a lock that is
  the only record of its seal leaves it with an empty proof, and a lock proved
  without witnesses cannot get them from a later seal;
* `evaluate_predictions` is always given 0 identities (`network/epoch.rs:7824`);
* a transaction in the wake-up window does not end dormancy
  (`accounting/dormancy.rs:7`), and the register of reclaimed amounts also counts what
  the pool's cap left in the account (`accounting/dormancy.rs:85`);
* a reward over the monthly budget is deferred, "never drop" (`network/reward.rs:418`). The sweep that
  retries it reads the attestations anew, which are deleted after thirty days (`bin/elara_node.rs:4739`); then it
  sees nobody (`network/reward.rs:354`), nothing has failed, and the marker is removed. A read error does the same at once
  (`network/reward.rs:126`), and loses the credit too. `EffectsNotLost` excepts both;
* a failed write of the finalized index is ignored (`network/finalized.rs`): the id counts in memory until the next boot, and
  its effects are spawned without a marker, so that they end at once and no sweep returns to them;
* an upgrade proposal may be executed again, and "re-execution overwrites the previous record" (`accounting/governance.rs:649`,
  `:742`), which the operator "must" do after a malformed one (`:1914`) and can do "later when the clock advances"
  (`accounting/ledger.rs:2750`). `can_execute` wants the status Passed (`accounting/governance.rs:446`), and the first execution
  sets Executed, also when it records no outcome; a second one is refused before it gets to the outcome. The test at `:4912`
  calls `apply_protocol_upgrade_outcome` directly. So an outcome of "passed" never becomes "active", and one that was not recorded stays so.
  `ParamChangedOnce` says nothing of upgrades for this reason;
* the confirmation level "is monotonic" (`network/consensus.rs:4134`, `:4145`), which is true of `promote_seal_members`;
  `recompute_confirmation` writes what the attestations give over any level but that of an anchor (`:2408`), and lowers a final one. `DowngradeKeepsFinality` says what remains;
* only `feed_attestation` looks at the conflict mark of a slot (`network/state.rs:5905`); the monitor,
  the refeed and the rechecks raise levels without it.

## 7. Next

1. The debits that parked deltas lock, with `Ledger` below the drain (order of commits
   against order of replay).
2. Chains of seals per zone on several replicas: leader, conflicting seals, and the
   root that each seal carries against `AccountTree`.
3. Key rotation: the two writers of the rotation column family and the sweep that
   closes their gap.
