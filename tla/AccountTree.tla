---------------------------- MODULE AccountTree ----------------------------
(***************************************************************************)
(* The account tree: the persistent sparse Merkle tree over the accounts   *)
(* of the ledger whose root every epoch seal carries.  The ledger marks    *)
(* the accounts an operation moves (smt_dirty); three tasks take accounts  *)
(* out of the ledger under its lock and write their hashes to the tree     *)
(* later, under another lock: the seal loop, the ingest of a peer's seal   *)
(* and the repair of a diverged chain.  A fourth, started by an operator,  *)
(* deletes the leaves that belong to no account.                           *)
(*                                                                         *)
(* The state of an account is a number that grows with each operation on   *)
(* it, and its hash is that number.  The tree is its leaves and its root,  *)
(* and the root is the assignment of leaves that it commits to: the two    *)
(* are written together, but the root is computed from the nodes the       *)
(* writer read before.                                                     *)
(***************************************************************************)
EXTENDS Naturals, FiniteSets

CONSTANTS
    Ids,          \* identities that may have an account
    GenesisIds,   \* the genesis authority and validators of the configuration
    MaxState,     \* bound: operations on one account
    MaxFaults,    \* bound: failed writes and restarts
    MaxScan,      \* leaves a reconciliation enumerates
    MaxDelete,    \* leaves a reconciliation deletes
    NoWriter

ASSUME TreeConstants ==
    /\ GenesisIds \subseteq Ids
    /\ MaxState \in Nat \ {0} /\ MaxFaults \in Nat /\ MaxScan \in Nat /\ MaxDelete \in Nat
    /\ NoWriter \notin {"seal", "witness", "repair", "reconcile"}

VARIABLES
    treeAccounts, \* accounts of the ledger
    saved,        \* accounts of the last checkpoint
    dirty,        \* smt_dirty
    leaf,         \* the value leaves of CF_ACCOUNT_SMT
    root,         \* what its root node commits to
    gate,         \* the holder of account_smt_write_gate
    job,          \* the writers
    faults

atVars == <<treeAccounts, saved, dirty, leaf, root, gate, job, faults>>
ledgerPart == <<treeAccounts, saved, dirty>>

Flushers == {"seal", "witness", "repair"}
Writers == Flushers \cup {"reconcile"}

NoAccount == 0
Empty == 0                    \* EMPTY_HASH
ZeroLeaf == MaxState + 1      \* the hash of the default account
AccountStates == 0..MaxState
Leaves == 0..ZeroLeaf

\* Flush entries, the tree a handle builds on, the accounts a reconciliation goes by; and
\* as history the flushes that were under way when this one took its snapshot, and the ids
\* for which a younger one has ended.
IdleJob == [pc |-> "idle", pairs |-> <<>>, buffer |-> <<>>, clone |-> <<>>, older |-> {}, late |-> {}]

-----------------------------------------------------------------------------
(* The tree *)

\* hash_account_state, of the default account where there is none.
HashOf(account) == IF account = NoAccount THEN ZeroLeaf ELSE account

\* update and delete of the entries: the other leaves stay.
Overlay(tree, pairs) == [x \in Ids |-> IF x \in DOMAIN pairs THEN pairs[x] ELSE tree[x]]

\* root_over_accounts: the tree of exactly these accounts.
RootOverAccounts(accs) == [x \in Ids |-> IF accs[x] = NoAccount THEN Empty ELSE HashOf(accs[x])]

\* A leaf is current when it is its account's; the default leaf of an id without an
\* account is tolerated.
IsCurrent(tree, accs, x) ==
    \/ tree[x] = HashOf(accs[x])
    \/ accs[x] = NoAccount /\ tree[x] = Empty

Underway(w) == job[w].pc \in {"waiting", "writing"}
InFlight(x) == \E w \in Flushers : Underway(w) /\ x \in DOMAIN job[w].pairs

-----------------------------------------------------------------------------
(* The ledger *)

\* An operation moves some accounts and marks those and, for some kinds, others: the
\* authority of a mint, the recipient of a lock.  A settled prediction and a genesis
\* stake mark the same way.
ApplyOp(moved, marked) ==
    /\ moved # {} /\ moved \subseteq marked
    /\ \A x \in moved : treeAccounts[x] < MaxState
    /\ treeAccounts' = [x \in Ids |-> IF x \in moved THEN treeAccounts[x] + 1 ELSE treeAccounts[x]]
    /\ dirty' = dirty \cup marked
    /\ UNCHANGED <<saved, leaf, root, gate, job, faults>>

\* The ledger is written to disk, without its marks.
Checkpoint ==
    /\ saved' = treeAccounts
    /\ UNCHANGED <<treeAccounts, dirty, leaf, root, gate, job, faults>>

-----------------------------------------------------------------------------
(* The flushes: a snapshot under the ledger's lock, a write under the gate *)

\* snapshot_dirty: every mark is taken and no leaf is deleted.
SnapshotDirty(marks, accs) == [x \in marks |-> HashOf(accs[x])]

\* snapshot_scoped: the ids of the scope, marked or not; those to delete become empty.
SnapshotScoped(scope, deletes, accs) ==
    [x \in scope |-> IF x \in deletes THEN Empty ELSE HashOf(accs[x])]

Hand(w, pairs) ==
    job' = [job EXCEPT ![w] = [pc |-> "waiting", pairs |-> pairs, buffer |-> <<>>, clone |-> <<>>,
                               older |-> {u \in Flushers : Underway(u)}, late |-> {}]]

\* The seal loop; with nothing marked it only reads the root.
SealSnapshot ==
    /\ job["seal"].pc = "idle" /\ dirty # {}
    /\ Hand("seal", SnapshotDirty(dirty, treeAccounts))
    /\ dirty' = {}
    /\ UNCHANGED <<treeAccounts, saved, leaf, root, gate, faults>>

\* Mutant: it takes every mark with it.
MutantWitnessSnapshot(scope) ==
    /\ job["witness"].pc = "idle" /\ scope # {}
    /\ Hand("witness", SnapshotScoped(scope, {}, treeAccounts))
    /\ dirty' = {}
    /\ UNCHANGED <<treeAccounts, saved, leaf, root, gate, faults>>

\* A peer's seal: the ids its known records touch, in this ledger yet or not.
WitnessSnapshot(scope) ==
    /\ job["witness"].pc = "idle" /\ scope # {}
    /\ Hand("witness", SnapshotScoped(scope, {}, treeAccounts))
    /\ dirty' = dirty \ scope
    /\ UNCHANGED <<treeAccounts, saved, leaf, root, gate, faults>>

\* The repair: the delta's accounts replace those of the ledger, and without a baseline
\* every other account goes.
RepairSnapshot(changed, removed, baseline) ==
    LET deletes == removed \cup IF baseline THEN {}
                                ELSE {x \in Ids \ DOMAIN changed : treeAccounts[x] # NoAccount}
        scope   == DOMAIN changed \cup deletes
        accs    == [x \in Ids |-> IF x \in deletes THEN NoAccount
                                  ELSE IF x \in DOMAIN changed THEN changed[x] ELSE treeAccounts[x]]
    IN  /\ job["repair"].pc = "idle" /\ scope # {}
        /\ DOMAIN changed \cap removed = {} /\ (~baseline => removed = {})
        /\ treeAccounts' = accs
        /\ Hand("repair", SnapshotScoped(scope, deletes, accs))
        /\ dirty' = dirty \ scope
        /\ UNCHANGED <<saved, leaf, root, gate, faults>>

\* Mutant: nobody waits for the gate.
MutantTakeGate(w) ==
    /\ job[w].pc = "waiting"
    /\ gate' = w
    /\ job' = [job EXCEPT ![w].pc = "writing", ![w].buffer = root]
    /\ UNCHANGED <<ledgerPart, leaf, root, faults>>

\* The flush has the gate; its handle reads the nodes it will rewrite.
TakeGate(w) ==
    /\ job[w].pc = "waiting" /\ gate = NoWriter
    /\ gate' = w
    /\ job' = [job EXCEPT ![w].pc = "writing", ![w].buffer = root]
    /\ UNCHANGED <<ledgerPart, leaf, root, faults>>

\* A flush ends and gives the gate back.  An older one still under way is late for the
\* ids that both took.
EndFlush(w) ==
    /\ job' = [u \in Writers |->
                 IF u = w THEN IdleJob
                 ELSE [job[u] EXCEPT !.older = @ \ {w},
                                     !.late = @ \cup {x \in DOMAIN job[w].pairs \cap DOMAIN job[u].pairs :
                                                        u \in job[w].older}]]
    /\ gate' = NoWriter

\* apply_snapshot commits: one batch writes the leaves and the nodes up to the root.
Commit(w) ==
    /\ w \in Flushers /\ job[w].pc = "writing"
    /\ leaf' = Overlay(leaf, job[w].pairs)
    /\ root' = Overlay(job[w].buffer, job[w].pairs)
    /\ EndFlush(w)
    /\ UNCHANGED <<ledgerPart, faults>>

\* apply_snapshot fails: a warning, and the entries are dropped.
FailWrite(w) ==
    /\ w \in Flushers /\ job[w].pc = "writing" /\ faults < MaxFaults
    /\ EndFlush(w)
    /\ faults' = faults + 1
    /\ UNCHANGED <<ledgerPart, leaf, root>>

-----------------------------------------------------------------------------
(* The reconciliation of orphan leaves *)

\* The accounts are cloned under the ledger's lock, before the gate is asked for.
CloneAccounts ==
    /\ job["reconcile"].pc = "idle"
    /\ job' = [job EXCEPT !["reconcile"] = [pc |-> "waiting", pairs |-> <<>>, buffer |-> <<>>,
                                            clone |-> treeAccounts, older |-> {}, late |-> {}]]
    /\ UNCHANGED <<ledgerPart, leaf, root, gate, faults>>

Orphans(accs) == {x \in Ids : leaf[x] # Empty /\ accs[x] = NoAccount}
Tombstones(accs) == [x \in Orphans(accs) |-> Empty]

\* Mutant: the root after the deletes is not compared.
MutantMayReconcile(j) ==
    /\ Cardinality({x \in Ids : leaf[x] # Empty}) < MaxScan
    /\ Orphans(j.clone) # {}
    /\ Cardinality(Orphans(j.clone)) <= MaxDelete

\* A scan that is cut short, finds nothing or finds too much deletes nothing, and neither
\* does one whose deletes would not leave the tree of the cloned accounts.
MayReconcile(j) ==
    /\ Cardinality({x \in Ids : leaf[x] # Empty}) < MaxScan
    /\ Orphans(j.clone) # {}
    /\ Cardinality(Orphans(j.clone)) <= MaxDelete
    /\ Overlay(j.buffer, Tombstones(j.clone)) = RootOverAccounts(j.clone)

ReconcileCommit ==
    LET j == job["reconcile"]
    IN  /\ j.pc = "writing" /\ MayReconcile(j)
        /\ leaf' = Overlay(leaf, Tombstones(j.clone))
        /\ root' = Overlay(j.buffer, Tombstones(j.clone))
        /\ job' = [job EXCEPT !["reconcile"] = IdleJob]
        /\ gate' = NoWriter
        /\ UNCHANGED <<ledgerPart, faults>>

ReconcileAbort ==
    /\ job["reconcile"].pc = "writing" /\ ~MayReconcile(job["reconcile"])
    /\ job' = [job EXCEPT !["reconcile"] = IdleJob]
    /\ gate' = NoWriter
    /\ UNCHANGED <<ledgerPart, leaf, root, faults>>

-----------------------------------------------------------------------------
(* The restart *)

\* The marks and the flushes under way are gone and the tree stays.  The ledger is that of
\* the checkpoint and of what the replay adds to it, which it marks: the replay may leave
\* out records that were committed below its floor, and apply stored ones that were not
\* committed.  Then the leaves of the genesis ids are brought up to date.
Restart ==
    /\ faults < MaxFaults
    /\ \E accs \in [Ids -> AccountStates], again \in SUBSET Ids :
          LET scope == {x \in GenesisIds : accs[x] # NoAccount}
              pairs == SnapshotScoped(scope, {}, accs)
          IN  /\ \A x \in Ids : IF x \in again THEN accs[x] >= saved[x] ELSE accs[x] = saved[x]
              /\ treeAccounts' = accs
              /\ leaf' = Overlay(leaf, pairs) /\ root' = Overlay(root, pairs)
              /\ dirty' = again \ scope
    /\ job' = [w \in Writers |-> IdleJob] /\ gate' = NoWriter
    /\ faults' = faults + 1
    /\ UNCHANGED saved

-----------------------------------------------------------------------------
AccountTreeInit ==
    /\ treeAccounts \in [Ids -> {NoAccount, 1}] /\ saved = treeAccounts
    /\ leaf = RootOverAccounts(treeAccounts) /\ root = leaf
    /\ dirty = {}
    /\ gate = NoWriter /\ job = [w \in Writers |-> IdleJob]
    /\ faults = 0

LedgerStep == (\E marked \in SUBSET Ids : \E moved \in SUBSET marked : ApplyOp(moved, marked)) \/ Checkpoint

FlushStep ==
    \/ SealSnapshot
    \/ \E scope \in SUBSET Ids : WitnessSnapshot(scope)
    \/ \E S, removed \in SUBSET Ids : \E changed \in [S -> 1..MaxState] :
          RepairSnapshot(changed, removed, TRUE) \/ RepairSnapshot(changed, removed, FALSE)
    \/ \E w \in Writers : TakeGate(w)
    \/ \E w \in Flushers : Commit(w) \/ FailWrite(w)

ReconcileStep == CloneAccounts \/ ReconcileCommit \/ ReconcileAbort

AccountTreeNext == LedgerStep \/ FlushStep \/ ReconcileStep \/ Restart
AccountTreeSpec == AccountTreeInit /\ [][AccountTreeNext]_atVars

-----------------------------------------------------------------------------
(* Properties *)

\* The types of the variables; a writer of the tree holds the gate.
AccountTreeTypeOK ==
    /\ treeAccounts \in [Ids -> AccountStates] /\ saved \in [Ids -> AccountStates]
    /\ dirty \subseteq Ids
    /\ leaf \in [Ids -> Leaves] /\ root \in [Ids -> Leaves]
    /\ gate \in Writers \cup {NoWriter}
    /\ DOMAIN job = Writers
    /\ \A w \in Writers : job[w].pc = "writing" <=> gate = w
    /\ faults \in 0..MaxFaults

\* The persisted root commits to exactly the persisted leaves: no writer builds on nodes
\* that another one rewrites before it commits.
RootMatchesLeaves == root = leaf

\* What a flush commits is current, unless the account has moved on and another flush or a
\* mark carries the newer state, or a flush that took the account later has ended already:
\* no snapshot takes a mark without the account's state, whichever way the snapshots of the
\* seal loop, a peer's seal and a repair overlap.
FlushLeavesNoLag ==
    [][\A w \in Flushers : Commit(w) =>
         \A x \in DOMAIN job[w].pairs \ job[w].late :
             \/ IsCurrent(leaf', treeAccounts, x)
             \/ x \in dirty
             \/ \E u \in Flushers \ {w} : Underway(u) /\ x \in DOMAIN job[u].pairs]_atVars

\* What the comments on the writers add up to: a flush loses nothing by waiting for the
\* gate, one that fails is made up for from the marks, and the reconciliation deletes the
\* leaf of no live account.  So a leaf that is not its account's is marked, or under way.
LagIsMarked ==
    \A x \in Ids : IsCurrent(leaf, treeAccounts, x) \/ x \in dirty \/ InFlight(x)

\* Where the accounts did not change since a reconciliation cloned them, its commit leaves
\* the leaf of each account and none for an id without one.
ReconcileExact ==
    [][ReconcileCommit =>
         \A x \in Ids : treeAccounts[x] = job["reconcile"].clone[x] =>
             leaf'[x] = treeAccounts[x] /\ root'[x] = treeAccounts[x]]_atVars
=============================================================================
