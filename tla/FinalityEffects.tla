--------------------------- MODULE FinalityEffects ---------------------------
(***************************************************************************)
(* What happens once when a record becomes final: FinalizedIndex of        *)
(* src/src/network/finalized.rs and the effects of                         *)
(* src/src/network/reward.rs.                                              *)
(*                                                                         *)
(* A path that finalizes records inserts them into the durable index; for  *)
(* each one that was not there the same write batch leaves a pending       *)
(* marker, and a detached task is spawned that credits the witnesses,      *)
(* writes their rewards and removes the marker.  A task may panic and the  *)
(* process may crash at any step.  A sweep, at boot and on every tick of   *)
(* the finality monitor, runs the effects of the markers it scanned.       *)
(* Tasks that meet on a record are kept apart by a single-flight set.      *)
(* Both read the witnesses from the durable attestations, which are kept   *)
(* for thirty days; a read that fails finds none.                          *)
(*                                                                         *)
(* A worker is a detached task or the sweep, on one record.                *)
(***************************************************************************)
EXTENDS Naturals, Sequences, FiniteSets

CONSTANTS
    Rids,               \* ids of records that become final
    Witnesses,          \* identities that attest; GenesisHash may be one of them
    GenesisHash,          \* the node's own identity, which is the genesis authority
    Worthless,          \* witnesses whose effective reward rounds to zero
    Workers,
    Capacity,           \* capacity of the hot set
    MaxLapses,          \* bound on panics, crashes, failed writes and failed reads
    MaxBudget           \* bound on what the pool and the monthly budget can pay

ASSUME EffectsConstants ==
    /\ IsFiniteSet(Rids) /\ IsFiniteSet(Witnesses)
    /\ Capacity \in Nat \ {0} /\ MaxLapses \in Nat /\ MaxBudget \in Nat

VARIABLES
    attestors,          \* durable attestations of each record
    finalized,          \* durable: the keys finalized:
    marker,             \* durable: pending_effects: of each record
    rewards,            \* durable: the reward records stored, <<record, witness>>
    hot,                \* order and hot: the ids in memory, oldest first
    total,              \* total_count
    spawned,            \* detached tasks that have not begun, by record
    scanned,            \* the markers that the running sweep still has to process
    inflight,           \* finalization_effects_inflight
    work,               \* what each worker does
    \* History: credits of a record's witnesses, rewards of each pair published to
    \* peers, lapses so far, those between a credit and its bit, who had attested when
    \* the record was inserted with a marker, whose attestations were deleted, and the
    \* records whose attestations a worker failed to read.
    credits, published, lapses, relapse, settlers, reaped, blind

feVars == <<attestors, finalized, marker, rewards, hot, total, spawned, scanned, inflight,
            work, credits, published, lapses, relapse, settlers, reaped, blind>>

Idle == [pc |-> "idle"]
Elems(s) == {s[k] : k \in 1..Len(s)}
Pairs == Rids \X Witnesses

EffectsInit ==
    /\ attestors = [r \in Rids |-> {}]
    /\ finalized = {} /\ marker = [r \in Rids |-> "none"] /\ rewards = {}
    /\ hot = <<>> /\ total = 0
    /\ spawned = {} /\ scanned = {} /\ inflight = {}
    /\ work = [k \in Workers |-> Idle]
    /\ credits = [r \in Rids |-> 0] /\ published = [x \in Pairs |-> 0]
    /\ lapses = 0 /\ relapse = [r \in Rids |-> 0]
    /\ settlers = [r \in Rids |-> {}] /\ reaped = [r \in Rids |-> {}] /\ blind = {}
-----------------------------------------------------------------------------
(* The index *)

\* An attestation is stored before it is counted.
StoreAttestation(r, w) ==
    /\ w \notin attestors[r]
    /\ attestors' = [attestors EXCEPT ![r] = @ \cup {w}]
    /\ UNCHANGED <<finalized, marker, rewards, hot, total, spawned, scanned, inflight, work,
                   credits, published, lapses, relapse, settlers, reaped, blind>>

\* prune_before of the attestation_prune_loop: the attestation has become too old.
ReapAttestation(r, w) ==
    /\ w \in attestors[r]
    /\ attestors' = [attestors EXCEPT ![r] = @ \ {w}]
    /\ reaped' = [reaped EXCEPT ![r] = @ \cup {w}]
    /\ UNCHANGED <<finalized, marker, rewards, hot, total, spawned, scanned, inflight, work,
                   credits, published, lapses, relapse, settlers, blind>>

\* insert_hot: the oldest entry makes room.
HotWith(h, r) ==
    IF r \in Elems(h) THEN h
    ELSE Append(IF Len(h) >= Capacity THEN Tail(h) ELSE h, r)

\* The probe of the cold tier that precedes every write.
IsNew(r) == r \notin finalized

\* What insert_hot returns: the id was in neither tier.
IsFirst(r) == IsNew(r) /\ r \notin Elems(hot)

\* insert_marked and insert_batch_returning_new: the id and its marker are written in
\* one batch, and the caller spawns the effects of an id that is in neither tier.  A
\* record that its seal made final may have no attestation of its own.
InsertMarked(r) ==
    /\ finalized' = finalized \cup {r}
    /\ hot' = HotWith(hot, r)
    /\ IF IsNew(r)
       THEN /\ marker' = [marker EXCEPT ![r] = "fresh"]
            /\ settlers' = [settlers EXCEPT ![r] = attestors[r]]
       ELSE UNCHANGED <<marker, settlers>>
    /\ IF IsFirst(r) THEN total' = total + 1 /\ spawned' = spawned \cup {r}
       ELSE UNCHANGED <<total, spawned>>
    /\ UNCHANGED <<attestors, rewards, scanned, inflight, work, credits, published, lapses,
                   relapse, reaped, blind>>

\* insert, of the rotation paths: no marker and no effects.
InsertPlain(r) ==
    /\ finalized' = finalized \cup {r}
    /\ hot' = HotWith(hot, r)
    /\ total' = IF IsFirst(r) THEN total + 1 ELSE total
    /\ UNCHANGED <<attestors, marker, rewards, spawned, scanned, inflight, work, credits,
                   published, lapses, relapse, settlers, reaped, blind>>

\* Either insert when its write fails, which the code ignores: the id is in memory and
\* counted, and the caller spawns effects that will find no marker.
InsertFails(r, marked) ==
    /\ lapses < MaxLapses /\ IsNew(r)
    /\ lapses' = lapses + 1
    /\ hot' = HotWith(hot, r)
    /\ total' = IF IsFirst(r) THEN total + 1 ELSE total
    /\ spawned' = IF marked /\ IsFirst(r) THEN spawned \cup {r} ELSE spawned
    /\ UNCHANGED <<attestors, finalized, marker, rewards, scanned, inflight, work, credits,
                   published, relapse, settlers, reaped, blind>>
-----------------------------------------------------------------------------
(* The effects of one record *)

\* reconcile_pending_effects scans the markers, and works through what it found.
Scan ==
    /\ scanned = {}
    /\ \E r \in Rids : marker[r] # "none"
    /\ scanned' = {r \in Rids : marker[r] # "none"}
    /\ UNCHANGED <<attestors, finalized, marker, rewards, hot, total, spawned, inflight, work,
                   credits, published, lapses, relapse, settlers, reaped, blind>>

MutantClaimable(r) == TRUE

\* claim_inflight succeeds.
Claimable(r) == r \notin inflight

\* A detached task or the sweep comes to a record.  Without the claim, or without a
\* marker, it leaves it.
Begin(k, r) ==
    /\ work[k] = Idle
    /\ \/ r \in spawned /\ spawned' = spawned \ {r} /\ UNCHANGED scanned
       \/ r \in scanned /\ scanned' = scanned \ {r} /\ UNCHANGED spawned
    /\ IF Claimable(r) /\ marker[r] # "none"
       THEN /\ inflight' = inflight \cup {r}
            /\ work' = [work EXCEPT ![k] =
                 [pc |-> IF marker[r] = "credited" THEN "pay" ELSE "credit", rid |-> r,
                  credited |-> marker[r] = "credited", left |-> {}, wit |-> GenesisHash,
                  budget |-> 0, failed |-> FALSE]]
       ELSE UNCHANGED <<inflight, work>>
    /\ UNCHANGED <<attestors, finalized, marker, rewards, hot, total, credits, published,
                   lapses, relapse, settlers, reaped, blind>>

\* The reputation credit of the attestors a worker sees.  Without any there is nobody to
\* credit, and the credit counts as done.
CreditSeen(k, seen) ==
    /\ work[k].pc = "credit"
    /\ IF seen = {}
       THEN work' = [work EXCEPT ![k].pc = "pay", ![k].credited = TRUE] /\ UNCHANGED credits
       ELSE /\ work' = [work EXCEPT ![k].pc = "flip"]
            /\ credits' = [credits EXCEPT ![work[k].rid] = @ + 1]
    /\ UNCHANGED <<attestors, finalized, marker, rewards, hot, total, spawned, scanned, inflight,
                   published, relapse, settlers, reaped>>

CreditWitnesses(k) == CreditSeen(k, attestors[work[k].rid]) /\ UNCHANGED <<lapses, blind>>

\* durable_attestors returns nobody when it cannot read.
Blinded(k) ==
    /\ lapses < MaxLapses
    /\ lapses' = lapses + 1
    /\ blind' = blind \cup {work[k].rid}

CreditBlind(k) == CreditSeen(k, {}) /\ Blinded(k)

\* The credited bit is made durable after the credit.
Flip(k) ==
    /\ work[k].pc = "flip"
    /\ marker' = [marker EXCEPT ![work[k].rid] = "credited"]
    /\ work' = [work EXCEPT ![k].pc = "pay", ![k].credited = TRUE]
    /\ UNCHANGED <<attestors, finalized, rewards, hot, total, spawned, scanned, inflight,
                   credits, published, lapses, relapse, settlers, reaped, blind>>

\* The write of the bit fails; the marker will outlive this run.
FlipFails(k) ==
    /\ work[k].pc = "flip" /\ lapses < MaxLapses
    /\ lapses' = lapses + 1
    /\ relapse' = [relapse EXCEPT ![work[k].rid] = @ + 1]
    /\ work' = [work EXCEPT ![k].pc = "pay"]
    /\ UNCHANGED <<attestors, finalized, marker, rewards, hot, total, spawned, scanned, inflight,
                   credits, published, settlers, reaped, blind>>

\* distribute_rewards reads the durable attestors again, and what the pool can pay.  It
\* returns at once when it sees nobody but the authority: no reward has failed.
PaySeen(k, seen, budget) ==
    /\ work[k].pc = "pay"
    /\ work' = [work EXCEPT ![k].pc = "reward", ![k].budget = budget,
                            ![k].left = seen \ {GenesisHash}]
    /\ UNCHANGED <<attestors, finalized, marker, rewards, hot, total, spawned, scanned, inflight,
                   credits, published, relapse, settlers, reaped>>

ReadBudget(k, budget) ==
    PaySeen(k, attestors[work[k].rid], budget) /\ UNCHANGED <<lapses, blind>>

ReadBlind(k) == PaySeen(k, {}, 0) /\ Blinded(k)

\* record_exists of the deterministic id.
Paid(r, w) == <<r, w>> \in rewards

\* One witness of the loop: already paid, not worth a reward, deferred because the pool
\* or the month cannot pay it, or to be paid.
CheckReward(k, w) ==
    /\ work[k].pc = "reward" /\ w \in work[k].left
    /\ work' = IF Paid(work[k].rid, w) \/ w \in Worthless
               THEN [work EXCEPT ![k].left = @ \ {w}]
               ELSE IF work[k].budget = 0
               THEN [work EXCEPT ![k].left = @ \ {w}, ![k].failed = TRUE]
               ELSE [work EXCEPT ![k].pc = "store", ![k].wit = w]
    /\ UNCHANGED <<attestors, finalized, marker, rewards, hot, total, spawned, scanned, inflight,
                   credits, published, lapses, relapse, settlers, reaped, blind>>

\* The reward is stored and published.  insert_record accepts an id that is stored
\* already without storing it again, and the caller publishes its own copy.
StoreReward(k) ==
    LET x == <<work[k].rid, work[k].wit>> IN
    /\ work[k].pc = "store"
    /\ work' = [work EXCEPT ![k].pc = "reward", ![k].left = @ \ {work[k].wit},
                            ![k].wit = GenesisHash, ![k].budget = @ - 1]
    /\ rewards' = rewards \cup {x}
    /\ published' = [published EXCEPT ![x] = @ + 1]
    /\ UNCHANGED <<attestors, finalized, marker, hot, total, spawned, scanned, inflight,
                   credits, lapses, relapse, settlers, reaped, blind>>

\* The reward record cannot be made or stored.
RewardFails(k) ==
    /\ work[k].pc = "store" /\ lapses < MaxLapses
    /\ lapses' = lapses + 1
    /\ work' = [work EXCEPT ![k].pc = "reward", ![k].left = @ \ {work[k].wit},
                            ![k].wit = GenesisHash, ![k].failed = TRUE]
    /\ UNCHANGED <<attestors, finalized, marker, rewards, hot, total, spawned, scanned, inflight,
                   credits, published, relapse, settlers, reaped, blind>>

\* A completion that ignores the rewards that failed.
MutantComplete(x) == x.credited

\* Reputation credited and no reward failed.
Complete(x) == x.credited /\ ~x.failed

\* The end of process_finalization_effect, and the drop of its guard.
Finish(k) ==
    LET r == work[k].rid IN
    /\ work[k].pc = "reward" /\ work[k].left = {}
    /\ marker' = IF Complete(work[k]) THEN [marker EXCEPT ![r] = "none"] ELSE marker
    /\ inflight' = inflight \ {r}
    /\ work' = [work EXCEPT ![k] = Idle]
    /\ UNCHANGED <<attestors, finalized, rewards, hot, total, spawned, scanned, credits,
                   published, lapses, relapse, settlers, reaped, blind>>
-----------------------------------------------------------------------------
(* Faults *)

\* Rids whose credit has no durable bit when the workers K die.
Uncredited(K) == {r \in Rids : \E k \in K : work[k].pc = "flip" /\ work[k].rid = r}

\* A guard that a panic does not drop.
MutantReleased(r) == inflight

\* Drop of InflightGuard during the unwind.
Released(r) == inflight \ {r}

\* A panic kills the task silently.
Panic(k) ==
    /\ work[k] # Idle /\ lapses < MaxLapses
    /\ lapses' = lapses + 1
    /\ relapse' = [r \in Rids |-> relapse[r] + IF r \in Uncredited({k}) THEN 1 ELSE 0]
    /\ inflight' = Released(work[k].rid)
    /\ work' = [work EXCEPT ![k] = Idle]
    /\ UNCHANGED <<attestors, finalized, marker, rewards, hot, total, spawned, scanned, credits,
                   published, settlers, reaped, blind>>

\* The hot set that load_hot_from_rocks fills after a restart.
Reloads == {h \in UNION {[1..n -> finalized] : n \in 0..Capacity} :
                /\ \A a, b \in DOMAIN h : a # b => h[a] # h[b]
                /\ Len(h) = Capacity \/ Elems(h) = finalized}

\* The process dies and restarts on its durable state.
Crash ==
    /\ lapses < MaxLapses
    /\ lapses' = lapses + 1
    /\ relapse' = [r \in Rids |-> relapse[r] + IF r \in Uncredited(Workers) THEN 1 ELSE 0]
    /\ work' = [k \in Workers |-> Idle]
    /\ inflight' = {} /\ spawned' = {} /\ scanned' = {}
    /\ total' = Cardinality(finalized)
    /\ hot' \in Reloads
    /\ UNCHANGED <<attestors, finalized, marker, rewards, credits, published, settlers, reaped,
                   blind>>

EffectsStep(k) ==
    \/ \E r \in Rids : Begin(k, r)
    \/ CreditWitnesses(k) \/ Flip(k)
    \/ \E b \in 0..MaxBudget : ReadBudget(k, b)
    \/ \E w \in Witnesses : CheckReward(k, w)
    \/ StoreReward(k) \/ Finish(k)

EffectsLapse(k) ==
    \/ CreditBlind(k) \/ FlipFails(k) \/ ReadBlind(k) \/ RewardFails(k) \/ Panic(k)

EffectsNext ==
    \/ \E r \in Rids, w \in Witnesses : StoreAttestation(r, w) \/ ReapAttestation(r, w)
    \/ \E r \in Rids : InsertMarked(r) \/ InsertPlain(r)
    \/ \E r \in Rids, marked \in BOOLEAN : InsertFails(r, marked)
    \/ Scan
    \/ \E k \in Workers : EffectsStep(k) \/ EffectsLapse(k)
    \/ Crash

EffectsSpec == EffectsInit /\ [][EffectsNext]_feVars
-----------------------------------------------------------------------------
(* Properties *)

\* The witnesses of a record are credited once, and once more only for each time that
\* the credit was applied and its bit was not made durable: the window the comment of
\* process_finalization_effect accepts is the only one, whatever tasks, sweeps, panics
\* and restarts do.
CreditedOnce == \A r \in Rids : credits[r] <= 1 + relapse[r]

\* No reward is published to peers twice for the same record and witness, though a worker
\* looks for the reward in one step and stores it in another: the single-flight claim is
\* what keeps a second worker out between the two.
PublishedOnce == \A x \in Pairs : published[x] <= 1

\* A record whose marker is gone has had its effects: its witnesses were credited, and
\* each of those who had attested when it became final and are worth a reward has one.
\* The exceptions are the ones that durable_attestors makes: a witness whose attestation
\* was deleted, as a reward deferred for thirty days meets, and a record whose
\* attestations could not be read, which is finished as one that has none.
EffectsNotLost ==
    \A r \in Rids \ blind :
        settlers[r] # {} /\ marker[r] = "none" =>
            /\ credits[r] >= 1 \/ settlers[r] \subseteq reaped[r]
            /\ \A w \in settlers[r] \ (Worthless \cup {GenesisHash}) :
                  <<r, w>> \in rewards \/ w \in reaped[r]

\* The index never counts fewer ids than are durable, and the hot set never outgrows its
\* capacity, through evictions, re-insertions of evicted ids, failed writes and restarts.
\* (A failed write leaves an id counted that is not durable, until the next boot.)
IndexCounts ==
    /\ total >= Cardinality(finalized)
    /\ Len(hot) <= Capacity

\* A claim is held by a worker that is at work on the record: whatever panics, no marker
\* is shut off from the sweep for good.
ClaimsHeld == \A r \in inflight : \E k \in Workers : work[k] # Idle /\ work[k].rid = r
=============================================================================
