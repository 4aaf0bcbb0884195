--------------------------- MODULE PendingProofs ----------------------------
(***************************************************************************)
(* Proofs about PendingDrain and PendingRestart, for every set of records, *)
(* every dependence between them, every cap and any number of restarts.    *)
(*                                                                         *)
(* Within one life of the process: the types with the caps of the two      *)
(* bounded stores, the three halves of exactly-once commit, and that a     *)
(* crash finds on disk every delta that is still to be committed.  What    *)
(* carries the commit is that the ids of the ledger (applied_record_ids)   *)
(* are exactly the records with an effect, that every mark and every mark  *)
(* still to be written is of such a record, and that whatever waits for    *)
(* the drain is settled (PDInv).                                           *)
(*                                                                         *)
(* Across restarts the ids are gone and that argument with them.  Instead, *)
(* an effect is dated at or below the floor of the ledger that holds it,   *)
(* so that the replay above the floor cannot repeat it; an effect of an    *)
(* earlier life is marked, or of a record that a restart found unmarked;   *)
(* and the replay passes over a record only for want of one that comes     *)
(* later or not at all (RestartInv).                                       *)
(***************************************************************************)
EXTENDS PendingRestart, FiniteSetTheorems, TLAPS

\* The order of the naturals, for steps that need no other arithmetic.
LEMMA NatOrder ==
    /\ ~(0 > 0) /\ 0 <= 0 /\ 0 <= 1
    /\ \A n \in Nat : n <= n
    /\ \A a, b, c \in Nat : a <= b /\ b <= c => a <= c
OBVIOUS

Ledgers == [effects : [Records -> Nat], ids : SUBSET Records, lastTs : Nat]

\* The ids are the records with an effect, and no effect is repeated.
SoundLedger(led) ==
    \A q \in Records : led.effects[q] <= 1 /\ (led.effects[q] > 0 <=> q \in led.ids)

WithinCaps(p) ==
    /\ p \subseteq Records
    /\ IsFiniteSet(p)
    /\ Cardinality(p) <= MaxTotal
    /\ \A q \in p : Cardinality(BucketOf(p, q)) <= MaxPerIdentity

\* Types of the durable state, of ingest and of consensus.
StoresOK ==
    /\ stored \subseteq Records /\ rows \subseteq Records /\ finalized \subseteq Records
    /\ ingest \in [Records -> IngestSteps]
    /\ level \in [Records -> Levels]
    /\ sweeping \subseteq Records /\ swept \subseteq Records
    /\ direct \subseteq Records /\ refused \subseteq Records
    /\ prunes \in 0..MaxPrunes /\ readErrors \in 0..MaxReadErrors

\* What waits for the drain is settled.
EventsOK ==
    /\ settled \subseteq Records
    /\ queue \in Seq(settled) /\ Len(queue) <= MaxQueue
    /\ bootIds \in Seq(settled) /\ batch \in Seq(settled)
    /\ step \in DrainSteps
    /\ batch = <<>> => step = "guard"

\* What is in the ledger, and what is marked or about to be.
CommitOK ==
    /\ ledger \in Ledgers
    /\ SoundLedger(ledger)
    /\ ledger.ids \subseteq settled \cup direct
    /\ applied \subseteq ledger.ids
    /\ \A r \in Records : ingest[r] = "direct" => r \in ledger.ids
    /\ batch # <<>> /\ step = "mark" => Head(batch) \in ledger.ids

Shape == StoresOK /\ WithinCaps(parked) /\ EventsOK
PDInv == Shape /\ CommitOK

\* What keeps the rows of the parked deltas: until a read fails, a delta that was
\* ever parked is of a stored record whose ingest will not park it again, and the
\* sweep holds no delta that is still parked; and the drain erases at its end the
\* rows of marked records only.
RowsOK ==
    /\ \A r \in Records : ingest[r] # "none" => r \in stored
    /\ \/ readErrors > 0
       \/ /\ \A r \in parked \cup sweeping \cup swept : ingest[r] \in {"parked", "done"}
          /\ swept \cap parked = {}
    /\ batch # <<>> /\ step = "erase" => Head(batch) \in applied
    /\ ParkedIsDurable
-----------------------------------------------------------------------------
\* apply_op keeps a ledger sound, adds at most the record it is given, and has
\* added it whenever it returns without an error.
LEMMA ApplyOpSound ==
    ASSUME NEW led \in Ledgers, SoundLedger(led), NEW r \in Records
    PROVE  /\ ApplyOp(led, r) \in Ledgers
           /\ SoundLedger(ApplyOp(led, r))
           /\ led.ids \subseteq ApplyOp(led, r).ids
           /\ ApplyOp(led, r).ids \subseteq led.ids \cup {r}
           /\ Accepts(led, r) => r \in ApplyOp(led, r).ids
           /\ ~Accepts(led, r) => ApplyOp(led, r) = led
<1>1. CASE r \notin led.ids /\ Accepts(led, r)
  <2> DEFINE new == [effects |-> [led.effects EXCEPT ![r] = @ + 1],
                     ids |-> led.ids \cup {r},
                     lastTs |-> IF Timestamp[r] > led.lastTs THEN Timestamp[r] ELSE led.lastTs]
  <2>1. ApplyOp(led, r) = new
    BY <1>1 DEF ApplyOp
  <2>2. new \in Ledgers
    BY PendingConstants DEF Ledgers
  <2>3. SoundLedger(new)
    <3>1. led.effects[r] = 0
      BY <1>1 DEF SoundLedger, Ledgers
    <3>2. \A q \in Records : new.effects[q] = IF q = r THEN 1 ELSE led.effects[q]
      BY <3>1 DEF Ledgers
    <3>3. new.ids = led.ids \cup {r}
      OBVIOUS
    <3> HIDE DEF new
    <3> QED BY <3>2, <3>3 DEF SoundLedger
  <2> QED BY <1>1, <2>1, <2>2, <2>3
<1>2. CASE ~(r \notin led.ids /\ Accepts(led, r))
  <2>1. ApplyOp(led, r) = led
    BY <1>2 DEF ApplyOp
  <2>2. Accepts(led, r) => r \in led.ids
    BY <1>2
  <2> QED BY <2>1, <2>2
<1> QED BY <1>1, <1>2

\* PendingLedger::insert keeps both caps.
LEMMA ParkKeepsCaps ==
    ASSUME NEW p, WithinCaps(p), NEW r \in Records, CanPark(p, r)
    PROVE  WithinCaps(p \cup {r})
<1>1. IsFiniteSet(p \cup {r}) /\ Cardinality(p \cup {r}) = Cardinality(p) + 1
  BY FS_AddElement DEF WithinCaps, CanPark
<1>2. Cardinality(p) \in Nat
  BY FS_CardinalityType DEF WithinCaps
<1>3. Cardinality(p \cup {r}) <= MaxTotal
  BY <1>1, <1>2, PendingConstants DEF CanPark
<1>4. ASSUME NEW q \in p \cup {r}
      PROVE  Cardinality(BucketOf(p \cup {r}, q)) <= MaxPerIdentity
  <2>1. CASE Creator[q] = Creator[r]
    <3>1. BucketOf(p \cup {r}, q) = BucketOf(p, r) \cup {r}
      BY <2>1 DEF BucketOf
    <3>2. IsFiniteSet(BucketOf(p, r)) /\ r \notin BucketOf(p, r)
      BY FS_Subset DEF WithinCaps, CanPark, BucketOf
    <3>3. Cardinality(BucketOf(p, r) \cup {r}) = Cardinality(BucketOf(p, r)) + 1
      BY <3>2, FS_AddElement
    <3>4. Cardinality(BucketOf(p, r)) \in Nat
      BY <3>2, FS_CardinalityType
    <3>5. Cardinality(BucketOf(p, r)) < MaxPerIdentity /\ MaxPerIdentity \in Nat
      BY PendingConstants DEF CanPark
    <3> DEFINE b == Cardinality(BucketOf(p, r))
    <3>6. b + 1 <= MaxPerIdentity
      BY ONLY <3>4, <3>5
    <3>7. Cardinality(BucketOf(p \cup {r}, q)) = b + 1
      BY ONLY <3>1, <3>3
    <3> HIDE DEF b
    <3> QED BY ONLY <3>6, <3>7
  <2>2. CASE Creator[q] # Creator[r]
    <3>1. BucketOf(p \cup {r}, q) = BucketOf(p, q) /\ q \in p
      BY <2>2 DEF BucketOf
    <3> QED BY <3>1 DEF WithinCaps
  <2> QED BY <2>1, <2>2
<1> QED BY <1>1, <1>3, <1>4 DEF WithinCaps

\* PendingLedger::take keeps them too.
LEMMA TakeKeepsCaps ==
    ASSUME NEW p, WithinCaps(p), NEW r
    PROVE  WithinCaps(p \ {r})
<1>1. IsFiniteSet(p \ {r}) /\ Cardinality(p \ {r}) <= Cardinality(p)
  BY FS_Subset DEF WithinCaps
<1>2. Cardinality(p) \in Nat /\ Cardinality(p \ {r}) \in Nat
  BY <1>1, FS_CardinalityType DEF WithinCaps
<1>3. ASSUME NEW q \in p \ {r}
      PROVE  Cardinality(BucketOf(p \ {r}, q)) <= MaxPerIdentity
  <2>1. BucketOf(p \ {r}, q) \subseteq BucketOf(p, q) /\ BucketOf(p, q) \subseteq p
    BY DEF BucketOf
  <2>2. IsFiniteSet(BucketOf(p, q))
    BY <2>1, FS_Subset DEF WithinCaps
  <2>3. Cardinality(BucketOf(p \ {r}, q)) <= Cardinality(BucketOf(p, q))
        /\ IsFiniteSet(BucketOf(p \ {r}, q))
    BY <2>1, <2>2, FS_Subset, Zenon
  <2>4. Cardinality(BucketOf(p \ {r}, q)) \in Nat /\ Cardinality(BucketOf(p, q)) \in Nat
    BY <2>2, <2>3, FS_CardinalityType
  <2>5. Cardinality(BucketOf(p, q)) <= MaxPerIdentity /\ MaxPerIdentity \in Nat
    BY PendingConstants DEF WithinCaps
  <2> QED BY ONLY <2>3, <2>4, <2>5
<1>4. Cardinality(p) <= MaxTotal /\ MaxTotal \in Nat
  BY PendingConstants DEF WithinCaps
<1>5. Cardinality(p \ {r}) <= MaxTotal
  BY ONLY <1>1, <1>2, <1>4
<1>6. p \ {r} \subseteq Records
  BY DEF WithinCaps
<1> QED BY <1>1, <1>3, <1>5, <1>6 DEF WithinCaps

\* A sequence over a set is one over any larger set.
LEMMA SeqGrows ==
    ASSUME NEW S, NEW T, S \subseteq T, NEW s \in Seq(S)
    PROVE  s \in Seq(T)
OBVIOUS
-----------------------------------------------------------------------------
LEMMA PDInitially == PendingInit => PDInv
<1> SUFFICES ASSUME PendingInit PROVE PDInv
  OBVIOUS
<1>1. StoresOK
  BY PendingConstants DEF PendingInit, StoresOK, IngestSteps, Levels
<1>2. WithinCaps(parked)
  <2>1. IsFiniteSet({}) /\ Cardinality({}) = 0
    BY FS_EmptySet
  <2> QED BY <2>1, PendingConstants DEF PendingInit, WithinCaps
<1>3. EventsOK
  BY PendingConstants DEF PendingInit, EventsOK, DrainSteps
<1>4. CommitOK
  BY DEF PendingInit, CommitOK, Ledgers, SoundLedger
<1> QED BY <1>1, <1>2, <1>3, <1>4 DEF PDInv, Shape

\* The steps of ingest (insert_record_inner, apply_ledger_op_phase4).
LEMMA IngestShape ==
    ASSUME Shape, NEW r \in Records, StoreRecord(r) \/ IngestStep(r)
    PROVE  Shape'
<1> USE DEF Shape, StoresOK, EventsOK, consensusVars, drainVars, sweepVars, IngestSteps
<1>1. CASE StoreRecord(r)
  BY <1>1 DEF StoreRecord
<1>2. CASE CheckApplied(r)
  BY <1>2 DEF CheckApplied
<1>3. CASE ParkDelta(r)
  <2>1. WithinCaps(parked')
    BY <1>3, ParkKeepsCaps DEF ParkDelta
  <2>2. StoresOK' /\ EventsOK'
    BY <1>3 DEF ParkDelta
  <2> QED BY <2>1, <2>2 DEF WithinCaps
<1>4. CASE PutRow(r)
  BY <1>4 DEF PutRow
<1>5. CASE RejectDelta(r)
  BY <1>5 DEF RejectDelta
<1>6. CASE DirectApply(r)
  BY <1>6 DEF DirectApply
<1>7. CASE MarkDirect(r)
  BY <1>7 DEF MarkDirect
<1> QED BY <1>1, <1>2, <1>3, <1>4, <1>5, <1>6, <1>7, Zenon DEF IngestStep

LEMMA IngestCommits ==
    ASSUME PDInv, NEW r \in Records, StoreRecord(r) \/ IngestStep(r)
    PROVE  CommitOK'
<1> USE DEF PDInv, Shape
<1>1. CASE DirectApply(r)
  <2> DEFINE new == ApplyOp(ledger, r)
  <2>2. /\ new \in Ledgers /\ SoundLedger(new)
        /\ ledger.ids \subseteq new.ids /\ new.ids \subseteq ledger.ids \cup {r}
        /\ Accepts(ledger, r) => r \in new.ids
        /\ ~Accepts(ledger, r) => new = ledger
    BY ApplyOpSound DEF CommitOK
  <2>3. /\ ledger' = new
        /\ ingest' = [ingest EXCEPT ![r] = IF Accepts(ledger, r) THEN "direct" ELSE "done"]
        /\ direct' = IF Accepts(ledger, r) THEN direct \cup {r} ELSE direct
        /\ UNCHANGED <<applied, settled, batch, step>>
    BY <1>1 DEF DirectApply, consensusVars, drainVars
  <2> HIDE DEF new
  <2> QED BY <2>2, <2>3 DEF CommitOK, StoresOK
<1> USE DEF CommitOK, StoresOK, consensusVars, drainVars
<1>2. CASE StoreRecord(r)
  BY <1>2, Zenon DEF StoreRecord
<1>3. CASE CheckApplied(r)
  BY <1>3 DEF CheckApplied
<1>4. CASE ParkDelta(r)
  BY <1>4, Zenon DEF ParkDelta
<1>5. CASE PutRow(r)
  BY <1>5 DEF PutRow
<1>6. CASE RejectDelta(r)
  BY <1>6 DEF RejectDelta
<1>7. CASE MarkDirect(r)
  BY <1>7 DEF MarkDirect
<1> QED BY <1>1, <1>2, <1>3, <1>4, <1>5, <1>6, <1>7, Zenon DEF IngestStep

\* The steps of consensus and of the finality monitor.
LEMMA ConsensusShape ==
    ASSUME Shape, NEW r \in Records,
           Seal(r) \/ Finalize(r) \/ IndexFinalized(r) \/ MonitorSettles(r)
    PROVE  Shape'
<1> USE DEF Shape
<1>1. CASE Seal(r)
  BY <1>1 DEF Seal, StoresOK, EventsOK, ingestVars, drainVars, sweepVars, Levels
<1>2. CASE Finalize(r)
  <2>1. StoresOK' /\ WithinCaps(parked)'
    BY <1>2 DEF Finalize, StoresOK, ingestVars, drainVars, sweepVars, Levels
  <2>2. queue \in Seq(settled') /\ bootIds \in Seq(settled') /\ batch \in Seq(settled')
    BY <1>2, SeqGrows DEF Finalize, EventsOK
  <2>3. queue' \in Seq(settled') /\ Len(queue') <= MaxQueue
    <3>1. CASE Len(queue) < MaxQueue
      <4>1. r \in settled' /\ queue' = Append(queue, r)
        BY <1>2, <3>1 DEF Finalize, EnqueueFinalized
      <4> QED BY <2>2, <3>1, <4>1, PendingConstants
    <3>2. CASE ~(Len(queue) < MaxQueue)
      BY <1>2, <2>2, <3>2 DEF Finalize, EnqueueFinalized, EventsOK
    <3> QED BY <3>1, <3>2
  <2>4. EventsOK'
    BY <1>2, <2>2, <2>3, Zenon DEF Finalize, EventsOK, drainVars
  <2> QED BY <2>1, <2>4
<1>3. CASE IndexFinalized(r)
  BY <1>3 DEF IndexFinalized, StoresOK, EventsOK, ingestVars, drainVars, sweepVars
<1>4. CASE MonitorSettles(r)
  <2>1. queue \in Seq(settled') /\ bootIds \in Seq(settled') /\ batch \in Seq(settled')
    BY <1>4, SeqGrows DEF MonitorSettles, EventsOK
  <2>2. EventsOK'
    BY <1>4, <2>1 DEF MonitorSettles, EventsOK, drainVars
  <2>3. StoresOK' /\ WithinCaps(parked)'
    BY <1>4 DEF MonitorSettles, StoresOK, ingestVars, drainVars, sweepVars
  <2> QED BY <2>2, <2>3
<1> QED BY <1>1, <1>2, <1>3, <1>4

LEMMA PruneShape == Shape /\ PruneFinalized => Shape'
<1> SUFFICES ASSUME Shape, PruneFinalized PROVE Shape'
  OBVIOUS
<1>1. prunes' \in 0..MaxPrunes
  BY PendingConstants DEF Shape, PruneFinalized, StoresOK
<1>2. level' \in [Records -> Levels]
  BY DEF Shape, PruneFinalized, StoresOK, Levels
<1> QED BY <1>1, <1>2 DEF Shape, PruneFinalized, StoresOK, EventsOK, ingestVars, drainVars, sweepVars

\* drain_newly_finalized: the batch is what was queued and what boot re-armed.
LEMMA TickShape == Shape /\ DrainTick => Shape' /\ step' = "guard"
<1> SUFFICES ASSUME Shape, DrainTick PROVE Shape' /\ step' = "guard"
  OBVIOUS
<1>1. queue \o bootIds \in Seq(settled)
  BY DEF Shape, EventsOK
<1>2. step = "guard" /\ step' = "guard"
  BY DEF Shape, DrainTick, EventsOK
<1>3. EventsOK'
  BY <1>1, <1>2, PendingConstants DEF Shape, DrainTick, EventsOK
<1> QED BY <1>2, <1>3 DEF Shape, DrainTick, StoresOK, ingestVars, sweepVars

\* These touch nothing that CommitOK is about, but for what is settled.
LEMMA EventsCommit ==
    ASSUME PDInv,
           \/ DrainTick \/ PruneFinalized
           \/ \E r \in Records : Seal(r) \/ Finalize(r) \/ IndexFinalized(r) \/ MonitorSettles(r)
    PROVE  CommitOK'
<1>1. ASSUME settled \subseteq settled', UNCHANGED <<ledger, direct, applied, ingest, batch, step>>
      PROVE  CommitOK'
  BY <1>1, Zenon DEF PDInv, CommitOK
<1>2. CASE DrainTick
  BY <1>2, TickShape, Zenon DEF PDInv, DrainTick, CommitOK, ingestVars
<1> QED BY <1>1, <1>2 DEF PruneFinalized, Seal, Finalize, IndexFinalized, MonitorSettles, ingestVars,
                          drainVars

\* The drain leaves the head of its batch for the next record.
LEMMA LeaveKeeps ==
    ASSUME Shape, batch # <<>>, Leave, UNCHANGED <<queue, bootIds, settled>>
    PROVE  EventsOK'
<1>1. Tail(batch) \in Seq(settled)
  BY DEF Shape, EventsOK
<1> QED BY <1>1 DEF Shape, Leave, EventsOK, DrainSteps

\* The steps of the drain (drain_and_commit_pending).
LEMMA DrainShape ==
    ASSUME Shape, NEW r \in Records, DrainStep(r) \/ ReadFails(r)
    PROVE  Shape'
<1> USE DEF Shape
<1>1. CASE DrainGuard(r)
  BY <1>1 DEF DrainGuard, At, Stay, StoresOK, EventsOK, ingestVars, consensusVars, sweepVars,
              DrainSteps
<1>2. CASE ForgetDelta(r)
  <2>1. EventsOK'
    BY <1>2, LeaveKeeps DEF ForgetDelta, At, consensusVars
  <2>2. WithinCaps(parked')
    BY <1>2, TakeKeepsCaps DEF ForgetDelta
  <2>3. StoresOK'
    BY <1>2 DEF ForgetDelta, StoresOK, ingestVars, consensusVars, sweepVars
  <2> QED BY <2>1, <2>2, <2>3 DEF WithinCaps
<1>3. CASE TakeDelta(r)
  <2>1. WithinCaps(parked')
    BY <1>3, TakeKeepsCaps DEF TakeDelta
  <2>2. StoresOK' /\ EventsOK'
    BY <1>3 DEF TakeDelta, At, Stay, StoresOK, EventsOK, ingestVars, consensusVars, sweepVars,
                DrainSteps
  <2> QED BY <2>1, <2>2 DEF WithinCaps
<1>4. CASE Rederive(r)
  <2>1. CASE Leave
    <3>1. EventsOK'
      BY <1>4, <2>1, LeaveKeeps, Zenon DEF Rederive, At, consensusVars
    <3> QED BY <1>4, <3>1 DEF Rederive, StoresOK, ingestVars, consensusVars, sweepVars
  <2>2. CASE Stay("apply")
    BY <1>4, <2>2 DEF Rederive, At, Stay, StoresOK, EventsOK, ingestVars, consensusVars, sweepVars,
                      DrainSteps
  <2> QED BY <1>4, <2>1, <2>2 DEF Rederive
<1>5. CASE Commit(r)
  BY <1>5 DEF Commit, At, Stay, StoresOK, EventsOK, ingestVars, consensusVars, sweepVars, DrainSteps
<1>6. CASE Refuse(r)
  <2>1. EventsOK'
    BY <1>6, LeaveKeeps DEF Refuse, At, consensusVars
  <2> QED BY <1>6, <2>1 DEF Refuse, StoresOK, ingestVars, consensusVars, sweepVars
<1>7. CASE MarkApplied(r)
  BY <1>7 DEF MarkApplied, At, Stay, StoresOK, EventsOK, ingestVars, consensusVars, sweepVars,
              DrainSteps
<1>8. CASE EraseRow(r)
  <2>1. EventsOK'
    BY <1>8, LeaveKeeps, Zenon DEF EraseRow, At, consensusVars
  <2> QED BY <1>8, <2>1 DEF EraseRow, StoresOK, ingestVars, consensusVars, sweepVars
<1>9. CASE ReadFails(r)
  <2>1. EventsOK'
    BY <1>9, LeaveKeeps DEF ReadFails, At, consensusVars
  <2>2. WithinCaps(parked')
    BY <1>9, ParkKeepsCaps, Zenon DEF ReadFails
  <2>3. readErrors' \in 0..MaxReadErrors /\ rows' \subseteq Records
    BY <1>9, PendingConstants DEF ReadFails, StoresOK
  <2>4. StoresOK'
    BY <1>9, <2>3 DEF ReadFails, StoresOK, ingestVars, consensusVars, sweepVars
  <2> QED BY <2>1, <2>2, <2>4 DEF WithinCaps
<1> QED BY <1>1, <1>2, <1>3, <1>4, <1>5, <1>6, <1>7, <1>8, <1>9, Zenon DEF DrainStep

LEMMA DrainCommits ==
    ASSUME PDInv, NEW r \in Records, DrainStep(r) \/ ReadFails(r)
    PROVE  CommitOK'
<1> USE DEF PDInv, Shape
<1>1. CASE Commit(r)
  <2> DEFINE new == ApplyOp(ledger, r)
  <2>1. /\ new \in Ledgers /\ SoundLedger(new)
        /\ ledger.ids \subseteq new.ids /\ new.ids \subseteq ledger.ids \cup {r}
        /\ r \in new.ids
    BY <1>1, ApplyOpSound, Zenon DEF CommitOK, Commit
  <2>2. batch # <<>> => Head(batch) \in settled
    BY DEF EventsOK
  <2>3. /\ ledger' = new /\ r \in settled /\ r = Head(batch)
        /\ UNCHANGED <<applied, settled, direct, ingest, batch>>
    BY <1>1, <2>2, Zenon DEF Commit, At, Stay, ingestVars, consensusVars
  <2> HIDE DEF new
  <2> QED BY <2>1, <2>3, Zenon DEF CommitOK
<1>2. CASE MarkApplied(r)
  BY <1>2 DEF MarkApplied, At, Stay, CommitOK, ingestVars, consensusVars
<1>3. ASSUME step' # "mark", UNCHANGED <<ledger, direct, applied, ingest, settled>>
      PROVE  CommitOK'
  BY <1>3 DEF CommitOK
<1> QED BY <1>1, <1>2, <1>3, Zenon DEF DrainStep, DrainGuard, ForgetDelta, TakeDelta, Rederive, Refuse,
                                EraseRow, ReadFails, Stay, Leave, ingestVars, consensusVars

\* The steps of the sweep (sweep_stale_pending).
LEMMA SweepShape ==
    ASSUME Shape, NEW r \in Records,
           (\E hard \in BOOLEAN : SweepPick(r, hard)) \/ SweepTake(r) \/ SweepErase(r)
    PROVE  Shape'
<1> USE DEF Shape
<1>1. CASE \E hard \in BOOLEAN : SweepPick(r, hard)
  BY <1>1 DEF SweepPick, StoresOK, EventsOK, ingestVars, consensusVars, drainVars
<1>2. CASE SweepTake(r)
  <2>1. WithinCaps(parked')
    BY <1>2, TakeKeepsCaps, Zenon DEF SweepTake
  <2>2. StoresOK' /\ EventsOK'
    BY <1>2, Zenon DEF SweepTake, StoresOK, EventsOK, ingestVars, consensusVars, drainVars
  <2> QED BY <2>1, <2>2 DEF WithinCaps
<1>3. CASE SweepErase(r)
  BY <1>3 DEF SweepErase, StoresOK, EventsOK, ingestVars, consensusVars, drainVars
<1> QED BY <1>1, <1>2, <1>3, Zenon

LEMMA SweepCommits ==
    ASSUME PDInv, NEW r \in Records,
           (\E hard \in BOOLEAN : SweepPick(r, hard)) \/ SweepTake(r) \/ SweepErase(r)
    PROVE  CommitOK'
BY Zenon DEF PDInv, CommitOK, SweepPick, SweepTake, SweepErase, ingestVars, consensusVars, drainVars

LEMMA ShapeInductive == Shape /\ [PendingNext]_pdVars => Shape'
<1>1. Shape /\ UNCHANGED pdVars => Shape'
  BY DEF Shape, pdVars, ingestVars, consensusVars, drainVars, sweepVars, StoresOK, WithinCaps, EventsOK
<1> QED BY <1>1, IngestShape, ConsensusShape, PruneShape, TickShape, DrainShape, SweepShape, Zenon
           DEF PendingNext

LEMMA PDInductive == PDInv /\ [PendingNext]_pdVars => PDInv'
<1>1. PDInv /\ UNCHANGED pdVars => CommitOK'
  BY Zenon DEF PDInv, pdVars, ingestVars, consensusVars, drainVars, CommitOK
<1>2. PDInv /\ PendingNext => CommitOK'
  BY IngestCommits, EventsCommit, DrainCommits, SweepCommits DEF PendingNext
<1> QED BY <1>1, <1>2, ShapeInductive DEF PDInv

LEMMA PDInvariant == PendingSpec => []PDInv
BY PDInitially, PDInductive, PTL DEF PendingSpec

\* Type correctness, the caps of PendingLedger (insert) and of the finality queue
\* (enqueue_finalized) included.
THEOREM PendingTypeCorrect == PendingSpec => []PendingTypeOK
<1>1. PDInv => PendingTypeOK
  <2> SUFFICES ASSUME PDInv PROVE PendingTypeOK
    OBVIOUS
  <2>1. queue \in Seq(Records) /\ bootIds \in Seq(Records) /\ batch \in Seq(Records)
    BY SeqGrows DEF PDInv, Shape, EventsOK
  <2>2. applied \subseteq Records
    BY DEF PDInv, CommitOK, Ledgers
  <2> QED BY <2>1, <2>2 DEF PDInv, Shape, StoresOK, WithinCaps, EventsOK, CommitOK, Ledgers,
                            PendingTypeOK
<1> QED BY <1>1, PDInvariant, PTL

\* The effect of a record on the ledger happens at most once, whatever the order of
\* the tasks and however often its finality is signalled (apply_op, is_applied, take).
THEOREM AppliedAtMostOnce == PendingSpec => []AppliedOnce
<1>1. PDInv => AppliedOnce
  BY DEF PDInv, CommitOK, SoundLedger, AppliedOnce
<1> QED BY <1>1, PDInvariant, PTL

\* A mark in CF_APPLIED is of a record that is in the ledger (mark_applied follows
\* apply_single_record on both paths).
THEOREM MarksAreApplied == PendingSpec => []MarkedIsApplied
<1>1. PDInv => MarkedIsApplied
  BY DEF PDInv, CommitOK, SoundLedger, Ledgers, MarkedIsApplied
<1> QED BY <1>1, PDInvariant, PTL

\* The ledger moves only for a settled record or through the fallback of ingest.
THEOREM CommitsAreGated == PendingSpec => []CommitGated
<1>1. PDInv => CommitGated
  BY DEF PDInv, CommitOK, SoundLedger, CommitGated
<1> QED BY <1>1, PDInvariant, PTL
-----------------------------------------------------------------------------
LEMMA RowsInitially == PendingInit => RowsOK
BY DEF PendingInit, RowsOK, ParkedIsDurable

\* PutRow writes the row of the delta that ParkDelta parked.
LEMMA IngestKeepsRows ==
    ASSUME PDInv, RowsOK, NEW r \in Records, StoreRecord(r) \/ IngestStep(r)
    PROVE  RowsOK'
<1> USE DEF PDInv, Shape, StoresOK, WithinCaps, RowsOK, ParkedIsDurable, consensusVars, drainVars, sweepVars
<1>1. CASE StoreRecord(r)
  BY <1>1, Zenon DEF StoreRecord
<1>2. CASE CheckApplied(r)
  BY <1>2, Zenon DEF CheckApplied
<1>3. CASE ParkDelta(r)
  BY <1>3 DEF ParkDelta
<1>4. CASE PutRow(r)
  BY <1>4, Zenon DEF PutRow
<1>5. CASE RejectDelta(r)
  BY <1>5, Zenon DEF RejectDelta
<1>6. CASE DirectApply(r)
  BY <1>6, Zenon DEF DirectApply
<1>7. CASE MarkDirect(r)
  BY <1>7 DEF MarkDirect
<1> QED BY <1>1, <1>2, <1>3, <1>4, <1>5, <1>6, <1>7, Zenon DEF IngestStep

\* Consensus, the monitor and the start of a drain touch neither deltas nor rows.
LEMMA EventsKeepRows ==
    ASSUME PDInv, RowsOK,
           \/ DrainTick \/ PruneFinalized
           \/ \E r \in Records : Seal(r) \/ Finalize(r) \/ IndexFinalized(r) \/ MonitorSettles(r)
    PROVE  RowsOK'
<1>1. CASE DrainTick
  <2>1. step' = "guard"
    BY <1>1 DEF PDInv, Shape, DrainTick, EventsOK
  <2> QED BY <1>1, <2>1 DEF DrainTick, RowsOK, ParkedIsDurable, ingestVars, sweepVars
<1>2. ASSUME UNCHANGED <<stored, ingest, rows, applied, parked, batch, step, refused, readErrors,
                         sweeping, swept>>
      PROVE  RowsOK'
  BY <1>2 DEF RowsOK, ParkedIsDurable
<1> QED BY <1>1, <1>2, Zenon DEF PruneFinalized, Seal, Finalize, IndexFinalized, MonitorSettles, ingestVars,
                          drainVars, sweepVars

\* The drain leaves a record that is marked, refused, no longer parked or not stored,
\* or whose read has failed.
LEMMA DrainKeepsRows ==
    ASSUME PDInv, RowsOK, NEW r \in Records, DrainStep(r) \/ ReadFails(r)
    PROVE  RowsOK'
<1> USE DEF PDInv, Shape, StoresOK, WithinCaps, RowsOK, ParkedIsDurable, ingestVars, consensusVars, sweepVars,
            At, Stay, Leave
<1>1. CASE DrainGuard(r)
  BY <1>1, Zenon DEF DrainGuard
<1>2. CASE ForgetDelta(r)
  BY <1>2, Zenon DEF ForgetDelta
<1>3. CASE TakeDelta(r)
  BY <1>3, Zenon DEF TakeDelta
<1>4. CASE Rederive(r)
  <2>1. r \notin stored => r \notin parked \/ readErrors > 0
    BY Zenon
  <2> QED BY <1>4, <2>1, Zenon DEF Rederive
<1>5. CASE Commit(r)
  BY <1>5, Zenon DEF Commit
<1>6. CASE Refuse(r)
  BY <1>6, Zenon DEF Refuse
<1>7. CASE MarkApplied(r)
  BY <1>7, Zenon DEF MarkApplied
<1>8. CASE EraseRow(r)
  BY <1>8, Zenon DEF EraseRow
<1>9. CASE ReadFails(r)
  <2>1. readErrors' > 0 /\ step' = "guard" /\ UNCHANGED <<stored, ingest, sweeping, swept, applied>>
    BY <1>9 DEF ReadFails
  <2> QED BY ONLY RowsOK, <2>1, Zenon DEF RowsOK, ParkedIsDurable
<1> QED BY <1>1, <1>2, <1>3, <1>4, <1>5, <1>6, <1>7, <1>8, <1>9, Zenon DEF DrainStep

\* What the sweep erases it has taken.
LEMMA SweepKeepsRows ==
    ASSUME PDInv, RowsOK, NEW r \in Records,
           (\E hard \in BOOLEAN : SweepPick(r, hard)) \/ SweepTake(r) \/ SweepErase(r)
    PROVE  RowsOK'
<1> USE DEF PDInv, Shape, StoresOK, WithinCaps, RowsOK, ParkedIsDurable, ingestVars, consensusVars, drainVars
<1>1. CASE \E hard \in BOOLEAN : SweepPick(r, hard)
  BY <1>1, Zenon DEF SweepPick
<1>2. CASE SweepTake(r)
  BY <1>2, Zenon DEF SweepTake
<1>3. CASE SweepErase(r)
  BY <1>3 DEF SweepErase
<1> QED BY <1>1, <1>2, <1>3

\* A crash loses no delta that is still to be committed: the row of a parked delta
\* is on disk, with the exceptions that ParkedIsDurable names (ingest phase 4,
\* drain_and_commit_pending, sweep_stale_pending).
THEOREM ParkedStaysDurable == PendingSpec => []ParkedIsDurable
<1>1. PDInv /\ RowsOK /\ [PendingNext]_pdVars => RowsOK'
  <2>1. ASSUME RowsOK, UNCHANGED pdVars PROVE RowsOK'
    BY <2>1 DEF pdVars, ingestVars, consensusVars, drainVars, sweepVars, RowsOK, ParkedIsDurable
  <2> QED BY <2>1, IngestKeepsRows, EventsKeepRows, DrainKeepsRows, SweepKeepsRows, Zenon DEF PendingNext
<1>2. PendingSpec => []RowsOK
  BY <1>1, RowsInitially, PDInvariant, PTL DEF PendingSpec
<1>3. RowsOK => ParkedIsDurable
  BY Zenon DEF RowsOK
<1> QED BY <1>2, <1>3, PTL
-----------------------------------------------------------------------------
\* Across restarts.  The checkpoint and the state of the boot, by type.
BootOK ==
    /\ checkpoint \in [saved : BOOLEAN, ledger : Ledgers]
    /\ checkpoint.ledger.ids = {}
    /\ boot \in BootPhases
    /\ todo \subseteq Records /\ failed \subseteq Records
    /\ reconcile \in Seq(finalized)
    /\ restarts \in 0..MaxRestarts
    /\ unmarked \subseteq Records /\ absent \subseteq Records /\ owed \subseteq Records
    /\ finalized \subseteq settled
    /\ \A r \in Records : level[r] = "Finalized" => r \in settled

\* Nothing of the tasks is under way before the node is up.
QuietOK ==
    boot # "up" =>
        /\ batch = <<>>
        /\ \A r \in Records : ingest[r] \in {"none", "done"}
        /\ stored \ applied \subseteq unmarked
        /\ boot = "rows" => todo \subseteq rows

\* What has an effect is stored, and dated no later than the ledger is.
Dated(led) == \A r \in Records : led.effects[r] > 0 => r \in stored /\ Timestamp[r] <= led.lastTs

\* The ledger in memory has grown from the checkpoint on disk.
LedgerOK ==
    /\ ledger \in Ledgers
    /\ \A r \in ledger.ids : ledger.effects[r] > 0
    /\ Dated(ledger) /\ Dated(checkpoint.ledger)
    /\ checkpoint.ledger.lastTs <= ledger.lastTs
    /\ \A r \in Records : checkpoint.ledger.effects[r] > 0 => checkpoint.saved

\* Whatever is parked, marked or about to be applied is of a stored record.
StoredOK ==
    /\ applied \subseteq stored /\ rows \subseteq stored /\ parked \subseteq stored
    /\ \A r \in Records : ingest[r] # "none" => r \in stored
    /\ batch # <<>> /\ step \in {"apply", "mark"} => Head(batch) \in stored

\* An effect of this life is in the ids, one of an earlier life is marked.
EffectOK ==
    /\ CommittedOnce
    /\ \A r \in Records \ unmarked : checkpoint.ledger.effects[r] <= 1
    /\ boot = "up" =>
        \A r \in Records \ unmarked : ledger.effects[r] > 0 => r \in ledger.ids \cup applied

\* A task that has looked for the mark of a record and found none holds one that is
\* unmarked still or in the ids, and a mark to be written is of one in the ids.
HeldOK ==
    /\ \A r \in applied \ ledger.ids :
        /\ ingest[r] \notin {"checked", "rejected"}
        /\ batch # <<>> /\ step \in {"take", "rederive", "apply"} => Head(batch) # r
    /\ \A r \in Records : ingest[r] = "direct" => r \in ledger.ids
    /\ batch # <<>> /\ step = "mark" => Head(batch) \in ledger.ids

\* A record that the replay has passed without applying it.
Passed(r) ==
    /\ \A t \in todo : Earlier(r, t)
    /\ \E q \in Needs[r] : ledger.effects[q] = 0 \/ Earlier(r, q)

\* The replay is in the middle of its records, in order.
ReplayOK ==
    /\ boot \in {"fold", "retry"} =>
        /\ todo \subseteq ReplayScope
        /\ \A r \in todo : ledger.effects[r] = 0
        /\ \A r \in ReplayScope \ todo : ledger.effects[r] > 0 \/ Passed(r)
    /\ boot = "fold" =>
        /\ failed \subseteq ReplayScope \ todo
        /\ \A r \in failed : ledger.effects[r] = 0
        /\ \A r \in ReplayScope \ todo : ledger.effects[r] > 0 \/ r \in failed

\* Why a marked record may be without effect.
LossOK ==
    boot \in {"rows", "up"} =>
        \A r \in applied :
            ledger.effects[r] = 0 =>
                \/ checkpoint.saved /\ Timestamp[r] <= checkpoint.ledger.lastTs
                \/ \E q \in Needs[r] : q \in absent \/ Earlier(r, q)

RestartInv ==
    /\ Shape /\ BootOK /\ QuietOK
    /\ LedgerOK /\ StoredOK
    /\ EffectOK /\ HeldOK
    /\ ReplayOK /\ LossOK
-----------------------------------------------------------------------------
\* What apply_op does to the ledger when it applies the record.
Applies(led, r, new) ==
    /\ new \in Ledgers
    /\ r \notin led.ids /\ new.ids = led.ids \cup {r}
    /\ \A q \in Records : new.effects[q] = IF q = r THEN led.effects[q] + 1 ELSE led.effects[q]
    /\ led.lastTs <= new.lastTs /\ Timestamp[r] <= new.lastTs

\* It applies the record, has it applied already, or leaves the ledger as it is.
LEMMA ApplyOpCases ==
    ASSUME NEW led \in Ledgers, NEW r \in Records
    PROVE  \/ Accepts(led, r) /\ Applies(led, r, ApplyOp(led, r))
           \/ ApplyOp(led, r) = led /\ (Accepts(led, r) => r \in led.ids)
<1>1. CASE r \notin led.ids /\ Accepts(led, r)
  <2> DEFINE new == [effects |-> [led.effects EXCEPT ![r] = @ + 1],
                     ids |-> led.ids \cup {r},
                     lastTs |-> IF Timestamp[r] > led.lastTs THEN Timestamp[r] ELSE led.lastTs]
  <2>1. ApplyOp(led, r) = new
    BY <1>1, Zenon DEF ApplyOp
  <2>2. new \in Ledgers
    BY PendingConstants DEF Ledgers
  <2>3. \A q \in Records : new.effects[q] = IF q = r THEN led.effects[q] + 1 ELSE led.effects[q]
    BY Zenon DEF Ledgers
  <2>4. led.lastTs <= new.lastTs /\ Timestamp[r] <= new.lastTs
    BY PendingConstants DEF Ledgers
  <2>5. new.ids = led.ids \cup {r}
    BY Zenon
  <2> HIDE DEF new
  <2>6. Applies(led, r, new)
    BY <1>1, <2>2, <2>3, <2>4, <2>5, Zenon DEF Applies
  <2> QED BY <1>1, <2>1, <2>6, Zenon
<1>2. CASE ~(r \notin led.ids /\ Accepts(led, r))
  BY <1>2 DEF ApplyOp
<1> QED BY <1>1, <1>2, Zenon

\* Applying a stored record, on any path, leaves the ledger in order.
LEMMA ApplyKeepsLedger ==
    ASSUME BootOK, LedgerOK, NEW r \in Records, r \in stored, ledger' = ApplyOp(ledger, r),
           UNCHANGED <<stored, checkpoint>>
    PROVE  LedgerOK'
<1>1. CASE Applies(ledger, r, ledger')
  <2>1. \A q \in ledger'.ids : ledger'.effects[q] > 0
    BY <1>1 DEF LedgerOK, Applies, Ledgers
  <2>2. Dated(ledger)'
    <3> SUFFICES ASSUME NEW q \in Records, ledger'.effects[q] > 0
                 PROVE  q \in stored' /\ Timestamp[q] <= ledger'.lastTs
      BY DEF Dated
    <3>1. CASE q = r
      BY <1>1, <3>1, Zenon DEF Applies
    <3>2. CASE q # r
      <4>1. q \in stored /\ Timestamp[q] <= ledger.lastTs
        BY <1>1, <3>2, Zenon DEF Applies, LedgerOK, Dated
      <4>2. Timestamp[q] \in Nat /\ ledger.lastTs \in Nat /\ ledger'.lastTs \in Nat
        BY <1>1, PendingConstants, Zenon DEF Applies, LedgerOK, Ledgers
      <4> QED BY <1>1, <4>1, <4>2 DEF Applies
    <3> QED BY <3>1, <3>2, Zenon
  <2>3. checkpoint.ledger.lastTs <= ledger'.lastTs
    BY <1>1 DEF BootOK, LedgerOK, Applies, Ledgers
  <2>4. Dated(checkpoint.ledger)'
    BY Zenon DEF LedgerOK, Dated
  <2> QED BY <1>1, <2>1, <2>2, <2>3, <2>4, Zenon DEF LedgerOK, Applies
<1>2. CASE ledger' = ledger
  BY <1>2 DEF LedgerOK, Dated
<1> QED BY <1>1, <1>2, ApplyOpCases, Zenon DEF LedgerOK

\* Applying a record that no mark shows as applied, or that is in the ids, repeats
\* no effect and loses none.
LEMMA ApplyKeepsEffects ==
    ASSUME LedgerOK, EffectOK, LossOK, applied \subseteq Records, boot = "up",
           NEW r \in Records, r \in applied => r \in ledger.ids,
           ledger' = ApplyOp(ledger, r),
           UNCHANGED <<applied, checkpoint, unmarked, absent, boot>>
    PROVE  /\ EffectOK' /\ LossOK'
           /\ ledger.ids \subseteq ledger'.ids
           /\ Accepts(ledger, r) => r \in ledger'.ids
<1>1. CASE Applies(ledger, r, ledger')
  <2>1. ledger.effects \in [Records -> Nat]
    BY Zenon DEF LedgerOK, Ledgers
  <2>2. CommittedOnce'
    <3>1. r \notin unmarked => ledger.effects[r] = 0
      BY <1>1, <2>1 DEF Applies, EffectOK
    <3> QED BY <1>1, <2>1, <3>1, SMTT(30) DEF Applies, EffectOK, CommittedOnce
  <2>3. \A q \in Records \ unmarked : ledger'.effects[q] > 0 => q \in ledger'.ids \cup applied
    BY <1>1, Zenon DEF Applies, EffectOK
  <2>4. EffectOK'
    BY <2>2, <2>3, Zenon DEF EffectOK
  <2>5. \A q \in Records : ledger'.effects[q] = 0 => ledger.effects[q] = 0
    BY <1>1, <2>1 DEF Applies
  <2>6. LossOK'
    BY <2>5, Zenon DEF LossOK
  <2> QED BY <1>1, <2>4, <2>6, Zenon DEF Applies
<1>2. CASE ledger' = ledger /\ (Accepts(ledger, r) => r \in ledger.ids)
  BY <1>2, Zenon DEF EffectOK, CommittedOnce, LossOK
<1> QED BY <1>1, <1>2, ApplyOpCases, Zenon DEF LedgerOK

\* A step that leaves the ledger alone, and marks only what is in its ids.
LEMMA MarkKeepsEffects ==
    ASSUME LedgerOK, EffectOK, LossOK, stored \subseteq stored', applied \subseteq applied',
           \A r \in applied' \ applied : r \in ledger.ids,
           UNCHANGED <<ledger, restartVars>>
    PROVE  LedgerOK' /\ EffectOK' /\ LossOK'
<1> USE DEF restartVars, bootVars, historyVars
<1>1. LedgerOK'
  BY Zenon DEF LedgerOK, Dated
<1>2. EffectOK'
  BY Zenon DEF EffectOK, CommittedOnce
<1>3. \A r \in applied' \ applied : ledger.effects[r] # 0
  BY DEF LedgerOK
<1>4. LossOK'
  BY <1>3 DEF LossOK
<1> QED BY <1>1, <1>2, <1>4

LEMMA RestartInitially == RestartInit => RestartInv
<1> SUFFICES ASSUME RestartInit PROVE RestartInv
  OBVIOUS
<1>1. Shape
  BY PDInitially DEF RestartInit, PDInv
<1> DEFINE none == [effects |-> [r \in Records |-> 0], ids |-> {}, lastTs |-> 0]
<1>2. none \in Ledgers /\ none.ids = {} /\ none.lastTs = 0 /\ \A r \in Records : none.effects[r] = 0
  BY Zenon DEF Ledgers
<1>3. checkpoint = [saved |-> FALSE, ledger |-> none] /\ ledger = none
  BY Zenon DEF RestartInit, PendingInit, NoCheckpoint
<1> HIDE DEF none
<1>4. BootOK
  BY <1>2, <1>3, RestartConstants DEF RestartInit, PendingInit, BootOK, BootPhases
<1>5. LedgerOK /\ EffectOK
  <2>1. none.lastTs <= none.lastTs /\ \A r \in Records : ~(none.effects[r] > 0) /\ none.effects[r] <= 1
    BY <1>2, NatOrder, Zenon
  <2>2. ledger = none /\ checkpoint.ledger = none
    BY <1>3, Zenon
  <2> QED BY <1>2, <2>1, <2>2, Zenon DEF LedgerOK, EffectOK, CommittedOnce, Dated
<1> QED BY <1>1, <1>4, <1>5, Zenon DEF RestartInit, PendingInit, RestartInv, QuietOK, StoredOK, HeldOK,
                                ReplayOK, LossOK

\* While the node runs, ingest marks only what it has applied.
LEMMA IngestAcross ==
    ASSUME RestartInv, boot = "up", UNCHANGED restartVars,
           NEW r \in Records, StoreRecord(r) \/ IngestStep(r)
    PROVE  LedgerOK' /\ StoredOK' /\ EffectOK' /\ HeldOK' /\ LossOK'
<1>t. ingest \in [Records -> IngestSteps] /\ applied \subseteq Records
  BY DEF RestartInv, Shape, StoresOK, StoredOK
<1>1. CASE DirectApply(r)
  <2>1. /\ ledger' = ApplyOp(ledger, r)
        /\ ingest[r] = "rejected"
        /\ ingest' = [ingest EXCEPT ![r] = IF Accepts(ledger, r) THEN "direct" ELSE "done"]
        /\ UNCHANGED <<stored, rows, applied, parked, batch, step>>
    BY <1>1 DEF DirectApply, drainVars
  <2>2. r \in stored /\ (r \in applied => r \in ledger.ids)
    BY <2>1, Zenon DEF RestartInv, StoredOK, HeldOK
  <2>3. LedgerOK'
    BY <2>1, <2>2, ApplyKeepsLedger, Zenon DEF RestartInv, restartVars
  <2>4. /\ EffectOK' /\ LossOK'
        /\ ledger.ids \subseteq ledger'.ids
        /\ Accepts(ledger, r) => r \in ledger'.ids
    BY <1>t, <2>1, <2>2, ApplyKeepsEffects, Zenon DEF RestartInv, restartVars, bootVars, historyVars
  <2>5. StoredOK'
    BY <1>t, <2>1, <2>2, Zenon DEF RestartInv, StoredOK
  <2>6. HeldOK'
    BY <1>t, <2>1, <2>4, Zenon DEF RestartInv, HeldOK
  <2> QED BY <2>3, <2>4, <2>5, <2>6, Zenon
<1>2. CASE MarkDirect(r)
  <2>1. /\ applied' = applied \cup {r} /\ ingest[r] = "direct"
        /\ ingest' = [ingest EXCEPT ![r] = "done"]
        /\ UNCHANGED <<stored, rows, parked, batch, step, ledger>>
    BY <1>2, Zenon DEF MarkDirect, drainVars
  <2>2. r \in ledger.ids /\ r \in stored
    BY <2>1, Zenon DEF RestartInv, HeldOK, StoredOK
  <2>3. LedgerOK' /\ EffectOK' /\ LossOK'
    BY <2>1, <2>2, MarkKeepsEffects, Zenon DEF RestartInv
  <2>4. StoredOK' /\ HeldOK'
    BY <1>t, <2>1, <2>2 DEF RestartInv, StoredOK, HeldOK
  <2> QED BY <2>3, <2>4, Zenon
<1>3. ASSUME stored \subseteq stored', UNCHANGED <<applied, ledger>>
      PROVE  LedgerOK' /\ EffectOK' /\ LossOK'
  BY <1>3, MarkKeepsEffects DEF RestartInv
<1> USE <1>t DEF RestartInv, StoredOK, HeldOK, drainVars
<1>4. CASE StoreRecord(r)
  BY <1>3, <1>4, Zenon DEF StoreRecord
<1>5. CASE CheckApplied(r)
  BY <1>3, <1>5, Zenon DEF CheckApplied
<1>6. CASE ParkDelta(r)
  BY <1>3, <1>6, Zenon DEF ParkDelta
<1>7. CASE PutRow(r)
  BY <1>3, <1>7, Zenon DEF PutRow
<1>8. CASE RejectDelta(r)
  BY <1>3, <1>8, Zenon DEF RejectDelta
<1> QED BY <1>1, <1>2, <1>4, <1>5, <1>6, <1>7, <1>8, Zenon DEF IngestStep

\* Consensus, the sweep and the start of a drain leave the ledger and the marks alone.
LEMMA EventsAcross ==
    ASSUME RestartInv, boot = "up", UNCHANGED restartVars,
           \/ DrainTick \/ PruneFinalized
           \/ \E r \in Records :
                \/ Seal(r) \/ Finalize(r) \/ IndexFinalized(r) \/ MonitorSettles(r)
                \/ (\E hard \in BOOLEAN : SweepPick(r, hard)) \/ SweepTake(r) \/ SweepErase(r)
    PROVE  LedgerOK' /\ StoredOK' /\ EffectOK' /\ HeldOK' /\ LossOK'
<1>1. UNCHANGED <<stored, ingest, applied, ledger>> /\ rows' \subseteq rows /\ parked' \subseteq parked
  BY Zenon DEF DrainTick, PruneFinalized, Seal, Finalize, IndexFinalized, MonitorSettles, SweepPick, SweepTake,
         SweepErase, ingestVars
<1>2. step' = "guard" \/ UNCHANGED <<batch, step>>
  BY TickShape, Zenon DEF RestartInv, PruneFinalized, Seal, Finalize, IndexFinalized, MonitorSettles, SweepPick,
                   SweepTake, SweepErase, drainVars
<1>3. LedgerOK' /\ EffectOK' /\ LossOK'
  BY <1>1, MarkKeepsEffects, Zenon DEF RestartInv
<1>4. StoredOK' /\ HeldOK'
  BY <1>1, <1>2, Zenon DEF RestartInv, StoredOK, HeldOK
<1> QED BY <1>3, <1>4

\* While the node runs, the drain applies a record that it has found unmarked.
LEMMA DrainAcross ==
    ASSUME RestartInv, boot = "up", UNCHANGED restartVars,
           NEW r \in Records, DrainStep(r) \/ ReadFails(r)
    PROVE  LedgerOK' /\ StoredOK' /\ EffectOK' /\ HeldOK' /\ LossOK'
<1>t. applied \subseteq Records
  BY Zenon DEF RestartInv, Shape, StoresOK, StoredOK
<1>1. CASE Commit(r)
  <2>1. /\ ledger' = ApplyOp(ledger, r) /\ Accepts(ledger, r)
        /\ batch # <<>> /\ r = Head(batch) /\ step = "apply" /\ step' = "mark"
        /\ UNCHANGED <<stored, ingest, rows, applied, parked, batch>>
    BY <1>1 DEF Commit, At, Stay, ingestVars
  <2>2. r \in stored /\ (r \in applied => r \in ledger.ids)
    BY <2>1, Zenon DEF RestartInv, StoredOK, HeldOK
  <2>3. LedgerOK'
    BY <2>1, <2>2, ApplyKeepsLedger, Zenon DEF RestartInv, restartVars
  <2>4. /\ EffectOK' /\ LossOK'
        /\ ledger.ids \subseteq ledger'.ids /\ r \in ledger'.ids
    BY <1>t, <2>1, <2>2, ApplyKeepsEffects, Zenon DEF RestartInv, restartVars, bootVars, historyVars
  <2>5. StoredOK' /\ HeldOK'
    BY <2>1, <2>2, <2>4, Zenon DEF RestartInv, StoredOK, HeldOK
  <2> QED BY <2>3, <2>4, <2>5, Zenon
<1>2. CASE MarkApplied(r)
  <2>1. /\ applied' = applied \cup {r}
        /\ batch # <<>> /\ r = Head(batch) /\ step = "mark" /\ step' = "erase"
        /\ UNCHANGED <<stored, ingest, rows, parked, batch, ledger>>
    BY <1>2, Zenon DEF MarkApplied, At, Stay, ingestVars
  <2>2. r \in ledger.ids /\ r \in stored
    BY <2>1, Zenon DEF RestartInv, HeldOK, StoredOK
  <2>3. LedgerOK' /\ EffectOK' /\ LossOK'
    BY <2>1, <2>2, MarkKeepsEffects, Zenon DEF RestartInv
  <2>4. StoredOK' /\ HeldOK'
    BY <2>1, <2>2, Zenon DEF RestartInv, StoredOK, HeldOK
  <2> QED BY <2>3, <2>4, Zenon
<1>3. ASSUME UNCHANGED <<stored, applied, ledger>>
      PROVE  LedgerOK' /\ EffectOK' /\ LossOK'
  BY <1>3, MarkKeepsEffects, Zenon DEF RestartInv
<1> USE <1>t DEF RestartInv, StoredOK, HeldOK, ingestVars, At, Stay, Leave
<1>4. CASE DrainGuard(r)
  BY <1>3, <1>4, Zenon DEF DrainGuard
<1>5. CASE ForgetDelta(r)
  BY <1>3, <1>5, Zenon DEF ForgetDelta
<1>6. CASE TakeDelta(r)
  BY <1>3, <1>6, Zenon DEF TakeDelta
<1>7. CASE Rederive(r)
  BY <1>3, <1>7, Zenon DEF Rederive
<1>8. CASE Refuse(r)
  BY <1>3, <1>8, Zenon DEF Refuse
<1>9. CASE EraseRow(r)
  BY <1>3, <1>9, Zenon DEF EraseRow
<1>10. CASE ReadFails(r)
  BY <1>3, <1>10, Zenon DEF ReadFails
<1> QED BY <1>1, <1>2, <1>4, <1>5, <1>6, <1>7, <1>8, <1>9, <1>10, Zenon DEF DrainStep

\* A step of the tasks of the running node.
LEMMA RunningKeeps == RestartInv /\ Running => RestartInv'
<1> SUFFICES ASSUME RestartInv, Running PROVE RestartInv'
  OBVIOUS
<1>1. boot = "up" /\ PendingNext /\ UNCHANGED restartVars
  BY DEF Running
<1>2. Shape'
  BY <1>1, ShapeInductive, Zenon DEF RestartInv
<1>3. LedgerOK' /\ StoredOK' /\ EffectOK' /\ HeldOK' /\ LossOK'
  BY <1>1, IngestAcross, EventsAcross, DrainAcross, Zenon DEF PendingNext
<1> DEFINE Final ==
             /\ finalized \subseteq finalized' /\ finalized' \subseteq settled'
             /\ finalized' \subseteq Records
             /\ \A r \in Records : level'[r] = "Finalized" => r \in settled'
<1>4. Final
  <2>1. ASSUME UNCHANGED <<level, finalized, settled>> PROVE Final
    BY <2>1, Zenon DEF RestartInv, BootOK, Shape, StoresOK
  <2>2. ASSUME PruneFinalized PROVE Final
    BY <2>2, Zenon DEF PruneFinalized, RestartInv, BootOK, Shape, StoresOK
  <2>3. ASSUME NEW r \in Records, Seal(r) \/ Finalize(r) \/ IndexFinalized(r) \/ MonitorSettles(r)
        PROVE  Final
    BY <2>3, Zenon DEF Seal, Finalize, IndexFinalized, MonitorSettles, RestartInv, BootOK, Shape, StoresOK
  <2> HIDE DEF Final
  <2>4. ASSUME NEW r \in Records, StoreRecord(r) \/ IngestStep(r)
        PROVE  UNCHANGED <<level, finalized, settled>>
    BY <2>4, Zenon DEF StoreRecord, IngestStep, CheckApplied, ParkDelta, PutRow, RejectDelta, DirectApply,
                MarkDirect, consensusVars
  <2>5. ASSUME NEW r \in Records, DrainStep(r) \/ ReadFails(r)
        PROVE  UNCHANGED <<level, finalized, settled>>
    BY <2>5, Zenon DEF DrainStep, DrainGuard, ForgetDelta, TakeDelta, Rederive, Commit, Refuse, MarkApplied,
                EraseRow, ReadFails, consensusVars
  <2>6. ASSUME NEW r \in Records,
               (\E hard \in BOOLEAN : SweepPick(r, hard)) \/ SweepTake(r) \/ SweepErase(r)
        PROVE  UNCHANGED <<level, finalized, settled>>
    BY <2>6, Zenon DEF SweepPick, SweepTake, SweepErase, consensusVars
  <2>7. DrainTick => UNCHANGED <<level, finalized, settled>>
    BY DEF DrainTick
  <2> QED BY ONLY <1>1, <2>1, <2>2, <2>3, <2>4, <2>5, <2>6, <2>7, Zenon DEF PendingNext
<1>5. reconcile \in Seq(finalized')
  BY <1>4, SeqGrows, Zenon DEF RestartInv, BootOK
<1>6. BootOK'
  BY <1>1, <1>4, <1>5, Zenon DEF RestartInv, BootOK, restartVars, bootVars, historyVars
<1>7. QuietOK' /\ ReplayOK'
  BY <1>1, Zenon DEF QuietOK, ReplayOK, restartVars, bootVars
<1> QED BY <1>2, <1>3, <1>6, <1>7 DEF RestartInv

\* A cycle of snapshot_loop moves the floor up to what the ledger holds.
LEMMA CheckpointKeeps == RestartInv /\ SaveCheckpoint => RestartInv'
<1> SUFFICES ASSUME RestartInv, SaveCheckpoint PROVE RestartInv'
  OBVIOUS
<1> DEFINE cp == [ledger EXCEPT !.ids = {}]
<1>1. cp \in Ledgers /\ cp.ids = {} /\ cp.effects = ledger.effects /\ cp.lastTs = ledger.lastTs
  BY DEF RestartInv, LedgerOK, Ledgers
<1>2. /\ checkpoint' = [saved |-> TRUE, ledger |-> cp] /\ boot = "up"
      /\ UNCHANGED <<pdVars, bootVars, historyVars>>
  BY DEF SaveCheckpoint
<1> HIDE DEF cp
<1>3. /\ checkpoint' \in [saved : BOOLEAN, ledger : Ledgers]
      /\ checkpoint'.saved /\ checkpoint'.ledger.ids = {}
      /\ checkpoint'.ledger.effects = ledger.effects /\ checkpoint'.ledger.lastTs = ledger.lastTs
  BY <1>1, <1>2, Zenon
<1> USE <1>2 DEF pdVars, ingestVars, consensusVars, drainVars, sweepVars, bootVars, historyVars
<1>4. Shape' /\ StoredOK' /\ HeldOK'
  BY Zenon DEF RestartInv, Shape, StoresOK, WithinCaps, EventsOK, StoredOK, HeldOK
<1>5. BootOK'
  BY <1>3, Zenon DEF RestartInv, BootOK
<1>6. LedgerOK'
  <2>1. ledger.lastTs <= ledger.lastTs
    BY NatOrder, Zenon DEF RestartInv, LedgerOK, Ledgers
  <2> QED BY <1>3, <2>1, Zenon DEF RestartInv, LedgerOK, Dated
<1>7. EffectOK'
  BY <1>3, Zenon DEF RestartInv, EffectOK, CommittedOnce
<1>8. LossOK'
  <2> SUFFICES ASSUME NEW r \in applied, ledger.effects[r] = 0,
                      checkpoint.saved /\ Timestamp[r] <= checkpoint.ledger.lastTs
               PROVE  Timestamp[r] <= ledger.lastTs
    BY <1>3, Zenon DEF RestartInv, LossOK
  <2>1. Timestamp[r] \in Nat
    BY PendingConstants, Zenon DEF RestartInv, StoredOK, Shape, StoresOK
  <2>2. /\ checkpoint.ledger.lastTs \in Nat /\ ledger.lastTs \in Nat
        /\ checkpoint.ledger.lastTs <= ledger.lastTs
    BY Zenon DEF RestartInv, BootOK, LedgerOK, Ledgers
  <2> QED BY <2>1, <2>2, NatOrder, Zenon
<1>9. QuietOK' /\ ReplayOK'
  BY Zenon DEF QuietOK, ReplayOK
<1> QED BY <1>4, <1>5, <1>6, <1>7, <1>8, <1>9, Zenon DEF RestartInv

\* The process stops and starts again: what it finds without a mark is noted, and
\* nothing above the floor of the checkpoint has an effect in it.
LEMMA CrashKeeps == RestartInv /\ Restart => RestartInv'
<1> SUFFICES ASSUME RestartInv, Restart PROVE RestartInv'
  OBVIOUS
<1>1. /\ UNCHANGED <<stored, rows, applied, finalized, settled, direct, refused, prunes, readErrors,
                     checkpoint, absent>>
      /\ ledger' = checkpoint.ledger
      /\ boot' = "fold" /\ todo' = ReplayScope /\ failed' = {} /\ reconcile' = <<>>
      /\ parked' = {} /\ batch' = <<>> /\ step' = "guard"
      /\ ingest' = [r \in Records |-> IF ingest[r] = "none" THEN "none" ELSE "done"]
      /\ unmarked' = unmarked \cup (stored \ applied)
  BY DEF Restart
<1>2. checkpoint.ledger \in Ledgers /\ checkpoint.ledger.ids = {}
  BY DEF RestartInv, BootOK
<1>3. level' \in [Records -> Levels] /\ \A r \in Records : level'[r] = "Finalized" => r \in settled
  <2>1. /\ level' \in [Records -> Levels]
        /\ \A r \in Records : level'[r] \in {"Pending", level[r]}
                                             \cup (IF r \in settled THEN {"Finalized"} ELSE {})
    BY Zenon DEF Restart, RestoredLevels
  <2>2. ASSUME NEW r \in Records, level'[r] = "Finalized" PROVE r \in settled
    BY <2>1, <2>2, Zenon DEF RestartInv, BootOK
  <2> QED BY <2>1, <2>2, Zenon
<1>4. Shape'
  <2>1. StoresOK'
    BY <1>1, <1>3, Zenon DEF Restart, RestartInv, Shape, StoresOK, IngestSteps
  <2>2. WithinCaps(parked')
    <3>1. IsFiniteSet({}) /\ Cardinality({}) = 0
      BY FS_EmptySet, Zenon
    <3> QED BY <1>1, <3>1, PendingConstants DEF WithinCaps
  <2>3. EventsOK'
    BY PendingConstants DEF Restart, RestartInv, Shape, EventsOK, DrainSteps
  <2> QED BY <2>1, <2>2, <2>3 DEF Shape, WithinCaps
<1>5. BootOK'
  <2>1. restarts' \in 0..MaxRestarts
    BY RestartConstants, SMTT(30) DEF Restart, RestartInv, BootOK
  <2>2. unmarked' \subseteq Records /\ todo' \subseteq Records /\ owed' = {}
    BY <1>1, Zenon DEF Restart, RestartInv, BootOK, Shape, StoresOK, ReplayScope
  <2> QED BY <1>1, <1>3, <2>1, <2>2, SMTT(30) DEF RestartInv, BootOK, BootPhases
<1>6. QuietOK'
  BY <1>1 DEF QuietOK
<1>7. LedgerOK'
  <2>1. checkpoint.ledger.lastTs <= checkpoint.ledger.lastTs
    BY <1>2 DEF Ledgers
  <2>2. Dated(ledger)' /\ Dated(checkpoint.ledger)'
    BY <1>1, Zenon DEF RestartInv, LedgerOK, Dated
  <2> QED BY <1>1, <1>2, <2>1, <2>2, Zenon DEF RestartInv, LedgerOK
<1>8. StoredOK'
  BY <1>1, Zenon DEF RestartInv, StoredOK
<1>9. EffectOK'
  BY <1>1, Zenon DEF RestartInv, EffectOK, CommittedOnce
<1>10. HeldOK'
  BY <1>1, Zenon DEF RestartInv, HeldOK, StoredOK, Shape, StoresOK
<1>11. ReplayOK'
  <2>1. ReplayScope' = ReplayScope
    BY <1>1, Zenon DEF ReplayScope
  <2>2. ASSUME NEW r \in ReplayScope PROVE checkpoint.ledger.effects[r] = 0
    <3>1. r \in Records /\ r \in stored /\ (checkpoint.saved => Timestamp[r] > checkpoint.ledger.lastTs)
      BY Zenon DEF ReplayScope, RestartInv, Shape, StoresOK
    <3>2. Timestamp[r] \in Nat /\ checkpoint.ledger.lastTs \in Nat /\ checkpoint.ledger.effects[r] \in Nat
      BY <1>2, <3>1, PendingConstants, Zenon DEF Ledgers
    <3>3. checkpoint.ledger.effects[r] > 0 =>
            checkpoint.saved /\ Timestamp[r] <= checkpoint.ledger.lastTs
      BY <3>1 DEF RestartInv, LedgerOK, Dated
    <3> QED BY ONLY <3>1, <3>2, <3>3, SMTT(30)
  <2> QED BY <1>1, <2>1, <2>2, Zenon DEF ReplayOK
<1>12. LossOK'
  BY <1>1, Zenon DEF LossOK
<1> QED BY <1>4, <1>5, <1>6, <1>7, <1>8, <1>9, <1>10, <1>11, <1>12 DEF RestartInv

\* The next record of the replay either takes effect, or misses the effect of one
\* that the replay never applies or has yet to meet.
LEMMA ReplayInOrder ==
    ASSUME RestartInv, NEW r \in Records, ReplayRecord(r)
    PROVE  ReplayOK'
<1>1. /\ boot \in {"fold", "retry"} /\ r \in todo
      /\ \A q \in todo \ {r} : Earlier(r, q)
      /\ ledger' = ApplyOp(ledger, r)
      /\ todo' = todo \ {r}
      /\ failed' = IF boot = "fold" /\ ~Accepts(ledger, r) THEN failed \cup {r} ELSE failed
      /\ boot' = boot
  BY DEF ReplayRecord
<1>2. ReplayScope' = ReplayScope /\ ReplayScope \subseteq Records
  BY Zenon DEF ReplayRecord, ReplayScope, RestartInv, Shape, StoresOK
<1>3. /\ todo \subseteq ReplayScope
      /\ \A q \in todo : ledger.effects[q] = 0
      /\ \A q \in ReplayScope \ todo : ledger.effects[q] > 0 \/ Passed(q)
  BY <1>1, Zenon DEF RestartInv, ReplayOK
<1>4. boot = "fold" =>
        /\ failed \subseteq ReplayScope \ todo
        /\ \A q \in failed : ledger.effects[q] = 0
        /\ \A q \in ReplayScope \ todo : ledger.effects[q] > 0 \/ q \in failed
  BY Zenon DEF RestartInv, ReplayOK
<1>5. \A q \in Records : ledger.effects[q] \in Nat /\ Needs[q] \subseteq Records
  BY PendingConstants, Zenon DEF RestartInv, LedgerOK, Ledgers
<1>6. CASE Accepts(ledger, r) /\ Applies(ledger, r, ledger')
  <2>1. \A q \in Records : ledger'.effects[q] = IF q = r THEN ledger.effects[q] + 1 ELSE ledger.effects[q]
    BY <1>6, Zenon DEF Applies
  <2>2. ledger'.effects[r] > 0
    BY <1>5, <2>1
  <2>3. ASSUME NEW q \in ReplayScope \ todo, ledger.effects[q] > 0 \/ Passed(q)
        PROVE  ledger'.effects[q] > 0 \/ Passed(q)'
    <3>1. CASE ledger.effects[q] > 0
      BY <1>1, <1>2, <2>1, <3>1, Zenon
    <3>2. CASE Passed(q)
      <4>1. PICK n \in Needs[q] : ledger.effects[n] = 0 \/ Earlier(q, n)
        BY <3>2 DEF Passed
      <4>2. ledger'.effects[n] = 0 \/ Earlier(q, n)
        <5>1. n = r => Earlier(q, n)
          BY <1>1, <3>2, Zenon DEF Passed
        <5>2. n \in Records
          BY <1>2, <1>5
        <5> QED BY <2>1, <4>1, <5>1, <5>2, Zenon
      <4>3. \A t \in todo' : Earlier(q, t)
        BY <1>1, <3>2, Zenon DEF Passed
      <4> QED BY <4>2, <4>3, Zenon DEF Passed
    <3> QED BY <2>3, <3>1, <3>2
  <2>4. \A q \in ReplayScope \ todo' : ledger'.effects[q] > 0 \/ Passed(q)'
    BY <1>1, <1>3, <2>2, <2>3, Zenon
  <2>5. \A q \in todo' : ledger'.effects[q] = 0
    BY <1>1, <1>2, <1>3, <2>1, Zenon
  <2>6. boot = "fold" =>
          /\ failed' \subseteq ReplayScope \ todo'
          /\ \A q \in failed' : ledger'.effects[q] = 0
          /\ \A q \in ReplayScope \ todo' : ledger'.effects[q] > 0 \/ q \in failed'
    BY <1>1, <1>2, <1>4, <1>6, <2>1, <2>2, Zenon
  <2> QED BY <1>1, <1>2, <1>3, <2>4, <2>5, <2>6, Zenon DEF ReplayOK
<1>7. CASE ledger' = ledger /\ (Accepts(ledger, r) => r \in ledger.ids)
  <2>1. ~Accepts(ledger, r)
    <3>1. ledger.effects[r] = 0
      BY <1>1, <1>3, Zenon
    <3>2. ~(ledger.effects[r] > 0)
      BY ONLY <3>1
    <3> QED BY <1>7, <3>2, Zenon DEF RestartInv, LedgerOK
  <2>2. Passed(r)'
    <3>1. PICK q \in Needs[r] : ~(ledger.effects[q] > 0)
      BY <2>1, Zenon DEF Accepts
    <3>2. ledger.effects[q] = 0
      BY <1>5, <3>1
    <3> QED BY <1>1, <1>7, <3>2, Zenon DEF Passed
  <2>3. \A q \in ReplayScope \ todo : Passed(q) => Passed(q)'
    BY <1>1, <1>7, Zenon DEF Passed
  <2>4. \A q \in ReplayScope \ todo' : ledger'.effects[q] > 0 \/ Passed(q)'
    BY <1>1, <1>3, <1>7, <2>2, <2>3, Zenon
  <2>5. boot = "fold" =>
          /\ failed' \subseteq ReplayScope \ todo'
          /\ \A q \in failed' : ledger'.effects[q] = 0
          /\ \A q \in ReplayScope \ todo' : ledger'.effects[q] > 0 \/ q \in failed'
    BY <1>1, <1>3, <1>4, <1>7, <2>1, Zenon
  <2> QED BY <1>1, <1>2, <1>3, <1>7, <2>4, <2>5, Zenon DEF ReplayOK
<1> QED BY <1>1, <1>6, <1>7, ApplyOpCases, Zenon DEF RestartInv, LedgerOK

LEMMA ReplayKeeps ==
    ASSUME RestartInv, NEW r \in Records, ReplayRecord(r)
    PROVE  RestartInv'
<1>1. /\ boot \in {"fold", "retry"} /\ boot' = boot /\ r \in todo
      /\ ledger' = ApplyOp(ledger, r) /\ todo' = todo \ {r} /\ failed' \subseteq failed \cup {r}
      /\ UNCHANGED <<stored, rows, applied, parked, ingest, consensusVars, drainVars, sweepVars, direct,
                     checkpoint, reconcile, historyVars>>
  BY DEF ReplayRecord
<1> USE DEF consensusVars, drainVars, sweepVars, historyVars
<1>2. r \in stored /\ ledger.effects[r] = 0
  BY <1>1, Zenon DEF RestartInv, ReplayOK, ReplayScope
<1>3. Shape' /\ StoredOK'
  BY <1>1, Zenon DEF RestartInv, Shape, StoresOK, WithinCaps, EventsOK, StoredOK
<1>4. BootOK' /\ QuietOK'
  BY <1>1, Zenon DEF RestartInv, BootOK, QuietOK
<1>5. LedgerOK'
  BY <1>1, <1>2, ApplyKeepsLedger, Zenon DEF RestartInv
<1>6. EffectOK'
  <2>1. CASE Applies(ledger, r, ledger')
    <3>1. \A q \in Records : ledger'.effects[q] = IF q = r THEN ledger.effects[q] + 1 ELSE ledger.effects[q]
      BY <2>1, Zenon DEF Applies
    <3>2. ledger'.effects[r] <= 1
      BY ONLY r \in Records, <1>2, <3>1
    <3>3. \A q \in Records \ unmarked : ledger'.effects[q] <= 1
      BY <3>1, <3>2, Zenon DEF RestartInv, EffectOK, CommittedOnce
    <3> QED BY <1>1, <3>3, Zenon DEF RestartInv, EffectOK, CommittedOnce
  <2>2. CASE ledger' = ledger
    BY <1>1, <2>2, Zenon DEF RestartInv, EffectOK, CommittedOnce
  <2> QED BY <1>1, <2>1, <2>2, ApplyOpCases, Zenon DEF RestartInv, LedgerOK
<1>7. HeldOK'
  <2>1. batch = <<>> /\ \A q \in Records : ingest[q] \in {"none", "done"}
    BY <1>1, Zenon DEF RestartInv, QuietOK
  <2>2. applied \subseteq Records
    BY DEF RestartInv, StoredOK, Shape, StoresOK
  <2> QED BY <1>1, <2>1, <2>2, Zenon DEF HeldOK
<1>8. LossOK'
  BY <1>1, Zenon DEF LossOK
<1> QED BY <1>3, <1>4, <1>5, <1>6, <1>7, <1>8, ReplayInOrder DEF RestartInv

\* The second pass of rebuild_ledger_streaming.
LEMMA RetryKeeps == RestartInv /\ RetryFailed => RestartInv'
<1> SUFFICES ASSUME RestartInv, RetryFailed PROVE RestartInv'
  OBVIOUS
<1>1. /\ boot = "fold" /\ todo = {} /\ boot' = "retry" /\ todo' = failed
      /\ UNCHANGED <<pdVars, checkpoint, failed, reconcile, historyVars>>
  BY DEF RetryFailed
<1> USE DEF pdVars, ingestVars, consensusVars, drainVars, sweepVars, historyVars
<1>2. Shape' /\ StoredOK' /\ LedgerOK' /\ HeldOK'
  BY <1>1, Zenon DEF RestartInv, Shape, StoresOK, WithinCaps, EventsOK, StoredOK, LedgerOK, Dated, HeldOK
<1>3. BootOK' /\ QuietOK' /\ EffectOK' /\ LossOK'
  BY <1>1, Zenon DEF RestartInv, BootOK, BootPhases, QuietOK, EffectOK, CommittedOnce, LossOK
<1>4. ReplayOK'
  <2>1. ReplayScope' = ReplayScope
    BY <1>1, Zenon DEF ReplayScope
  <2> QED BY <1>1, <2>1, Zenon DEF RestartInv, ReplayOK
<1> QED BY <1>2, <1>3, <1>4, Zenon DEF RestartInv

\* The replay is over: what has no effect was below the floor, or is absent for want
\* of another; and what has an effect and no mark was noted by the restart.
LEMMA ListKeeps == RestartInv /\ ListRows => RestartInv'
<1> SUFFICES ASSUME RestartInv, ListRows PROVE RestartInv'
  OBVIOUS
<1>1. /\ boot \in {"fold", "retry"} /\ todo = {} /\ boot' = "rows"
      /\ rows' \subseteq rows /\ todo' \subseteq rows'
      /\ ledger' = [ledger EXCEPT !.ids = {}]
      /\ absent' = {r \in Records : ledger.effects[r] = 0}
      /\ UNCHANGED <<stored, applied, parked, ingest, consensusVars, drainVars, sweepVars, direct,
                     checkpoint, failed, reconcile, restarts, unmarked, owed>>
  BY DEF ListRows, ListedRows
<1>2. /\ ledger' \in Ledgers /\ ledger'.ids = {}
      /\ ledger'.effects = ledger.effects /\ ledger'.lastTs = ledger.lastTs
  BY <1>1 DEF RestartInv, LedgerOK, Ledgers
<1> USE DEF consensusVars, drainVars, sweepVars
<1>3. Shape' /\ StoredOK'
  BY <1>1 DEF RestartInv, Shape, StoresOK, WithinCaps, EventsOK, StoredOK
<1>4. BootOK' /\ QuietOK'
  BY <1>1 DEF RestartInv, BootOK, BootPhases, QuietOK, Shape, StoresOK
<1>5. LedgerOK'
  BY <1>1, <1>2 DEF RestartInv, LedgerOK, Dated
<1>6. EffectOK'
  BY <1>1, <1>2, Zenon DEF RestartInv, EffectOK, CommittedOnce
<1>7. applied \subseteq Records /\ applied \subseteq stored
  BY DEF RestartInv, StoredOK, Shape, StoresOK
<1>8. HeldOK'
  <2>1. batch = <<>> /\ \A q \in Records : ingest[q] \in {"none", "done"}
    BY <1>1 DEF RestartInv, QuietOK
  <2> QED BY <1>1, <1>7, <2>1, Zenon DEF HeldOK
<1>9. ReplayOK'
  BY <1>1 DEF ReplayOK
<1>10. LossOK'
  <2> SUFFICES ASSUME NEW r \in applied, ledger.effects[r] = 0,
                      ~(checkpoint.saved /\ Timestamp[r] <= checkpoint.ledger.lastTs)
               PROVE  \E q \in Needs[r] : q \in absent' \/ Earlier(r, q)
    BY <1>1, <1>2, Zenon DEF LossOK
  <2>1. Timestamp[r] \in Nat /\ Needs[r] \subseteq Records /\ checkpoint.ledger.lastTs \in Nat
    BY <1>7, PendingConstants DEF RestartInv, BootOK, Ledgers
  <2>2. r \in ReplayScope
    <3>1. ~(Timestamp[r] <= checkpoint.ledger.lastTs) => Timestamp[r] > checkpoint.ledger.lastTs
      BY ONLY <2>1
    <3> QED BY <1>7, <3>1, Zenon DEF ReplayScope
  <2>3. Passed(r)
    BY <1>1, <2>2 DEF RestartInv, ReplayOK
  <2> QED BY <1>1, <2>1, <2>3, Zenon DEF Passed
<1> QED BY <1>3, <1>4, <1>5, <1>6, <1>8, <1>9, <1>10, Zenon DEF RestartInv

\* PendingLedger::boot_replay keeps the caps, row after row.
LEMMA InsertKeeps ==
    ASSUME RestartInv, NEW r \in Records, InsertRow(r)
    PROVE  RestartInv'
<1>1. /\ boot = "rows" /\ boot' = "rows" /\ r \in todo /\ CanPark(parked, r)
      /\ parked' = parked \cup {r} /\ todo' = todo \ {r}
      /\ reconcile' = IF r \in finalized THEN Append(reconcile, r) ELSE reconcile
      /\ UNCHANGED <<stored, rows, applied, ingest, consensusVars, drainVars, sweepVars, ledger, direct,
                     checkpoint, failed, historyVars>>
  BY DEF InsertRow
<1> USE DEF consensusVars, drainVars, sweepVars, historyVars
<1>2. Shape'
  <2>1. WithinCaps(parked')
    BY <1>1, ParkKeepsCaps DEF RestartInv, Shape
  <2>2. StoresOK' /\ EventsOK'
    BY <1>1, Zenon DEF RestartInv, Shape, StoresOK, EventsOK
  <2> QED BY <2>1, <2>2, Zenon DEF Shape, WithinCaps
<1>3. BootOK'
  <2>1. reconcile' \in Seq(finalized)
    <3>1. reconcile \in Seq(finalized)
      BY Zenon DEF RestartInv, BootOK
    <3>2. reconcile' = IF r \in finalized THEN Append(reconcile, r) ELSE reconcile
      BY <1>1, Zenon
    <3> QED BY ONLY <3>1, <3>2
  <2> QED BY <1>1, <2>1, Zenon DEF RestartInv, BootOK
<1>4. QuietOK' /\ StoredOK' /\ ReplayOK'
  BY <1>1, Zenon DEF RestartInv, QuietOK, StoredOK, ReplayOK
<1>5. LedgerOK' /\ EffectOK' /\ HeldOK' /\ LossOK'
  BY <1>1, Zenon DEF RestartInv, LedgerOK, Dated, EffectOK, CommittedOnce, HeldOK, LossOK
<1> QED BY <1>2, <1>3, <1>4, <1>5 DEF RestartInv

\* The loops start, with or without the finalized rows: an effect that is not marked
\* is one that the restart noted.
LEMMA UpKeeps ==
    ASSUME RestartInv, Rearm \/ \E r \in Records : RejectRow(r)
    PROVE  RestartInv'
<1>1. /\ boot = "rows" /\ boot' = "up" /\ todo' = {} /\ reconcile' = <<>>
      /\ bootIds' \in {bootIds, reconcile} /\ owed' \in {owed, parked \cap finalized}
      /\ UNCHANGED <<ingestVars, rows, applied, parked, consensusVars, batch, step, refused, readErrors,
                     sweepVars, ledger, direct, checkpoint, failed, restarts, unmarked, absent>>
  BY Zenon DEF Rearm, RejectRow, pdVars, drainVars, historyVars
<1> USE DEF ingestVars, consensusVars, sweepVars
<1>2. Shape'
  <2>1. reconcile \in Seq(settled)
    BY SeqGrows, Zenon DEF RestartInv, BootOK
  <2>2. bootIds' \in Seq(settled)
    BY <1>1, <2>1 DEF RestartInv, Shape, EventsOK
  <2> QED BY <1>1, <2>2, Zenon DEF RestartInv, Shape, StoresOK, WithinCaps, EventsOK
<1>3. BootOK'
  <2>1. reconcile' \in Seq(finalized)
    BY ONLY <1>1
  <2>2. owed' \subseteq Records
    BY <1>1, Zenon DEF RestartInv, BootOK, Shape, StoresOK
  <2>3. boot' \in BootPhases /\ todo' \subseteq Records
    BY <1>1, Zenon DEF BootPhases
  <2> QED BY <1>1, <2>1, <2>2, <2>3, Zenon DEF RestartInv, BootOK
<1>4. QuietOK' /\ StoredOK' /\ ReplayOK' /\ LossOK' /\ LedgerOK' /\ HeldOK'
  BY <1>1, Zenon DEF RestartInv, QuietOK, StoredOK, ReplayOK, LossOK, LedgerOK, Dated, HeldOK
<1>5. EffectOK'
  <2>1. \A r \in Records \ unmarked : ledger.effects[r] > 0 => r \in applied
    BY <1>1, Zenon DEF RestartInv, LedgerOK, Dated, QuietOK
  <2> QED BY <1>1, <2>1, Zenon DEF RestartInv, EffectOK, CommittedOnce
<1> QED BY <1>2, <1>3, <1>4, <1>5, Zenon DEF RestartInv

LEMMA RestartInductive == RestartInv /\ [RestartNext]_prVars => RestartInv'
<1>1. RestartInv /\ UNCHANGED prVars => RestartInv'
  <2> SUFFICES ASSUME RestartInv, UNCHANGED prVars PROVE RestartInv'
    OBVIOUS
  <2> USE DEF prVars, pdVars, restartVars, bootVars, historyVars, ingestVars, consensusVars, drainVars,
              sweepVars
  <2>1. Shape' /\ BootOK' /\ QuietOK' /\ StoredOK'
    BY Zenon DEF RestartInv, Shape, StoresOK, WithinCaps, EventsOK, BootOK, QuietOK, StoredOK
  <2>2. LedgerOK' /\ EffectOK' /\ HeldOK' /\ LossOK'
    BY Zenon DEF RestartInv, LedgerOK, Dated, EffectOK, CommittedOnce, HeldOK, LossOK
  <2>3. ReplayOK'
    BY Zenon DEF RestartInv, ReplayOK, ReplayScope, Passed
  <2> QED BY <2>1, <2>2, <2>3, Zenon DEF RestartInv
<1>2. RestartInv /\ BootStep => RestartInv'
  BY ReplayKeeps, RetryKeeps, ListKeeps, InsertKeeps, UpKeeps, Zenon DEF BootStep
<1> QED BY <1>1, <1>2, RunningKeeps, CheckpointKeeps, CrashKeeps, Zenon DEF RestartNext

LEMMA RestartInvariant == RestartSpec => []RestartInv
BY RestartInitially, RestartInductive, PTL DEF RestartSpec

\* Types and caps hold across restarts: boot_replay parks within the caps of the
\* PendingLedger, whatever rows the disk holds, and a checkpoint carries no ids.
THEOREM RestartTypeCorrect == RestartSpec => []RestartTypeOK
<1>1. RestartInv => RestartTypeOK
  <2> SUFFICES ASSUME RestartInv PROVE RestartTypeOK
    OBVIOUS
  <2>1. queue \in Seq(Records) /\ bootIds \in Seq(Records) /\ batch \in Seq(Records)
    BY SeqGrows DEF RestartInv, Shape, EventsOK
  <2>2. reconcile \in Seq(Records)
    BY SeqGrows, Zenon DEF RestartInv, BootOK, Shape, StoresOK
  <2>3. applied \subseteq Records /\ ledger \in Ledgers
    BY Zenon DEF RestartInv, StoredOK, LedgerOK, Shape, StoresOK
  <2>4. PendingTypeOK
    BY <2>1, <2>3, Zenon DEF RestartInv, Shape, StoresOK, WithinCaps, EventsOK, Ledgers, PendingTypeOK
  <2> QED BY <2>2, <2>4, Zenon DEF RestartInv, BootOK, Ledgers, RestartTypeOK
<1> QED BY <1>1, RestartInvariant, PTL

\* No restart repeats a commit that reached CF_APPLIED, from whatever point of the
\* drain, of ingest or of the boot the process stopped at (incremental_ledger_replay
\* above the floor, is_applied, the head guard of apply_op).
THEOREM MarkedCommitsOnce == RestartSpec => []CommittedOnce
<1>1. RestartInv => CommittedOnce
  BY Zenon DEF RestartInv, EffectOK
<1> QED BY <1>1, RestartInvariant, PTL

\* A marked record is missing from the ledger of a running node for two reasons
\* only: it is dated at or below the floor of the checkpoint, or the replay found
\* wanting, or met later, what the record spends (incremental_ledger_replay and
\* rebuild_ledger_streaming).
THEOREM LossesAreExplained == RestartSpec => []LostBelowFloor
<1>1. RestartInv => LostBelowFloor
  BY Zenon DEF RestartInv, LossOK, LostBelowFloor
<1> QED BY <1>1, RestartInvariant, PTL
=============================================================================
