-------------------------- MODULE BackgroundProofs --------------------------
(***************************************************************************)
(* Proofs about the two components whose work is done in the background    *)
(* of the ledger by concurrent tasks: the effects of finality              *)
(* (FinalityEffects) and the account state tree (AccountTree).             *)
(*                                                                         *)
(* Effects, for any number of records, witnesses, workers and lapses: the  *)
(* effects of a finality are applied once, none is lost but what can no    *)
(* longer be found, and the index counts all that it holds.  The argument  *)
(* rests on the claims: two workers are never on the same record, so what  *)
(* one worker knows of a record's marker stays true until that worker      *)
(* changes it.                                                             *)
(*                                                                         *)
(* Tree, for every set of identities and every bound: two arguments, each  *)
(* with its own invariant.  Serialized: the writer that is writing holds   *)
(* the gate and builds on the persisted root, so that the root it commits  *)
(* is that of the leaves.  Entries: an entry under way that no longer is   *)
(* its account's is outdated by a mark, by a younger flush under way, or   *)
(* by one that has ended, which made it late.                              *)
(***************************************************************************)
EXTENDS FinalityEffects, AccountTree, FiniteSetTheorems, TLAPS

Jobs == [pc : {"credit", "flip", "pay", "reward", "store"}, rid : Rids, credited : BOOLEAN,
         left : SUBSET Witnesses, wit : Witnesses \cup {GenesisHash}, budget : Nat, failed : BOOLEAN]

Busy(k) == work[k] # Idle

EffectsTypes ==
    /\ attestors \in [Rids -> SUBSET Witnesses] /\ settlers \in [Rids -> SUBSET Witnesses]
    /\ finalized \subseteq Rids /\ marker \in [Rids -> {"none", "fresh", "credited"}]
    /\ rewards \subseteq Pairs /\ published \in [Pairs -> Nat]
    /\ spawned \subseteq Rids /\ scanned \subseteq Rids /\ inflight \subseteq Rids
    /\ work \in [Workers -> Jobs \cup {Idle}]
    /\ credits \in [Rids -> Nat] /\ relapse \in [Rids -> Nat]
    /\ reaped \in [Rids -> SUBSET Witnesses] /\ blind \subseteq Rids

\* A busy worker holds the claim of its record, alone.
Claims ==
    /\ \A k \in Workers : Busy(k) => work[k].rid \in inflight
    /\ \A j, k \in Workers : Busy(j) /\ Busy(k) /\ work[j].rid = work[k].rid => j = k
    /\ ClaimsHeld

\* A marker outlives the workers on its record.
Markers ==
    /\ \A r \in Rids : marker[r] # "none" => r \in finalized
    /\ \A k \in Workers : Busy(k) => marker[work[k].rid] # "none"
    /\ \A k \in Workers : work[k].pc = "credit" => marker[work[k].rid] = "fresh"

\* A credit that exceeds the lapses has its bit, or a worker about to write it.
Credits ==
    /\ CreditedOnce
    /\ \A r \in Rids \ finalized : credits[r] = 0
    /\ \A r \in Rids : marker[r] = "fresh" =>
          credits[r] <= relapse[r] \/ \E k \in Workers : work[k].pc = "flip" /\ work[k].rid = r

\* Those who had attested, are worth a reward, and can still be found.
Owed(r) == IF r \in blind THEN {} ELSE settlers[r] \ (Worthless \cup {GenesisHash} \cup reaped[r])

\* Somebody had attested and can still be found.
Due(r) == r \notin blind /\ ~(settlers[r] \subseteq reaped[r])

\* A worker that pays and has failed nowhere has paid or still lists all that is owed.
AllPaidOrListed ==
    \A k \in Workers : work[k].pc \in {"reward", "store"} /\ ~work[k].failed =>
        \A w \in Owed(work[k].rid) : <<work[k].rid, w>> \in rewards \/ w \in work[k].left

\* EffectsNotLost, in these terms.
NotLost ==
    \A r \in Rids : marker[r] = "none" =>
        /\ Due(r) => credits[r] >= 1
        /\ \A w \in Owed(r) : <<r, w>> \in rewards

\* What a worker has recorded of its progress is true.
Progress ==
    /\ \A r \in Rids : settlers[r] \subseteq attestors[r] \cup reaped[r]
    /\ \A r \in Rids \ finalized : settlers[r] = {}
    /\ \A r \in Rids : marker[r] = "credited" => credits[r] >= 1
    /\ \A k \in Workers : work[k].pc = "flip" => credits[work[k].rid] >= 1
    /\ \A k \in Workers : Busy(k) /\ work[k].credited /\ Due(work[k].rid) =>
          credits[work[k].rid] >= 1
    /\ AllPaidOrListed
    /\ NotLost

\* A reward is published when it is stored.
Published == PublishedOnce /\ \A x \in Pairs \ rewards : published[x] = 0

\* A reward that a worker is about to store is not stored yet.
Storing ==
    \A k \in Workers : work[k].pc = "store" =>
        /\ work[k].wit \in Witnesses /\ work[k].budget # 0
        /\ <<work[k].rid, work[k].wit>> \notin rewards

EffectsInv == EffectsTypes /\ Claims /\ Markers /\ Credits /\ Progress /\ Published /\ Storing
-----------------------------------------------------------------------------
(* Jobs *)

LEMMA IdleIsNoJob == Idle \notin Jobs /\ Idle.pc = "idle"
  BY DEF Idle, Jobs

\* A worker is busy when its job says so.
LEMMA BusyJob ==
    ASSUME EffectsTypes, NEW k \in Workers
    PROVE  /\ Busy(k) <=> work[k] \in Jobs
           /\ Busy(k) <=> work[k].pc # "idle"
  <1>1. work[k] \in Jobs \cup {Idle}
    BY DEF EffectsTypes
  <1>2. work[k] \in Jobs => work[k].pc # "idle"
    BY DEF Jobs
  <1> QED BY <1>1, <1>2, IdleIsNoJob DEF Busy

\* Only the job of k changes, and it stays on its record.
Moves(k) ==
    /\ work' \in [Workers -> Jobs \cup {Idle}]
    /\ work[k] \in Jobs /\ work'[k] \in Jobs /\ work'[k].rid = work[k].rid
    /\ \A j \in Workers \ {k} : work'[j] = work[j]

LEMMA MovesKeepClaims ==
    ASSUME EffectsTypes, Claims, NEW k \in Workers, Moves(k), UNCHANGED inflight
    PROVE  Claims'
  <1>1. Busy(k) /\ Busy(k)'
    BY IdleIsNoJob DEF Moves, Busy
  <1>2. \A j \in Workers : (Busy(j)' <=> Busy(j)) /\ work'[j].rid = work[j].rid
    BY <1>1 DEF Moves, Busy
  <1> QED BY <1>2 DEF Claims, ClaimsHeld, Busy

\* No worker comes to store a reward, and none is stored.
LEMMA StoringKept ==
    ASSUME Storing, UNCHANGED rewards,
           \A k \in Workers : work'[k] = work[k] \/ work'[k].pc # "store"
    PROVE  Storing'
  BY Zenon DEF Storing

\* Deletions and failed reads only make less of what is owed.
LEMMA OwesLess ==
    ASSUME NEW r \in Rids, settlers'[r] = settlers[r], reaped[r] \subseteq reaped'[r],
           blind \subseteq blind'
    PROVE  Owed(r)' \subseteq Owed(r) /\ (Due(r)' => Due(r))
  BY DEF Owed, Due

LEMMA EffectsInitially == ASSUME EffectsInit PROVE EffectsInv
  <1> USE DEF EffectsInit
  <1>1. EffectsTypes
    BY DEF EffectsTypes
  <1>2. Claims /\ Markers
    BY IdleIsNoJob DEF Claims, ClaimsHeld, Markers, Busy
  <1>3. Credits /\ Published /\ Storing
    BY IdleIsNoJob DEF Credits, CreditedOnce, Published, PublishedOnce, Storing
  <1>4. Progress
    BY IdleIsNoJob DEF Progress, AllPaidOrListed, NotLost, Owed, Due, Busy
  <1> QED BY <1>1, <1>2, <1>3, <1>4 DEF EffectsInv
-----------------------------------------------------------------------------
(* The index and the sweep *)

LEMMA StoreAttestationInv ==
    ASSUME EffectsInv, NEW r \in Rids, NEW w \in Witnesses, StoreAttestation(r, w)
    PROVE  EffectsInv'
  <1> USE DEF EffectsInv, StoreAttestation
  <1>1. EffectsTypes'
    BY DEF EffectsTypes
  <1>2. Claims' /\ Markers' /\ Credits' /\ Published' /\ Storing'
    BY ZenonT(40) DEF Claims, ClaimsHeld, Markers, Credits, CreditedOnce, Published, PublishedOnce, Storing, Busy
  <1>3. \A q \in Rids : attestors[q] \subseteq attestors'[q]
    BY Zenon DEF EffectsTypes
  <1>4. Progress'
    BY <1>3, Zenon DEF Progress, NotLost, Busy, AllPaidOrListed, Owed, Due
  <1> QED BY <1>1, <1>2, <1>4

\* Who can no longer be found is no longer owed anything.
LEMMA ReapAttestationInv ==
    ASSUME EffectsInv, NEW r \in Rids, NEW w \in Witnesses, ReapAttestation(r, w)
    PROVE  EffectsInv'
  <1> USE DEF EffectsInv
  <1>1. /\ UNCHANGED <<finalized, marker, rewards, hot, total, spawned, scanned, inflight, work,
                       credits, published, lapses, relapse, settlers, blind>>
        /\ attestors' = [attestors EXCEPT ![r] = @ \ {w}]
        /\ reaped' = [reaped EXCEPT ![r] = @ \cup {w}]
    BY Zenon DEF ReapAttestation
  <1>2. EffectsTypes'
    BY <1>1 DEF EffectsTypes
  <1>3. Claims' /\ Markers' /\ Credits' /\ Published' /\ Storing'
    BY <1>1, Zenon DEF Claims, ClaimsHeld, Markers, Credits, CreditedOnce, Published, PublishedOnce,
                       Storing, Busy
  <1>4. \A q \in Rids : /\ reaped[q] \subseteq reaped'[q]
                        /\ attestors[q] \cup reaped[q] \subseteq attestors'[q] \cup reaped'[q]
    BY <1>1 DEF EffectsTypes
  <1>5. \A q \in Rids : Owed(q)' \subseteq Owed(q) /\ (Due(q)' => Due(q))
    BY <1>1, <1>4, OwesLess
  <1>6. \A k \in Workers : work[k].pc # "idle" => work[k].rid \in Rids
    BY BusyJob, Zenon DEF Jobs
  <1>7. AllPaidOrListed' /\ NotLost'
    BY <1>1, <1>5, <1>6 DEF Progress, AllPaidOrListed, NotLost
  <1>8. \A k \in Workers : Busy(k)' /\ work'[k].credited /\ Due(work[k].rid)' => credits'[work'[k].rid] >= 1
    BY <1>1, <1>5, <1>6, BusyJob DEF Progress, Busy
  <1>9. Progress'
    <2>1. \A q \in Rids : settlers'[q] \subseteq attestors'[q] \cup reaped'[q]
      BY <1>1, <1>4, Zenon DEF Progress
    <2> QED BY <1>1, <1>7, <1>8, <2>1, Zenon DEF Progress
  <1> QED BY <1>2, <1>3, <1>9, Zenon

\* Of a new id no worker knows, and nothing was credited.
LEMMA InsertMarkedInv ==
    ASSUME EffectsInv, NEW r \in Rids, InsertMarked(r)
    PROVE  EffectsInv'
  <1> USE DEF EffectsInv
  <1>1. CASE ~IsNew(r)
    <2>1. finalized' = finalized /\ UNCHANGED <<marker, spawned, settlers, reaped, blind>>
      BY <1>1 DEF InsertMarked, IsNew, IsFirst
    <2>2. EffectsTypes' /\ Claims' /\ Markers'
      BY <2>1 DEF InsertMarked, EffectsTypes, Claims, ClaimsHeld, Markers, Busy
    <2>3. Credits' /\ Published' /\ Storing'
      BY <2>1, Zenon DEF InsertMarked, Credits, CreditedOnce, Published, PublishedOnce, Storing
    <2>4. Progress'
      BY <2>1, Zenon DEF InsertMarked, Progress, NotLost, Busy, AllPaidOrListed, Owed, Due
    <2> QED BY <2>2, <2>3, <2>4
  <1>2. CASE IsNew(r)
    <2>1. r \notin finalized /\ marker[r] = "none" /\ credits[r] = 0
      BY <1>2 DEF IsNew, Markers, Credits
    <2>2. \A k \in Workers : Busy(k) => work[k].rid # r /\ work[k].rid \in Rids
      BY <2>1, BusyJob DEF Markers, Jobs
    <2>3. /\ finalized' = finalized \cup {r}
          /\ marker' = [marker EXCEPT ![r] = "fresh"]
          /\ spawned' \subseteq spawned \cup {r}
          /\ settlers' = [settlers EXCEPT ![r] = attestors[r]]
          /\ UNCHANGED <<attestors, rewards, scanned, inflight, work, credits, published, lapses,
                         relapse, reaped, blind>>
      BY <1>2 DEF InsertMarked
    <2>4. EffectsTypes'
      BY <2>3 DEF EffectsTypes
    <2>5. Claims' /\ Published' /\ Storing'
      BY <2>3, Zenon DEF Claims, ClaimsHeld, Busy, Published, PublishedOnce, Storing
    <2>6. \A q \in Rids : marker'[q] = IF q = r THEN "fresh" ELSE marker[q]
      BY <2>3 DEF EffectsTypes
    <2>7. \A q \in Rids : settlers'[q] = IF q = r THEN attestors[r] ELSE settlers[q]
      BY <2>3 DEF EffectsTypes
    <2>8. \A k \in Workers : work[k].pc # "idle" => Busy(k)
      BY BusyJob
    <2>9. Markers'
      BY <2>2, <2>3, <2>6, <2>8 DEF Markers, Busy
    <2>10. Credits'
      <3>1. credits[r] <= relapse[r]
        BY <2>1 DEF EffectsTypes
      <3> QED BY <2>3, <2>6, <3>1 DEF Credits, CreditedOnce
    <2>11. Progress'
      <3>1. \A q \in Rids \ {r} : (Due(q)' <=> Due(q)) /\ Owed(q)' = Owed(q)
        BY <2>3, <2>7, Zenon DEF Due, Owed
      <3>2. AllPaidOrListed'
        BY <2>2, <2>3, <2>8, <3>1 DEF Progress, AllPaidOrListed
      <3>3. NotLost'
        BY <2>3, <2>6, <3>1 DEF Progress, NotLost
      <3>4. \A k \in Workers : Busy(k)' /\ work'[k].credited /\ Due(work[k].rid)' => credits'[work'[k].rid] >= 1
        BY <2>2, <2>3, <3>1 DEF Progress, Busy
      <3> QED BY <2>1, <2>3, <2>6, <2>7, <3>2, <3>3, <3>4 DEF Progress
    <2> QED BY <2>4, <2>5, <2>9, <2>10, <2>11
  <1> QED BY <1>1, <1>2

\* Steps that touch neither markers nor workers.
LEMMA QuietEffects ==
    ASSUME EffectsInv, finalized \subseteq finalized', finalized' \subseteq Rids,
           spawned' \subseteq Rids, scanned' \subseteq Rids,
           UNCHANGED <<attestors, marker, rewards, inflight, work, credits, published, relapse,
                       settlers, reaped, blind>>
    PROVE  EffectsInv'
  <1> USE DEF EffectsInv
  <1>1. EffectsTypes' /\ Claims' /\ Markers'
    BY Zenon DEF EffectsTypes, Claims, ClaimsHeld, Markers, Busy
  <1>2. Credits' /\ Published' /\ Storing'
    BY Zenon DEF Credits, CreditedOnce, Published, PublishedOnce, Storing
  <1>3. Progress'
    BY Zenon DEF Progress, NotLost, Busy, AllPaidOrListed, Owed, Due
  <1> QED BY <1>1, <1>2, <1>3, Zenon

LEMMA InsertPlainInv ==
    ASSUME EffectsInv, NEW r \in Rids, InsertPlain(r)
    PROVE  EffectsInv'
  <1>1. /\ finalized' = finalized \cup {r} /\ UNCHANGED <<spawned, scanned>>
        /\ UNCHANGED <<attestors, marker, rewards, inflight, work, credits, published, relapse,
                       settlers, reaped, blind>>
    BY Zenon DEF InsertPlain
  <1>2. finalized \subseteq Rids /\ spawned \subseteq Rids /\ scanned \subseteq Rids
    BY Zenon DEF EffectsInv, EffectsTypes
  <1> QED BY <1>1, <1>2, QuietEffects, Zenon

LEMMA InsertFailsInv ==
    ASSUME EffectsInv, NEW r \in Rids, NEW marked \in BOOLEAN, InsertFails(r, marked)
    PROVE  EffectsInv'
  <1>1. /\ UNCHANGED <<finalized, scanned>> /\ spawned' \subseteq spawned \cup {r}
        /\ UNCHANGED <<attestors, marker, rewards, inflight, work, credits, published, relapse,
                       settlers, reaped, blind>>
    BY Zenon DEF InsertFails
  <1>2. finalized \subseteq Rids /\ spawned \subseteq Rids /\ scanned \subseteq Rids
    BY Zenon DEF EffectsInv, EffectsTypes
  <1> QED BY <1>1, <1>2, QuietEffects, Zenon

LEMMA ScanInv ==
    ASSUME EffectsInv, Scan
    PROVE  EffectsInv'
  <1>1. /\ UNCHANGED <<finalized, spawned>> /\ scanned' \subseteq Rids
        /\ UNCHANGED <<attestors, marker, rewards, inflight, work, credits, published, relapse,
                       settlers, reaped, blind>>
    BY Zenon DEF Scan
  <1>2. finalized \subseteq Rids /\ spawned \subseteq Rids
    BY Zenon DEF EffectsInv, EffectsTypes
  <1> QED BY <1>1, <1>2, QuietEffects, Zenon

\* A worker that takes a record takes the claim, which nobody had.
LEMMA BeginInv ==
    ASSUME EffectsInv, NEW k \in Workers, NEW r \in Rids, Begin(k, r)
    PROVE  EffectsInv'
  <1> USE DEF EffectsInv
  <1> DEFINE task == [pc |-> IF marker[r] = "credited" THEN "pay" ELSE "credit", rid |-> r,
                     credited |-> marker[r] = "credited", left |-> {}, wit |-> GenesisHash,
                     budget |-> 0, failed |-> FALSE]
  <1>1. /\ UNCHANGED <<attestors, finalized, marker, rewards, credits, published, lapses, relapse,
                       settlers, reaped, blind>>
        /\ spawned' \subseteq Rids /\ scanned' \subseteq Rids
    BY DEF Begin, EffectsTypes
  <1>2. CASE Claimable(r) /\ marker[r] # "none"
    <2>1. /\ r \notin inflight /\ inflight' = inflight \cup {r}
          /\ work' = [work EXCEPT ![k] = task] /\ work[k] = Idle
      BY <1>2 DEF Begin, Claimable
    <2>2. task \in Jobs /\ task.rid = r /\ task.pc \in {"pay", "credit"}
          /\ (task.credited <=> marker[r] = "credited") /\ (task.pc = "credit" => marker[r] # "credited")
      BY ZenonT(40) DEF Jobs
    <2> HIDE DEF task
    <2>3. work'[k] = task /\ \A j \in Workers \ {k} : work'[j] = work[j]
      BY <2>1 DEF EffectsTypes
    <2>4. EffectsTypes'
      BY <1>1, <2>1, <2>2 DEF EffectsTypes
    <2>5. task # Idle
      BY <2>2, IdleIsNoJob
    <2>6. Claims'
      BY <2>1, <2>2, <2>3, <2>5 DEF Claims, ClaimsHeld, Busy
    <2>7. Markers'
      BY <1>1, <1>2, <2>2, <2>3 DEF Markers, Busy, EffectsTypes
    <2>8. Credits'
      <3>1. work[k].pc # "flip"
        BY <2>1, IdleIsNoJob, Zenon
      <3> QED BY <1>1, <2>3, <3>1, ZenonT(40) DEF Credits, CreditedOnce
    <2>9. Progress'
      <3>1. \A j \in Workers : Busy(j)' /\ work'[j].credited /\ Due(work[j].rid)' =>
               credits[work'[j].rid] >= 1
        BY <1>1, <2>2, <2>3, ZenonT(40) DEF Progress, Busy, Due
      <3>2. AllPaidOrListed'
        BY <1>1, <2>2, <2>3, Zenon DEF Progress, AllPaidOrListed, Owed
      <3>3. NotLost'
        BY <1>1, Zenon DEF Progress, NotLost, Owed, Due
      <3> QED BY <1>1, <2>2, <2>3, <3>1, <3>2, <3>3, Zenon DEF Progress
    <2>10. Published' /\ Storing'
      BY <1>1, <2>2, <2>3, StoringKept DEF Published, PublishedOnce
    <2> QED BY <2>4, <2>6, <2>7, <2>8, <2>9, <2>10, Zenon
  <1>3. CASE ~(Claimable(r) /\ marker[r] # "none")
    <2>1. UNCHANGED <<inflight, work>>
      BY <1>3, Zenon DEF Begin
    <2>2. EffectsTypes' /\ Claims' /\ Markers'
      BY <1>1, <2>1 DEF EffectsTypes, Claims, ClaimsHeld, Markers, Busy
    <2>3. Credits' /\ Published' /\ Storing'
      BY <1>1, <2>1, Zenon DEF Credits, CreditedOnce, Published, PublishedOnce, Storing
    <2>4. Progress'
      BY <1>1, <2>1, Zenon DEF Progress, NotLost, Busy, AllPaidOrListed, Owed, Due
    <2> QED BY <2>2, <2>3, <2>4, Zenon
  <1> QED BY <1>2, <1>3
-----------------------------------------------------------------------------
(* A worker on its record *)

\* Before the credit there is no bit, and no other worker that could have credited.
LEMMA CreditSeenInv ==
    ASSUME EffectsInv, NEW k \in Workers, NEW seen, CreditSeen(k, seen),
           blind \subseteq blind', blind' \subseteq Rids, seen = {} => ~Due(work[k].rid)'
    PROVE  EffectsInv'
  <1> USE DEF EffectsInv
  <1> DEFINE r == work[k].rid
  <1>1. work[k] \in Jobs /\ Busy(k) /\ work[k].pc = "credit" /\ r \in Rids
    BY BusyJob, Zenon DEF CreditSeen, Jobs
  <1>2. marker[r] = "fresh" /\ \A j \in Workers \ {k} : Busy(j) => work[j].rid # r
    BY <1>1 DEF Markers, Claims
  <1>3. \A j \in Workers : work[j].pc # "idle" => Busy(j)
    BY BusyJob
  <1>4. UNCHANGED <<attestors, finalized, marker, rewards, spawned, scanned, inflight, published,
                    relapse, settlers, reaped>>
    BY Zenon DEF CreditSeen
  <1>40. \A q \in Rids : Owed(q)' \subseteq Owed(q) /\ (Due(q)' => Due(q))
    BY <1>4, OwesLess, Zenon
  <1>41. \A j \in Workers : Busy(j) => work[j].rid \in Rids
    BY BusyJob, Zenon DEF Jobs
  <1>5. credits[r] <= relapse[r]
    <2>1. ~\E j \in Workers : work[j].pc = "flip" /\ work[j].rid = r
      BY <1>1, <1>2, <1>3
    <2> QED BY <1>1, <1>2, <2>1 DEF Credits
  <1>6. CASE seen = {}
    <2>1. work' = [work EXCEPT ![k].pc = "pay", ![k].credited = TRUE] /\ UNCHANGED credits
      BY <1>6, Zenon DEF CreditSeen
    <2>2. Moves(k) /\ work'[k].pc = "pay"
      BY <1>1, <2>1, ZenonT(40) DEF Moves, EffectsTypes, Jobs
    <2>3. EffectsTypes' /\ Published' /\ Storing'
      BY <1>4, <2>1, <2>2, StoringKept, Zenon DEF EffectsTypes, Published, PublishedOnce, Moves
    <2>4. Claims'
      BY <1>4, <2>2, MovesKeepClaims, Zenon
    <2>5. Markers'
      BY <1>1, <1>4, <2>2 DEF Markers, Moves, Busy
    <2>6. Credits'
      BY <1>1, <1>4, <2>1, <2>2, Zenon DEF Credits, CreditedOnce, Moves
    <2>7. ~Due(r)'
      BY <1>6, <2>2 DEF Moves
    <2>8. Progress'
      <3>1. \A j \in Workers : Busy(j)' /\ work'[j].credited /\ Due(work[j].rid)' =>
               credits[work'[j].rid] >= 1
        BY <1>6, <1>40, <1>41, <2>2 DEF Progress, Moves, Busy
      <3>2. NotLost'
        BY <1>4, <1>40, <2>1 DEF Progress, NotLost
      <3>3. AllPaidOrListed'
        BY <1>3, <1>4, <1>40, <1>41, <2>2 DEF Progress, AllPaidOrListed, Moves
      <3> QED BY <1>4, <2>1, <2>2, <3>1, <3>2, <3>3, ZenonT(40) DEF Progress, Moves
    <2> QED BY <2>3, <2>4, <2>5, <2>6, <2>8
  <1>7. CASE seen # {}
    <2>1. work' = [work EXCEPT ![k].pc = "flip"] /\ credits' = [credits EXCEPT ![r] = @ + 1]
      BY <1>7, Zenon DEF CreditSeen
    <2>2. Moves(k) /\ work'[k].pc = "flip"
      BY <1>1, <2>1 DEF Moves, EffectsTypes, Jobs
    <2>3. credits' \in [Rids -> Nat] /\ credits'[r] = credits[r] + 1
      BY <1>1, <2>1 DEF EffectsTypes
    <2>4. \A q \in Rids \ {r} : credits'[q] = credits[q]
      BY <2>1 DEF EffectsTypes
    <2>5. \A q \in Rids : credits'[q] >= credits[q] /\ credits[q] \in Nat
      BY <2>3, <2>4 DEF EffectsTypes
    <2>6. EffectsTypes' /\ Published' /\ Storing'
      BY <1>4, <2>2, <2>3, StoringKept, Zenon DEF EffectsTypes, Published, PublishedOnce, Moves
    <2>7. Claims'
      BY <1>4, <2>2, MovesKeepClaims, Zenon
    <2>8. Markers'
      BY <1>1, <1>4, <2>2 DEF Markers, Moves, Busy
    <2>9. Credits'
      <3>1. credits'[r] <= 1 + relapse[r]
        BY <1>1, <1>5, <2>3 DEF EffectsTypes
      <3>2. r \in finalized
        BY <1>1, <1>2 DEF Markers
      <3>3. CreditedOnce' /\ \A q \in Rids \ finalized' : credits'[q] = 0
        BY <1>4, <2>4, <3>1, <3>2, Zenon DEF Credits, CreditedOnce
      <3>4. ASSUME NEW q \in Rids, marker'[q] = "fresh"
            PROVE  credits'[q] <= relapse'[q] \/ \E j \in Workers : work'[j].pc = "flip" /\ work'[j].rid = q
        <4>1. CASE q = r
          BY <2>2, <4>1, Zenon DEF Moves
        <4>2. CASE q # r
          BY <1>4, <2>2, <2>4, <3>4, <4>2, ZenonT(40) DEF Credits, Moves
        <4> QED BY <4>1, <4>2
      <3> QED BY <3>3, <3>4, Zenon DEF Credits
    <2>10. Progress'
      <3>1. credits'[r] >= 1
        BY <1>1, <2>3 DEF EffectsTypes
      <3>2. \A q \in Rids : credits[q] >= 1 => credits'[q] >= 1
        BY <2>3, <2>5
      <3>3. \A j \in Workers : Busy(j) => work[j].rid \in Rids
        BY BusyJob, Zenon DEF Jobs
      <3>4. \A j \in Workers : Busy(j)' /\ work'[j].credited /\ Due(work[j].rid)' =>
               credits'[work'[j].rid] >= 1
        BY <1>40, <2>2, <3>1, <3>2, <3>3 DEF Progress, Moves, Busy
      <3>5. \A j \in Workers : work'[j].pc = "flip" => credits'[work'[j].rid] >= 1
        BY <1>3, <2>2, <3>1, <3>2, <3>3 DEF Progress, Moves
      <3>6. NotLost'
        BY <1>4, <1>40, <3>2, ZenonT(40) DEF Progress, NotLost
      <3>7. AllPaidOrListed'
        BY <1>3, <1>4, <1>40, <1>41, <2>2 DEF Progress, AllPaidOrListed, Moves
      <3> QED BY <1>4, <3>2, <3>4, <3>5, <3>6, <3>7 DEF Progress
    <2> QED BY <2>6, <2>7, <2>8, <2>9, <2>10
  <1> QED BY <1>6, <1>7

\* Without an attestation left, whoever had attested is out of reach.
LEMMA CreditWitnessesInv ==
    ASSUME EffectsInv, NEW k \in Workers, CreditWitnesses(k)
    PROVE  EffectsInv'
  <1>1. work[k].pc = "credit" /\ UNCHANGED <<settlers, reaped, blind>>
    BY Zenon DEF CreditWitnesses, CreditSeen
  <1>2. work[k].rid \in Rids /\ work'[k].rid = work[k].rid
    BY BusyJob DEF CreditWitnesses, CreditSeen, EffectsInv, EffectsTypes, Jobs
  <1>3. attestors[work[k].rid] = {} => ~Due(work[k].rid)'
    BY <1>1, <1>2 DEF EffectsInv, Progress, Due
  <1>4. blind' \subseteq Rids
    BY <1>1 DEF EffectsInv, EffectsTypes
  <1> QED BY <1>1, <1>3, <1>4, CreditSeenInv DEF CreditWitnesses

\* A worker that failed to read leaves its record among the excepted ones.
LEMMA CreditBlindInv ==
    ASSUME EffectsInv, NEW k \in Workers, CreditBlind(k)
    PROVE  EffectsInv'
  <1>1. work[k].pc = "credit" /\ blind' = blind \cup {work[k].rid}
    BY Zenon DEF CreditBlind, CreditSeen, Blinded
  <1>2. work[k].rid \in Rids /\ work'[k].rid = work[k].rid
    BY BusyJob DEF CreditBlind, CreditSeen, EffectsInv, EffectsTypes, Jobs
  <1>3. ~Due(work[k].rid)'
    BY <1>1, <1>2 DEF Due
  <1>4. blind \subseteq blind' /\ blind' \subseteq Rids
    BY <1>1, <1>2 DEF EffectsInv, EffectsTypes
  <1> QED BY <1>3, <1>4, CreditSeenInv DEF CreditBlind

\* The bit covers the credit that this worker applied.
LEMMA FlipInv ==
    ASSUME EffectsInv, NEW k \in Workers, Flip(k)
    PROVE  EffectsInv'
  <1> USE DEF EffectsInv
  <1> DEFINE r == work[k].rid
  <1>1. work[k] \in Jobs /\ Busy(k) /\ work[k].pc = "flip" /\ r \in Rids
    BY BusyJob, Zenon DEF Flip, Jobs
  <1>2. \A j \in Workers \ {k} : Busy(j) => work[j].rid # r /\ work[j].rid \in Rids
    BY <1>1, BusyJob DEF Claims, Jobs
  <1>3. \A j \in Workers : work[j].pc # "idle" => Busy(j)
    BY BusyJob
  <1>4. /\ UNCHANGED <<attestors, finalized, rewards, spawned, scanned, inflight, credits,
                       published, lapses, relapse, settlers, reaped, blind>>
        /\ marker' = [marker EXCEPT ![r] = "credited"]
        /\ work' = [work EXCEPT ![k].pc = "pay", ![k].credited = TRUE]
    BY DEF Flip
  <1>5. Moves(k) /\ work'[k].pc = "pay"
    BY <1>1, <1>4, Zenon DEF Moves, EffectsTypes, Jobs
  <1>6. marker' \in [Rids -> {"none", "fresh", "credited"}]
        /\ \A q \in Rids : marker'[q] = IF q = r THEN "credited" ELSE marker[q]
    BY <1>4, Zenon DEF EffectsTypes
  <1>7. EffectsTypes' /\ Published' /\ Storing'
    BY <1>4, <1>5, <1>6, StoringKept, Zenon DEF EffectsTypes, Published, PublishedOnce, Moves
  <1>8. Claims'
    BY <1>4, <1>5, MovesKeepClaims, Zenon
  <1>9. marker[r] # "none"
    BY <1>1, Zenon DEF Markers
  <1>10. Markers'
    BY <1>1, <1>2, <1>3, <1>4, <1>5, <1>6, <1>9 DEF Markers, Moves, Busy
  <1>11. Credits'
    BY <1>1, <1>4, <1>5, <1>6 DEF Credits, CreditedOnce, Moves
  <1>12. Progress'
    <2>1. credits[r] >= 1
      BY <1>1 DEF Progress
    <2>2. \A q \in Rids : marker'[q] = "credited" => credits[q] >= 1
      BY <1>6, <2>1, Zenon DEF Progress
    <2>3. \A j \in Workers : Busy(j)' /\ work'[j].credited /\ Due(work[j].rid)' =>
             credits[work'[j].rid] >= 1
      BY <1>4, <1>5, <2>1 DEF Progress, Moves, Busy, Due
    <2>4. NotLost'
      BY <1>4, <1>6, Zenon DEF Progress, NotLost, Owed, Due
    <2> QED BY <1>4, <1>5, <2>2, <2>3, <2>4, ZenonT(40) DEF Progress, AllPaidOrListed, Owed, Moves
  <1> QED BY <1>7, <1>8, <1>10, <1>11, <1>12

\* The lapse is counted, and the worker goes on as one that has not credited.
LEMMA FlipFailsInv ==
    ASSUME EffectsInv, NEW k \in Workers, FlipFails(k)
    PROVE  EffectsInv'
  <1> USE DEF EffectsInv
  <1> DEFINE r == work[k].rid
  <1>1. work[k] \in Jobs /\ Busy(k) /\ work[k].pc = "flip" /\ r \in Rids
    BY BusyJob DEF FlipFails, Jobs
  <1>2. /\ UNCHANGED <<attestors, finalized, marker, rewards, spawned, scanned, inflight, credits,
                       published, settlers, reaped, blind>>
        /\ relapse' = [relapse EXCEPT ![r] = @ + 1]
        /\ work' = [work EXCEPT ![k].pc = "pay"]
    BY DEF FlipFails
  <1>3. Moves(k) /\ work'[k].pc = "pay" /\ work'[k].credited = work[k].credited
    BY <1>1, <1>2 DEF Moves, EffectsTypes, Jobs
  <1>4. /\ relapse' \in [Rids -> Nat] /\ relapse'[r] = relapse[r] + 1
        /\ \A q \in Rids \ {r} : relapse'[q] = relapse[q]
    BY <1>1, <1>2 DEF EffectsTypes
  <1>5. EffectsTypes' /\ Published' /\ Storing'
    BY <1>2, <1>3, <1>4, StoringKept, Zenon DEF EffectsTypes, Published, PublishedOnce, Moves
  <1>6. Claims'
    BY <1>2, <1>3, MovesKeepClaims
  <1>7. Markers'
    BY <1>1, <1>2, <1>3 DEF Markers, Moves, Busy
  <1>8. Credits'
    <2>1. credits[r] <= 1 + relapse[r]
      BY <1>1, Zenon DEF Credits, CreditedOnce
    <2>2. credits[r] <= relapse'[r] /\ credits[r] <= 1 + relapse'[r]
      BY <1>1, <1>4, <2>1 DEF EffectsTypes
    <2> QED BY <1>1, <1>2, <1>3, <1>4, <2>2 DEF Credits, CreditedOnce, Moves
  <1>9. Progress'
    <2>1. NotLost' /\ AllPaidOrListed'
      BY <1>2, <1>3, Zenon DEF Progress, NotLost, AllPaidOrListed, Owed, Due, Moves
    <2>2. \A j \in Workers : Busy(j)' /\ work'[j].credited /\ Due(work[j].rid)' => credits'[work'[j].rid] >= 1
      BY <1>1, <1>2, <1>3 DEF Progress, Busy, Due, Moves
    <2> QED BY <1>2, <1>3, <2>1, <2>2, Zenon DEF Progress, Moves
  <1> QED BY <1>5, <1>6, <1>7, <1>8, <1>9
-----------------------------------------------------------------------------
(* The rewards *)

\* A step of distribute_rewards by k: it leaves the credit and the marker alone, takes no
\* reward back and, if it has failed nowhere, has paid or still lists all that is owed.
Pays(k) ==
    /\ Moves(k)
    /\ work[k].pc \in {"pay", "reward", "store"} /\ work'[k].pc \in {"reward", "store"}
    /\ work'[k].credited = work[k].credited
    /\ ~work'[k].failed =>
          \A w \in Owed(work[k].rid)' : <<work[k].rid, w>> \in rewards' \/ w \in work'[k].left
    /\ rewards \subseteq rewards'
    /\ blind \subseteq blind' /\ blind' \subseteq Rids
    /\ UNCHANGED <<attestors, finalized, marker, spawned, scanned, inflight, credits, relapse,
                   settlers, reaped>>

LEMMA PaysInv ==
    ASSUME EffectsInv, NEW k \in Workers, Pays(k), rewards' \subseteq Pairs,
           published' \in [Pairs -> Nat], Published', Storing'
    PROVE  EffectsInv'
  <1> USE DEF EffectsInv
  <1>1. Busy(k) /\ Busy(k)'
    BY IdleIsNoJob, Zenon DEF Pays, Moves, Busy
  <1>2. EffectsTypes'
    BY Zenon DEF EffectsTypes, Pays, Moves
  <1>3. Claims'
    BY MovesKeepClaims, Zenon DEF Pays
  <1>4. Markers'
    BY <1>1, Zenon DEF Markers, Pays, Moves, Busy
  <1>5. Credits'
    <2>1. UNCHANGED <<finalized, marker, credits, relapse>>
      BY Zenon DEF Pays
    <2>2. work[k].pc # "flip" /\ \A j \in Workers \ {k} : work'[j] = work[j]
      BY Zenon DEF Pays, Moves
    <2>3. \A r, j : j \in Workers /\ work[j].pc = "flip" /\ work[j].rid = r =>
                       work'[j].pc = "flip" /\ work'[j].rid = r
      BY <2>2, Zenon
    <2> QED BY <2>1, <2>3, Zenon DEF Credits, CreditedOnce
  <1>6. Progress'
    <2>10. \A q \in Rids : Owed(q)' \subseteq Owed(q) /\ (Due(q)' => Due(q))
      BY OwesLess, Zenon DEF Pays
    <2>11. \A j \in Workers : work[j].pc # "idle" => Busy(j) /\ work[j].rid \in Rids
      BY BusyJob, Zenon DEF Jobs
    <2>12. \A j \in Workers : Busy(j) => work[j].rid \in Rids
      BY BusyJob, Zenon DEF Jobs
    <2>1. \A j \in Workers : Busy(j)' /\ work'[j].credited /\ Due(work[j].rid)' =>
             credits'[work'[j].rid] >= 1
      <3>1. \A j \in Workers : /\ Busy(j)' => Busy(j)
                               /\ work'[j].credited = work[j].credited /\ work'[j].rid = work[j].rid
        BY <1>1, Zenon DEF Pays, Moves, Busy
      <3>2. UNCHANGED <<settlers, credits>>
        BY Zenon DEF Pays
      <3> QED BY <2>10, <2>12, <3>1, <3>2 DEF Progress
    <2>2. AllPaidOrListed'
      <3> SUFFICES ASSUME NEW j \in Workers, work'[j].pc \in {"reward", "store"}, ~work'[j].failed,
                          NEW w \in Owed(work[j].rid)'
                   PROVE  <<work'[j].rid, w>> \in rewards' \/ w \in work'[j].left
        BY Zenon DEF AllPaidOrListed
      <3>1. CASE j = k
        BY <3>1, Zenon DEF Pays, Moves
      <3>2. CASE j # k
        <4>1. work'[j] = work[j] /\ rewards \subseteq rewards'
          BY <3>2, Zenon DEF Pays, Moves
        <4>2. w \in Owed(work[j].rid)
          BY <2>10, <2>11, <4>1
        <4> QED BY <4>1, <4>2 DEF Progress, AllPaidOrListed
      <3> QED BY <3>1, <3>2
    <2>3. NotLost'
      <3>1. UNCHANGED <<marker, credits>> /\ rewards \subseteq rewards'
        BY Zenon DEF Pays
      <3> QED BY <2>10, <3>1, Zenon DEF Progress, NotLost
    <2>4. \A j \in Workers : work'[j].pc = "flip" => credits'[work'[j].rid] >= 1
      BY Zenon DEF Progress, Pays, Moves
    <2> QED BY <2>1, <2>2, <2>3, <2>4, Zenon DEF Progress, Pays
  <1> QED BY <1>2, <1>3, <1>4, <1>5, <1>6, Zenon

LEMMA PaySeenInv ==
    ASSUME EffectsInv, NEW k \in Workers, NEW seen \in SUBSET Witnesses, NEW b \in Nat,
           PaySeen(k, seen, b), blind \subseteq blind', blind' \subseteq Rids,
           Owed(work[k].rid)' \subseteq seen \ {GenesisHash}
    PROVE  EffectsInv'
  <1> USE DEF EffectsInv
  <1> DEFINE l == seen \ {GenesisHash}
  <1>1. work[k] \in Jobs /\ work[k].pc = "pay"
    BY BusyJob DEF PaySeen
  <1>2. l \in SUBSET Witnesses /\ Owed(work[k].rid)' \subseteq l
    OBVIOUS
  <1>3. work' = [work EXCEPT ![k].pc = "reward", ![k].budget = b, ![k].left = l]
    BY Zenon DEF PaySeen
  <1> HIDE DEF l
  <1>4. Moves(k) /\ work'[k].pc = "reward" /\ work'[k].credited = work[k].credited /\ work'[k].left = l
    BY <1>1, <1>2, <1>3, Zenon DEF Moves, EffectsTypes, Jobs
  <1>5. UNCHANGED <<attestors, finalized, marker, rewards, published, spawned, scanned, inflight,
                    credits, relapse, settlers, reaped>>
    BY Zenon DEF PaySeen
  <1>6. Pays(k)
    BY <1>1, <1>2, <1>4, <1>5, Zenon DEF Pays
  <1>7. Storing'
    BY <1>4, <1>5, StoringKept, Zenon DEF Moves
  <1>8. rewards' \subseteq Pairs /\ published' \in [Pairs -> Nat] /\ Published'
    BY <1>5, Zenon DEF EffectsTypes, Published, PublishedOnce
  <1> QED BY <1>6, <1>7, <1>8, PaysInv

LEMMA ReadBudgetInv ==
    ASSUME EffectsInv, NEW k \in Workers, NEW b \in 0..MaxBudget, ReadBudget(k, b)
    PROVE  EffectsInv'
  <1>1. work[k].pc = "pay" /\ UNCHANGED <<settlers, reaped, blind>>
    BY Zenon DEF ReadBudget, PaySeen
  <1>2. work[k].rid \in Rids /\ work'[k].rid = work[k].rid
    BY BusyJob DEF ReadBudget, PaySeen, EffectsInv, EffectsTypes, Jobs
  <1>3. Owed(work[k].rid)' \subseteq attestors[work[k].rid] \ {GenesisHash}
    BY <1>1, <1>2 DEF EffectsInv, Progress, Owed
  <1>4. attestors[work[k].rid] \in SUBSET Witnesses /\ blind' \subseteq Rids
    BY <1>1, <1>2 DEF EffectsInv, EffectsTypes
  <1>5. b \in Nat
    BY EffectsConstants
  <1> QED BY <1>1, <1>3, <1>4, <1>5, PaySeenInv DEF ReadBudget

LEMMA ReadBlindInv ==
    ASSUME EffectsInv, NEW k \in Workers, ReadBlind(k)
    PROVE  EffectsInv'
  <1>1. work[k].pc = "pay" /\ blind' = blind \cup {work[k].rid}
    BY Zenon DEF ReadBlind, PaySeen, Blinded
  <1>2. work[k].rid \in Rids /\ work'[k].rid = work[k].rid
    BY BusyJob DEF ReadBlind, PaySeen, EffectsInv, EffectsTypes, Jobs
  <1>3. Owed(work[k].rid)' = {}
    BY <1>1, <1>2 DEF Owed
  <1>4. blind \subseteq blind' /\ blind' \subseteq Rids
    BY <1>1, <1>2 DEF EffectsInv, EffectsTypes
  <1> QED BY <1>3, <1>4, PaySeenInv DEF ReadBlind

\* The job of k after it has passed over w, or has failed to pay it.
LEMMA PassedOver ==
    ASSUME EffectsInv, NEW k \in Workers, work[k].pc \in {"reward", "store"}, NEW w,
           Moves(k), work'[k].pc = "reward", work'[k].credited = work[k].credited,
           work'[k].left = work[k].left \ {w},
           work'[k].failed \/ /\ ~work[k].failed
                              /\ w \in Owed(work[k].rid) => <<work[k].rid, w>> \in rewards,
           UNCHANGED <<attestors, finalized, marker, rewards, published, spawned, scanned, inflight,
                       credits, relapse, settlers, reaped, blind>>
    PROVE  EffectsInv'
  <1> USE DEF EffectsInv
  <1>1. Owed(work[k].rid)' = Owed(work[k].rid)
    BY Zenon DEF Owed, Moves
  <1>2. blind' \subseteq Rids
    BY Zenon DEF EffectsTypes
  <1>3. Pays(k)
    BY <1>1, <1>2, ZenonT(40) DEF Pays, Progress, AllPaidOrListed
  <1>4. rewards' \subseteq Pairs /\ published' \in [Pairs -> Nat] /\ Published'
    BY Zenon DEF EffectsTypes, Published, PublishedOnce
  <1>5. Storing'
    BY StoringKept, Zenon DEF Moves
  <1> QED BY <1>3, <1>4, <1>5, PaysInv

LEMMA RewardFailsInv ==
    ASSUME EffectsInv, NEW k \in Workers, RewardFails(k)
    PROVE  EffectsInv'
  <1> USE DEF EffectsInv
  <1>1. work[k] \in Jobs /\ work[k].pc = "store"
    BY BusyJob DEF RewardFails
  <1>2. work' = [work EXCEPT ![k].pc = "reward", ![k].left = @ \ {work[k].wit},
                             ![k].wit = GenesisHash, ![k].failed = TRUE]
    BY Zenon DEF RewardFails
  <1>3. /\ Moves(k) /\ work'[k].pc = "reward" /\ work'[k].credited = work[k].credited
        /\ work'[k].left = work[k].left \ {work[k].wit} /\ work'[k].failed
    BY <1>1, <1>2, ZenonT(40) DEF Moves, EffectsTypes, Jobs
  <1> QED BY <1>1, <1>3, PassedOver, Zenon DEF RewardFails

LEMMA CheckRewardInv ==
    ASSUME EffectsInv, NEW k \in Workers, NEW w \in Witnesses, CheckReward(k, w)
    PROVE  EffectsInv'
  <1> USE DEF EffectsInv
  <1> DEFINE r == work[k].rid
  <1>1. work[k] \in Jobs /\ work[k].pc = "reward" /\ r \in Rids
    BY BusyJob DEF CheckReward, Jobs
  <1>2. UNCHANGED <<attestors, finalized, marker, rewards, published, spawned, scanned, inflight,
                    credits, relapse, settlers, reaped, blind>>
    BY Zenon DEF CheckReward
  <1>3. CASE Paid(r, w) \/ w \in Worthless
    <2>1. work' = [work EXCEPT ![k].left = @ \ {w}]
      BY <1>3, Zenon DEF CheckReward
    <2>2. w \in Owed(r) => <<r, w>> \in rewards
      BY <1>3 DEF Owed, Paid
    <2>3. /\ Moves(k) /\ work'[k].pc = "reward" /\ work'[k].credited = work[k].credited
          /\ work'[k].left = work[k].left \ {w} /\ work'[k].failed = work[k].failed
      BY <1>1, <2>1 DEF Moves, EffectsTypes, Jobs
    <2>4. work'[k].failed \/ (~work[k].failed /\ (w \in Owed(r) => <<r, w>> \in rewards))
      BY <2>2, <2>3
    <2> QED BY <1>1, <1>2, <2>3, <2>4, PassedOver, Zenon
  <1>4. CASE ~(Paid(r, w) \/ w \in Worthless) /\ work[k].budget = 0
    <2>1. work' = [work EXCEPT ![k].left = @ \ {w}, ![k].failed = TRUE]
      BY <1>4, Zenon DEF CheckReward
    <2>2. /\ Moves(k) /\ work'[k].pc = "reward" /\ work'[k].credited = work[k].credited
          /\ work'[k].left = work[k].left \ {w} /\ work'[k].failed
      BY <1>1, <2>1, ZenonT(40) DEF Moves, EffectsTypes, Jobs
    <2> QED BY <1>1, <1>2, <2>2, PassedOver, Zenon
  <1>5. CASE ~(Paid(r, w) \/ w \in Worthless) /\ work[k].budget # 0
    <2>1. work' = [work EXCEPT ![k].pc = "store", ![k].wit = w]
      BY <1>5, Zenon DEF CheckReward
    <2>2. /\ Moves(k) /\ work'[k].pc = "store" /\ work'[k].wit = w
          /\ work'[k].credited = work[k].credited /\ work'[k].failed = work[k].failed
          /\ work'[k].left = work[k].left /\ work'[k].budget = work[k].budget
      BY <1>1, <2>1, ZenonT(40) DEF Moves, EffectsTypes, Jobs
    <2>3. Storing'
      <3>1. <<r, w>> \notin rewards /\ work'[k].rid = r
        BY <1>5, <2>2 DEF Paid, Moves
      <3> QED BY <1>2, <1>5, <2>2, <3>1, Zenon DEF Storing, Moves
    <2>4. Owed(r)' = Owed(r)
      BY <1>2, <2>2, Zenon DEF Owed, Moves
    <2>5. blind' \subseteq Rids
      BY <1>2, Zenon DEF EffectsTypes
    <2>6. Pays(k)
      BY <1>1, <1>2, <2>2, <2>4, <2>5, ZenonT(40) DEF Pays, Progress, AllPaidOrListed
    <2>7. rewards' \subseteq Pairs /\ published' \in [Pairs -> Nat] /\ Published'
      BY <1>2, Zenon DEF EffectsTypes, Published, PublishedOnce
    <2> QED BY <2>3, <2>6, <2>7, PaysInv
  <1> QED BY <1>3, <1>4, <1>5, Zenon

\* The claim kept every other worker away from the record since k looked.
LEMMA StoreRewardInv ==
    ASSUME EffectsInv, NEW k \in Workers, StoreReward(k)
    PROVE  EffectsInv'
  <1> USE DEF EffectsInv
  <1> DEFINE r == work[k].rid
             w == work[k].wit
             x == <<r, w>>
  <1>1. work[k] \in Jobs /\ Busy(k) /\ work[k].pc = "store" /\ r \in Rids /\ work[k].budget \in Nat
    BY BusyJob DEF StoreReward, Jobs
  <1>2. w \in Witnesses /\ work[k].budget # 0 /\ x \notin rewards
    BY <1>1, Zenon DEF Storing
  <1>3. /\ work' = [work EXCEPT ![k].pc = "reward", ![k].left = @ \ {w},
                                ![k].wit = GenesisHash, ![k].budget = @ - 1]
        /\ rewards' = rewards \cup {x}
        /\ published' = [published EXCEPT ![x] = @ + 1]
    BY Zenon DEF StoreReward
  <1>30. UNCHANGED <<attestors, finalized, marker, spawned, scanned, inflight, credits, relapse,
                     settlers, reaped, blind>>
    BY Zenon DEF StoreReward
  <1>4. x \in Pairs \ rewards /\ work[k].budget - 1 \in Nat
    BY <1>1, <1>2 DEF Pairs
  <1>5. Moves(k) /\ work'[k].pc = "reward" /\ work'[k].credited = work[k].credited
        /\ work'[k].left = work[k].left \ {w} /\ work'[k].failed = work[k].failed
    BY <1>1, <1>3, <1>4 DEF Moves, EffectsTypes, Jobs
  <1>6. Owed(r)' = Owed(r)
    BY <1>30, <1>5, Zenon DEF Owed, Moves
  <1>7. blind' \subseteq Rids
    BY <1>30, Zenon DEF EffectsTypes
  <1>8. Pays(k)
    BY <1>1, <1>3, <1>30, <1>5, <1>6, <1>7, ZenonT(40) DEF Pays, Progress, AllPaidOrListed
  <1>9. Storing'
    <2>1. \A j \in Workers \ {k} : work[j].pc = "store" => work[j].rid # r
      BY <1>1, BusyJob, Zenon DEF Claims
    <2>2. \A j \in Workers \ {k} : work'[j] = work[j]
      BY <1>5, Zenon DEF Moves
    <2>3. rewards' = rewards \cup {x} /\ work'[k].pc = "reward"
      BY <1>3, <1>5, Zenon
    <2>4. ASSUME NEW j \in Workers, work'[j].pc = "store"
          PROVE  /\ work[j].wit \in Witnesses /\ work[j].budget # 0
                 /\ <<work[j].rid, work[j].wit>> \notin rewards'
      <3>1. j # k /\ work[j].pc = "store"
        BY <2>2, <2>3, <2>4
      <3>2. <<work[j].rid, work[j].wit>> # x
        BY <2>1, <3>1
      <3> QED BY <2>3, <3>1, <3>2, Zenon DEF Storing
    <2> QED BY <2>2, <2>3, <2>4 DEF Storing
  <1> HIDE DEF x
  <1>10. published[x] = 0
    BY <1>4 DEF Published
  <1>11. published' \in [Pairs -> Nat] /\ rewards' \subseteq Pairs
    BY <1>3, <1>4, <1>10 DEF EffectsTypes
  <1>12. Published'
    BY <1>3, <1>4, <1>10 DEF EffectsTypes, Published, PublishedOnce
  <1> QED BY <1>8, <1>9, <1>11, <1>12, PaysInv, Zenon
-----------------------------------------------------------------------------
(* The end of a worker *)

\* A worker that ends gives back its claim, and no other had it.
LEMMA EndKeepsClaims ==
    ASSUME EffectsTypes, Claims, NEW k \in Workers, Busy(k),
           work' = [work EXCEPT ![k] = Idle], inflight' = inflight \ {work[k].rid}
    PROVE  /\ Claims' /\ inflight' \subseteq Rids
           /\ work' \in [Workers -> Jobs \cup {Idle}]
           /\ ~Busy(k)' /\ work'[k].pc = "idle"
           /\ \A j \in Workers \ {k} : work'[j] = work[j]
  <1>1. /\ work' \in [Workers -> Jobs \cup {Idle}] /\ work'[k] = Idle
        /\ \A j \in Workers \ {k} : work'[j] = work[j]
    BY DEF EffectsTypes
  <1>2. inflight' \subseteq Rids
    BY Zenon DEF EffectsTypes
  <1>3. Claims'
    BY <1>1 DEF Claims, ClaimsHeld, Busy
  <1> QED BY <1>1, <1>2, <1>3, IdleIsNoJob, Zenon DEF Busy

\* The marker goes only when the credit is applied and all that is owed is paid.
LEMMA FinishInv ==
    ASSUME EffectsInv, NEW k \in Workers, Finish(k)
    PROVE  EffectsInv'
  <1> USE DEF EffectsInv
  <1> DEFINE r == work[k].rid
  <1>1. work[k] \in Jobs /\ Busy(k) /\ work[k].pc = "reward" /\ work[k].left = {} /\ r \in Rids
    BY BusyJob, Zenon DEF Finish, Jobs
  <1>2. \A j \in Workers \ {k} : Busy(j) => work[j].rid # r /\ work[j].rid \in Rids
    BY <1>1, BusyJob DEF Claims, Jobs
  <1>3. \A j \in Workers : work[j].pc # "idle" => Busy(j)
    BY BusyJob
  <1>4. /\ UNCHANGED <<attestors, finalized, rewards, spawned, scanned, credits, published, lapses,
                       relapse, settlers, reaped, blind>>
        /\ marker' = IF Complete(work[k]) THEN [marker EXCEPT ![r] = "none"] ELSE marker
        /\ work' = [work EXCEPT ![k] = Idle] /\ inflight' = inflight \ {r}
    BY Zenon DEF Finish
  <1>5. /\ Claims' /\ inflight' \subseteq Rids /\ work' \in [Workers -> Jobs \cup {Idle}]
        /\ ~Busy(k)' /\ work'[k].pc = "idle" /\ \A j \in Workers \ {k} : work'[j] = work[j]
    BY <1>1, <1>4, EndKeepsClaims, Zenon
  <1>6. marker' \in [Rids -> {"none", "fresh", "credited"}]
        /\ \A q \in Rids : marker'[q] = IF q = r /\ Complete(work[k]) THEN "none" ELSE marker[q]
    BY <1>4, ZenonT(40) DEF EffectsTypes
  <1>7. EffectsTypes' /\ Published' /\ Storing'
    BY <1>4, <1>5, <1>6, StoringKept, Zenon DEF EffectsTypes, Published, PublishedOnce
  <1>8. Markers'
    BY <1>2, <1>3, <1>4, <1>5, <1>6 DEF Markers, Busy
  <1>9. Credits'
    <2>1. \A q \in Rids : marker'[q] = "fresh" => marker[q] = "fresh"
      BY <1>6, Zenon
    <2>2. \A j \in Workers : work[j].pc = "flip" => work'[j].pc = "flip" /\ work'[j].rid = work[j].rid
      BY <1>1, <1>5, Zenon
    <2>3. UNCHANGED <<credits, relapse, finalized>>
      BY <1>4, Zenon
    <2>4. CreditedOnce' /\ \A q \in Rids \ finalized' : credits'[q] = 0
      BY <2>3, Zenon DEF Credits, CreditedOnce
    <2>5. ASSUME NEW q \in Rids, marker'[q] = "fresh"
          PROVE  credits'[q] <= relapse'[q] \/ \E j \in Workers : work'[j].pc = "flip" /\ work'[j].rid = q
      <3>1. credits[q] <= relapse[q] \/ \E j \in Workers : work[j].pc = "flip" /\ work[j].rid = q
        BY <2>1, <2>5 DEF Credits
      <3> QED BY <2>2, <2>3, <3>1, Zenon
    <2> QED BY <2>4, <2>5, Zenon DEF Credits
  <1>10. Progress'
    <2>1. Complete(work[k]) => (Due(r) => credits[r] >= 1) /\ \A w \in Owed(r) : <<r, w>> \in rewards
      BY <1>1, ZenonT(40) DEF Progress, AllPaidOrListed, Complete
    <2>2. NotLost'
      BY <1>4, <1>6, <2>1, Zenon DEF Progress, NotLost, Owed, Due
    <2>3. AllPaidOrListed'
      BY <1>4, <1>5, Zenon DEF Progress, AllPaidOrListed, Owed
    <2>4. \A j \in Workers : Busy(j)' /\ work'[j].credited /\ Due(work[j].rid)' =>
             credits[work'[j].rid] >= 1
      BY <1>4, <1>5, Zenon DEF Progress, Busy, Due
    <2> QED BY <1>4, <1>5, <1>6, <2>2, <2>3, <2>4, ZenonT(40) DEF Progress
  <1> QED BY <1>5, <1>7, <1>8, <1>9, <1>10, Zenon

\* A lapse is counted for every record whose credit had no bit yet.
LEMMA LapseCounts ==
    ASSUME EffectsTypes, NEW K \in SUBSET Workers,
           relapse' = [r \in Rids |-> relapse[r] + IF r \in Uncredited(K) THEN 1 ELSE 0]
    PROVE  /\ relapse' \in [Rids -> Nat]
           /\ \A r \in Rids : relapse'[r] >= relapse[r]
           /\ \A k \in K : work[k].pc = "flip" => relapse'[work[k].rid] = relapse[work[k].rid] + 1
  <1>1. \A r \in Rids : relapse[r] \in Nat /\ relapse'[r] = relapse[r] + IF r \in Uncredited(K) THEN 1 ELSE 0
    BY Zenon DEF EffectsTypes
  <1>2. \A k \in K : work[k].pc = "flip" => work[k].rid \in Rids /\ work[k].rid \in Uncredited(K)
    BY BusyJob, Zenon DEF Uncredited, Jobs
  <1> QED BY <1>1, <1>2

LEMMA PanicInv ==
    ASSUME EffectsInv, NEW k \in Workers, Panic(k)
    PROVE  EffectsInv'
  <1> USE DEF EffectsInv
  <1> DEFINE r == work[k].rid
  <1>1. work[k] \in Jobs /\ Busy(k) /\ r \in Rids
    BY BusyJob, Zenon DEF Panic, Busy, Jobs
  <1>2. /\ UNCHANGED <<attestors, finalized, marker, rewards, spawned, scanned, credits, published, settlers, reaped, blind>>
        /\ relapse' = [q \in Rids |-> relapse[q] + IF q \in Uncredited({k}) THEN 1 ELSE 0]
        /\ work' = [work EXCEPT ![k] = Idle] /\ inflight' = inflight \ {r}
    BY DEF Panic, Released
  <1>3. /\ Claims' /\ inflight' \subseteq Rids /\ work' \in [Workers -> Jobs \cup {Idle}]
        /\ ~Busy(k)' /\ work'[k].pc = "idle" /\ \A j \in Workers \ {k} : work'[j] = work[j]
    BY <1>1, <1>2, EndKeepsClaims, Zenon
  <1>4. /\ relapse' \in [Rids -> Nat] /\ \A q \in Rids : relapse'[q] >= relapse[q]
        /\ work[k].pc = "flip" => relapse'[r] = relapse[r] + 1
    BY <1>2, LapseCounts, ZenonT(40)
  <1>5. EffectsTypes' /\ Published' /\ Storing'
    BY <1>2, <1>3, <1>4, StoringKept, Zenon DEF EffectsTypes, Published, PublishedOnce
  <1>6. Markers'
    BY <1>2, <1>3, Zenon DEF Markers, Busy
  <1>7. Credits'
    <2>1. \A q \in Rids : credits[q] \in Nat /\ relapse[q] \in Nat /\ relapse'[q] \in Nat
      BY <1>4, Zenon DEF EffectsTypes
    <2>2. \A q \in Rids : credits[q] <= 1 + relapse'[q]
      BY <1>4, <2>1 DEF Credits, CreditedOnce
    <2>3. work[k].pc = "flip" => credits[r] <= relapse'[r]
      BY <1>1, <1>4, <2>1 DEF Credits, CreditedOnce
    <2>4. \A q \in Rids : credits[q] <= relapse[q] => credits[q] <= relapse'[q]
      BY <1>4, <2>1
    <2>5. \A q \in Rids : marker[q] = "fresh" =>
             credits[q] <= relapse'[q] \/ \E j \in Workers : work'[j].pc = "flip" /\ work'[j].rid = q
      <3> SUFFICES ASSUME NEW q \in Rids, marker[q] = "fresh", ~(credits[q] <= relapse'[q])
                   PROVE  \E j \in Workers : work'[j].pc = "flip" /\ work'[j].rid = q
        BY Zenon
      <3>1. PICK j \in Workers : work[j].pc = "flip" /\ work[j].rid = q
        BY <2>4, Zenon DEF Credits
      <3>2. j # k
        BY <2>3, <3>1
      <3> QED BY <1>3, <3>1, <3>2, Zenon
    <2> QED BY <1>2, <2>2, <2>5, ZenonT(40) DEF Credits, CreditedOnce
  <1>8. Progress'
    BY <1>2, <1>3, Zenon DEF Progress, NotLost, Busy, AllPaidOrListed, Owed, Due
  <1> QED BY <1>3, <1>5, <1>6, <1>7, <1>8

LEMMA CrashInv ==
    ASSUME EffectsInv, Crash
    PROVE  EffectsInv'
  <1> USE DEF EffectsInv
  <1>1. /\ UNCHANGED <<attestors, finalized, marker, rewards, credits, published, settlers, reaped, blind>>
        /\ relapse' = [q \in Rids |-> relapse[q] + IF q \in Uncredited(Workers) THEN 1 ELSE 0]
        /\ work' = [k \in Workers |-> Idle]
        /\ inflight' = {} /\ spawned' = {} /\ scanned' = {}
    BY DEF Crash
  <1>2. \A k \in Workers : ~Busy(k)' /\ work'[k].pc = "idle"
    BY <1>1, IdleIsNoJob DEF Busy
  <1>3. /\ relapse' \in [Rids -> Nat] /\ \A q \in Rids : relapse'[q] >= relapse[q]
        /\ \A k \in Workers : work[k].pc = "flip" => relapse'[work[k].rid] = relapse[work[k].rid] + 1
    BY <1>1, LapseCounts, Zenon
  <1>4. EffectsTypes' /\ Published' /\ Storing'
    BY <1>1, <1>2, <1>3, StoringKept, Zenon DEF EffectsTypes, Published, PublishedOnce
  <1>5. Claims' /\ Markers'
    BY <1>1, <1>2, ZenonT(40) DEF Claims, ClaimsHeld, Markers
  <1>6. Credits'
    <2>1. \A q \in Rids : credits[q] \in Nat /\ relapse[q] \in Nat /\ relapse'[q] \in Nat
      BY <1>3, Zenon DEF EffectsTypes
    <2>2. \A q \in Rids : credits[q] <= 1 + relapse'[q]
      BY <1>3, <2>1 DEF Credits, CreditedOnce
    <2>3. \A q \in Rids : marker[q] = "fresh" => credits[q] <= relapse'[q]
      <3> SUFFICES ASSUME NEW q \in Rids, marker[q] = "fresh" PROVE credits[q] <= relapse'[q]
        BY Zenon
      <3>1. CASE credits[q] <= relapse[q]
        BY <1>3, <2>1, <3>1
      <3>2. CASE \E k \in Workers : work[k].pc = "flip" /\ work[k].rid = q
        BY <1>3, <2>1, <3>2 DEF Credits, CreditedOnce
      <3> QED BY <3>1, <3>2, Zenon DEF Credits
    <2> QED BY <1>1, <2>2, <2>3, Zenon DEF Credits, CreditedOnce
  <1>7. Progress'
    BY <1>1, <1>2, Zenon DEF Progress, NotLost, AllPaidOrListed, Owed, Due
  <1> QED BY <1>4, <1>5, <1>6, <1>7
-----------------------------------------------------------------------------
(* The theorems on effects *)

LEMMA EffectsKept == ASSUME EffectsInv, [EffectsNext]_feVars PROVE EffectsInv'
  <1>1. CASE UNCHANGED feVars
    <2> USE <1>1 DEF EffectsInv, feVars
    <2>1. EffectsTypes' /\ Claims' /\ Markers'
      BY Zenon DEF EffectsTypes, Claims, ClaimsHeld, Markers, Busy
    <2>2. Credits' /\ Published' /\ Storing'
      BY Zenon DEF Credits, CreditedOnce, Published, PublishedOnce, Storing
    <2>3. Progress'
      BY Zenon DEF Progress, NotLost, Busy, AllPaidOrListed, Owed, Due
    <2> QED BY <2>1, <2>2, <2>3
  <1>2. ASSUME NEW k \in Workers, EffectsStep(k) PROVE EffectsInv'
    BY <1>2, BeginInv, CreditWitnessesInv, FlipInv, ReadBudgetInv, CheckRewardInv, StoreRewardInv,
       FinishInv, Zenon DEF EffectsStep
  <1>3. ASSUME NEW k \in Workers, EffectsLapse(k) PROVE EffectsInv'
    BY <1>3, CreditBlindInv, FlipFailsInv, ReadBlindInv, RewardFailsInv, PanicInv, Zenon DEF EffectsLapse
  <1> QED
    BY <1>1, <1>2, <1>3, StoreAttestationInv, ReapAttestationInv, InsertMarkedInv, InsertPlainInv,
       InsertFailsInv, ScanInv, CrashInv, Zenon DEF EffectsNext

\* Whatever tasks, sweeps, panics and restarts do, the witnesses of a record are credited
\* at most once more than there were credits whose bit was not made durable
\* (process_finalization_effect).
THEOREM EffectsCreditedOnce == EffectsSpec => []CreditedOnce
  <1>1. EffectsInv => CreditedOnce
    BY DEF EffectsInv, Credits
  <1> QED BY <1>1, EffectsInitially, EffectsKept, PTL DEF EffectsSpec

\* No reward is published twice, though the look-up and the store are two steps: the
\* claim on the record spans them (distribute_rewards, claim_inflight).
THEOREM EffectsPublishedOnce == EffectsSpec => []PublishedOnce
  <1>1. EffectsInv => PublishedOnce
    BY DEF EffectsInv, Published
  <1> QED BY <1>1, EffectsInitially, EffectsKept, PTL DEF EffectsSpec

\* A marker that is gone leaves its effects behind, but for the witnesses whose
\* attestation was deleted meanwhile and the records whose attestations a worker failed
\* to read (process_finalization_effect, clear_pending_effect, durable_attestors).
THEOREM EffectsSurvive == EffectsSpec => []EffectsNotLost
  <1>1. EffectsInv => EffectsNotLost
    BY DEF EffectsInv, Progress, NotLost, EffectsNotLost, Owed, Due
  <1> QED BY <1>1, EffectsInitially, EffectsKept, PTL DEF EffectsSpec

\* No claim outlives its worker (claim_inflight, InflightGuard).
THEOREM EffectsClaimsHeld == EffectsSpec => []ClaimsHeld
  <1>1. EffectsInv => ClaimsHeld
    BY Zenon DEF EffectsInv, Claims
  <1> QED BY <1>1, EffectsInitially, EffectsKept, PTL DEF EffectsSpec
-----------------------------------------------------------------------------
(* The index *)

\* Every id that is durable or in memory has been counted.
IndexInv ==
    /\ finalized \subseteq Rids /\ hot \in Seq(Rids) /\ Len(hot) <= Capacity
    /\ total \in Nat /\ Cardinality(finalized \cup Elems(hot)) <= total

\* A count that covers a set covers what has grown by r, when r was counted.
LEMMA CountCovers ==
    ASSUME NEW D, IsFiniteSet(D), NEW E, NEW r, E \subseteq D \cup {r}, NEW n \in Nat,
           Cardinality(D) <= n
    PROVE  /\ r \in D => Cardinality(E) <= n
           /\ Cardinality(E) <= n + 1
  <1>1. /\ IsFiniteSet(D \cup {r}) /\ Cardinality(D) \in Nat
        /\ Cardinality(D \cup {r}) = IF r \in D THEN Cardinality(D) ELSE Cardinality(D) + 1
    BY FS_AddElement, FS_CardinalityType, Zenon
  <1>2. Cardinality(E) <= Cardinality(D \cup {r}) /\ Cardinality(E) \in Nat
    BY <1>1, FS_Subset, FS_CardinalityType, Zenon
  <1> QED BY <1>1, <1>2

LEMMA HotWithType ==
    ASSUME NEW h \in Seq(Rids), Len(h) <= Capacity, NEW r \in Rids
    PROVE  /\ HotWith(h, r) \in Seq(Rids)
           /\ Len(HotWith(h, r)) <= Capacity
           /\ Elems(HotWith(h, r)) \subseteq Elems(h) \cup {r}
  <1>1. CASE r \in Elems(h)
    BY <1>1, Zenon DEF HotWith
  <1>2. CASE r \notin Elems(h) /\ Len(h) >= Capacity
    <2>1. h # <<>>
      BY <1>2, EffectsConstants
    <2>2. /\ Tail(h) \in Seq(Rids) /\ Len(Tail(h)) = Len(h) - 1
          /\ \A k \in 1..Len(h) - 1 : Tail(h)[k] = h[k + 1]
      BY <2>1
    <2>3. HotWith(h, r) = Append(Tail(h), r)
      BY <1>2 DEF HotWith
    <2>4. Len(h) = Capacity /\ Capacity \in Nat
      BY <1>2, EffectsConstants
    <2>5. \A k \in 1..Len(h) - 1 : Tail(h)[k] \in Elems(h)
      BY <2>2 DEF Elems
    <2>6. /\ HotWith(h, r) \in Seq(Rids) /\ Len(HotWith(h, r)) = Len(h)
          /\ \A k \in 1..Len(h) : HotWith(h, r)[k] = IF k = Len(h) THEN r ELSE Tail(h)[k]
      BY ONLY <2>2, <2>3, <2>4, r \in Rids
    <2>7. Elems(HotWith(h, r)) \subseteq Elems(h) \cup {r}
      BY ONLY <2>4, <2>5, <2>6 DEF Elems
    <2> QED BY ONLY <2>4, <2>6, <2>7
  <1>3. CASE r \notin Elems(h) /\ ~(Len(h) >= Capacity)
    BY <1>3, EffectsConstants DEF HotWith, Elems
  <1> QED BY <1>1, <1>2, <1>3

\* An id in neither tier is counted, and one that was evicted is not counted again.
LEMMA InsertCounts ==
    ASSUME IndexInv, NEW r \in Rids, finalized' \subseteq finalized \cup {r}, hot' = HotWith(hot, r),
           total' = IF IsFirst(r) THEN total + 1 ELSE total
    PROVE  IndexInv'
  <1> DEFINE D == finalized \cup Elems(hot)
             E == finalized' \cup Elems(hot')
  <1>1. /\ hot' \in Seq(Rids) /\ Len(hot') <= Capacity
        /\ Elems(hot') \subseteq Elems(hot) \cup {r}
    BY HotWithType, Zenon DEF IndexInv
  <1>2. IsFiniteSet(D)
    <2>1. Elems(hot) \subseteq Rids
      BY DEF IndexInv, Elems
    <2> QED BY <2>1, EffectsConstants, FS_Subset DEF IndexInv
  <1>3. E \subseteq D \cup {r} /\ finalized' \subseteq Rids
    BY <1>1 DEF IndexInv
  <1>4. total \in Nat /\ Cardinality(D) <= total
    BY Zenon DEF IndexInv
  <1>5. IsFirst(r) <=> r \notin D
    BY DEF IsFirst, IsNew
  <1> HIDE DEF D, E
  <1>6. (r \in D => Cardinality(E) <= total) /\ Cardinality(E) <= total + 1
    BY <1>2, <1>3, <1>4, CountCovers, Zenon
  <1>7. total' \in Nat /\ Cardinality(E) <= total'
    BY <1>4, <1>5, <1>6
  <1> QED BY <1>1, <1>3, <1>7, Zenon DEF IndexInv, E

LEMMA ReloadsType ==
    ASSUME IndexInv, NEW h \in Reloads
    PROVE  h \in Seq(Rids) /\ Len(h) <= Capacity /\ Elems(h) \subseteq finalized
  <1>1. PICK n \in 0..Capacity : h \in [1..n -> finalized]
    BY DEF Reloads
  <1>2. h \in Seq(finalized) /\ Len(h) = n
    BY <1>1, EffectsConstants
  <1> QED BY <1>1, <1>2, EffectsConstants DEF IndexInv, Elems

LEMMA IndexStep == ASSUME IndexInv, [EffectsNext]_feVars PROVE IndexInv'
  <1>1. CASE UNCHANGED <<finalized, hot, total>>
    BY <1>1 DEF IndexInv, Elems
  <1>2. ASSUME NEW r \in Rids,
               InsertMarked(r) \/ InsertPlain(r) \/ \E marked \in BOOLEAN : InsertFails(r, marked)
        PROVE  IndexInv'
    <2>1. /\ finalized' \subseteq finalized \cup {r} /\ hot' = HotWith(hot, r)
          /\ total' = IF IsFirst(r) THEN total + 1 ELSE total
      BY <1>2 DEF InsertMarked, InsertPlain, InsertFails
    <2> QED BY <2>1, InsertCounts, Zenon
  <1>3. CASE Crash
    <2>1. finalized' = finalized /\ total' = Cardinality(finalized) /\ hot' \in Reloads
      BY <1>3 DEF Crash
    <2>2. hot' \in Seq(Rids) /\ Len(hot') <= Capacity /\ finalized' \cup Elems(hot') = finalized
      BY <2>1, ReloadsType
    <2>3. Cardinality(finalized) \in Nat
      BY EffectsConstants, FS_Subset, FS_CardinalityType DEF IndexInv
    <2>4. Cardinality(finalized) <= Cardinality(finalized)
      BY <2>3
    <2> QED BY <2>1, <2>2, <2>3, <2>4, Zenon DEF IndexInv
  <1>4. ASSUME NEW k \in Workers, EffectsStep(k) PROVE UNCHANGED <<finalized, hot, total>>
    BY <1>4, Zenon DEF EffectsStep, Begin, CreditWitnesses, CreditSeen, Flip, ReadBudget, PaySeen,
                       CheckReward, StoreReward, Finish
  <1>5. ASSUME NEW k \in Workers, EffectsLapse(k) PROVE UNCHANGED <<finalized, hot, total>>
    BY <1>5, Zenon DEF EffectsLapse, CreditBlind, CreditSeen, FlipFails, ReadBlind, PaySeen,
                       RewardFails, Panic
  <1> QED
    BY <1>1, <1>2, <1>3, <1>4, <1>5, ZenonT(40)
       DEF EffectsNext, feVars, StoreAttestation, ReapAttestation, Scan

\* The index counts at least the durable ids and its hot set keeps to its capacity,
\* through evictions, re-insertions, failed writes and restarts (insert_hot, insert,
\* insert_marked, load_hot_from_rocks).
THEOREM IndexCountsItsIds == EffectsSpec => []IndexCounts
  <1>1. ASSUME EffectsInit PROVE IndexInv
    <2>1. finalized = {} /\ hot = <<>> /\ total = 0
      BY <1>1 DEF EffectsInit
    <2>2. Cardinality({}) = 0
      BY FS_EmptySet
    <2>3. Len(hot) = 0 /\ hot \in Seq(Rids) /\ Elems(hot) = {}
      BY <2>1 DEF Elems
    <2>4. Len(hot) <= Capacity
      BY <2>3, EffectsConstants
    <2>5. finalized \cup Elems(hot) = {}
      BY <2>1, <2>3
    <2>6. Cardinality(finalized \cup Elems(hot)) <= total /\ total \in Nat
      BY <2>1, <2>2, <2>5
    <2> QED BY <2>1, <2>3, <2>4, <2>6 DEF IndexInv
  <1>2. ASSUME IndexInv PROVE IndexCounts
    <2>1. IsFiniteSet(finalized \cup Elems(hot))
      <3>1. Elems(hot) \subseteq Rids
        BY <1>2 DEF IndexInv, Elems
      <3> QED BY <1>2, <3>1, EffectsConstants, FS_Subset DEF IndexInv
    <2>2. Cardinality(finalized) <= total
      BY <1>2, <2>1, CountCovers, ZenonT(40) DEF IndexInv
    <2> QED BY <1>2, <2>2 DEF IndexInv, IndexCounts
  <1> QED BY <1>1, <1>2, IndexStep, PTL DEF EffectsSpec
-----------------------------------------------------------------------------

Holds(w, x) == Underway(w) /\ x \in DOMAIN job[w].pairs

\* A value is what the leaf of an account in that state may be.
Fits(value, account) == value = HashOf(account) \/ (account = NoAccount /\ value = Empty)

\* The variables are functions and the jobs are records.
Shaped ==
    /\ job = [w \in Writers |-> job[w]]
    /\ \A w \in Writers : job[w] = [pc |-> job[w].pc, pairs |-> job[w].pairs, buffer |-> job[w].buffer,
                                    clone |-> job[w].clone, older |-> job[w].older, late |-> job[w].late]
    /\ leaf = [x \in Ids |-> leaf[x]] /\ root = [x \in Ids |-> root[x]]
    /\ treeAccounts = [x \in Ids |-> treeAccounts[x]]

\* One writer at a time, on the persisted root.
Serialized ==
    /\ \A w \in Writers : job[w].pc = "writing" => gate = w /\ job[w].buffer = root
    /\ RootMatchesLeaves

\* No flush is older than itself, and what becomes of every entry under way.
Entries ==
    /\ \A w \in Writers : w \notin job[w].older
    /\ \A u \in Flushers, x \in Ids : Holds(u, x) =>
          \/ Fits(job[u].pairs[x], treeAccounts[x])
          \/ x \in dirty \/ x \in job[u].late
          \/ \E z \in Flushers : Holds(z, x) /\ u \in job[z].older

TreeInv == Shaped /\ Serialized /\ Entries

\* A fault that the bound allows keeps their number in range.
LEMMA FaultsCount == \A n \in 0..MaxFaults : n < MaxFaults => n + 1 \in 0..MaxFaults
  BY TreeConstants

\* The writers are the three flushers and the reconciliation.
LEMMA FlushersWrite == Flushers \subseteq Writers /\ "reconcile" \in Writers /\ "reconcile" \notin Flushers
                       /\ "seal" \in Flushers /\ "witness" \in Flushers /\ "repair" \in Flushers
BY DEF Flushers, Writers

LEMMA TreeInitially == AccountTreeInit => TreeInv
  <1> SUFFICES ASSUME AccountTreeInit PROVE TreeInv
    BY Zenon
  <1>1. Shaped
    BY Zenon DEF AccountTreeInit, Shaped, IdleJob, RootOverAccounts
  <1>2. Serialized
    BY Zenon DEF AccountTreeInit, Serialized, RootMatchesLeaves, IdleJob
  <1>3. Entries
    BY FlushersWrite, Zenon DEF AccountTreeInit, Entries, Holds, Underway, IdleJob
  <1> QED BY <1>1, <1>2, <1>3, Zenon DEF TreeInv
-----------------------------------------------------------------------------
(* The steps of a job *)

\* A snapshot makes one writer wait with its entries and changes no other.
LEMMA HandFields ==
    ASSUME Shaped, NEW w \in Writers, NEW pairs, Hand(w, pairs)
    PROVE  /\ job' = [u \in Writers |-> job'[u]]
           /\ job'[w] = [pc |-> "waiting", pairs |-> pairs, buffer |-> <<>>, clone |-> <<>>,
                         older |-> {u \in Flushers : Underway(u)}, late |-> {}]
           /\ \A u \in Writers \ {w} : job'[u] = job[u]
  BY Zenon DEF Hand, Shaped

\* The end of a flush makes late what an older one still holds of its ids.
LEMMA EndFields ==
    ASSUME Shaped, NEW w \in Writers, EndFlush(w)
    PROVE  /\ job' = [u \in Writers |-> job'[u]] /\ gate' = NoWriter
           /\ job'[w] = IdleJob
           /\ \A u \in Writers \ {w} :
                job'[u] = [pc |-> job[u].pc, pairs |-> job[u].pairs, buffer |-> job[u].buffer,
                           clone |-> job[u].clone, older |-> job[u].older \ {w},
                           late |-> job[u].late \cup {x \in DOMAIN job[w].pairs \cap DOMAIN job[u].pairs :
                                                        u \in job[w].older}]
  <1>1. job' = [u \in Writers |-> job'[u]] /\ gate' = NoWriter /\ job'[w] = IdleJob
    BY Zenon DEF EndFlush
  <1>2. ASSUME NEW u \in Writers, u # w
        PROVE  job'[u] = [pc |-> job[u].pc, pairs |-> job[u].pairs, buffer |-> job[u].buffer,
                          clone |-> job[u].clone, older |-> job[u].older \ {w},
                          late |-> job[u].late \cup {x \in DOMAIN job[w].pairs \cap DOMAIN job[u].pairs :
                                                       u \in job[w].older}]
    <2> DEFINE o == job[u].older \ {w}
               l == job[u].late \cup {x \in DOMAIN job[w].pairs \cap DOMAIN job[u].pairs : u \in job[w].older}
    <2>1. job'[u] = [job[u] EXCEPT !.older = o, !.late = l]
      BY <1>2, Zenon DEF EndFlush
    <2>2. job[u] = [pc |-> job[u].pc, pairs |-> job[u].pairs, buffer |-> job[u].buffer,
                    clone |-> job[u].clone, older |-> job[u].older, late |-> job[u].late]
      BY DEF Shaped
    <2> HIDE DEF o, l
    <2>3. job'[u] = [pc |-> job[u].pc, pairs |-> job[u].pairs, buffer |-> job[u].buffer,
                     clone |-> job[u].clone, older |-> o, late |-> l]
      BY <2>1, <2>2, Zenon
    <2> QED BY <2>3, Zenon DEF o, l
  <1> QED BY <1>1, <1>2

-----------------------------------------------------------------------------
(* Each action preserves the invariant *)

\* A job that is handed over when the writer is idle, with entries that fit.
LEMMA SnapshotInv ==
    ASSUME TreeInv, NEW w \in Flushers, NEW pairs, Hand(w, pairs), job[w].pc = "idle",
           treeAccounts' = [x \in Ids |-> treeAccounts'[x]],
           \A x \in Ids \cap DOMAIN pairs : Fits(pairs[x], treeAccounts'[x]),
           \A x \in Ids \ DOMAIN pairs : treeAccounts'[x] = treeAccounts[x] /\ (x \in dirty => x \in dirty'),
           UNCHANGED <<leaf, root, gate>>
    PROVE  TreeInv'
  <1> w \in Writers
    BY FlushersWrite, Zenon
  <1> DEFINE o == {u \in Flushers : Underway(u)}
  <1>1. /\ job' = [u \in Writers |-> job'[u]]
        /\ job'[w] = [pc |-> "waiting", pairs |-> pairs, buffer |-> <<>>, clone |-> <<>>,
                      older |-> o, late |-> {}]
        /\ \A u \in Writers \ {w} : job'[u] = job[u]
    BY HandFields, Zenon DEF TreeInv
  <1>2. w \notin o /\ \A u \in Flushers : Underway(u) => u \in o
    BY Zenon DEF Underway
  <1> HIDE DEF o
  <1>3. Shaped'
    BY <1>1, Zenon DEF Shaped, TreeInv
  <1>4. Serialized'
    BY <1>1 DEF Serialized, TreeInv, RootMatchesLeaves
  <1>5. \A u \in Writers : u \notin job'[u].older
    BY <1>1, <1>2 DEF TreeInv, Entries
  <1>6. \A x \in Ids \cap DOMAIN pairs : Holds(w, x)'
    BY <1>1 DEF Holds, Underway
  <1>7. \A u \in Flushers \ {w}, x \in Ids : Holds(u, x)' <=> Holds(u, x)
    BY <1>1, FlushersWrite, Zenon DEF Holds, Underway
  <1>8. ASSUME NEW u \in Flushers, NEW x \in Ids, Holds(u, x)'
        PROVE  \/ Fits(job'[u].pairs[x], treeAccounts'[x])
               \/ x \in dirty' \/ x \in job'[u].late
               \/ \E z \in Flushers : Holds(z, x)' /\ u \in job'[z].older
    <2>1. CASE u = w
      BY <1>1, <1>8, <2>1 DEF Holds
    <2>2. CASE u # w /\ x \in DOMAIN pairs
      <3>1. Holds(u, x)
        BY <1>7, <1>8, <2>2, Zenon
      <3>2. u \in job'[w].older
        BY ONLY <1>1, <1>2, <3>1, u \in Flushers DEF Holds
      <3> QED BY <1>6, <2>2, <3>2, Zenon
    <2>3. CASE u # w /\ x \notin DOMAIN pairs
      <3>1. Holds(u, x) /\ job'[u] = job[u]
        BY <1>1, <1>7, <1>8, <2>3, FlushersWrite, Zenon
      <3>2. treeAccounts'[x] = treeAccounts[x] /\ (x \in dirty => x \in dirty')
        BY <2>3
      <3>3. CASE \E z \in Flushers : Holds(z, x) /\ u \in job[z].older
        <4>1. PICK z \in Flushers : Holds(z, x) /\ u \in job[z].older
          BY <3>3, Zenon
        <4>2. z # w
          BY <4>1, Zenon DEF Holds, Underway
        <4> QED BY <1>1, <1>7, <4>1, <4>2, FlushersWrite, Zenon
      <3> QED BY <3>1, <3>2, <3>3, Zenon DEF TreeInv, Entries
    <2> QED BY <2>1, <2>2, <2>3, Zenon
  <1>9. Entries'
    BY <1>5, <1>8, Zenon DEF Entries
  <1> QED BY <1>3, <1>4, <1>9, Zenon DEF TreeInv

\* A flush ends: the invariant but for the leaves.
LEMMA EndInv ==
    ASSUME TreeInv, NEW w \in Flushers, EndFlush(w), UNCHANGED <<treeAccounts, dirty>>
    PROVE  /\ job' = [u \in Writers |-> job'[u]] /\ Entries'
           /\ \A u \in Writers : job'[u] = [pc |-> job'[u].pc, pairs |-> job'[u].pairs,
                                            buffer |-> job'[u].buffer, clone |-> job'[u].clone,
                                            older |-> job'[u].older, late |-> job'[u].late]
           /\ \A u \in Writers : job'[u].pc = "writing" => job[u].pc = "writing" /\ u # w
           /\ \A u \in Flushers \ {w}, x \in Ids : Holds(u, x)' <=> Holds(u, x)
  <1> w \in Writers
    BY FlushersWrite
  <1> DEFINE l(u) == job[u].late \cup {x \in DOMAIN job[w].pairs \cap DOMAIN job[u].pairs : u \in job[w].older}
             o(u) == job[u].older \ {w}
  <1>1. /\ job' = [u \in Writers |-> job'[u]]
        /\ job'[w] = IdleJob
        /\ \A u \in Writers \ {w} :
             job'[u] = [pc |-> job[u].pc, pairs |-> job[u].pairs, buffer |-> job[u].buffer,
                        clone |-> job[u].clone, older |-> o(u), late |-> l(u)]
    BY EndFields, Zenon DEF TreeInv
  <1>2. \A u, x : x \in job[u].late => x \in l(u)
    BY Zenon
  <1>3. \A u, x : x \in DOMAIN job[w].pairs /\ x \in DOMAIN job[u].pairs /\ u \in job[w].older => x \in l(u)
    BY Zenon
  <1>4. \A u, z : (z \in o(u) => z \in job[u].older) /\ (z # w /\ z \in job[u].older => z \in o(u))
    BY Zenon
  <1> HIDE DEF l, o
  <1>5. \A u \in Writers : job'[u] = [pc |-> job'[u].pc, pairs |-> job'[u].pairs,
                                      buffer |-> job'[u].buffer, clone |-> job'[u].clone,
                                      older |-> job'[u].older, late |-> job'[u].late]
    BY <1>1 DEF IdleJob
  <1>6. \A u \in Writers : job'[u].pc = "writing" => job[u].pc = "writing" /\ u # w
    BY <1>1 DEF IdleJob
  <1>7. \A u \in Flushers \ {w}, x \in Ids : Holds(u, x)' <=> Holds(u, x)
    <2>1. \A u \in Writers \ {w} : job'[u].pc = job[u].pc /\ job'[u].pairs = job[u].pairs
      BY ONLY <1>1
    <2> QED BY <2>1, FlushersWrite, Zenon DEF Holds, Underway
  <1>8. \A u \in Writers : u \notin job'[u].older
    <2>1. job'[w].older = {} /\ \A u \in Writers \ {w} : job'[u].older = o(u)
      BY ONLY <1>1 DEF IdleJob
    <2> QED BY <1>4, <2>1, Zenon DEF TreeInv, Entries
  <1>9. ASSUME NEW u \in Flushers, NEW x \in Ids, Holds(u, x)'
        PROVE  \/ Fits(job'[u].pairs[x], treeAccounts'[x])
               \/ x \in dirty' \/ x \in job'[u].late
               \/ \E z \in Flushers : Holds(z, x)' /\ u \in job'[z].older
    <2>1. u # w
      BY <1>1, <1>9 DEF Holds, Underway, IdleJob
    <2>2. Holds(u, x) /\ u \in Writers
      BY <1>7, <1>9, <2>1, FlushersWrite
    <2>3. job'[u].pairs = job[u].pairs /\ job'[u].late = l(u)
      BY <1>1, <2>1, <2>2
    <2>4. CASE \E z \in Flushers : Holds(z, x) /\ u \in job[z].older
      <3>1. PICK z \in Flushers : Holds(z, x) /\ u \in job[z].older
        BY <2>4, Zenon
      <3>2. CASE z = w
        BY <1>3, <2>2, <2>3, <3>1, <3>2, Zenon DEF Holds
      <3>3. CASE z # w
        <4>1. job'[z].older = o(z)
          BY <1>1, <3>3, FlushersWrite
        <4> QED BY <1>4, <1>7, <2>1, <3>1, <3>3, <4>1, Zenon
      <3> QED BY <3>2, <3>3, Zenon
    <2> QED BY <1>2, <2>2, <2>3, <2>4, Zenon DEF TreeInv, Entries
  <1>10. Entries'
    BY <1>8, <1>9, Zenon DEF Entries
  <1> QED BY <1>1, <1>5, <1>6, <1>7, <1>10, Zenon

\* Only one flush writes at a time, so after it ends none does.
LEMMA EndSerialized ==
    ASSUME TreeInv, NEW w \in Flushers, job[w].pc = "writing",
           \A u \in Writers : job'[u].pc = "writing" => job[u].pc = "writing" /\ u # w,
           RootMatchesLeaves'
    PROVE  Serialized'
  BY FlushersWrite, Zenon DEF TreeInv, Serialized

LEMMA CommitInv ==
    ASSUME TreeInv, NEW w \in Flushers, Commit(w)
    PROVE  TreeInv'
  <1>1. /\ job' = [u \in Writers |-> job'[u]] /\ Entries'
        /\ \A u \in Writers : job'[u] = [pc |-> job'[u].pc, pairs |-> job'[u].pairs,
                                         buffer |-> job'[u].buffer, clone |-> job'[u].clone,
                                         older |-> job'[u].older, late |-> job'[u].late]
        /\ \A u \in Writers : job'[u].pc = "writing" => job[u].pc = "writing" /\ u # w
        /\ \A u \in Flushers \ {w}, x \in Ids : Holds(u, x)' <=> Holds(u, x)
    <2>1. EndFlush(w) /\ UNCHANGED <<treeAccounts, dirty>>
      BY Zenon DEF Commit, ledgerPart
    <2> QED BY <2>1, EndInv, Zenon
  <1>2. job[w].pc = "writing" /\ leaf' = Overlay(leaf, job[w].pairs) /\ UNCHANGED <<treeAccounts, dirty>>
    BY Zenon DEF Commit, ledgerPart
  <1>3. RootMatchesLeaves'
    BY FlushersWrite, Zenon DEF Commit, TreeInv, Serialized, RootMatchesLeaves
  <1>4. Serialized'
    BY <1>1, <1>2, <1>3, EndSerialized
  <1>5. Shaped'
    BY <1>1, <1>2, <1>3, Zenon DEF Shaped, TreeInv, Overlay, RootMatchesLeaves
  <1> QED BY <1>1, <1>4, <1>5 DEF TreeInv

LEMMA FailInv ==
    ASSUME TreeInv, NEW w \in Flushers, FailWrite(w)
    PROVE  TreeInv'
  <1>1. job[w].pc = "writing" /\ EndFlush(w)
        /\ UNCHANGED <<treeAccounts, dirty, leaf, root>>
    BY DEF FailWrite, ledgerPart
  <1>2. /\ job' = [u \in Writers |-> job'[u]] /\ Entries'
        /\ \A u \in Writers : job'[u] = [pc |-> job'[u].pc, pairs |-> job'[u].pairs,
                                         buffer |-> job'[u].buffer, clone |-> job'[u].clone,
                                         older |-> job'[u].older, late |-> job'[u].late]
        /\ \A u \in Writers : job'[u].pc = "writing" => job[u].pc = "writing" /\ u # w
        /\ \A u \in Flushers \ {w}, x \in Ids : Holds(u, x)' <=> Holds(u, x)
    BY <1>1, EndInv, Zenon
  <1>3. RootMatchesLeaves'
    BY <1>1, Zenon DEF TreeInv, Serialized, RootMatchesLeaves
  <1>4. Serialized'
    BY <1>1, <1>2, <1>3, EndSerialized, Zenon
  <1>5. Shaped'
    BY <1>1, <1>2, Zenon DEF Shaped, TreeInv
  <1> QED BY <1>2, <1>4, <1>5 DEF TreeInv

\* Taking the gate changes the entries of no job.
LEMMA TakeGateInv ==
    ASSUME TreeInv, NEW w \in Writers, TakeGate(w)
    PROVE  TreeInv'
  <1>1. /\ job[w].pc = "waiting" /\ gate = NoWriter /\ gate' = w
        /\ job' = [job EXCEPT ![w].pc = "writing", ![w].buffer = root]
        /\ UNCHANGED <<treeAccounts, dirty, leaf, root>>
    BY DEF TakeGate, ledgerPart
  <1>2. /\ job' = [u \in Writers |-> job'[u]]
        /\ \A u \in Writers \ {w} : job'[u] = job[u]
        /\ job'[w] = [job[w] EXCEPT !.pc = "writing", !.buffer = root]
    BY <1>1, Zenon DEF TreeInv, Shaped
  <1>3. job[w] = [pc |-> job[w].pc, pairs |-> job[w].pairs, buffer |-> job[w].buffer,
                  clone |-> job[w].clone, older |-> job[w].older, late |-> job[w].late]
    BY DEF TreeInv, Shaped
  <1>4. job'[w] = [pc |-> "writing", pairs |-> job[w].pairs, buffer |-> root,
                   clone |-> job[w].clone, older |-> job[w].older, late |-> job[w].late]
    BY <1>2, <1>3, Zenon
  <1>5. Shaped'
    BY <1>1, <1>2, <1>4, Zenon DEF TreeInv, Shaped
  <1>6. Serialized'
    <2>1. \A u \in Writers : job[u].pc # "writing"
      BY <1>1, TreeConstants, Zenon DEF TreeInv, Serialized, Writers, Flushers
    <2>2. job'[w].buffer = root
      BY ONLY <1>4
    <2>3. \A u \in Writers : job'[u].pc = "writing" => u = w
      BY <1>2, <2>1, Zenon
    <2> QED BY <1>1, <2>2, <2>3, Zenon DEF TreeInv, Serialized, RootMatchesLeaves
  <1>7. \A u \in Writers : job'[u].pairs = job[u].pairs /\ job'[u].older = job[u].older
                           /\ job'[u].late = job[u].late
    BY <1>2, <1>4, Zenon
  <1>8. \A u \in Writers : Underway(u)' <=> Underway(u)
    BY <1>1, <1>2, <1>4, ZenonT(40) DEF Underway
  <1>9. \A u \in Flushers, x \in Ids : Holds(u, x)' <=> Holds(u, x)
    BY <1>7, <1>8, FlushersWrite, Zenon DEF Holds
  <1>10. Entries'
    <2>1. \A u \in Writers : u \notin job'[u].older
      BY <1>7, Zenon DEF TreeInv, Entries
    <2>2. ASSUME NEW u \in Flushers, NEW x \in Ids, Holds(u, x)
          PROVE  \/ Fits(job'[u].pairs[x], treeAccounts'[x])
                 \/ x \in dirty' \/ x \in job'[u].late
                 \/ \E z \in Flushers : Holds(z, x) /\ u \in job'[z].older
      BY <1>1, <1>7, <2>2, FlushersWrite, Zenon DEF TreeInv, Entries
    <2> QED BY <1>9, <2>1, <2>2, Zenon DEF Entries
  <1> QED BY <1>5, <1>6, <1>10, Zenon DEF TreeInv

\* A step of the reconciliation leaves the flushes alone.
LEMMA ReconcileFrame ==
    ASSUME TreeInv, NEW new, job' = [job EXCEPT !["reconcile"] = new], new.older = {},
           new = [pc |-> new.pc, pairs |-> new.pairs, buffer |-> new.buffer,
                  clone |-> new.clone, older |-> new.older, late |-> new.late],
           new.pc # "writing", UNCHANGED <<treeAccounts, dirty>>
    PROVE  /\ job' = [u \in Writers |-> job'[u]] /\ Entries'
           /\ \A u \in Writers : job'[u] = [pc |-> job'[u].pc, pairs |-> job'[u].pairs,
                                            buffer |-> job'[u].buffer, clone |-> job'[u].clone,
                                            older |-> job'[u].older, late |-> job'[u].late]
           /\ \A u \in Writers : job'[u].pc = "writing" => u # "reconcile" /\ job'[u] = job[u]
  <1>1. job' = [u \in Writers |-> job'[u]] /\ job'["reconcile"] = new
        /\ \A u \in Writers \ {"reconcile"} : job'[u] = job[u]
    BY FlushersWrite, Zenon DEF TreeInv, Shaped
  <1>2. \A u \in Flushers : job'[u] = job[u]
    BY <1>1, FlushersWrite, Zenon
  <1>3. \A u \in Flushers, x \in Ids : Holds(u, x)' <=> Holds(u, x)
    BY <1>2, Zenon DEF Holds, Underway
  <1>4. \A u \in Writers : u \notin job'[u].older
    BY <1>1, Zenon DEF TreeInv, Entries
  <1>5. Entries'
    <2>1. ASSUME NEW u \in Flushers, NEW x \in Ids, Holds(u, x)
          PROVE  \/ Fits(job'[u].pairs[x], treeAccounts'[x])
                 \/ x \in dirty' \/ x \in job'[u].late
                 \/ \E z \in Flushers : Holds(z, x) /\ u \in job'[z].older
      BY <1>2, <2>1, Zenon DEF TreeInv, Entries
    <2> QED BY <1>3, <1>4, <2>1, Zenon DEF Entries
  <1>6. \A u \in Writers : job'[u] = [pc |-> job'[u].pc, pairs |-> job'[u].pairs,
                                      buffer |-> job'[u].buffer, clone |-> job'[u].clone,
                                      older |-> job'[u].older, late |-> job'[u].late]
    BY <1>1, Zenon DEF TreeInv, Shaped
  <1> QED BY <1>1, <1>5, <1>6, Zenon

LEMMA CloneInv ==
    ASSUME TreeInv, CloneAccounts
    PROVE  TreeInv'
  <1> DEFINE new == [pc |-> "waiting", pairs |-> <<>>, buffer |-> <<>>,
                     clone |-> treeAccounts, older |-> {}, late |-> {}]
  <1>1. job' = [job EXCEPT !["reconcile"] = new]
        /\ UNCHANGED <<treeAccounts, dirty, leaf, root, gate>>
    BY Zenon DEF CloneAccounts, ledgerPart
  <1>2. /\ new.older = {} /\ new.pc # "writing"
        /\ new = [pc |-> new.pc, pairs |-> new.pairs, buffer |-> new.buffer,
                  clone |-> new.clone, older |-> new.older, late |-> new.late]
    BY Zenon
  <1> HIDE DEF new
  <1>3. /\ job' = [u \in Writers |-> job'[u]] /\ Entries'
        /\ \A u \in Writers : job'[u] = [pc |-> job'[u].pc, pairs |-> job'[u].pairs,
                                         buffer |-> job'[u].buffer, clone |-> job'[u].clone,
                                         older |-> job'[u].older, late |-> job'[u].late]
        /\ \A u \in Writers : job'[u].pc = "writing" => u # "reconcile" /\ job'[u] = job[u]
    BY <1>1, <1>2, ReconcileFrame, Zenon
  <1>4. Shaped' /\ Serialized'
    BY <1>1, <1>3, Zenon DEF TreeInv, Shaped, Serialized, RootMatchesLeaves
  <1> QED BY <1>3, <1>4 DEF TreeInv

\* The reconciliation ends, with its deletes or without.
LEMMA ReconcileEnds ==
    ASSUME TreeInv, job["reconcile"].pc = "writing",
           job' = [job EXCEPT !["reconcile"] = IdleJob], UNCHANGED <<treeAccounts, dirty>>,
           leaf' = [x \in Ids |-> leaf'[x]], root' = leaf'
    PROVE  TreeInv'
  <1>1. /\ IdleJob.older = {} /\ IdleJob.pc # "writing"
        /\ IdleJob = [pc |-> IdleJob.pc, pairs |-> IdleJob.pairs, buffer |-> IdleJob.buffer,
                      clone |-> IdleJob.clone, older |-> IdleJob.older, late |-> IdleJob.late]
    BY DEF IdleJob
  <1>2. /\ job' = [u \in Writers |-> job'[u]] /\ Entries'
        /\ \A u \in Writers : job'[u] = [pc |-> job'[u].pc, pairs |-> job'[u].pairs,
                                         buffer |-> job'[u].buffer, clone |-> job'[u].clone,
                                         older |-> job'[u].older, late |-> job'[u].late]
        /\ \A u \in Writers : job'[u].pc = "writing" => u # "reconcile" /\ job'[u] = job[u]
    BY <1>1, ReconcileFrame, Zenon
  <1>3. Shaped'
    BY <1>2, Zenon DEF TreeInv, Shaped
  <1>4. Serialized'
    <2>1. \A u \in Writers : job[u].pc = "writing" => u = "reconcile"
      BY FlushersWrite, Zenon DEF TreeInv, Serialized
    <2>2. \A u \in Writers : job'[u].pc # "writing"
      BY <1>2, <2>1, Zenon
    <2> QED BY <2>2, Zenon DEF Serialized, RootMatchesLeaves
  <1> QED BY <1>2, <1>3, <1>4 DEF TreeInv

LEMMA ReconcileCommitInv ==
    ASSUME TreeInv, ReconcileCommit
    PROVE  TreeInv'
  <1> DEFINE c == job["reconcile"].clone
  <1>1. /\ job["reconcile"].pc = "writing" /\ job' = [job EXCEPT !["reconcile"] = IdleJob]
        /\ leaf' = Overlay(leaf, Tombstones(c))
        /\ root' = Overlay(job["reconcile"].buffer, Tombstones(c))
        /\ UNCHANGED <<treeAccounts, dirty>>
    BY Zenon DEF ReconcileCommit, ledgerPart
  <1>2. root' = leaf'
    BY <1>1, FlushersWrite DEF TreeInv, Serialized, RootMatchesLeaves
  <1>3. leaf' = [x \in Ids |-> leaf'[x]]
    BY <1>1, Zenon DEF Overlay
  <1> HIDE DEF c
  <1> QED BY <1>1, <1>2, <1>3, ReconcileEnds, Zenon

LEMMA ReconcileAbortInv ==
    ASSUME TreeInv, ReconcileAbort
    PROVE  TreeInv'
  <1>1. /\ job["reconcile"].pc = "writing" /\ job' = [job EXCEPT !["reconcile"] = IdleJob]
        /\ UNCHANGED <<treeAccounts, dirty, leaf, root>>
    BY Zenon DEF ReconcileAbort, ledgerPart
  <1>2. leaf' = [x \in Ids |-> leaf'[x]] /\ root' = leaf'
    BY <1>1, Zenon DEF TreeInv, Shaped, Serialized, RootMatchesLeaves
  <1> QED BY <1>1, <1>2, ReconcileEnds, Zenon

\* An operation marks what it moves, which outdates any entry under way.
LEMMA ApplyOpInv ==
    ASSUME TreeInv, NEW moved \in SUBSET Ids, NEW marked \in SUBSET Ids, ApplyOp(moved, marked)
    PROVE  TreeInv'
  <1>1. /\ treeAccounts' = [x \in Ids |-> treeAccounts'[x]]
        /\ \A x \in Ids \ marked : treeAccounts'[x] = treeAccounts[x]
        /\ dirty' = dirty \cup marked /\ UNCHANGED <<leaf, root, gate, job>>
    BY Zenon DEF ApplyOp
  <1>2. Shaped' /\ Serialized'
    BY <1>1, Zenon DEF TreeInv, Shaped, Serialized, RootMatchesLeaves
  <1>3. \A u \in Flushers, x \in Ids : Holds(u, x)' <=> Holds(u, x)
    BY <1>1, Zenon DEF Holds, Underway
  <1>4. Entries'
    <2>1. ASSUME NEW u \in Flushers, NEW x \in Ids, Holds(u, x)
          PROVE  \/ Fits(job[u].pairs[x], treeAccounts'[x])
                 \/ x \in dirty' \/ x \in job[u].late
                 \/ \E z \in Flushers : Holds(z, x) /\ u \in job[z].older
      BY <1>1, <2>1, Zenon DEF TreeInv, Entries
    <2> QED BY <1>1, <1>3, <2>1, Zenon DEF TreeInv, Entries
  <1> QED BY <1>2, <1>4, Zenon DEF TreeInv

LEMMA SealSnapshotInv ==
    ASSUME TreeInv, SealSnapshot
    PROVE  TreeInv'
  <1> DEFINE pairs == SnapshotDirty(dirty, treeAccounts)
  <1>1. /\ Hand("seal", pairs) /\ job["seal"].pc = "idle"
        /\ UNCHANGED <<treeAccounts, leaf, root, gate>>
    BY Zenon DEF SealSnapshot
  <1>2. DOMAIN pairs = dirty /\ \A x \in DOMAIN pairs : Fits(pairs[x], treeAccounts[x])
    BY DEF SnapshotDirty, Fits
  <1> HIDE DEF pairs
  <1> QED BY <1>1, <1>2, SnapshotInv, FlushersWrite, Zenon DEF TreeInv, Shaped

LEMMA WitnessSnapshotInv ==
    ASSUME TreeInv, NEW scope \in SUBSET Ids, WitnessSnapshot(scope)
    PROVE  TreeInv'
  <1> DEFINE pairs == SnapshotScoped(scope, {}, treeAccounts)
  <1>1. /\ Hand("witness", pairs) /\ job["witness"].pc = "idle" /\ dirty' = dirty \ scope
        /\ UNCHANGED <<treeAccounts, leaf, root, gate>>
    BY Zenon DEF WitnessSnapshot
  <1>2. DOMAIN pairs = scope /\ \A x \in DOMAIN pairs : Fits(pairs[x], treeAccounts[x])
    BY Zenon DEF SnapshotScoped, Fits
  <1> HIDE DEF pairs
  <1> QED BY <1>1, <1>2, SnapshotInv, FlushersWrite, Zenon DEF TreeInv, Shaped

LEMMA RepairSnapshotInv ==
    ASSUME TreeInv, NEW changed, NEW removed \in SUBSET Ids, NEW baseline, DOMAIN changed \subseteq Ids,
           RepairSnapshot(changed, removed, baseline)
    PROVE  TreeInv'
  <1> DEFINE deletes == removed \cup IF baseline THEN {}
                                     ELSE {x \in Ids \ DOMAIN changed : treeAccounts[x] # NoAccount}
             scope   == DOMAIN changed \cup deletes
             accs    == [x \in Ids |-> IF x \in deletes THEN NoAccount
                                       ELSE IF x \in DOMAIN changed THEN changed[x] ELSE treeAccounts[x]]
             pairs   == SnapshotScoped(scope, deletes, accs)
  <1>1. /\ Hand("repair", pairs) /\ job["repair"].pc = "idle" /\ dirty' = dirty \ scope
        /\ treeAccounts' = accs /\ UNCHANGED <<leaf, root, gate>>
    BY Zenon DEF RepairSnapshot
  <1> HIDE DEF deletes
  <1>2. /\ \A x \in Ids \ scope : accs[x] = treeAccounts[x]
        /\ \A x \in Ids \cap deletes : accs[x] = NoAccount
        /\ accs = [x \in Ids |-> accs[x]]
    BY Zenon
  <1> HIDE DEF accs, scope
  <1>3. DOMAIN pairs = scope /\ \A x \in Ids \cap DOMAIN pairs : Fits(pairs[x], accs[x])
    BY <1>2, Zenon DEF SnapshotScoped, Fits
  <1> HIDE DEF pairs
  <1> QED BY <1>1, <1>2, <1>3, SnapshotInv, FlushersWrite, Zenon

\* Nothing is under way after a restart, and the root is written with the leaves.
LEMMA RestartInv ==
    ASSUME TreeInv, Restart
    PROVE  TreeInv'
  <1>1. \E pairs : leaf' = Overlay(leaf, pairs) /\ root' = Overlay(root, pairs)
    BY Zenon DEF Restart
  <1>2. job' = [w \in Writers |-> IdleJob] /\ treeAccounts' = [x \in Ids |-> treeAccounts'[x]]
    BY Zenon DEF Restart
  <1>3. root' = leaf' /\ leaf' = [x \in Ids |-> leaf'[x]]
    BY <1>1, Zenon DEF TreeInv, Serialized, RootMatchesLeaves, Overlay
  <1>4. Shaped'
    BY <1>2, <1>3, Zenon DEF Shaped, IdleJob
  <1>5. Serialized' /\ Entries'
    BY <1>2, <1>3, FlushersWrite, Zenon DEF Serialized, RootMatchesLeaves, Entries, Holds, Underway, IdleJob
  <1> QED BY <1>4, <1>5, Zenon DEF TreeInv
-----------------------------------------------------------------------------
(* The theorems *)

LEMMA TreeStep ==
    ASSUME TreeInv, [AccountTreeNext]_atVars
    PROVE  TreeInv'
  <1>1. CASE LedgerStep
    <2>1. CASE Checkpoint
      BY <2>1, Zenon DEF Checkpoint, TreeInv, Shaped, Serialized, RootMatchesLeaves, Entries, Holds, Fits, Underway
    <2> QED BY <1>1, <2>1, ApplyOpInv DEF LedgerStep
  <1>2. CASE FlushStep
    <2>1. CASE \E S, removed \in SUBSET Ids : \E changed \in [S -> 1..MaxState] :
                 RepairSnapshot(changed, removed, TRUE) \/ RepairSnapshot(changed, removed, FALSE)
      <3>1. PICK S \in SUBSET Ids, removed \in SUBSET Ids : \E changed \in [S -> 1..MaxState] :
                   RepairSnapshot(changed, removed, TRUE) \/ RepairSnapshot(changed, removed, FALSE)
        BY <2>1, Zenon
      <3>2. PICK changed \in [S -> 1..MaxState] :
                   RepairSnapshot(changed, removed, TRUE) \/ RepairSnapshot(changed, removed, FALSE)
        BY <3>1, Zenon
      <3>3. DOMAIN changed \subseteq Ids
        OBVIOUS
      <3> QED BY <3>2, <3>3, RepairSnapshotInv, Zenon
    <2> QED BY <1>2, <2>1, SealSnapshotInv, WitnessSnapshotInv, TakeGateInv, CommitInv, FailInv, Zenon DEF FlushStep
  <1>3. CASE ReconcileStep
    BY <1>3, CloneInv, ReconcileCommitInv, ReconcileAbortInv, Zenon DEF ReconcileStep
  <1>4. CASE Restart
    BY <1>4, RestartInv
  <1>5. CASE UNCHANGED atVars
    BY <1>5, Zenon DEF atVars, TreeInv, Shaped, Serialized, RootMatchesLeaves, Entries, Holds, Fits, Underway
  <1> QED BY <1>1, <1>2, <1>3, <1>4, <1>5, Zenon DEF AccountTreeNext

\* Whatever flushes, reconciliations, failed writes and restarts interleave, the root that
\* an epoch seal reads commits to exactly the persisted leaves.
THEOREM TreeRootSound == AccountTreeSpec => []RootMatchesLeaves
  <1>1. TreeInv => RootMatchesLeaves
    BY Zenon DEF TreeInv, Serialized
  <1> QED BY <1>1, TreeInitially, TreeStep, PTL DEF AccountTreeSpec

\* A reconciliation that commits leaves the tree of the accounts it went by, because the
\* gate keeps the persisted tree the one whose root it compared.
THEOREM TreeReconcilesExactly == AccountTreeSpec => ReconcileExact
  <1> DEFINE Exact == ReconcileCommit =>
               \A x \in Ids : treeAccounts[x] = job["reconcile"].clone[x] =>
                   leaf'[x] = treeAccounts[x] /\ root'[x] = treeAccounts[x]
  <1>1. TreeInv => Exact
    <2> SUFFICES ASSUME TreeInv, ReconcileCommit, NEW x \in Ids,
                        treeAccounts[x] = job["reconcile"].clone[x]
                 PROVE  leaf'[x] = treeAccounts[x] /\ root'[x] = treeAccounts[x]
      OBVIOUS
    <2>1. root' = RootOverAccounts(job["reconcile"].clone) /\ job["reconcile"].pc = "writing"
      BY Zenon DEF ReconcileCommit, MayReconcile
    <2>2. leaf' = root'
      BY <2>1, ReconcileCommitInv, Zenon DEF TreeInv, Serialized, RootMatchesLeaves
    <2> QED BY <2>1, <2>2, Zenon DEF RootOverAccounts, HashOf, NoAccount, Empty
  <1>2. TreeInv /\ [AccountTreeNext]_atVars => [Exact]_atVars
    BY <1>1
  <1> QED BY <1>2, TreeInitially, TreeStep, PTL DEF AccountTreeSpec, ReconcileExact
-----------------------------------------------------------------------------
(* Types *)

\* What a job carries: hashes of ids.
Carries(j) ==
    /\ DOMAIN j.pairs \subseteq Ids /\ j.late \subseteq Ids
    /\ \A x \in DOMAIN j.pairs : j.pairs[x] \in Leaves

TypeInv == AccountTreeTypeOK /\ \A w \in Writers : Carries(job[w])

LEMMA HashType == ASSUME NEW account \in AccountStates PROVE HashOf(account) \in Leaves
  BY TreeConstants DEF AccountStates, Leaves, HashOf, ZeroLeaf, NoAccount

LEMMA EmptyType == Empty \in Leaves
  BY TreeConstants DEF Empty, Leaves, ZeroLeaf

LEMMA OverlayType ==
    ASSUME NEW tree \in [Ids -> Leaves], NEW pairs, \A x \in DOMAIN pairs : pairs[x] \in Leaves
    PROVE  Overlay(tree, pairs) \in [Ids -> Leaves]
  BY Zenon DEF Overlay

LEMMA IdleCarries == Carries(IdleJob) /\ IdleJob.pc = "idle"
  BY DEF Carries, IdleJob

LEMMA InitTypes == AccountTreeInit => TypeInv
  <1> SUFFICES ASSUME AccountTreeInit PROVE TypeInv
    OBVIOUS
  <1>1. treeAccounts \in [Ids -> AccountStates]
    BY TreeConstants DEF AccountTreeInit, AccountStates, NoAccount
  <1>2. leaf \in [Ids -> Leaves] /\ root = leaf
    BY <1>1, HashType, EmptyType, Zenon DEF AccountTreeInit, RootOverAccounts
  <1>3. \A w \in Writers : job[w] = IdleJob
    BY DEF AccountTreeInit
  <1>4. \A w \in Writers : w # NoWriter
    BY TreeConstants, Zenon DEF Writers, Flushers
  <1>5. AccountTreeTypeOK
    BY <1>1, <1>2, <1>3, <1>4, IdleCarries, TreeConstants DEF AccountTreeInit, AccountTreeTypeOK
  <1> QED BY <1>3, <1>5, IdleCarries, Zenon DEF TypeInv

\* A snapshot: the writer that waits now had no gate.
LEMMA HandTypes ==
    ASSUME Shaped, TypeInv, NEW w \in Flushers, NEW pairs, Hand(w, pairs), job[w].pc = "idle",
           treeAccounts' \in [Ids -> AccountStates], dirty' \subseteq Ids,
           DOMAIN pairs \subseteq Ids, \A x \in DOMAIN pairs : pairs[x] \in Leaves,
           UNCHANGED <<saved, leaf, root, gate, faults>>
    PROVE  TypeInv'
  <1> w \in Writers
    BY FlushersWrite, Zenon
  <1>1. /\ job' = [u \in Writers |-> job'[u]]
        /\ job'[w].pc = "waiting" /\ job'[w].pairs = pairs /\ job'[w].late = {}
        /\ \A u \in Writers \ {w} : job'[u] = job[u]
    <2> DEFINE o == {u \in Flushers : Underway(u)}
    <2>1. /\ job' = [u \in Writers |-> job'[u]]
          /\ job'[w] = [pc |-> "waiting", pairs |-> pairs, buffer |-> <<>>, clone |-> <<>>,
                        older |-> o, late |-> {}]
          /\ \A u \in Writers \ {w} : job'[u] = job[u]
      BY HandFields, Zenon
    <2> HIDE DEF o
    <2> QED BY ONLY <2>1
  <1>2. \A u \in Writers : job'[u].pc = "writing" <=> gate = u
    BY <1>1, Zenon DEF TypeInv, AccountTreeTypeOK
  <1>3. DOMAIN job' = Writers
    BY <1>1
  <1>4. AccountTreeTypeOK'
    BY <1>2, <1>3, Zenon DEF TypeInv, AccountTreeTypeOK
  <1>5. \A u \in Writers : Carries(job'[u])
    BY <1>1, Zenon DEF TypeInv, Carries
  <1> QED BY <1>4, <1>5, Zenon DEF TypeInv

\* A writer ends and the gate is free: no job writes.
LEMMA EndTypes ==
    ASSUME TypeInv, NEW w \in Writers, job[w].pc = "writing", DOMAIN job' = Writers,
           \A u \in Writers : job'[u].pc = "writing" => job[u].pc = "writing" /\ u # w,
           \A u \in Writers : Carries(job'[u]),
           gate' = NoWriter, leaf' \in [Ids -> Leaves], root' \in [Ids -> Leaves],
           faults' \in 0..MaxFaults,
           UNCHANGED <<treeAccounts, dirty, saved>>
    PROVE  TypeInv'
  <1>1. gate = w /\ \A u \in Writers : job[u].pc = "writing" => u = w
    BY Zenon DEF TypeInv, AccountTreeTypeOK
  <1>2. \A u \in Writers : job'[u].pc = "writing" <=> gate' = u
    BY <1>1, TreeConstants DEF Writers, Flushers
  <1>3. AccountTreeTypeOK'
    BY <1>2, Zenon DEF TypeInv, AccountTreeTypeOK
  <1> QED BY <1>3 DEF TypeInv

LEMMA FlushEndTypes ==
    ASSUME Shaped, TypeInv, NEW w \in Flushers, EndFlush(w)
    PROVE  /\ DOMAIN job' = Writers
           /\ \A u \in Writers : job'[u].pc = "writing" => job[u].pc = "writing" /\ u # w
           /\ \A u \in Writers : Carries(job'[u])
  <1> w \in Writers
    BY FlushersWrite
  <1> DEFINE l(u) == job[u].late \cup {x \in DOMAIN job[w].pairs \cap DOMAIN job[u].pairs : u \in job[w].older}
             o(u) == job[u].older \ {w}
  <1>1. /\ job' = [u \in Writers |-> job'[u]]
        /\ job'[w] = IdleJob
        /\ \A u \in Writers \ {w} :
             job'[u] = [pc |-> job[u].pc, pairs |-> job[u].pairs, buffer |-> job[u].buffer,
                        clone |-> job[u].clone, older |-> o(u), late |-> l(u)]
    BY EndFields, Zenon
  <1>2. \A u \in Writers : l(u) \subseteq Ids
    BY Zenon DEF TypeInv, Carries
  <1> HIDE DEF l, o
  <1>3. \A u \in Writers \ {w} : job'[u].pc = job[u].pc /\ Carries(job'[u])
    BY <1>1, <1>2 DEF TypeInv, Carries
  <1> QED BY <1>1, <1>3, IdleCarries, Zenon

LEMMA CommitTypes ==
    ASSUME Shaped, Serialized, TypeInv, NEW w \in Flushers, Commit(w) \/ FailWrite(w)
    PROVE  TypeInv'
  <1> w \in Writers
    BY FlushersWrite
  <1>1. /\ EndFlush(w) /\ job[w].pc = "writing" /\ gate' = NoWriter
        /\ UNCHANGED <<treeAccounts, dirty, saved>>
    BY Zenon DEF Commit, FailWrite, EndFlush, ledgerPart
  <1>2. Carries(job[w]) /\ leaf \in [Ids -> Leaves] /\ root \in [Ids -> Leaves]
    BY Zenon DEF TypeInv, AccountTreeTypeOK
  <1>3. CASE Commit(w)
    <2>1. leaf' \in [Ids -> Leaves]
      BY <1>2, <1>3, OverlayType, Zenon DEF Commit, Carries
    <2>2. root' \in [Ids -> Leaves]
      BY <1>1, <1>2, <1>3, OverlayType, Zenon DEF Commit, Carries, Serialized
    <2>3. faults' = faults
      BY <1>3, Zenon DEF Commit
    <2> QED BY <1>1, <2>1, <2>2, <2>3, FlushEndTypes, EndTypes, Zenon DEF TypeInv, AccountTreeTypeOK
  <1>4. CASE FailWrite(w)
    <2>1. leaf' = leaf /\ root' = root
      BY <1>4, Zenon DEF FailWrite
    <2>2. faults' \in 0..MaxFaults
      BY <1>4, FaultsCount, Zenon DEF FailWrite, TypeInv, AccountTreeTypeOK
    <2> QED BY <1>1, <1>2, <2>1, <2>2, FlushEndTypes, EndTypes, Zenon
  <1> QED BY <1>3, <1>4

LEMMA TakeGateTypes ==
    ASSUME Shaped, TypeInv, NEW w \in Writers, TakeGate(w)
    PROVE  TypeInv'
  <1>1. /\ job' = [job EXCEPT ![w].pc = "writing", ![w].buffer = root]
        /\ gate = NoWriter /\ gate' = w
        /\ UNCHANGED <<treeAccounts, dirty, saved, leaf, root, faults>>
    BY DEF TakeGate, ledgerPart
  <1>2. /\ DOMAIN job' = Writers
        /\ job'[w].pc = "writing" /\ job'[w].pairs = job[w].pairs /\ job'[w].late = job[w].late
        /\ \A u \in Writers \ {w} : job'[u] = job[u]
    <2>1. /\ DOMAIN job' = Writers
          /\ \A u \in Writers \ {w} : job'[u] = job[u]
          /\ job'[w] = [job[w] EXCEPT !.pc = "writing", !.buffer = root]
      BY <1>1, Zenon DEF Shaped
    <2>2. job[w] = [pc |-> job[w].pc, pairs |-> job[w].pairs, buffer |-> job[w].buffer,
                    clone |-> job[w].clone, older |-> job[w].older, late |-> job[w].late]
      BY Zenon DEF Shaped
    <2>3. job'[w].pc = "writing" /\ job'[w].pairs = job[w].pairs /\ job'[w].late = job[w].late
      BY <2>1, <2>2, Zenon
    <2> QED BY <2>1, <2>3
  <1>3. \A u \in Writers : u # NoWriter
    BY TreeConstants DEF Writers, Flushers
  <1>4. \A u \in Writers : job'[u].pc = "writing" <=> gate' = u
    BY <1>1, <1>2, <1>3, Zenon DEF TypeInv, AccountTreeTypeOK
  <1>5. AccountTreeTypeOK'
    BY <1>1, <1>2, <1>4, Zenon DEF TypeInv, AccountTreeTypeOK
  <1>6. \A u \in Writers : Carries(job'[u])
    BY <1>2, Zenon DEF TypeInv, Carries
  <1> QED BY <1>5, <1>6 DEF TypeInv

LEMMA CloneTypes ==
    ASSUME Shaped, TypeInv, CloneAccounts
    PROVE  TypeInv'
  <1>1. /\ DOMAIN job' = Writers
        /\ job'["reconcile"].pc = "waiting" /\ job["reconcile"].pc = "idle"
        /\ job'["reconcile"].pairs = <<>> /\ job'["reconcile"].late = {}
        /\ \A u \in Writers \ {"reconcile"} : job'[u] = job[u]
        /\ UNCHANGED <<treeAccounts, dirty, saved, leaf, root, gate, faults>>
    BY FlushersWrite, Zenon DEF CloneAccounts, ledgerPart, Shaped
  <1>2. \A u \in Writers : job'[u].pc = "writing" <=> gate' = u
    BY <1>1, Zenon DEF TypeInv, AccountTreeTypeOK
  <1>3. AccountTreeTypeOK'
    BY <1>1, <1>2, Zenon DEF TypeInv, AccountTreeTypeOK
  <1>4. \A u \in Writers : Carries(job'[u])
    <2>1. DOMAIN job'["reconcile"].pairs = {} /\ job'["reconcile"].late = {}
      BY ONLY <1>1
    <2> QED BY <1>1, <2>1, Zenon DEF TypeInv, Carries
  <1> QED BY <1>3, <1>4 DEF TypeInv

LEMMA ReconcileTypes ==
    ASSUME Shaped, Serialized, TypeInv, ReconcileCommit \/ ReconcileAbort
    PROVE  TypeInv'
  <1> DEFINE w == "reconcile"
             c == job[w].clone
  <1>1. /\ job[w].pc = "writing" /\ job' = [job EXCEPT ![w] = IdleJob] /\ gate' = NoWriter
        /\ UNCHANGED <<treeAccounts, dirty, saved, faults>>
    BY Zenon DEF ReconcileCommit, ReconcileAbort, ledgerPart
  <1>2. leaf \in [Ids -> Leaves] /\ root \in [Ids -> Leaves] /\ w \in Writers
    BY FlushersWrite, Zenon DEF TypeInv, AccountTreeTypeOK
  <1>3. \A x \in DOMAIN Tombstones(c) : Tombstones(c)[x] \in Leaves
    BY EmptyType, Zenon DEF Tombstones
  <1>4. leaf' \in [Ids -> Leaves] /\ root' \in [Ids -> Leaves]
    <2>1. CASE ReconcileAbort
      BY <1>2, <2>1, Zenon DEF ReconcileAbort
    <2>2. CASE ReconcileCommit
      <3>1. leaf' = Overlay(leaf, Tombstones(c)) /\ root' = Overlay(root, Tombstones(c))
        BY <1>1, <1>2, <2>2, Zenon DEF ReconcileCommit, Serialized
      <3> HIDE DEF c
      <3> QED BY <1>2, <1>3, <3>1, OverlayType, Zenon
    <2> QED BY <2>1, <2>2, Zenon
  <1>5. /\ DOMAIN job' = Writers /\ job'[w] = IdleJob
        /\ \A u \in Writers \ {w} : job'[u] = job[u]
    BY <1>1, <1>2, Zenon DEF Shaped
  <1>6. \A u \in Writers : job'[u].pc = "writing" => job[u].pc = "writing" /\ u # w
    BY <1>5, IdleCarries, Zenon
  <1>7. \A u \in Writers : Carries(job'[u])
    BY <1>5, IdleCarries, Zenon DEF TypeInv
  <1>8. faults' \in 0..MaxFaults
    BY <1>1 DEF TypeInv, AccountTreeTypeOK
  <1> HIDE DEF w
  <1> QED BY <1>1, <1>2, <1>4, <1>5, <1>6, <1>7, <1>8, EndTypes

LEMMA ApplyOpTypes ==
    ASSUME TypeInv, NEW moved \in SUBSET Ids, NEW marked \in SUBSET Ids, ApplyOp(moved, marked)
    PROVE  TypeInv'
  <1>1. treeAccounts' \in [Ids -> AccountStates]
    <2>1. /\ treeAccounts \in [Ids -> AccountStates] /\ MaxState \in Nat
          /\ \A x \in moved : treeAccounts[x] < MaxState
          /\ treeAccounts' = [x \in Ids |-> IF x \in moved THEN treeAccounts[x] + 1 ELSE treeAccounts[x]]
      BY TreeConstants, Zenon DEF ApplyOp, TypeInv, AccountTreeTypeOK
    <2> QED BY ONLY <2>1 DEF AccountStates
  <1> QED BY <1>1, Zenon DEF ApplyOp, TypeInv, AccountTreeTypeOK

LEMMA SnapshotTypes ==
    ASSUME Shaped, TypeInv,
           SealSnapshot \/ \E scope \in SUBSET Ids : WitnessSnapshot(scope)
    PROVE  TypeInv'
  <1>1. treeAccounts \in [Ids -> AccountStates] /\ dirty \subseteq Ids
    BY Zenon DEF TypeInv, AccountTreeTypeOK
  <1>2. CASE SealSnapshot
    <2> DEFINE pairs == SnapshotDirty(dirty, treeAccounts)
    <2>1. /\ Hand("seal", pairs) /\ job["seal"].pc = "idle" /\ dirty' = {}
          /\ UNCHANGED <<treeAccounts, saved, leaf, root, gate, faults>>
      BY <1>2, Zenon DEF SealSnapshot
    <2>2. DOMAIN pairs \subseteq Ids /\ \A x \in DOMAIN pairs : pairs[x] \in Leaves
      BY <1>1, HashType DEF SnapshotDirty
    <2> HIDE DEF pairs
    <2> QED BY <1>1, <2>1, <2>2, HandTypes, FlushersWrite, Zenon
  <1>3. CASE \E scope \in SUBSET Ids : WitnessSnapshot(scope)
    <2>1. PICK scope \in SUBSET Ids : WitnessSnapshot(scope)
      BY <1>3
    <2> DEFINE pairs == SnapshotScoped(scope, {}, treeAccounts)
    <2>2. /\ Hand("witness", pairs) /\ job["witness"].pc = "idle" /\ dirty' = dirty \ scope
          /\ UNCHANGED <<treeAccounts, saved, leaf, root, gate, faults>>
      BY <2>1, Zenon DEF WitnessSnapshot
    <2>3. DOMAIN pairs \subseteq Ids /\ \A x \in DOMAIN pairs : pairs[x] \in Leaves
      BY <1>1, HashType DEF SnapshotScoped
    <2> HIDE DEF pairs
    <2> QED BY <1>1, <2>2, <2>3, HandTypes, FlushersWrite, Zenon
  <1> QED BY <1>2, <1>3, Zenon

LEMMA RepairSnapshotTypes ==
    ASSUME Shaped, TypeInv, NEW S \in SUBSET Ids, NEW changed \in [S -> 1..MaxState],
           NEW removed \in SUBSET Ids, NEW baseline, RepairSnapshot(changed, removed, baseline)
    PROVE  TypeInv'
  <1> DEFINE deletes == removed \cup IF baseline THEN {}
                                     ELSE {x \in Ids \ DOMAIN changed : treeAccounts[x] # NoAccount}
             scope   == DOMAIN changed \cup deletes
             accs    == [x \in Ids |-> IF x \in deletes THEN NoAccount
                                       ELSE IF x \in DOMAIN changed THEN changed[x] ELSE treeAccounts[x]]
             pairs   == SnapshotScoped(scope, deletes, accs)
  <1>1. /\ Hand("repair", pairs) /\ job["repair"].pc = "idle" /\ dirty' = dirty \ scope
        /\ treeAccounts' = accs
        /\ UNCHANGED <<saved, leaf, root, gate, faults>>
    BY Zenon DEF RepairSnapshot
  <1>2. treeAccounts \in [Ids -> AccountStates] /\ dirty \subseteq Ids
    BY Zenon DEF TypeInv, AccountTreeTypeOK
  <1>3. deletes \subseteq Ids /\ DOMAIN changed = S
    BY Zenon
  <1> HIDE DEF deletes
  <1>4. accs \in [Ids -> AccountStates] /\ scope \subseteq Ids
    <2>1. \A x \in S : changed[x] \in AccountStates
      BY TreeConstants DEF AccountStates
    <2>2. NoAccount \in AccountStates
      BY TreeConstants DEF AccountStates, NoAccount
    <2> QED BY <1>2, <1>3, <2>1, <2>2, Zenon
  <1> HIDE DEF accs, scope
  <1>5. DOMAIN pairs \subseteq Ids /\ \A x \in DOMAIN pairs : pairs[x] \in Leaves
    BY <1>4, HashType, EmptyType, Zenon DEF SnapshotScoped
  <1> HIDE DEF pairs
  <1> QED BY <1>1, <1>2, <1>4, <1>5, HandTypes, FlushersWrite, Zenon

LEMMA RestartTypes ==
    ASSUME TypeInv, Restart
    PROVE  TypeInv'
  <1>1. PICK accs \in [Ids -> AccountStates], again \in SUBSET Ids :
          LET scope == {x \in GenesisIds : accs[x] # NoAccount}
              pairs == SnapshotScoped(scope, {}, accs)
          IN  /\ treeAccounts' = accs
              /\ leaf' = Overlay(leaf, pairs) /\ root' = Overlay(root, pairs)
              /\ dirty' = again \ scope
    BY Zenon DEF Restart
  <1> DEFINE scope == {x \in GenesisIds : accs[x] # NoAccount}
             pairs == SnapshotScoped(scope, {}, accs)
  <1>2. \A x \in DOMAIN pairs : pairs[x] \in Leaves
    BY HashType, TreeConstants DEF SnapshotScoped
  <1>3. /\ treeAccounts' = accs /\ leaf' = Overlay(leaf, pairs) /\ root' = Overlay(root, pairs)
        /\ dirty' \subseteq Ids
    BY <1>1
  <1> HIDE DEF pairs
  <1>4. leaf' \in [Ids -> Leaves] /\ root' \in [Ids -> Leaves]
    BY <1>2, <1>3, OverlayType, Zenon DEF TypeInv, AccountTreeTypeOK
  <1>5. /\ job' = [w \in Writers |-> IdleJob] /\ gate' = NoWriter /\ saved' = saved
        /\ faults < MaxFaults /\ faults' = faults + 1
    BY DEF Restart
  <1>6. faults' \in 0..MaxFaults
    BY <1>5, FaultsCount, Zenon DEF TypeInv, AccountTreeTypeOK
  <1>7. \A w \in Writers : w # NoWriter
    BY TreeConstants, Zenon DEF Writers, Flushers
  <1>8. DOMAIN job' = Writers /\ \A w \in Writers : job'[w].pc = "writing" <=> gate' = w
    BY <1>5, <1>7, IdleCarries, Zenon
  <1>9. AccountTreeTypeOK'
    BY <1>3, <1>4, <1>5, <1>6, <1>8, Zenon DEF TypeInv, AccountTreeTypeOK
  <1> QED BY <1>5, <1>9, IdleCarries, Zenon DEF TypeInv

LEMMA NextTypes ==
    ASSUME TreeInv, TypeInv, [AccountTreeNext]_atVars
    PROVE  TypeInv'
  <1> Shaped /\ Serialized
    BY DEF TreeInv
  <1>1. CASE LedgerStep
    <2>1. CASE Checkpoint
      BY <2>1, Zenon DEF Checkpoint, TypeInv, AccountTreeTypeOK
    <2> QED BY <1>1, <2>1, ApplyOpTypes, Zenon DEF LedgerStep
  <1>2. CASE FlushStep
    <2>1. CASE \E S, removed \in SUBSET Ids : \E changed \in [S -> 1..MaxState] :
                 RepairSnapshot(changed, removed, TRUE) \/ RepairSnapshot(changed, removed, FALSE)
      <3>1. PICK S \in SUBSET Ids, removed \in SUBSET Ids : \E changed \in [S -> 1..MaxState] :
                   RepairSnapshot(changed, removed, TRUE) \/ RepairSnapshot(changed, removed, FALSE)
        BY <2>1, Zenon
      <3> QED BY <3>1, RepairSnapshotTypes, Zenon
    <2> QED BY <1>2, <2>1, SnapshotTypes, TakeGateTypes, CommitTypes, Zenon DEF FlushStep
  <1>3. CASE ReconcileStep
    BY <1>3, CloneTypes, ReconcileTypes, Zenon DEF ReconcileStep
  <1>4. CASE Restart
    BY <1>4, RestartTypes, Zenon
  <1>5. CASE UNCHANGED atVars
    BY <1>5, Zenon DEF atVars, TypeInv, AccountTreeTypeOK
  <1> QED BY <1>1, <1>2, <1>3, <1>4, <1>5, Zenon DEF AccountTreeNext

\* Whoever writes the tree holds account_smt_write_gate, whoever holds it writes, and every
\* variable keeps its type.
THEOREM TreeTypeCorrect == AccountTreeSpec => []AccountTreeTypeOK
  <1>1. TreeInv /\ TypeInv => AccountTreeTypeOK
    BY DEF TypeInv
  <1> QED BY <1>1, TreeInitially, TreeStep, InitTypes, NextTypes, PTL DEF AccountTreeSpec

\* No interleaving of the three flushes loses a state: where what a flush commits is not its
\* account's state, that state is marked or under way, or a younger flush has ended.  By
\* Entries, and because the younger flush under way that it names is another one.
THEOREM TreeFlushesLeaveNoLag == AccountTreeSpec => FlushLeavesNoLag
  <1> DEFINE NoLag ==
               \A w \in Flushers : Commit(w) =>
                 \A x \in DOMAIN job[w].pairs \ job[w].late :
                     \/ IsCurrent(leaf', treeAccounts, x)
                     \/ x \in dirty
                     \/ \E u \in Flushers \ {w} : Underway(u) /\ x \in DOMAIN job[u].pairs
  <1>1. TreeInv /\ TypeInv => NoLag
    <2> SUFFICES ASSUME TreeInv, TypeInv, NEW w \in Flushers, Commit(w),
                        NEW x \in DOMAIN job[w].pairs \ job[w].late,
                        ~IsCurrent(leaf', treeAccounts, x)
                 PROVE  x \in dirty \/ \E u \in Flushers \ {w} : Underway(u) /\ x \in DOMAIN job[u].pairs
      BY Zenon
    <2>1. x \in Ids
      BY FlushersWrite, Zenon DEF TypeInv, Carries
    <2>2. leaf'[x] = job[w].pairs[x]
      BY <2>1, Zenon DEF Commit, Overlay
    <2>3. ~Fits(job[w].pairs[x], treeAccounts[x])
      BY <2>2, Zenon DEF IsCurrent, Fits
    <2>4. Holds(w, x)
      BY Zenon DEF Commit, Holds, Underway
    <2>5. \A z \in Flushers : w \in job[z].older => z # w
      BY FlushersWrite, Zenon DEF TreeInv, Entries
    <2>6. x \in dirty \/ \E z \in Flushers : Holds(z, x) /\ w \in job[z].older
      BY <2>1, <2>3, <2>4, Zenon DEF TreeInv, Entries
    <2> QED BY <2>5, <2>6, Zenon DEF Holds
  <1>2. TreeInv /\ TypeInv /\ [AccountTreeNext]_atVars => [NoLag]_atVars
    BY <1>1
  <1> QED BY <1>2, TreeInitially, TreeStep, InitTypes, NextTypes, PTL DEF AccountTreeSpec, FlushLeavesNoLag
=============================================================================
