-------------------------- MODULE CrossZoneProofs --------------------------
(***************************************************************************)
(* Proofs about CrossZone for every set of identities and transfers, every *)
(* amount, timeout and committee size.                                     *)
(*                                                                         *)
(* XZInv is the inductive invariant.  The books need the status of every   *)
(* entry, the counters need the entries, and the rule that a sealed lock   *)
(* is not refunded before the horizon needs BatchesOverdue, because a      *)
(* batch is applied in a later state than the one it was frozen in.        *)
(***************************************************************************)
EXTENDS CrossZone, UnitsTheorems

\* An entry of pending comes from a record that was applied.
EntriesApplied == \A t \in Transfers : pending[t] # Absent => t \in applied

XZInv ==
    /\ XZTypeOK
    /\ EntriesApplied
    /\ EscrowBooks
    /\ EscrowConservation
    /\ StatusCounts
    /\ IndexSound
    /\ BatchesOverdue
-----------------------------------------------------------------------------
\* A Locked entry is a transfer, with the fields of one.
LEMMA LockedEntry ==
    ASSUME XZTypeOK, NEW t \in Transfers, Locked(t)
    PROVE  /\ pending[t] \in PendingTransfer
           /\ pending[t].amount \in Nat
           /\ pending[t].sender \in Identities /\ pending[t].recipient \in Identities
           /\ pending[t].lockedAt \in Nat /\ pending[t].expiresAt \in Nat
           /\ pending[t].proof \in BOOLEAN
<1>1. pending[t] \in PendingTransfer \cup {Absent}
  BY DEF XZTypeOK
<1>2. pending[t] # Absent
  BY DEF Locked, Absent
<1>3. pending[t] \in PendingTransfer
  BY <1>1, <1>2
<1> QED BY <1>3 DEF PendingTransfer

\* The escrow of every transfer is an amount.
LEMMA EscrowOfType ==
    ASSUME XZTypeOK
    PROVE  /\ EscrowOf \in [Transfers -> Nat]
           /\ \A t \in Transfers : EscrowOf[t] = IF Locked(t) THEN pending[t].amount ELSE 0
           /\ Total(EscrowOf) \in Nat
<1>1. \A t \in Transfers : (IF Locked(t) THEN pending[t].amount ELSE 0) \in Nat
  BY LockedEntry
<1>2. /\ EscrowOf \in [Transfers -> Nat]
      /\ \A t \in Transfers : EscrowOf[t] = IF Locked(t) THEN pending[t].amount ELSE 0
  BY <1>1 DEF EscrowOf
<1> QED BY <1>2, UnitsFinite, XZoneConstants

\* Sets of entries are finite.
LEMMA WithFinite ==
    ASSUME NEW s
    PROVE  IsFiniteSet(With(s)) /\ Cardinality(With(s)) \in Nat
BY XZoneConstants, FS_Subset, FS_CardinalityType DEF With

\* The initial states satisfy the invariant.
LEMMA InitInv == XZInit => XZInv
<1> SUFFICES ASSUME XZInit PROVE XZInv
  OBVIOUS
<1> USE DEF XZInit
<1>1. XZTypeOK
  BY XZoneConstants DEF XZTypeOK
<1>2. \A t \in Transfers : pending[t].status = "Absent"
  BY DEF Absent
<1>3. Total(EscrowOf) = 0
  BY <1>1, <1>2, EscrowOfType, TotalZero DEF Locked
<1>4. EscrowBooks /\ EscrowConservation
  BY <1>3, XZoneConstants DEF EscrowBooks, EscrowConservation
<1>5. \A s \in Statuses : With(s) = {}
  BY <1>2 DEF With, Statuses
<1>6. StatusCounts
  BY <1>5, FS_EmptySet, Zenon DEF StatusCounts
<1>7. IndexSound /\ BatchesOverdue
  BY DEF IndexSound, BatchesOverdue
<1>8. EntriesApplied
  BY DEF EntriesApplied
<1> QED BY <1>1, <1>4, <1>6, <1>7, <1>8 DEF XZInv
-----------------------------------------------------------------------------
\* XZoneLock moves the amount from the sender's balance into both trackers.
LEMMA LockInv ==
    ASSUME XZInv, NEW t \in Transfers, NEW s \in Identities, NEW r \in Identities,
           NEW amount \in Amounts, NEW ts \in 0..MaxLockTime, XZoneLock(t, s, r, amount, ts)
    PROVE  XZInv'
<1> DEFINE entry == [status |-> "Locked", sender |-> s, recipient |-> r,
           amount |-> amount, lockedAt |-> ts, expiresAt |-> ts + ClaimTimeout,
           proof |-> FALSE, signers |-> 0, committee |-> 0, epoch |-> 0, anchor |-> 0]
<1>1. /\ amount \in Nat /\ amount > 0 /\ ts \in Nat /\ ClaimTimeout \in Nat
      /\ amount <= available[s] /\ t \notin applied /\ pending[t] = Absent
      /\ available \in [Identities -> Nat]
      /\ IsFiniteSet(Transfers) /\ IsFiniteSet(Identities)
  BY XZoneConstants DEF XZInv, XZTypeOK, XZoneLock, Covers, Fresh
<1>2. entry \in PendingTransfer
  BY <1>1 DEF PendingTransfer, Statuses
<1>3. pending' = [pending EXCEPT ![t] = entry]
  BY DEF XZoneLock
<1> HIDE DEF entry
<1>4. XZTypeOK'
  <2>1. pending' \in [Transfers -> PendingTransfer \cup {Absent}]
    BY <1>2, <1>3 DEF XZInv, XZTypeOK
  <2>2. available' \in [Identities -> Nat]
    BY <1>1 DEF XZoneLock
  <2>3. count' \in [Statuses -> Nat]
    BY DEF XZInv, XZTypeOK, XZoneLock, Statuses
  <2> QED BY <2>1, <2>2, <2>3, <1>1 DEF XZInv, XZTypeOK, XZoneLock, bootVars
<1>5. /\ pending'[t].status = "Locked" /\ pending'[t].amount = amount
      /\ pending'[t].proof = FALSE /\ pending[t].status = "Absent"
      /\ \A u \in Transfers : u # t => pending'[u] = pending[u]
  BY <1>1, <1>3 DEF entry, Absent, XZInv, XZTypeOK
<1>6. EscrowOf' = [EscrowOf EXCEPT ![t] = amount] /\ EscrowOf[t] = 0
  BY <1>4, <1>5, EscrowOfType DEF EscrowOf, Locked, XZInv
<1>7. Total(EscrowOf') = Total(EscrowOf) + amount
  <2>1. Total([EscrowOf EXCEPT ![t] = amount]) = Total(EscrowOf) - EscrowOf[t] + amount
    BY <1>1, EscrowOfType, TotalUpdate DEF XZInv
  <2> QED BY <2>1, <1>1, <1>6, EscrowOfType DEF XZInv
<1>8. EscrowBooks'
  BY <1>7 DEF EscrowBooks, XZoneLock, XZInv
<1>9. EscrowConservation'
  <2> DEFINE v == available[s] - amount
  <2>1. available' = [available EXCEPT ![s] = v]
    BY DEF XZoneLock
  <2>2. /\ Total(available) \in Nat /\ available[s] \in Nat
        /\ v \in Nat /\ v = available[s] - amount
    BY <1>1, UnitsFinite
  <2> HIDE DEF v
  <2>3. Total(available') = Total(available) - available[s] + v
    BY <1>1, <2>1, <2>2, TotalUpdate
  <2> QED BY <2>2, <2>3, <1>1 DEF EscrowConservation, XZoneLock, XZInv, XZTypeOK
<1>10. StatusCounts'
  <2>1. With("Locked")' = With("Locked") \cup {t} /\ t \notin With("Locked")
    BY <1>5 DEF With
  <2>2. \A st \in Statuses \ {"Locked"} : With(st)' = With(st)
    BY <1>5 DEF With, Statuses
  <2>3. Cardinality(With("Locked")') = Cardinality(With("Locked")) + 1
    BY <2>1, WithFinite, FS_AddElement
  <2>4. /\ count'["Locked"] = count["Locked"] + 1
        /\ \A st \in Statuses \ {"Locked"} : count'[st] = count[st]
    BY DEF XZoneLock, XZInv, XZTypeOK, Statuses
  <2> QED BY <2>2, <2>3, <2>4 DEF StatusCounts, XZInv
<1>11. IndexSound'
  BY <1>5 DEF IndexSound, XZInv, XZTypeOK, XZoneLock, Unsealed, Locked
<1>12. BatchesOverdue'
  <2>1. \A b \in batches : \A u \in b.ids : u \in Transfers /\ u # t
    BY <1>1 DEF XZInv, BatchesOverdue, XZTypeOK, Batches
  <2> QED BY <1>5, <2>1 DEF BatchesOverdue, XZInv, XZoneLock
<1>13. EntriesApplied'
  BY <1>5 DEF EntriesApplied, XZInv, XZoneLock
<1> QED BY <1>4, <1>8, <1>9, <1>10, <1>11, <1>12, <1>13 DEF XZInv

\* u64::saturating_sub is subtraction when nothing saturates.
LEMMA SatSubExact ==
    ASSUME NEW x \in Nat, NEW y \in Nat, y <= x
    PROVE  SatSub(x, y) = x - y /\ SatSub(x, y) \in Nat
BY DEF SatSub

\* The release of one transfer gives its amount to one account and takes it off
\* both trackers.
LEMMA ReleaseInv ==
    ASSUME XZInv, NEW t \in Transfers, Locked(t),
           NEW status \in {"Claimed", "Refunded", "Aborted"}, NEW to \in Identities,
           Release(t, status, to), needsProof' \subseteq needsProof, t \notin needsProof'
    PROVE  XZInv'
<1> DEFINE amount == pending[t].amount
<1>1. /\ amount \in Nat /\ pending[t] \in PendingTransfer
      /\ available \in [Identities -> Nat] /\ count \in [Statuses -> Nat]
      /\ pending \in [Transfers -> PendingTransfer \cup {Absent}]
      /\ IsFiniteSet(Transfers) /\ IsFiniteSet(Identities) /\ pending[t] # Absent
  BY LockedEntry, XZoneConstants DEF XZInv, XZTypeOK, Locked, Absent
<1>2. /\ pending'[t] = [pending[t] EXCEPT !.status = status]
      /\ \A u \in Transfers : u # t => pending'[u] = pending[u]
  BY <1>1 DEF Release
<1>3. /\ pending'[t] \in PendingTransfer /\ pending'[t].status = status
      /\ pending'[t].expiresAt = pending[t].expiresAt
  BY <1>1, <1>2 DEF PendingTransfer, Statuses
<1>4. pending' \in [Transfers -> PendingTransfer \cup {Absent}]
  <2>1. \A u \in Transfers : pending'[u] \in PendingTransfer \cup {Absent}
    BY <1>1, <1>2, <1>3
  <2> QED BY <1>1, <2>1 DEF Release
<1>5. EscrowOf[t] = amount /\ amount <= Total(EscrowOf)
  BY <1>1, EscrowOfType, TotalAtLeast DEF XZInv
<1>6. /\ totalLocked' = Total(EscrowOf) - amount /\ totalLocked' \in Nat
      /\ pendingXzoneLocked' = Total(EscrowOf) - amount /\ pendingXzoneLocked' \in Nat
  BY <1>1, <1>5, SatSubExact, EscrowOfType DEF Release, XZInv, EscrowBooks
<1>7. With("Locked")' = With("Locked") \ {t} /\ t \in With("Locked")
  BY <1>2, <1>3, Zenon DEF With, Locked
<1>8. With(status)' = With(status) \cup {t} /\ t \notin With(status)
  BY <1>2, <1>3, Zenon DEF With, Locked
<1>9. \A s \in Statuses \ {"Locked", status} : With(s)' = With(s)
  BY <1>2, <1>3, Zenon DEF With, Locked
<1>10. /\ Cardinality(With("Locked")') = count["Locked"] - 1 /\ count["Locked"] >= 1
       /\ Cardinality(With(status)') = count[status] + 1
  <2>1. /\ count["Locked"] = Cardinality(With("Locked"))
        /\ count[status] = Cardinality(With(status))
    BY DEF XZInv, StatusCounts, Statuses
  <2>2. Cardinality(With("Locked")') = Cardinality(With("Locked")) - 1
    BY <1>7, WithFinite, FS_RemoveElement
  <2>3. Cardinality(With("Locked")) # 0
    BY <1>7, WithFinite, FS_EmptySet
  <2>4. Cardinality(With(status)') = Cardinality(With(status)) + 1
    BY <1>8, WithFinite, FS_AddElement, Zenon
  <2> QED BY <2>1, <2>2, <2>3, <2>4, WithFinite
<1>11. /\ count'["Locked"] = count["Locked"] - 1
       /\ count'[status] = count[status] + 1
       /\ \A s \in Statuses \ {"Locked", status} : count'[s] = count[s]
       /\ count' \in [Statuses -> Nat]
  <2>1. SatSub(count["Locked"], 1) = count["Locked"] - 1 /\ count["Locked"] - 1 \in Nat
    BY <1>1, <1>10 DEF SatSub, Statuses
  <2> QED BY <1>1, <2>1 DEF Release, Statuses
<1>12. XZTypeOK'
  <2>1. available' \in [Identities -> Nat]
    BY <1>1 DEF Release
  <2> QED BY <1>4, <1>6, <1>11, <2>1 DEF XZTypeOK, XZInv, Release, bootVars
<1>13. EscrowBooks'
  <2>1. /\ EscrowOf \in [Transfers -> Nat] /\ EscrowOf' \in [Transfers -> Nat]
        /\ EscrowOf'[t] = 0 /\ \A u \in Transfers : u # t => EscrowOf'[u] = EscrowOf[u]
    <3>1. EscrowOf \in [Transfers -> Nat]
      BY EscrowOfType DEF XZInv
    <3>2. EscrowOf'[t] = 0 /\ \A u \in Transfers : u # t => EscrowOf'[u] = EscrowOf[u]
      BY <1>2, <1>3, Zenon DEF EscrowOf, Locked
    <3>3. EscrowOf' \in [Transfers -> Nat]
      <4>1. \A u \in Transfers : EscrowOf'[u] \in Nat
        BY <3>1, <3>2
      <4> QED BY <4>1 DEF EscrowOf
    <3> QED BY <3>1, <3>2, <3>3
  <2>2. Total(EscrowOf') = Total(EscrowOf) - EscrowOf[t] + EscrowOf'[t]
    BY <2>1, <1>1, TotalPut
  <2>3. Total(EscrowOf') = Total(EscrowOf) - amount
    BY <2>1, <2>2, <1>1, <1>5, EscrowOfType DEF XZInv
  <2> QED BY <1>6, <2>3 DEF EscrowBooks
<1>14. EscrowConservation'
  <2>1. /\ available' \in [Identities -> Nat] /\ available'[to] = available[to] + amount
        /\ \A a \in Identities : a # to => available'[a] = available[a]
    BY <1>1 DEF Release
  <2>2. Total(available) \in Nat /\ available[to] \in Nat
    BY <1>1, UnitsFinite
  <2>3. Total(available') = Total(available) - available[to] + available'[to]
    BY <1>1, <2>1, TotalPut
  <2>4. Total(available) + Total(EscrowOf) = Supply
    BY DEF XZInv, EscrowConservation, EscrowBooks
  <2>5. Total(EscrowOf) \in Nat
    BY EscrowOfType DEF XZInv
  <2> HIDE DEF amount
  <2> QED BY <1>1, <1>6, <2>1, <2>2, <2>3, <2>4, <2>5 DEF EscrowConservation
<1>15. StatusCounts'
  BY <1>9, <1>10, <1>11 DEF StatusCounts, XZInv
<1>16. IndexSound'
  BY <1>2 DEF IndexSound, XZInv, XZTypeOK, Unsealed, Locked
<1>17. BatchesOverdue'
  <2>1. \A u \in Transfers : pending'[u] # Absent =>
           pending[u] # Absent /\ pending'[u].expiresAt = pending[u].expiresAt
    BY <1>1, <1>2, <1>3, Zenon
  <2>2. \A b \in batches : b.ids \subseteq Transfers
    BY DEF XZInv, XZTypeOK, Batches
  <2> QED BY <2>1, <2>2 DEF BatchesOverdue, XZInv, Release
<1>18. EntriesApplied'
  BY <1>1, <1>2 DEF EntriesApplied, XZInv, Release
<1> QED BY <1>12, <1>13, <1>14, <1>15, <1>16, <1>17, <1>18, Zenon DEF XZInv

\* A batch gives every sender the sum of the amounts it sent, and takes the sum
\* of all of them off both trackers.
LEMMA RefundAllInv ==
    ASSUME XZInv, NEW T \in SUBSET Transfers, \A t \in T : Locked(t), RefundAll(T),
           needsProof' \subseteq needsProof, needsProof' \cap T = {},
           batches' \subseteq batches
    PROVE  XZInv'
<1> DEFINE w == [t \in T |-> pending[t].amount]
           k == [t \in T |-> pending[t].sender]
<1>1. /\ available \in [Identities -> Nat] /\ count \in [Statuses -> Nat]
      /\ pending \in [Transfers -> PendingTransfer \cup {Absent}]
      /\ IsFiniteSet(Transfers) /\ IsFiniteSet(Identities) /\ IsFiniteSet(T)
      /\ EscrowOf \in [Transfers -> Nat] /\ Total(EscrowOf) \in Nat
  BY XZoneConstants, EscrowOfType, FS_Subset DEF XZInv, XZTypeOK
<1>2. \A t \in T : /\ pending[t] \in PendingTransfer /\ pending[t] # Absent
                    /\ pending[t].amount \in Nat /\ pending[t].sender \in Identities
                    /\ pending[t].status = "Locked"
  BY LockedEntry DEF XZInv, Locked, Absent
<1>3. w \in [T -> Nat] /\ k \in [T -> Identities] /\ Held(T) = Total(w)
  BY <1>2 DEF Held
<1>4. \A u \in Transfers : pending'[u] =
         IF u \in T THEN [pending[u] EXCEPT !.status = "Refunded"] ELSE pending[u]
  BY DEF RefundAll
<1>5. \A t \in T : /\ pending'[t] \in PendingTransfer /\ pending'[t].status = "Refunded"
                    /\ pending'[t].expiresAt = pending[t].expiresAt
  <2> SUFFICES ASSUME NEW t \in T
               PROVE  /\ pending'[t] \in PendingTransfer /\ pending'[t].status = "Refunded"
                      /\ pending'[t].expiresAt = pending[t].expiresAt
    OBVIOUS
  <2>1. pending'[t] = [pending[t] EXCEPT !.status = "Refunded"]
    BY <1>4
  <2>2. pending[t] \in PendingTransfer
    BY <1>2
  <2> QED BY <2>1, <2>2 DEF PendingTransfer, Statuses
<1>6. pending' \in [Transfers -> PendingTransfer \cup {Absent}]
  <2>1. \A u \in Transfers : pending'[u] \in PendingTransfer \cup {Absent}
    BY <1>1, <1>4, <1>5, Zenon
  <2> QED BY <2>1 DEF RefundAll
<1> DEFINE eT == [t \in T |-> EscrowOf[t]]
           eR == [t \in Transfers \ T |-> EscrowOf[t]]
           fT == [t \in T |-> EscrowOf'[t]]
           fR == [t \in Transfers \ T |-> EscrowOf'[t]]
<1>7. eT = w
  BY <1>2 DEF EscrowOf, Locked
<1>8. /\ \A t \in T : EscrowOf'[t] = 0
      /\ \A t \in Transfers \ T : EscrowOf'[t] = EscrowOf[t]
      /\ EscrowOf' \in [Transfers -> Nat]
  <2>1. \A t \in T : EscrowOf'[t] = 0
    BY <1>5 DEF EscrowOf, Locked
  <2>2. \A t \in Transfers \ T : EscrowOf'[t] = EscrowOf[t]
    BY <1>4, Zenon DEF EscrowOf, Locked
  <2>3. \A t \in Transfers : EscrowOf'[t] \in Nat
    BY <1>1, <2>1, <2>2
  <2>4. EscrowOf' \in [Transfers -> Nat]
    BY <2>3 DEF EscrowOf
  <2> QED BY <2>1, <2>2, <2>4
<1>9. Total(EscrowOf) = Held(T) + Total(eR) /\ Total(EscrowOf') = Total(eR)
  <2>1. Total(EscrowOf) = Total(eT) + Total(eR)
    <3>1. EscrowOf \in [Transfers -> Nat] /\ IsFiniteSet(Transfers) /\ T \in SUBSET Transfers
      BY <1>1
    <3>2. Total(EscrowOf) = Total([x \in T |-> EscrowOf[x]])
                            + Total([x \in Transfers \ T |-> EscrowOf[x]])
      BY ONLY <3>1, TotalPartition
    <3> QED BY <3>2
  <2>2. Total(EscrowOf') = Total(fT) + Total(fR)
    <3>1. EscrowOf' \in [Transfers -> Nat] /\ IsFiniteSet(Transfers) /\ T \in SUBSET Transfers
      BY <1>1, <1>8
    <3>2. Total(EscrowOf') = Total([x \in T |-> EscrowOf'[x]])
                             + Total([x \in Transfers \ T |-> EscrowOf'[x]])
      BY ONLY <3>1, TotalPartition
    <3> QED BY <3>2
  <2>3. fR = eR /\ fT \in [T -> Nat] /\ \A t \in T : fT[t] = 0
    BY <1>8
  <2>4. Total(fT) = 0
    <3> HIDE DEF fT
    <3> QED BY <2>3, TotalZero
  <2>5. Total(eR) \in Nat
    <3>1. eR \in [Transfers \ T -> Nat] /\ IsFiniteSet(Transfers \ T)
      BY <1>1, FS_Difference, Zenon
    <3> HIDE DEF eR
    <3> QED BY <3>1, UnitsFinite
  <2> HIDE DEF eT, eR, fT, fR
  <2> QED BY <1>3, <1>7, <2>1, <2>2, <2>3, <2>4, <2>5
<1>10. Held(T) \in Nat /\ Total(eR) \in Nat
  <2>1. Total(w) \in Nat
    <3> HIDE DEF w
    <3> QED BY <1>1, <1>3, UnitsFinite
  <2>2. eR \in [Transfers \ T -> Nat] /\ IsFiniteSet(Transfers \ T)
    BY <1>1, FS_Difference
  <2>3. Total(eR) \in Nat
    <3> HIDE DEF eR
    <3> QED BY <2>2, UnitsFinite
  <2> QED BY <1>3, <2>1, <2>3
<1> HIDE DEF w, k, eT, eR, fT, fR
<1>11. /\ totalLocked' = Total(EscrowOf') /\ totalLocked' \in Nat
       /\ pendingXzoneLocked' = Total(EscrowOf') /\ pendingXzoneLocked' \in Nat
  <2>1. SatSub(Total(EscrowOf), Held(T)) = Total(EscrowOf')
    BY <1>9, <1>10 DEF SatSub
  <2> QED BY <1>9, <1>10, <2>1 DEF RefundAll, XZInv, EscrowBooks
<1>12. Total(available') = Total(available) + Held(T) /\ available' \in [Identities -> Nat]
  <2> DEFINE h == [a \in Identities |-> Total([t \in {t \in T : k[t] = a} |-> w[t]])]
  <2>1. Total(h) = Total(w)
    <3>1. /\ IsFiniteSet(Identities) /\ IsFiniteSet(T)
          /\ w \in [T -> Nat] /\ k \in [T -> Identities]
      BY <1>1, <1>3
    <3>2. Total([a \in Identities |-> Total([t \in {t \in T : k[t] = a} |-> w[t]])]) = Total(w)
      BY ONLY <3>1, TotalGroups
    <3> QED BY <3>2
  <2>2. ASSUME NEW a \in Identities PROVE HeldFor(a, T) = h[a] /\ h[a] \in Nat
    <3> DEFINE D == {t \in T : pending[t].sender = a}
               d == [t \in D |-> pending[t].amount]
    <3>1. HeldFor(a, T) = Total(d)
      BY DEF HeldFor, Held
    <3>2. {t \in T : k[t] = a} = D
      BY DEF k
    <3>3. [t \in D |-> w[t]] = d
      BY DEF w
    <3>4. h[a] = Total(d)
      BY <3>2, <3>3
    <3>5. d \in [D -> Nat] /\ IsFiniteSet(D)
      BY <1>1, <1>2, FS_Subset
    <3>6. Total(d) \in Nat
      <4> HIDE DEF d, D
      <4> QED BY <3>5, UnitsFinite
    <3> QED BY <3>1, <3>4, <3>6
  <2>3. h \in [Identities -> Nat]
    BY <2>2
  <2>4. available' = [a \in Identities |-> available[a] + h[a]]
    BY <2>2 DEF RefundAll
  <2> HIDE DEF h
  <2>5. Total(available') = Total(available) + Total(h)
    BY <1>1, <2>3, <2>4, TotalSum
  <2>6. available' \in [Identities -> Nat]
    BY <1>1, <2>3, <2>4
  <2> QED BY <1>3, <2>1, <2>5, <2>6
<1>13. EscrowConservation'
  <2>1. Total(available) + Total(EscrowOf) = Supply /\ Total(available) \in Nat
    BY <1>1, UnitsFinite DEF XZInv, EscrowConservation, EscrowBooks
  <2> QED BY <1>9, <1>10, <1>11, <1>12, <2>1 DEF EscrowConservation
<1>14. /\ T \subseteq With("Locked") /\ With("Locked")' = With("Locked") \ T
       /\ With("Refunded")' = With("Refunded") \cup T /\ With("Refunded") \cap T = {}
       /\ \A s \in Statuses \ {"Locked", "Refunded"} : With(s)' = With(s)
  <2>1. T \subseteq With("Locked") /\ With("Refunded") \cap T = {}
    BY <1>2 DEF With
  <2>2. With("Locked")' = With("Locked") \ T /\ With("Refunded")' = With("Refunded") \cup T
    BY <1>4, <1>5, Zenon DEF With
  <2>3. \A s \in Statuses \ {"Locked", "Refunded"} : With(s)' = With(s)
    BY <1>2, <1>4, <1>5, Zenon DEF With
  <2> QED BY <2>1, <2>2, <2>3
<1> DEFINE n == Cardinality(T)
<1>15. /\ n \in Nat /\ n <= Cardinality(With("Locked"))
       /\ Cardinality(With("Locked")') = Cardinality(With("Locked")) - n
       /\ Cardinality(With("Refunded")') = Cardinality(With("Refunded")) + n
  <2>1. n \in Nat /\ n <= Cardinality(With("Locked"))
    BY <1>1, <1>14, WithFinite, FS_Subset, FS_CardinalityType
  <2>2. With("Locked") \cap T = T
    BY <1>14
  <2>3. Cardinality(With("Locked")') = Cardinality(With("Locked")) - n
    BY <1>14, <2>2, WithFinite, FS_Difference, Zenon
  <2>4. Cardinality(With("Refunded") \cup T) = Cardinality(With("Refunded")) + n - 0
    BY <1>1, <1>14, WithFinite, FS_Union, FS_EmptySet
  <2>5. Cardinality(With("Refunded")') = Cardinality(With("Refunded") \cup T)
    BY <1>14
  <2>6. Cardinality(With("Refunded")) \in Nat
    BY WithFinite
  <2> HIDE DEF n
  <2> QED BY <2>1, <2>3, <2>4, <2>5, <2>6
<1> HIDE DEF n
<1>16. StatusCounts' /\ count' \in [Statuses -> Nat]
  <2>1. /\ count["Locked"] = Cardinality(With("Locked"))
        /\ count["Refunded"] = Cardinality(With("Refunded"))
    BY DEF XZInv, StatusCounts, Statuses
  <2>2. SatSub(count["Locked"], n) = count["Locked"] - n /\ count["Locked"] - n \in Nat
    BY <1>15, <2>1, WithFinite, SatSubExact
  <2>3. /\ count'["Locked"] = count["Locked"] - n
        /\ count'["Refunded"] = count["Refunded"] + n
        /\ \A s \in Statuses \ {"Locked", "Refunded"} : count'[s] = count[s]
    BY <1>1, <2>2 DEF RefundAll, n, Statuses
  <2>4. count' \in [Statuses -> Nat]
    BY <1>1, <1>15, <2>2 DEF RefundAll, n, Statuses
  <2> QED BY <1>14, <1>15, <2>1, <2>3, <2>4 DEF StatusCounts, XZInv
<1>17. XZTypeOK'
  BY <1>6, <1>11, <1>12, <1>16 DEF XZTypeOK, XZInv, RefundAll, bootVars
<1>18. EscrowBooks'
  BY <1>11 DEF EscrowBooks
<1>19. IndexSound'
  BY <1>4, Zenon DEF IndexSound, XZInv, XZTypeOK, Unsealed, Locked
<1>20. BatchesOverdue'
  <2>1. \A u \in Transfers : pending'[u] # Absent =>
           pending[u] # Absent /\ pending'[u].expiresAt = pending[u].expiresAt
    BY <1>2, <1>4, <1>5, Zenon
  <2>2. \A b \in batches : b.ids \subseteq Transfers
    BY DEF XZInv, XZTypeOK, Batches
  <2> QED BY <2>1, <2>2 DEF BatchesOverdue, XZInv, RefundAll
<1>21. EntriesApplied'
  BY <1>2, <1>4 DEF EntriesApplied, XZInv, RefundAll
<1> QED BY <1>13, <1>16, <1>17, <1>18, <1>19, <1>20, <1>21 DEF XZInv

\* Steps that leave status, amount and deadline of every entry, the balances and
\* the trackers alone keep the books and the counters.
LEMMA QuietInv ==
    ASSUME XZInv, XZTypeOK', EntriesApplied', IndexSound', BatchesOverdue',
           UNCHANGED <<available, pendingXzoneLocked, totalLocked, count>>,
           \A t \in Transfers : /\ pending'[t].status = pending[t].status
                                /\ Locked(t) => pending'[t].amount = pending[t].amount
    PROVE  XZInv'
<1>1. EscrowOf' = EscrowOf
  BY DEF EscrowOf, Locked
<1>2. \A s \in Statuses : With(s)' = With(s)
  BY DEF With
<1>3. EscrowBooks' /\ EscrowConservation'
  BY <1>1 DEF XZInv, EscrowBooks, EscrowConservation
<1>4. StatusCounts'
  BY <1>2, Zenon DEF XZInv, StatusCounts
<1> QED BY <1>3, <1>4 DEF XZInv

\* A seal changes what is known of a transfer, not what it holds.
LEMMA AttachInv ==
    ASSUME XZInv, NEW sealed \in SUBSET needsProof, NEW only \in BOOLEAN,
           NEW coll \in Collections \cup {NoCollection},
           NEW anchor \in CommitteeSizes \cup {0},
           AttachXZoneProofs(sealed, only, coll, anchor)
    PROVE  XZInv'
<1> DEFINE todo == {t \in sealed : Unsealed(t)}
           With1(t) == [WithWitnesses(pending[t], coll) EXCEPT
                          !.proof = ~only, !.anchor = IF anchor = 0 THEN @ ELSE anchor]
<1>1. /\ pending \in [Transfers -> PendingTransfer \cup {Absent}]
      /\ needsProof \subseteq Transfers /\ anchor \in Nat
      /\ coll.signers \in Nat /\ coll.committee \in Nat /\ coll.epoch \in Nat
  <2>1. anchor \in Nat
    BY XZoneConstants
  <2>2. coll.signers \in Nat /\ coll.committee \in Nat /\ coll.epoch \in Nat
    <3>1. CASE coll = NoCollection
      BY <3>1 DEF NoCollection
    <3>2. CASE coll \in Collections
      <4>1. PICK size \in CommitteeSizes :
               coll \in [signers : 1..size, committee : {size}, epoch : SealEpochs]
        BY <3>2 DEF Collections
      <4>2. size \in Nat /\ SealEpochs \subseteq Nat
        BY XZoneConstants
      <4>3. coll.signers \in 1..size /\ coll.committee = size /\ coll.epoch \in SealEpochs
        BY <4>1
      <4>4. \A i \in 1..size : i \in Nat
        BY <4>2
      <4> QED BY <4>2, <4>3, <4>4, Zenon
    <3> QED BY <3>1, <3>2
  <2> QED BY <2>1, <2>2 DEF XZInv, XZTypeOK
<1>2. \A t \in Transfers : pending'[t] = IF t \notin todo THEN pending[t] ELSE With1(t)
  BY Zenon DEF AttachXZoneProofs
<1>3. ASSUME NEW t \in todo
      PROVE  /\ t \in Transfers /\ Locked(t) /\ With1(t) \in PendingTransfer
             /\ With1(t).status = "Locked" /\ With1(t).amount = pending[t].amount
             /\ With1(t).expiresAt = pending[t].expiresAt
             /\ pending[t] # Absent
  <2>1. t \in Transfers /\ Locked(t)
    BY <1>1 DEF Unsealed
  <2>2. pending[t] \in PendingTransfer /\ pending[t].status = "Locked" /\ pending[t] # Absent
    BY <2>1, LockedEntry DEF XZInv, Locked, Absent
  <2>3. /\ WithWitnesses(pending[t], coll) \in PendingTransfer
        /\ WithWitnesses(pending[t], coll).status = "Locked"
        /\ WithWitnesses(pending[t], coll).amount = pending[t].amount
        /\ WithWitnesses(pending[t], coll).expiresAt = pending[t].expiresAt
    BY <1>1, <2>2, Zenon DEF WithWitnesses, PendingTransfer
  <2> DEFINE x == WithWitnesses(pending[t], coll)
  <2>4. With1(t) = [x EXCEPT !.proof = ~only, !.anchor = IF anchor = 0 THEN @ ELSE anchor]
    OBVIOUS
  <2> HIDE DEF x, With1
  <2>5. With1(t) \in PendingTransfer /\ With1(t).status = x.status
        /\ With1(t).amount = x.amount /\ With1(t).expiresAt = x.expiresAt
    BY <1>1, <2>3, <2>4, Zenon DEF PendingTransfer, x
  <2> QED BY <2>1, <2>2, <2>3, <2>5 DEF x
<1> HIDE DEF With1
<1>4. XZTypeOK'
  <2>1. pending' \in [Transfers -> PendingTransfer \cup {Absent}]
    <3>1. \A t \in Transfers : pending'[t] \in PendingTransfer \cup {Absent}
      BY <1>1, <1>2, <1>3, Zenon
    <3> QED BY <3>1, Zenon DEF AttachXZoneProofs
  <2>2. needsProof' \subseteq Transfers
    BY <1>1, Zenon DEF AttachXZoneProofs, Unindexed
  <2>3. proved' \subseteq Transfers
    BY <1>1, Zenon DEF AttachXZoneProofs, XZInv, XZTypeOK
  <2> QED BY <2>1, <2>2, <2>3, Zenon DEF AttachXZoneProofs, XZInv, XZTypeOK
<1>5. \A t \in Transfers : /\ pending'[t].status = pending[t].status
                           /\ Locked(t) => pending'[t].amount = pending[t].amount
                           /\ pending'[t] # Absent =>
                                /\ pending[t] # Absent
                                /\ pending'[t].expiresAt = pending[t].expiresAt
  BY <1>2, <1>3, Zenon DEF Locked
<1>6. IndexSound'
  <2>1. needsProof' = needsProof \ todo
    BY Zenon DEF AttachXZoneProofs, Unindexed
  <2> QED BY <1>1, <1>2, <2>1, Zenon DEF IndexSound, XZInv, Unsealed, Locked
<1>7. BatchesOverdue'
  <2>1. \A b \in batches : b.ids \subseteq Transfers
    BY DEF XZInv, XZTypeOK, Batches
  <2>2. \A t \in Transfers : pending'[t] # Absent =>
           pending[t] # Absent /\ pending'[t].expiresAt = pending[t].expiresAt
    BY <1>5, Zenon
  <2>3. applied' = applied /\ batches' = batches /\ now' = now
    BY Zenon DEF AttachXZoneProofs
  <2> QED BY <2>1, <2>2, <2>3 DEF BatchesOverdue, XZInv
<1>8. EntriesApplied'
  BY <1>5, Zenon DEF EntriesApplied, XZInv, AttachXZoneProofs
<1> QED BY <1>4, <1>5, <1>6, <1>7, <1>8, QuietInv, Zenon DEF AttachXZoneProofs

\* A frozen batch lists overdue transfers only.
LEMMA EmitInv ==
    ASSUME XZInv, EmitRefundBatch \/ EmitReapBatch
    PROVE  XZInv'
<1>1. PICK kind \in {"Refund", "Reap"}, ids \in SUBSET Transfers :
         /\ Emit(kind, ids)
         /\ \A t \in ids : /\ Locked(t)
                            /\ now > pending[t].expiresAt
                                     + (IF kind = "Reap" THEN ReapHorizon ELSE 0)
  <2>1. CASE EmitRefundBatch
    <3> DEFINE ids == {t \in Transfers : Unsealed(t) /\ now > pending[t].expiresAt}
    <3>1. \A t \in ids : Locked(t) /\ now > pending[t].expiresAt + 0
      BY LockedEntry DEF Unsealed, XZInv
    <3>2. Emit("Refund", ids)
      BY <2>1 DEF EmitRefundBatch
    <3> HIDE DEF ids
    <3>3. ids \in SUBSET Transfers
      BY DEF ids
    <3> QED BY <3>1, <3>2, <3>3, Zenon
  <2>2. CASE EmitReapBatch
    <3>1. \A t \in Stale : Locked(t) /\ now > pending[t].expiresAt + ReapHorizon
      BY DEF Stale, Sealed
    <3>2. Emit("Reap", Stale) /\ Stale \in SUBSET Transfers
      BY <2>2, Zenon DEF EmitReapBatch, Stale
    <3> QED BY <3>1, <3>2
  <2> QED BY <2>1, <2>2
<1> DEFINE new == [kind |-> kind, ids |-> ids, at |-> now]
<1>2. /\ batches' = batches \cup {new} /\ new.ids = ids /\ new.kind = kind
      /\ UNCHANGED <<available, pendingXzoneLocked, pending, totalLocked, count,
                     needsProof, applied, now, restarts, proved>>
  BY <1>1 DEF Emit, bootVars
<1>3. new \in Batches
  BY Zenon DEF Batches, XZInv, XZTypeOK
<1> HIDE DEF new
<1>4. XZTypeOK' /\ EntriesApplied' /\ IndexSound'
  BY <1>2, <1>3, Zenon DEF XZInv, XZTypeOK, EntriesApplied, IndexSound, Unsealed, Locked
<1>5. \A t \in ids : t \in applied
  BY <1>1 DEF XZInv, EntriesApplied, Locked, Absent
<1>6. BatchesOverdue'
  BY <1>1, <1>2, <1>5 DEF XZInv, BatchesOverdue
<1> QED BY <1>2, <1>4, <1>6, QuietInv, Zenon

\* Pruning drops entries that hold nothing, with their counts.
LEMMA PruneInv ==
    ASSUME XZInv, PruneCompleted
    PROVE  XZInv'
<1> DEFINE gone == Completed
<1>1. /\ pending \in [Transfers -> PendingTransfer \cup {Absent}]
      /\ count \in [Statuses -> Nat] /\ IsFiniteSet(Transfers)
  BY XZoneConstants DEF XZInv, XZTypeOK
<1>2. /\ \A t \in Transfers : pending'[t] = IF t \in gone THEN Absent ELSE pending[t]
      /\ pending' \in [Transfers -> PendingTransfer \cup {Absent}]
      /\ \A s \in Statuses : count'[s] = IF s = "Locked" THEN count[s]
                                         ELSE SatSub(count[s], Cardinality(With(s) \cap gone))
      /\ count' = [s \in Statuses |-> count'[s]]
  BY <1>1 DEF PruneCompleted
<1>3. \A t \in gone : ~Locked(t) /\ t \in Transfers
  BY DEF Completed
<1>4. EscrowOf' = EscrowOf
  BY <1>2, <1>3 DEF EscrowOf, Locked, Absent
<1>5. EscrowBooks' /\ EscrowConservation'
  BY <1>4 DEF PruneCompleted, XZInv, EscrowBooks, EscrowConservation
<1>6. ASSUME NEW s \in Statuses
      PROVE  count'[s] = Cardinality(With(s)') /\ count'[s] \in Nat
  <2>1. With(s)' = With(s) \ gone
    BY <1>2 DEF With, Absent, Statuses
  <2>2. Cardinality(With(s) \ gone) = Cardinality(With(s)) - Cardinality(With(s) \cap gone)
    BY WithFinite, FS_Difference
  <2>3. /\ Cardinality(With(s) \cap gone) \in Nat /\ Cardinality(With(s)) \in Nat
        /\ Cardinality(With(s) \cap gone) <= Cardinality(With(s))
    BY WithFinite, FS_Intersection, FS_CardinalityType, Zenon
  <2>4. count[s] = Cardinality(With(s))
    BY DEF XZInv, StatusCounts
  <2>5. CASE s = "Locked"
    <3>1. With(s) \cap gone = {}
      BY <1>3, <2>5 DEF With, Locked
    <3>2. With(s)' = With(s)
      BY <2>1, <3>1, Zenon
    <3> QED BY <1>1, <1>2, <2>4, <2>5, <3>2, Zenon
  <2>6. CASE s # "Locked"
    <3>1. count'[s] = SatSub(count[s], Cardinality(With(s) \cap gone))
      BY <1>2, <2>6
    <3>2. SatSub(count[s], Cardinality(With(s) \cap gone))
            = count[s] - Cardinality(With(s) \cap gone)
      BY <2>3, <2>4, SatSubExact
    <3> QED BY <2>1, <2>2, <2>3, <2>4, <3>1, <3>2
  <2> QED BY <2>5, <2>6
<1>7. StatusCounts'
  BY <1>6, Zenon DEF StatusCounts
<1>8. XZTypeOK'
  <2>1. count' \in [Statuses -> Nat]
    BY <1>2, <1>6
  <2> QED BY <1>2, <2>1 DEF PruneCompleted, XZInv, XZTypeOK, bootVars
<1>9. \A t \in Transfers : pending'[t] # Absent => pending[t] # Absent /\ pending'[t] = pending[t]
  BY <1>2
<1>10. EntriesApplied'
  BY <1>9 DEF EntriesApplied, XZInv, PruneCompleted
<1>11. IndexSound'
  <2>1. needsProof' = needsProof /\ needsProof \subseteq Transfers
    BY DEF PruneCompleted, XZInv, XZTypeOK
  <2>2. \A t \in needsProof : pending'[t] = pending[t]
    BY <1>2, <1>3, <2>1, Zenon DEF XZInv, IndexSound, Unsealed
  <2> QED BY <2>1, <2>2 DEF XZInv, IndexSound, Unsealed, Locked
<1>12. BatchesOverdue'
  <2>1. \A b \in batches : b.ids \subseteq Transfers
    BY DEF XZInv, XZTypeOK, Batches
  <2> QED BY <1>9, <2>1 DEF BatchesOverdue, XZInv, PruneCompleted
<1> QED BY <1>5, <1>7, <1>8, <1>10, <1>11, <1>12, Zenon DEF XZInv

\* What a boot takes from a lock: its proof, and nothing else.
LEMMA BootEntries ==
    ASSUME XZInv, NEW unsaved \in SUBSET With("Locked"), NEW t \in Transfers,
           pending' = [u \in Transfers |->
              IF u \in unsaved THEN Unproved(pending[u]) ELSE pending[u]]
    PROVE  \/ t \notin unsaved /\ pending'[t] = pending[t]
           \/ /\ t \in unsaved /\ Locked(t)
              /\ pending'[t] \in PendingTransfer /\ pending'[t].status = "Locked"
              /\ ~pending'[t].proof
              /\ pending'[t].sender = pending[t].sender
              /\ pending'[t].recipient = pending[t].recipient
              /\ pending'[t].amount = pending[t].amount
              /\ pending'[t].expiresAt = pending[t].expiresAt
<1>1. CASE t \notin unsaved
  BY <1>1, Zenon
<1>2. CASE t \in unsaved
  <2>1. Locked(t)
    BY <1>2, Zenon DEF With, Locked
  <2>2. pending[t] \in PendingTransfer /\ pending[t].status = "Locked"
    BY <2>1, LockedEntry, Zenon DEF XZInv, Locked
  <2>3. pending'[t] = Unproved(pending[t])
    BY <1>2, Zenon
  <2>4. /\ Unproved(pending[t]) \in PendingTransfer
        /\ Unproved(pending[t]).status = "Locked"
        /\ Unproved(pending[t]).proof = FALSE
        /\ Unproved(pending[t]).sender = pending[t].sender
        /\ Unproved(pending[t]).recipient = pending[t].recipient
        /\ Unproved(pending[t]).amount = pending[t].amount
        /\ Unproved(pending[t]).expiresAt = pending[t].expiresAt
    <3> DEFINE x == pending[t]
    <3>1. x \in PendingTransfer /\ x.status = "Locked"
      BY <2>2
    <3> HIDE DEF x
    <3>2. /\ Unproved(x) \in PendingTransfer /\ Unproved(x).status = "Locked"
          /\ Unproved(x).proof = FALSE /\ Unproved(x).sender = x.sender
          /\ Unproved(x).recipient = x.recipient /\ Unproved(x).amount = x.amount
          /\ Unproved(x).expiresAt = x.expiresAt
      BY <3>1 DEF Unproved, PendingTransfer
    <3> QED BY <3>2, Zenon DEF x
  <2> QED BY <1>2, <2>1, <2>3, <2>4
<1> QED BY <1>1, <1>2

\* A boot recomputes what the entries determine.
LEMMA RestartInv ==
    ASSUME XZInv, Restart
    PROVE  XZInv'
<1>1. PICK unsaved \in SUBSET With("Locked") :
         /\ pending' = [t \in Transfers |->
               IF t \in unsaved THEN Unproved(pending[t]) ELSE pending[t]]
         /\ needsProof' = unsaved \cup {t \in Transfers : Unsealed(t)}
         /\ proved' = proved \ unsaved
  BY Zenon DEF Restart
<1>2. /\ UNCHANGED <<available, pendingXzoneLocked, totalLocked, applied, batches, now>>
      /\ restarts' = restarts + 1
  BY Zenon DEF Restart
<1>3. \A t \in Transfers :
         \/ t \notin unsaved /\ pending'[t] = pending[t]
         \/ /\ t \in unsaved /\ Locked(t)
            /\ pending'[t] \in PendingTransfer /\ pending'[t].status = "Locked"
            /\ ~pending'[t].proof
            /\ pending'[t].amount = pending[t].amount
            /\ pending'[t].expiresAt = pending[t].expiresAt
  BY <1>1, BootEntries
<1>4. \A s \in Statuses : With(s)' = With(s)
  BY <1>3, Zenon DEF With, Locked
<1>5. count' = [s \in Statuses |-> Cardinality(With(s))]
  BY Zenon DEF Restart
<1>6. StatusCounts'
  BY <1>4, <1>5 DEF StatusCounts
<1>7. IndexSound'
  <2>1. unsaved \subseteq Transfers
    BY Zenon DEF With
  <2> QED BY <1>1, <1>3, <2>1, Zenon DEF IndexSound, Unsealed, Locked
<1>8. XZTypeOK'
  <2>1. count' \in [Statuses -> Nat]
    BY <1>5, WithFinite
  <2>2. pending' \in [Transfers -> PendingTransfer \cup {Absent}]
    <3>1. \A t \in Transfers : pending'[t] \in PendingTransfer \cup {Absent}
      BY <1>3, Zenon DEF XZInv, XZTypeOK
    <3> QED BY <1>1, <3>1, Zenon
  <2>3. needsProof' \subseteq Transfers /\ proved' \subseteq Transfers
    BY <1>1, Zenon DEF With, XZInv, XZTypeOK
  <2>4. restarts' \in Nat
    BY <1>2 DEF XZInv, XZTypeOK
  <2> QED BY <1>2, <2>1, <2>2, <2>3, <2>4, Zenon DEF XZInv, XZTypeOK
<1>9. \A t \in Transfers : pending'[t] # Absent =>
         pending[t] # Absent /\ pending'[t].expiresAt = pending[t].expiresAt
  BY <1>3 DEF Locked, Absent
<1>10. EntriesApplied' /\ BatchesOverdue'
  <2>1. \A b \in batches : b.ids \subseteq Transfers
    BY Zenon DEF XZInv, XZTypeOK, Batches
  <2> QED BY <1>2, <1>9, <2>1 DEF XZInv, EntriesApplied, BatchesOverdue
<1>11. EscrowOf' = EscrowOf
  BY <1>3, Zenon DEF EscrowOf, Locked
<1> QED BY <1>2, <1>6, <1>7, <1>8, <1>10, <1>11 DEF XZInv, EscrowBooks, EscrowConservation

\* The clock only makes deadlines pass.
LEMMA TickInv ==
    ASSUME XZInv, Tick
    PROVE  XZInv'
<1>1. /\ now \in Nat /\ now' = now + 1
      /\ UNCHANGED <<available, pendingXzoneLocked, pending, totalLocked, count,
                     needsProof, applied, batches, restarts, proved>>
  BY DEF Tick, bootVars, XZInv, XZTypeOK
<1>2. XZTypeOK' /\ EntriesApplied' /\ IndexSound'
  BY <1>1 DEF XZInv, XZTypeOK, EntriesApplied, IndexSound, Unsealed, Locked
<1>3. BatchesOverdue'
  <2> SUFFICES ASSUME NEW b \in batches, NEW t \in b.ids
               PROVE  /\ t \in applied
                      /\ pending[t] # Absent =>
                           now + 1 > pending[t].expiresAt
                                     + (IF b.kind = "Reap" THEN ReapHorizon ELSE 0)
    BY <1>1 DEF BatchesOverdue
  <2>1. t \in Transfers
    BY DEF XZInv, XZTypeOK, Batches
  <2>2. pending[t] # Absent => pending[t].expiresAt \in Nat
    BY <2>1 DEF XZInv, XZTypeOK, PendingTransfer
  <2> QED BY <1>1, <2>2, XZoneConstants DEF XZInv, BatchesOverdue
<1> QED BY <1>1, <1>2, <1>3, QuietInv
-----------------------------------------------------------------------------
\* A claimed, cancelled, rejected or aborted transfer: one Release each.
LEMMA OneReleaseInv ==
    ASSUME XZInv, NEW t \in Transfers, NEW a \in Identities, NEW ts, NEW n, NEW size,
           \/ XZoneClaim(t, a, ts) \/ XZoneCancel(t, a)
           \/ XZoneReject(t, a) \/ XZoneAbort(t, n, size)
    PROVE  XZInv'
<1>1. Locked(t)
  BY Zenon DEF XZoneClaim, XZoneCancel, XZoneReject, XZoneAbort
<1>2. pending[t].sender \in Identities /\ pending[t].recipient \in Identities
  BY <1>1, LockedEntry, Zenon DEF XZInv
<1>3. pending[t].proof => t \notin needsProof
  BY Zenon DEF XZInv, IndexSound, Unsealed
<1>4. CASE XZoneClaim(t, a, ts)
  BY <1>1, <1>3, <1>4, ReleaseInv, Zenon DEF XZoneClaim
<1>5. CASE XZoneCancel(t, a)
  BY <1>1, <1>5, ReleaseInv, Zenon DEF XZoneCancel, Unindexed
<1>6. CASE XZoneReject(t, a)
  BY <1>1, <1>2, <1>6, ReleaseInv, Zenon DEF XZoneReject, Unindexed
<1>7. CASE XZoneAbort(t, n, size)
  BY <1>1, <1>2, <1>3, <1>7, ReleaseInv, Zenon DEF XZoneAbort
<1> QED BY <1>4, <1>5, <1>6, <1>7, Zenon

\* A batch in flight is applied to the transfers it still fits.
LEMMA ApplyInv ==
    ASSUME XZInv, NEW b \in batches, ApplyRefundBatch(b) \/ ApplyReapBatch(b)
    PROVE  XZInv'
<1>1. b.ids \subseteq Transfers
  BY DEF XZInv, XZTypeOK, Batches
<1>2. CASE ApplyRefundBatch(b)
  <2>1. Refundable(b.ids) \in SUBSET Transfers /\ \A t \in Refundable(b.ids) : Locked(t)
    BY <1>1 DEF Refundable, Unsealed
  <2>2. /\ RefundAll(Refundable(b.ids)) /\ batches' \subseteq batches
        /\ needsProof' = needsProof \ Refundable(b.ids)
    BY <1>2 DEF ApplyRefundBatch, Unindexed
  <2> QED BY <2>1, <2>2, RefundAllInv, Zenon
<1>3. CASE ApplyReapBatch(b)
  <2> DEFINE T == {t \in b.ids : Sealed(t)}
  <2>1. T \in SUBSET Transfers /\ \A t \in T : Locked(t)
    BY <1>1 DEF Sealed
  <2>2. RefundAll(T) /\ batches' \subseteq batches /\ needsProof' = needsProof
    BY <1>3 DEF ApplyReapBatch
  <2>3. needsProof \cap T = {}
    BY Zenon DEF XZInv, IndexSound, Unsealed, Sealed
  <2> HIDE DEF T
  <2> QED BY <2>1, <2>2, <2>3, RefundAllInv, Zenon
<1> QED BY <1>2, <1>3

\* Every step preserves the invariant.
LEMMA NextInv == XZInv /\ [XZNext]_xzVars => XZInv'
<1> SUFFICES ASSUME XZInv, [XZNext]_xzVars PROVE XZInv'
  OBVIOUS
<1>1. CASE \E t \in Transfers, s, r \in Identities, amount \in Amounts, ts \in 0..MaxLockTime :
             XZoneLock(t, s, r, amount, ts)
  BY <1>1, LockInv
<1>2. CASE \E t \in Transfers, a \in Identities, ts \in 0..now : XZoneClaim(t, a, ts)
  BY <1>2, OneReleaseInv
<1>3. CASE \E t \in Transfers, a \in Identities : XZoneCancel(t, a)
  BY <1>3, OneReleaseInv
<1>4. CASE \E t \in Transfers, a \in Identities : XZoneReject(t, a)
  BY <1>4, OneReleaseInv
<1>5. CASE \E t \in Transfers, size \in CommitteeSizes : \E n \in 0..size : XZoneAbort(t, n, size)
  <2>1. PICK t \in Transfers, n \in Int, size \in CommitteeSizes : XZoneAbort(t, n, size)
    BY <1>5
  <2>2. Locked(t)
    BY <2>1 DEF XZoneAbort
  <2>3. pending[t].sender \in Identities
    BY <2>2, LockedEntry DEF XZInv
  <2> QED BY <2>1, <2>3, OneReleaseInv, Zenon
<1>6. CASE \E sealed \in SUBSET needsProof \ {{}}, only \in BOOLEAN,
             coll \in Collections \cup {NoCollection}, anchor \in CommitteeSizes \cup {0} :
             AttachXZoneProofs(sealed, only, coll, anchor)
  BY <1>6, AttachInv
<1>7. CASE EmitRefundBatch \/ EmitReapBatch
  BY <1>7, EmitInv
<1>8. CASE \E b \in batches : ApplyRefundBatch(b) \/ ApplyReapBatch(b)
  BY <1>8, ApplyInv
<1>9. CASE PruneCompleted
  BY <1>9, PruneInv
<1>10. CASE Restart
  BY <1>10, RestartInv, Zenon
<1>11. CASE Tick
  BY <1>11, TickInv
<1>12. CASE UNCHANGED xzVars
  <2>1. XZTypeOK' /\ EntriesApplied' /\ IndexSound' /\ BatchesOverdue'
    BY <1>12, Zenon DEF xzVars, bootVars, XZInv, XZTypeOK, EntriesApplied, IndexSound, Unsealed, Locked,
                 BatchesOverdue
  <2> QED BY <1>12, <2>1, QuietInv, Zenon DEF xzVars
<1> QED BY <1>1, <1>2, <1>3, <1>4, <1>5, <1>6, <1>7, <1>8, <1>9, <1>10, <1>11, <1>12, Zenon
        DEF XZNext

\* The invariant holds in every reachable state.
THEOREM XZInvariant == XZSpec => []XZInv
BY InitInv, NextInv, PTL DEF XZSpec

\* Cross-zone state keeps its types: no balance, tracker or counter underflows,
\* though the code subtracts from them unchecked or saturating.
THEOREM XZTypeCorrect == XZSpec => []XZTypeOK
<1>1. XZInv => XZTypeOK
  BY DEF XZInv
<1> QED BY <1>1, XZInvariant, PTL

\* The two escrow trackers always equal the amounts of the Locked transfers.
THEOREM XZEscrowBooks == XZSpec => []EscrowBooks
<1>1. XZInv => EscrowBooks
  BY DEF XZInv
<1> QED BY <1>1, XZInvariant, PTL

\* Balances and escrow always sum to the supply.
THEOREM XZConservation == XZSpec => []EscrowConservation
<1>1. XZInv => EscrowConservation
  BY DEF XZInv
<1> QED BY <1>1, XZInvariant, PTL

\* The status counters count the entries.
THEOREM XZStatusCounts == XZSpec => []StatusCounts
<1>1. XZInv => StatusCounts
  BY DEF XZInv
<1> QED BY <1>1, XZInvariant, PTL

\* The proof index only names locks that wait for a proof.
THEOREM XZIndexSound == XZSpec => []IndexSound
<1>1. XZInv => IndexSound
  BY DEF XZInv
<1> QED BY <1>1, XZInvariant, PTL

\* A refund or reap batch in flight lists only transfers that were locked and
\* are overdue when it is applied.
THEOREM XZBatchesOverdue == XZSpec => []BatchesOverdue
<1>1. XZInv => BatchesOverdue
  BY Zenon DEF XZInv
<1> QED BY <1>1, XZInvariant, PTL
-----------------------------------------------------------------------------
\* What the steps may do to the entries: a lock fills an absent one, a single
\* release or a batch changes the status of Locked ones, pruning drops released
\* ones, and every other step leaves the status alone.
LEMMA EntrySteps ==
    ASSUME XZInv, XZNext
    PROVE  \A t \in Transfers :
              \/ pending[t] = Absent /\ t \notin applied
              \/ Locked(t) /\ pending'[t].status = "Locked"
              \/ ~Locked(t) /\ pending'[t] \in {pending[t], Absent}
              \/ Sealed(t) /\ pending'[t].status \in {"Claimed", "Aborted"}
              \/ Unsealed(t) /\ pending'[t].status = "Refunded"
              \/ /\ Sealed(t) /\ pending'[t].status = "Refunded"
                 /\ now > pending[t].expiresAt + ReapHorizon
<1> SUFFICES ASSUME NEW t \in Transfers
             PROVE  \/ pending[t] = Absent /\ t \notin applied
                    \/ Locked(t) /\ pending'[t].status = "Locked"
                    \/ ~Locked(t) /\ pending'[t] \in {pending[t], Absent}
                    \/ Sealed(t) /\ pending'[t].status \in {"Claimed", "Aborted"}
                    \/ Unsealed(t) /\ pending'[t].status = "Refunded"
                    \/ /\ Sealed(t) /\ pending'[t].status = "Refunded"
                       /\ now > pending[t].expiresAt + ReapHorizon
  BY Zenon
<1>0. /\ pending \in [Transfers -> PendingTransfer \cup {Absent}]
      /\ Locked(t) => pending[t] \in PendingTransfer
  BY LockedEntry DEF XZInv, XZTypeOK
<1>1. ASSUME UNCHANGED pending
      PROVE  \/ Locked(t) /\ pending'[t].status = "Locked"
             \/ ~Locked(t) /\ pending'[t] = pending[t]
  BY <1>1, Zenon DEF Locked
<1>2. ASSUME NEW u \in Transfers, NEW s, NEW r, NEW amount, NEW ts, XZoneLock(u, s, r, amount, ts)
      PROVE  \/ pending[t] = Absent /\ t \notin applied
             \/ pending'[t] = pending[t]
  BY <1>0, <1>2 DEF XZoneLock, Fresh
<1>3. ASSUME NEW u \in Transfers, NEW status, NEW to, Release(u, status, to)
      PROVE  pending'[t] = IF t = u THEN [pending[t] EXCEPT !.status = status] ELSE pending[t]
  BY <1>0, <1>3 DEF Release
<1>4. ASSUME NEW u \in Transfers, NEW status, NEW to, Release(u, status, to), Locked(u), t = u
      PROVE  pending'[t].status = status
  <2>1. pending'[t] = [pending[t] EXCEPT !.status = status]
    BY <1>3, <1>4
  <2>2. pending[t] \in PendingTransfer
    BY <1>0, <1>4, Zenon
  <2> QED BY <2>1, <2>2 DEF PendingTransfer
<1>5. CASE \E u \in Transfers, s, r \in Identities, amount \in Amounts, ts \in 0..MaxLockTime :
             XZoneLock(u, s, r, amount, ts)
  BY <1>2, <1>5, Zenon DEF Locked
<1>6. CASE \E u \in Transfers, a \in Identities, ts \in 0..now : XZoneClaim(u, a, ts)
  <2>1. PICK u \in Transfers, a \in Identities, ts \in 0..now : XZoneClaim(u, a, ts)
    BY <1>6, Zenon
  <2>2. Sealed(u) /\ Locked(u) /\ \E to : Release(u, "Claimed", to)
    BY <2>1, Zenon DEF XZoneClaim, Sealed
  <2>3. CASE t = u
    BY <1>4, <2>2, <2>3
  <2>4. CASE t # u
    BY <1>3, <2>2, <2>4, Zenon DEF Locked
  <2> QED BY <2>3, <2>4, Zenon
<1>7. CASE \E u \in Transfers, a \in Identities : XZoneCancel(u, a)
  <2>1. PICK u \in Transfers, a \in Identities : XZoneCancel(u, a)
    BY <1>7, Zenon
  <2>2. Unsealed(u) /\ Locked(u) /\ \E to : Release(u, "Refunded", to)
    BY <2>1, Zenon DEF XZoneCancel, Unsealed
  <2>3. CASE t = u
    BY <1>4, <2>2, <2>3, Zenon
  <2>4. CASE t # u
    BY <1>3, <2>2, <2>4, Zenon DEF Locked
  <2> QED BY <2>3, <2>4, Zenon
<1>8. CASE \E u \in Transfers, a \in Identities : XZoneReject(u, a)
  <2>1. PICK u \in Transfers, a \in Identities : XZoneReject(u, a)
    BY <1>8
  <2>2. Unsealed(u) /\ Locked(u) /\ \E to : Release(u, "Refunded", to)
    BY <2>1, Zenon DEF XZoneReject, Unsealed
  <2>3. CASE t = u
    BY <1>4, <2>2, <2>3
  <2>4. CASE t # u
    BY <1>3, <2>2, <2>4 DEF Locked
  <2> QED BY <2>3, <2>4
<1>9. CASE \E u \in Transfers, size \in CommitteeSizes : \E n \in 0..size : XZoneAbort(u, n, size)
  <2>1. PICK u \in Transfers, n \in Int, size \in CommitteeSizes : XZoneAbort(u, n, size)
    BY <1>9
  <2>2. Sealed(u) /\ Locked(u) /\ \E to : Release(u, "Aborted", to)
    BY <2>1, Zenon DEF XZoneAbort, Sealed
  <2>3. CASE t = u
    BY <1>4, <2>2, <2>3
  <2>4. CASE t # u
    BY <1>3, <2>2, <2>4, Zenon DEF Locked
  <2> QED BY <2>3, <2>4, Zenon
<1>10. CASE \E sealed \in SUBSET needsProof \ {{}}, only \in BOOLEAN,
             coll \in Collections \cup {NoCollection}, anchor \in CommitteeSizes \cup {0} :
             AttachXZoneProofs(sealed, only, coll, anchor)
  <2>1. PICK sealed, only, coll, anchor : AttachXZoneProofs(sealed, only, coll, anchor)
    BY <1>10
  <2>2. CASE t \in sealed /\ Unsealed(t)
    <3>1. pending'[t] = [WithWitnesses(pending[t], coll) EXCEPT !.proof = ~only,
                           !.anchor = IF anchor = 0 THEN @ ELSE anchor]
      BY <2>1, <2>2, Zenon DEF AttachXZoneProofs
    <3>2. pending[t] \in PendingTransfer /\ pending[t].status = "Locked"
      BY <1>0, <2>2 DEF Unsealed, Locked
    <3> DEFINE x == WithWitnesses(pending[t], coll)
    <3>3. x.status = "Locked" /\ DOMAIN x = DOMAIN pending[t]
      BY <3>2, Zenon DEF WithWitnesses, PendingTransfer
    <3>4. "status" \in DOMAIN x
      BY <3>2, <3>3 DEF PendingTransfer
    <3> HIDE DEF x
    <3>5. [x EXCEPT !.proof = ~only, !.anchor = IF anchor = 0 THEN @ ELSE anchor].status = x.status
      BY <3>4, Zenon
    <3> QED BY <2>2, <3>1, <3>3, <3>5, Zenon DEF x, Unsealed
  <2>3. CASE ~(t \in sealed /\ Unsealed(t))
    <3>1. pending'[t] = pending[t]
      BY <2>1, <2>3, Zenon DEF AttachXZoneProofs
    <3> QED BY <3>1, Zenon DEF Locked
  <2> QED BY <2>2, <2>3, Zenon
<1>11. ASSUME NEW T \in SUBSET Transfers, \A u \in T : Locked(u), RefundAll(T)
       PROVE  IF t \in T THEN pending'[t].status = "Refunded" ELSE pending'[t] = pending[t]
  <2>1. pending'[t] = IF t \in T THEN [pending[t] EXCEPT !.status = "Refunded"] ELSE pending[t]
    BY <1>11, Zenon DEF RefundAll
  <2> QED BY <1>0, <1>11, <2>1 DEF PendingTransfer
<1>12. CASE \E b \in batches : ApplyRefundBatch(b) \/ ApplyReapBatch(b)
  <2>1. PICK b \in batches : ApplyRefundBatch(b) \/ ApplyReapBatch(b)
    BY <1>12
  <2>2. b.ids \subseteq Transfers
    BY Zenon DEF XZInv, XZTypeOK, Batches
  <2>3. CASE ApplyRefundBatch(b)
    <3>1. Refundable(b.ids) \in SUBSET Transfers /\ \A u \in Refundable(b.ids) : Locked(u)
      BY <2>2, Zenon DEF Refundable, Unsealed
    <3>2. IF t \in Refundable(b.ids) THEN pending'[t].status = "Refunded"
          ELSE pending'[t] = pending[t]
      BY <1>11, <2>3, <3>1, Zenon DEF ApplyRefundBatch
    <3> QED BY <3>2, Zenon DEF Refundable, Unsealed, Locked
  <2>4. CASE ApplyReapBatch(b)
    <3> DEFINE T == {u \in b.ids : Sealed(u)}
    <3>1. T \in SUBSET Transfers /\ \A u \in T : Locked(u)
      BY <2>2 DEF Sealed
    <3>2. RefundAll(T) /\ b.kind = "Reap"
      BY <2>4, Zenon DEF ApplyReapBatch
    <3>3. t \in T => now > pending[t].expiresAt + ReapHorizon
      BY <3>2 DEF XZInv, BatchesOverdue, Sealed, Locked, Absent
    <3>4. t \in T => Sealed(t)
      BY Zenon
    <3> HIDE DEF T
    <3>5. IF t \in T THEN pending'[t].status = "Refunded" ELSE pending'[t] = pending[t]
      BY <1>11, <3>1, <3>2, Zenon
    <3> QED BY <3>3, <3>4, <3>5, Zenon DEF Locked
  <2> QED BY <2>1, <2>3, <2>4, Zenon
<1>13. CASE PruneCompleted
  <2>1. pending'[t] = IF t \in Completed THEN Absent ELSE pending[t]
    BY <1>13, Zenon DEF PruneCompleted
  <2> QED BY <2>1 DEF Completed, Locked
<1>14. CASE EmitRefundBatch \/ EmitReapBatch
  BY <1>1, <1>14, Zenon DEF EmitRefundBatch, EmitReapBatch, Emit
<1>15. CASE Tick
  BY <1>1, <1>15, Zenon DEF Tick
<1>16. CASE Restart
  <2>1. PICK unsaved \in SUBSET With("Locked") :
           pending' = [u \in Transfers |->
              IF u \in unsaved THEN Unproved(pending[u]) ELSE pending[u]]
    BY <1>16, Zenon DEF Restart
  <2>2. \/ pending'[t] = pending[t]
        \/ Locked(t) /\ pending'[t].status = "Locked"
    BY <2>1, BootEntries
  <2> QED BY <2>2, Zenon DEF Locked
<1> QED BY <1>5, <1>6, <1>7, <1>8, <1>9, <1>10, <1>12, <1>13, <1>14, <1>15, <1>16, Zenon
        DEF XZNext

\* A lock has its proof from the seal that reached it until it is released, unless a
\* boot takes it.
ProvedInv ==
    /\ proved \subseteq applied
    /\ \A t \in Transfers : Locked(t) => (pending[t].proof <=> t \in proved)

\* Every step keeps it: a lock comes without a proof under an id that had none, only a
\* seal and a boot change the proof of a lock, and the others release locks or leave
\* them as they are.
LEMMA ProvedSteps ==
    ASSUME XZInv, ProvedInv, XZNext
    PROVE  ProvedInv'
<1>0. /\ pending \in [Transfers -> PendingTransfer \cup {Absent}]
      /\ \A t \in Transfers : Locked(t) => pending[t] \in PendingTransfer
      /\ \A t \in Transfers : Locked(t) => t \in applied
  <2>1. pending \in [Transfers -> PendingTransfer \cup {Absent}]
    BY Zenon DEF XZInv, XZTypeOK
  <2>2. \A t \in Transfers : Locked(t) => pending[t] \in PendingTransfer
    BY LockedEntry, Zenon DEF XZInv
  <2>3. \A t \in Transfers : Locked(t) => t \in applied
    BY DEF XZInv, EntriesApplied, Locked, Absent
  <2> QED BY <2>1, <2>2, <2>3
<1>1. ASSUME UNCHANGED proved, applied \subseteq applied',
             \A t \in Transfers : pending'[t] = pending[t] \/ pending'[t].status # "Locked"
      PROVE  ProvedInv'
  BY <1>1, Zenon DEF ProvedInv, Locked
<1>2. ASSUME NEW u \in Transfers, NEW s, NEW r, NEW amount, NEW ts, XZoneLock(u, s, r, amount, ts)
      PROVE  ProvedInv'
  <2>1. u \notin applied /\ applied' = applied \cup {u} /\ proved' = proved
    BY <1>2, Zenon DEF XZoneLock, Fresh, bootVars
  <2>2. pending'[u].proof = FALSE /\ \A t \in Transfers : t # u => pending'[t] = pending[t]
    BY <1>0, <1>2 DEF XZoneLock
  <2> QED BY <2>1, <2>2, Zenon DEF ProvedInv, Locked
<1>3. ASSUME NEW u \in Transfers, NEW status \in {"Claimed", "Refunded", "Aborted"}, NEW to,
             Locked(u), Release(u, status, to)
      PROVE  ProvedInv'
  <2>1. \A t \in Transfers : pending'[t] =
           IF t = u THEN [pending[t] EXCEPT !.status = status] ELSE pending[t]
    BY <1>0, <1>3 DEF Release
  <2>2. pending[u] \in PendingTransfer
    BY <1>0, <1>3, Zenon
  <2>3. pending'[u].status = status
    BY <2>1, <2>2 DEF PendingTransfer
  <2>4. UNCHANGED <<proved, applied>>
    BY <1>3, Zenon DEF Release, bootVars
  <2>5. \A t \in Transfers : pending'[t] = pending[t] \/ pending'[t].status # "Locked"
    BY <2>1, <2>3
  <2> QED BY <1>1, <2>4, <2>5, Zenon
<1>4. CASE \E u \in Transfers, s, r \in Identities, amount \in Amounts, ts \in 0..MaxLockTime :
             XZoneLock(u, s, r, amount, ts)
  BY <1>2, <1>4, Zenon
<1>5. CASE \/ \E u \in Transfers, a \in Identities, ts \in 0..now : XZoneClaim(u, a, ts)
           \/ \E u \in Transfers, a \in Identities : XZoneCancel(u, a)
           \/ \E u \in Transfers, a \in Identities : XZoneReject(u, a)
           \/ \E u \in Transfers, size \in CommitteeSizes : \E n \in 0..size :
                 XZoneAbort(u, n, size)
  <2>1. PICK u \in Transfers, status \in {"Claimed", "Refunded", "Aborted"} :
           Locked(u) /\ \E to : Release(u, status, to)
    BY <1>5, Zenon DEF XZoneClaim, XZoneCancel, XZoneReject, XZoneAbort
  <2> QED BY <1>3, <2>1, Zenon
<1>6. CASE \E sealed \in SUBSET needsProof \ {{}}, only \in BOOLEAN,
             coll \in Collections \cup {NoCollection}, anchor \in CommitteeSizes \cup {0} :
             AttachXZoneProofs(sealed, only, coll, anchor)
  <2>1. PICK sealed \in SUBSET needsProof, only \in BOOLEAN,
             coll \in Collections \cup {NoCollection}, anchor \in CommitteeSizes \cup {0} :
           AttachXZoneProofs(sealed, only, coll, anchor)
    BY <1>6, Zenon
  <2> DEFINE todo == {t \in sealed : Unsealed(t)}
  <2>2. /\ applied' = applied /\ sealed \subseteq Transfers
        /\ proved' = IF only THEN proved ELSE proved \cup todo
    BY <2>1, Zenon DEF AttachXZoneProofs, XZInv, XZTypeOK
  <2>3. \A t \in Transfers : t \notin todo => pending'[t] = pending[t]
    BY <2>1, Zenon DEF AttachXZoneProofs
  <2>4. ASSUME NEW t \in todo
        PROVE  pending'[t].proof = ~only /\ Locked(t)
    <3> DEFINE x == WithWitnesses(pending[t], coll)
    <3>1. pending'[t] = [x EXCEPT !.proof = ~only,
                                  !.anchor = IF anchor = 0 THEN @ ELSE anchor]
      BY <2>1, <2>2, Zenon DEF AttachXZoneProofs
    <3>2. Locked(t) /\ pending[t] \in PendingTransfer
      BY <1>0, <2>2, Zenon DEF Unsealed
    <3>3. "proof" \in DOMAIN x
      BY <3>2 DEF WithWitnesses, PendingTransfer
    <3> HIDE DEF x
    <3> QED BY <3>1, <3>2, <3>3
  <2>5. \A t \in todo : t \in Transfers /\ t \in applied /\ ~pending[t].proof /\ Locked(t)
    BY <1>0, <2>2, Zenon DEF Unsealed
  <2> HIDE DEF todo
  <2>6. proved' \subseteq applied'
    BY <2>2, <2>5, Zenon DEF ProvedInv
  <2>7. ASSUME NEW t \in Transfers, Locked(t)'
        PROVE  pending'[t].proof <=> t \in proved'
    <3>1. CASE t \in todo
      <4>1. pending'[t].proof = ~only /\ t \notin proved
        BY <2>4, <2>5, <3>1, Zenon DEF ProvedInv
      <4> QED BY <2>2, <3>1, <4>1, Zenon
    <3>2. CASE t \notin todo
      BY <2>2, <2>3, <2>7, <3>2, Zenon DEF ProvedInv, Locked
    <3> QED BY <3>1, <3>2
  <2> QED BY <2>6, <2>7, Zenon DEF ProvedInv
<1>7. ASSUME NEW T \in SUBSET Transfers, \A u \in T : Locked(u), RefundAll(T)
      PROVE  ProvedInv'
  <2>1. \A t \in Transfers : pending'[t] =
           IF t \in T THEN [pending[t] EXCEPT !.status = "Refunded"] ELSE pending[t]
    BY <1>7, Zenon DEF RefundAll
  <2>2. \A t \in T : pending'[t].status = "Refunded"
    BY <1>0, <1>7, <2>1 DEF PendingTransfer
  <2>3. UNCHANGED <<proved, applied>>
    BY <1>7, Zenon DEF RefundAll, bootVars
  <2>4. \A t \in Transfers : pending'[t] = pending[t] \/ pending'[t].status # "Locked"
    BY <2>1, <2>2
  <2> QED BY <1>1, <2>3, <2>4, Zenon
<1>8. CASE \E b \in batches : ApplyRefundBatch(b) \/ ApplyReapBatch(b)
  <2>1. PICK b \in batches : ApplyRefundBatch(b) \/ ApplyReapBatch(b)
    BY <1>8, Zenon
  <2>2. b.ids \subseteq Transfers
    BY Zenon DEF XZInv, XZTypeOK, Batches
  <2>3. CASE ApplyRefundBatch(b)
    <3>1. Refundable(b.ids) \in SUBSET Transfers /\ \A u \in Refundable(b.ids) : Locked(u)
      BY <2>2, Zenon DEF Refundable, Unsealed
    <3> QED BY <1>7, <2>3, <3>1, Zenon DEF ApplyRefundBatch
  <2>4. CASE ApplyReapBatch(b)
    <3> DEFINE T == {u \in b.ids : Sealed(u)}
    <3>1. T \in SUBSET Transfers /\ \A u \in T : Locked(u)
      BY <2>2, Zenon DEF Sealed
    <3>2. RefundAll(T)
      BY <2>4, Zenon DEF ApplyReapBatch
    <3> HIDE DEF T
    <3> QED BY <1>7, <3>1, <3>2, Zenon
  <2> QED BY <2>1, <2>3, <2>4, Zenon
<1>9. CASE PruneCompleted
  <2>1. \A t \in Transfers : pending'[t] = pending[t] \/ pending'[t].status # "Locked"
    BY <1>9, Zenon DEF PruneCompleted, Absent
  <2>2. UNCHANGED <<proved, applied>>
    BY <1>9, Zenon DEF PruneCompleted, bootVars
  <2> QED BY <1>1, <2>1, <2>2, Zenon
<1>10. CASE EmitRefundBatch \/ EmitReapBatch \/ Tick
  <2>1. UNCHANGED <<proved, applied, pending>>
    BY <1>10, Zenon DEF EmitRefundBatch, EmitReapBatch, Emit, Tick, bootVars
  <2> QED BY <1>1, <2>1, Zenon
<1>11. CASE Restart
  <2>1. PICK unsaved \in SUBSET With("Locked") :
           /\ pending' = [u \in Transfers |->
                 IF u \in unsaved THEN Unproved(pending[u]) ELSE pending[u]]
           /\ proved' = proved \ unsaved
    BY <1>11, Zenon DEF Restart
  <2>2. \A t \in Transfers : \/ t \notin unsaved /\ pending'[t] = pending[t]
                             \/ t \in unsaved /\ ~pending'[t].proof
    BY <2>1, BootEntries
  <2>3. applied' = applied
    BY <1>11, Zenon DEF Restart
  <2> QED BY <2>1, <2>2, <2>3, Zenon DEF ProvedInv, Locked
<1> QED BY <1>4, <1>5, <1>6, <1>8, <1>9, <1>10, <1>11, Zenon DEF XZNext

\* A lock has its proof exactly while it is in proved.
THEOREM XZProved == XZSpec => []ProvedInv
<1>1. XZInit => ProvedInv
  BY DEF XZInit, ProvedInv, Locked, Absent
<1>2. XZInv /\ ProvedInv /\ [XZNext]_xzVars => ProvedInv'
  <2>1. XZInv /\ ProvedInv /\ XZNext => ProvedInv'
    BY ProvedSteps, Zenon
  <2>2. ProvedInv /\ UNCHANGED xzVars => ProvedInv'
    BY Zenon DEF ProvedInv, Locked, xzVars, bootVars
  <2> QED BY <2>1, <2>2, Zenon
<1> QED BY <1>1, <1>2, XZInvariant, PTL DEF XZSpec

\* The proof splits the release paths: a lock that a seal gave its proof is claimed,
\* aborted, or refunded past the horizon, unless a boot took the proof; every other lock
\* is only refunded.
THEOREM XZSealSplits == XZSpec => SealSplitsReleases
<1>1. XZInv /\ ProvedInv /\ [XZNext]_xzVars => [SealSplitsStep]_xzVars
  <2> SUFFICES ASSUME XZInv, ProvedInv, XZNext PROVE SealSplitsStep
    OBVIOUS
  <2>1. \A t \in Transfers : pending[t] = Absent => ~Locked(t)
    BY DEF Locked, Absent
  <2>2. \A t \in Transfers : Locked(t) => (Sealed(t) <=> t \in proved) /\ (Unsealed(t) <=> t \notin proved)
    BY Zenon DEF ProvedInv, Sealed, Unsealed
  <2> QED BY EntrySteps, <2>1, <2>2 DEF SealSplitsStep
<1> QED BY <1>1, XZInvariant, XZProved, PTL DEF XZSpec, SealSplitsReleases

\* A released transfer stays as it is or is pruned, and its id is never used
\* again.
THEOREM XZReleasedIsFinal == XZSpec => ReleasedIsFinal
<1>1. XZInv /\ [XZNext]_xzVars => [ReleasedStep]_xzVars
  <2> SUFFICES ASSUME XZInv, XZNext PROVE ReleasedStep
    OBVIOUS
  <2>1. applied \subseteq Transfers
    BY Zenon DEF XZInv, XZTypeOK
  <2> QED BY EntrySteps, <2>1 DEF ReleasedStep, Sealed, Unsealed
<1> QED BY <1>1, XZInvariant, PTL DEF XZSpec, ReleasedIsFinal
-----------------------------------------------------------------------------
(* CrossZone implements Escrow: under the mapping of Deposited, a lock is a
   Deposit, a claim is a Pay, every cancel, reject, abort and refund or reap
   batch is a Return, and every other step is invisible. *)

\* Deposited holds the escrow of the Locked transfers and nothing else.
LEMMA DepositedValues ==
    ASSUME XZInv
    PROVE  \A t \in Transfers :
              /\ Deposited[t] = IF Locked(t) THEN [from |-> pending[t].sender,
                                                   to |-> pending[t].recipient,
                                                   amount |-> pending[t].amount]
                                ELSE [amount |-> 0]
              /\ Locked(t) => /\ Deposited[t].from = pending[t].sender
                              /\ Deposited[t].to = pending[t].recipient
                              /\ Deposited[t].amount = pending[t].amount
BY Zenon DEF Deposited

\* The Locked transfers are the deposits of the abstract escrow.
LEMMA HeldDepositsLocked ==
    ASSUME XZInv, NEW t \in Transfers, Locked(t)
    PROVE  t \in E!HeldDeposits
<1>1. Deposited[t] = [from |-> pending[t].sender, to |-> pending[t].recipient,
                      amount |-> pending[t].amount]
  BY DepositedValues, Zenon
<1>2. DOMAIN [from |-> pending[t].sender, to |-> pending[t].recipient,
              amount |-> pending[t].amount] # DOMAIN [amount |-> 0]
  OBVIOUS
<1>3. Deposited[t] # [amount |-> 0]
  BY <1>1, <1>2, Zenon
<1> QED BY <1>3, Zenon DEF E!HeldDeposits, E!NoDeposit

\* A refund to the sender of one transfer, or of many, is one Return.
LEMMA ReturnStep ==
    ASSUME XZInv, NEW T \in SUBSET Transfers, T # {}, \A t \in T : Locked(t),
           available' = [a \in Identities |-> available[a] + HeldFor(a, T)],
           \A t \in T : pending'[t].status # "Locked",
           \A t \in Transfers \ T : pending'[t] = pending[t], applied' = applied
    PROVE  E!Return(T)
<1>1. T \subseteq E!HeldDeposits
  BY HeldDepositsLocked
<1>2. ASSUME NEW a \in Identities PROVE E!DepositSumOf(a, T) = HeldFor(a, T)
  <2>1. {t \in T : Deposited[t].from = a} = {t \in T : pending[t].sender = a}
    BY DepositedValues, Zenon
  <2> DEFINE D == {t \in T : pending[t].sender = a}
  <2>2. [t \in D |-> Deposited[t].amount] = [t \in D |-> pending[t].amount]
    BY DepositedValues, Zenon
  <2>3. E!DepositSumOf(a, T) = Total([t \in D |-> Deposited[t].amount])
    BY <2>1, Zenon DEF E!DepositSumOf, E!DepositSum
  <2>5. HeldFor(a, T) = Total([t \in D |-> pending[t].amount])
    BY Zenon DEF HeldFor, Held
  <2> HIDE DEF D
  <2> QED BY <2>2, <2>3, <2>5, Zenon
<1>3. available' = [a \in Identities |-> available[a] + E!DepositSumOf(a, T)]
  BY <1>2, Zenon
<1>4. Deposited' = [t \in Transfers |-> IF t \in T THEN [amount |-> 0] ELSE Deposited[t]]
  BY Zenon DEF Deposited, Locked
<1> QED BY <1>1, <1>3, <1>4, Zenon DEF E!Return, E!NoDeposit

\* The sum over a single transfer is its amount.
LEMMA HeldForOne ==
    ASSUME XZInv, NEW t \in Transfers, Locked(t), NEW a \in Identities
    PROVE  HeldFor(a, {t}) = IF pending[t].sender = a THEN pending[t].amount ELSE 0
<1>1. pending[t].amount \in Nat
  BY LockedEntry, Zenon DEF XZInv
<1>2. CASE pending[t].sender = a
  <2> DEFINE f == [u \in {t} |-> pending[u].amount]
  <2>1. {u \in {t} : pending[u].sender = a} = {t}
    BY <1>2
  <2>2. HeldFor(a, {t}) = Total(f)
    BY <2>1, Zenon DEF HeldFor, Held
  <2>3. f \in [{t} -> Nat] /\ f[t] = pending[t].amount /\ IsFiniteSet({t}) /\ t \in {t}
    BY <1>1, FS_Singleton, Zenon
  <2> DEFINE r == [u \in {t} \ {t} |-> f[u]]
  <2>4. r \in [{t} \ {t} -> Nat] /\ \A u \in {t} \ {t} : r[u] = 0
    OBVIOUS
  <2> HIDE DEF f
  <2>5. Total(f) = f[t] + Total(r)
    BY ONLY <2>3, TotalSplit DEF r
  <2> HIDE DEF r
  <2>6. Total(r) = 0
    BY <2>4, TotalZero, Zenon
  <2> QED BY <1>1, <1>2, <2>2, <2>3, <2>5, <2>6
<1>3. CASE pending[t].sender # a
  <2> DEFINE f == [u \in {} |-> pending[u].amount]
  <2>1. {u \in {t} : pending[u].sender = a} = {}
    BY <1>3
  <2>2. HeldFor(a, {t}) = Total(f)
    BY <2>1, Zenon DEF HeldFor, Held
  <2>3. f \in [{} -> Nat] /\ \A u \in {} : f[u] = 0
    OBVIOUS
  <2> HIDE DEF f
  <2>4. Total(f) = 0
    BY <2>3, TotalZero, Zenon
  <2> QED BY <1>3, <2>2, <2>4
<1> QED BY <1>2, <1>3, Zenon

\* A step that moves no beat and leaves the Locked transfers Locked, with
\* their parties and amounts, is invisible to the abstract escrow.
LEMMA InvisibleStep ==
    ASSUME UNCHANGED <<available, applied>>,
           \A t \in Transfers :
              \/ pending'[t] = pending[t]
              \/ ~Locked(t) /\ pending'[t].status # "Locked"
              \/ /\ Locked(t) /\ pending'[t].status = "Locked"
                 /\ pending'[t].sender = pending[t].sender
                 /\ pending'[t].recipient = pending[t].recipient
                 /\ pending'[t].amount = pending[t].amount
    PROVE  UNCHANGED <<available, Deposited, applied>>
<1>1. Deposited' = Deposited
  BY Zenon DEF Deposited, Locked
<1> QED BY <1>1

\* A lock is a Deposit.
LEMMA LockIsDeposit ==
    ASSUME XZInv, NEW t \in Transfers, NEW s \in Identities, NEW r \in Identities,
           NEW amount \in Amounts, NEW ts, XZoneLock(t, s, r, amount, ts)
    PROVE  E!Deposit(t, s, r, amount)
<1>1. pending \in [Transfers -> PendingTransfer \cup {Absent}] /\ Amounts \subseteq Nat
      /\ available \in [Identities -> Nat]
  BY XZoneConstants, Zenon DEF XZInv, XZTypeOK
<1>2. pending'[t] = [status |-> "Locked", sender |-> s, recipient |-> r,
           amount |-> amount, lockedAt |-> ts, expiresAt |-> ts + ClaimTimeout,
           proof |-> FALSE, signers |-> 0, committee |-> 0, epoch |-> 0,
           anchor |-> 0]
  BY <1>1, Zenon DEF XZoneLock
<1>3. \A u \in Transfers \ {t} : pending'[u] = pending[u]
  BY <1>1, Zenon DEF XZoneLock
<1>4. Deposited'[t] = [from |-> s, to |-> r, amount |-> amount]
  <2>1. /\ pending'[t].status = "Locked" /\ pending'[t].sender = s
        /\ pending'[t].recipient = r /\ pending'[t].amount = amount
    <3> DEFINE end == ts + ClaimTimeout
    <3>1. pending'[t] = [status |-> "Locked", sender |-> s, recipient |-> r,
               amount |-> amount, lockedAt |-> ts, expiresAt |-> end,
               proof |-> FALSE, signers |-> 0, committee |-> 0, epoch |-> 0,
               anchor |-> 0]
      BY ONLY <1>2, Zenon
    <3> HIDE DEF end
    <3>2. pending'[t].status = "Locked" /\ pending'[t].sender = s
      BY ONLY <3>1, SMTT(30)
    <3>3. pending'[t].recipient = r /\ pending'[t].amount = amount
      BY ONLY <3>1, SMTT(30)
    <3> QED BY ONLY <3>2, <3>3
  <2> HIDE <1>2
  <2>2. Locked(t)'
    BY ONLY <2>1, Zenon DEF Locked
  <2>3. Deposited'[t] = [from |-> pending'[t].sender, to |-> pending'[t].recipient,
                         amount |-> pending'[t].amount]
    BY <2>2, Zenon DEF Deposited
  <2> QED BY ONLY <2>1, <2>3, Zenon
<1>5. \A u \in Transfers \ {t} : Deposited'[u] = Deposited[u]
  BY <1>3, Zenon DEF Deposited, Locked
<1>6. Deposited' = [Deposited EXCEPT ![t] = [from |-> s, to |-> r, amount |-> amount]]
  BY <1>4, <1>5, Zenon DEF Deposited
<1> QED BY <1>1, <1>6, Zenon DEF E!Deposit, XZoneLock, Fresh, Covers

\* What a single release does to the deposits.
LEMMA ReleaseDeposits ==
    ASSUME XZInv, NEW t \in Transfers, Locked(t), NEW status, status # "Locked", NEW to,
           Release(t, status, to)
    PROVE  /\ pending'[t].status # "Locked"
           /\ \A u \in Transfers \ {t} : pending'[u] = pending[u]
           /\ Deposited' = [Deposited EXCEPT ![t] = [amount |-> 0]]
<1>1. pending \in [Transfers -> PendingTransfer \cup {Absent}] /\ pending[t] \in PendingTransfer
  BY LockedEntry, Zenon DEF XZInv, XZTypeOK
<1>2. pending'[t] = [pending[t] EXCEPT !.status = status]
  BY <1>1 DEF Release
<1>3. pending'[t].status = status
  BY <1>1, <1>2 DEF PendingTransfer
<1>4. \A u \in Transfers \ {t} : pending'[u] = pending[u]
  BY <1>1, Zenon DEF Release
<1>5. Deposited'[t] = [amount |-> 0] /\ \A u \in Transfers \ {t} : Deposited'[u] = Deposited[u]
  BY <1>3, <1>4, Zenon DEF Deposited, Locked
<1> QED BY <1>3, <1>4, <1>5, Zenon DEF Deposited

\* A claim is a Pay.
LEMMA ClaimIsPay ==
    ASSUME XZInv, NEW t \in Transfers, NEW a \in Identities, NEW ts, XZoneClaim(t, a, ts)
    PROVE  E!Pay(t)
<1>1. Locked(t) /\ Release(t, "Claimed", a) /\ a = pending[t].recipient
  BY Zenon DEF XZoneClaim
<1>2. Deposited' = [Deposited EXCEPT ![t] = [amount |-> 0]]
  BY <1>1, ReleaseDeposits, Zenon
<1>3. Deposited[t].to = a /\ Deposited[t].amount = pending[t].amount
  BY <1>1, DepositedValues, Zenon
<1> QED BY <1>1, <1>2, <1>3, HeldDepositsLocked, Zenon DEF E!Pay, E!NoDeposit, Release

\* A release to the sender is a Return of one transfer.
LEMMA ReleaseIsReturn ==
    ASSUME XZInv, NEW t \in Transfers, Locked(t), NEW status, status # "Locked",
           Release(t, status, pending[t].sender)
    PROVE  E!Return({t})
<1>1. /\ pending'[t].status # "Locked"
      /\ \A u \in Transfers \ {t} : pending'[u] = pending[u]
  BY ReleaseDeposits, Zenon
<1>2. /\ available \in [Identities -> Nat] /\ pending[t].amount \in Nat
      /\ available' = [available EXCEPT ![pending[t].sender] = @ + pending[t].amount]
      /\ applied' = applied
  BY LockedEntry DEF XZInv, XZTypeOK, Release
<1>3. ASSUME NEW a \in Identities PROVE available'[a] = available[a] + HeldFor(a, {t})
  <2>1. HeldFor(a, {t}) = IF pending[t].sender = a THEN pending[t].amount ELSE 0
    BY HeldForOne, Zenon
  <2> HIDE DEF HeldFor
  <2>2. CASE pending[t].sender = a
    BY ONLY <1>2, <2>1, <2>2, a \in Identities, Zenon
  <2>3. CASE pending[t].sender # a
    BY ONLY <1>2, <2>1, <2>3, a \in Identities
  <2> QED BY ONLY <2>2, <2>3
<1>4. available' = [a \in Identities |-> available[a] + HeldFor(a, {t})]
  BY <1>2, <1>3, Zenon
<1> QED BY <1>1, <1>2, <1>4, ReturnStep, Zenon

\* Applying a batch is a Return, or invisible when nothing is left to refund.
LEMMA RefundAllIsReturn ==
    ASSUME XZInv, NEW T \in SUBSET Transfers, \A t \in T : Locked(t), RefundAll(T)
    PROVE  E!Return(T) \/ UNCHANGED <<available, Deposited, applied>>
<1>1. pending \in [Transfers -> PendingTransfer \cup {Absent}] /\ \A t \in T : pending[t] \in PendingTransfer
  BY LockedEntry DEF XZInv, XZTypeOK
<1>2. ASSUME NEW t \in T PROVE pending'[t].status # "Locked"
  <2>1. pending'[t] = [pending[t] EXCEPT !.status = "Refunded"]
    BY DEF RefundAll
  <2> QED BY <1>1, <2>1 DEF PendingTransfer
<1>3. \A t \in Transfers \ T : pending'[t] = pending[t]
  BY DEF RefundAll
<1>4. /\ available' = [a \in Identities |-> available[a] + HeldFor(a, T)]
      /\ applied' = applied
  BY Zenon DEF RefundAll
<1>5. CASE T # {}
  BY <1>2, <1>3, <1>4, <1>5, ReturnStep, Zenon
<1>6. CASE T = {}
  <2>1. ASSUME NEW a \in Identities PROVE HeldFor(a, T) = 0
    <3> DEFINE f == [u \in {} |-> pending[u].amount]
    <3>1. {u \in T : pending[u].sender = a} = {}
      BY <1>6
    <3>2. HeldFor(a, T) = Total(f)
      BY <3>1, Zenon DEF HeldFor, Held
    <3>3. f \in [{} -> Nat] /\ \A u \in {} : f[u] = 0
      OBVIOUS
    <3> HIDE DEF f
    <3> QED BY <3>2, <3>3, TotalZero, Zenon
  <2>2. available \in [Identities -> Nat]
    BY DEF XZInv, XZTypeOK
  <2>3. available' = available
    BY <1>4, <2>1, <2>2
  <2> QED BY <1>3, <1>4, <1>6, <2>3, InvisibleStep, Zenon
<1> QED BY <1>5, <1>6

\* Every cross-zone transfer is an escrow that is paid or returned once and
\* whole, for every set of identities, transfers, amounts and timeouts: the
\* lock, claim, cancel, reject, abort, refund and reap handlers of apply_op
\* implement Escrow.
THEOREM XZImplementsEscrow == XZSpec => ImplementsEscrow
<1>1. XZInit => E!ESInit
  <2> SUFFICES ASSUME XZInit PROVE E!ESInit
    OBVIOUS
  <2>1. \A t \in Transfers : ~ Locked(t)
    BY Zenon DEF XZInit, Locked, Absent
  <2>2. Deposited = [t \in Transfers |-> E!NoDeposit]
    BY ONLY <2>1 DEF Deposited, E!NoDeposit
  <2>3. /\ available \in [Identities -> 0..Supply] /\ Total(available) = Supply
        /\ applied = {}
    BY Zenon DEF XZInit
  <2> QED BY ONLY <2>2, <2>3, Zenon DEF E!ESInit
<1>2. XZInv /\ [XZNext]_xzVars => [E!ESNext]_<<available, Deposited, applied>>
  <2> SUFFICES ASSUME XZInv, [XZNext]_xzVars
               PROVE  E!ESNext \/ UNCHANGED <<available, Deposited, applied>>
    OBVIOUS
  <2>0. pending \in [Transfers -> PendingTransfer \cup {Absent}]
    BY DEF XZInv, XZTypeOK
  <2>1. CASE \E t \in Transfers, s, r \in Identities, amount \in Amounts, ts \in 0..MaxLockTime :
               XZoneLock(t, s, r, amount, ts)
    BY <2>1, LockIsDeposit DEF E!ESNext
  <2>2. CASE \E t \in Transfers, a \in Identities, ts \in 0..now : XZoneClaim(t, a, ts)
    BY <2>2, ClaimIsPay DEF E!ESNext
  <2>3. ASSUME NEW t \in Transfers, NEW a \in Identities, NEW n, NEW size,
               XZoneCancel(t, a) \/ XZoneReject(t, a) \/ XZoneAbort(t, n, size)
        PROVE  E!ESNext
    <3>1. /\ Locked(t)
          /\ \/ Release(t, "Refunded", pending[t].sender)
             \/ Release(t, "Aborted", pending[t].sender)
      BY <2>3, Zenon DEF XZoneCancel, XZoneReject, XZoneAbort
    <3>2. E!Return({t})
      BY <3>1, ReleaseIsReturn, Zenon
    <3> QED BY <3>2, Zenon DEF E!ESNext
  <2>4. ASSUME NEW T \in SUBSET Transfers, \A t \in T : Locked(t), RefundAll(T)
        PROVE  E!ESNext \/ UNCHANGED <<available, Deposited, applied>>
    BY <2>4, RefundAllIsReturn, Zenon DEF E!ESNext
  <2>5. CASE \E b \in batches : ApplyRefundBatch(b)
    <3>1. PICK b \in batches : ApplyRefundBatch(b)
      BY <2>5
    <3>2. b.ids \subseteq Transfers
      BY Zenon DEF XZInv, XZTypeOK, Batches
    <3> QED BY <3>1, <3>2, <2>4 DEF ApplyRefundBatch, Refundable, Unsealed
  <2>6. CASE \E b \in batches : ApplyReapBatch(b)
    <3>1. PICK b \in batches : ApplyReapBatch(b)
      BY <2>6
    <3>2. b.ids \subseteq Transfers
      BY DEF XZInv, XZTypeOK, Batches
    <3>3. RefundAll({t \in b.ids : Sealed(t)})
      BY <3>1, Zenon DEF ApplyReapBatch
    <3> QED BY <3>2, <3>3, <2>4, Zenon DEF Sealed
  <2>7. CASE \E sealed \in SUBSET needsProof \ {{}}, only \in BOOLEAN,
               coll \in Collections \cup {NoCollection}, anchor \in CommitteeSizes \cup {0} :
                  AttachXZoneProofs(sealed, only, coll, anchor)
    <3>1. PICK sealed \in SUBSET needsProof \ {{}}, only \in BOOLEAN,
               coll \in Collections \cup {NoCollection}, anchor \in CommitteeSizes \cup {0} :
                  AttachXZoneProofs(sealed, only, coll, anchor)
      BY <2>7, Zenon
    <3>2. ASSUME NEW t \in Transfers, Unsealed(t), t \in sealed
          PROVE  /\ Locked(t) /\ pending'[t].status = "Locked"
                 /\ pending'[t].sender = pending[t].sender
                 /\ pending'[t].recipient = pending[t].recipient
                 /\ pending'[t].amount = pending[t].amount
      <4>1. Locked(t) /\ pending[t] \in PendingTransfer
        BY <3>2, LockedEntry DEF Unsealed, XZInv
      <4> DEFINE w == WithWitnesses(pending[t], coll)
      <4>2. /\ w.status = pending[t].status /\ w.sender = pending[t].sender
            /\ w.recipient = pending[t].recipient /\ w.amount = pending[t].amount
            /\ DOMAIN w = DOMAIN pending[t]
        BY <4>1, Zenon DEF WithWitnesses, PendingTransfer
      <4>3. pending'[t] = [w EXCEPT !.proof = ~only,
                                    !.anchor = IF anchor = 0 THEN @ ELSE anchor]
        BY <3>1, <3>2, Zenon DEF AttachXZoneProofs
      <4> HIDE DEF w
      <4>4. DOMAIN pending[t] = {"status", "sender", "recipient", "amount", "lockedAt",
              "expiresAt", "proof", "signers", "committee", "epoch", "anchor"}
        BY <4>1, Zenon DEF PendingTransfer
      <4> QED BY <4>1, <4>2, <4>3, <4>4 DEF Locked
    <3>3. \A t \in Transfers : ~(Unsealed(t) /\ t \in sealed) => pending'[t] = pending[t]
      BY <3>1, Zenon DEF AttachXZoneProofs
    <3>4. UNCHANGED <<available, applied>>
      BY <3>1, Zenon DEF AttachXZoneProofs
    <3> QED BY <3>2, <3>3, <3>4, InvisibleStep, Zenon
  <2>8. CASE PruneCompleted
    <3>1. \A t \in Transfers :
             \/ pending'[t] = pending[t]
             \/ ~Locked(t) /\ pending'[t].status # "Locked"
      BY <2>8, Zenon DEF PruneCompleted, Completed, Absent
    <3> QED BY <2>8, <3>1, InvisibleStep, Zenon DEF PruneCompleted
  <2>9. CASE UNCHANGED <<available, pending, applied>>
    BY <2>9, InvisibleStep, Zenon
  <2>10. EmitRefundBatch \/ EmitReapBatch \/ Tick \/ UNCHANGED xzVars
           => UNCHANGED <<available, pending, applied>>
    BY Zenon DEF EmitRefundBatch, EmitReapBatch, Emit, Tick, xzVars
  <2>11. CASE \E t \in Transfers, a \in Identities : XZoneCancel(t, a) \/ XZoneReject(t, a)
    BY <2>11, <2>3, Zenon
  <2>12. CASE \E t \in Transfers, size \in CommitteeSizes : \E n \in 0..size :
                XZoneAbort(t, n, size)
    <3>1. PICK t \in Transfers, size \in CommitteeSizes, n \in Int : XZoneAbort(t, n, size)
      BY <2>12
    <3>2. Identities # {}
      BY <3>1, LockedEntry, Zenon DEF XZoneAbort, XZInv, PendingTransfer
    <3> QED BY <3>1, <3>2, <2>3
  <2>13. CASE EmitRefundBatch \/ EmitReapBatch \/ Tick \/ UNCHANGED xzVars
    BY <2>9, <2>10, <2>13
  <2>14. CASE Restart
    <3>1. PICK unsaved \in SUBSET With("Locked") :
             pending' = [u \in Transfers |->
                IF u \in unsaved THEN Unproved(pending[u]) ELSE pending[u]]
      BY <2>14, Zenon DEF Restart
    <3>2. \A t \in Transfers :
             \/ pending'[t] = pending[t]
             \/ /\ Locked(t) /\ pending'[t].status = "Locked"
                /\ pending'[t].sender = pending[t].sender
                /\ pending'[t].recipient = pending[t].recipient
                /\ pending'[t].amount = pending[t].amount
      BY <3>1, BootEntries
    <3>3. UNCHANGED <<available, applied>>
      BY <2>14, Zenon DEF Restart
    <3> QED BY <3>2, <3>3, InvisibleStep, Zenon
  <2> QED BY <2>1, <2>2, <2>5, <2>6, <2>7, <2>8, <2>11, <2>12, <2>13, <2>14, Zenon DEF XZNext
<1> QED BY <1>1, <1>2, XZInvariant, PTL DEF XZSpec, ImplementsEscrow, E!ESSpec, E!esVars
=============================================================================
