--------------------------- MODULE FinalityProofs ---------------------------
(***************************************************************************)
(* Proofs about SealFinality: every method of the engine keeps its types,  *)
(* and none leaves a creator among the attesters of its own record; a seal *)
(* that settled keeps its members finalized while the engine keeps them;   *)
(* and a level is lowered only where finality is carried elsewhere.        *)
(*                                                                         *)
(* The last two rest on finality being grounded: a final level that the    *)
(* index does not hold, or is not about to, rests on attestations that no  *)
(* later news of a creator takes back (Grounded); and of a seal of which   *)
(* nothing was forgotten the engine knows the creator and the list, with   *)
(* every member on it or parked for it (KeptSeal).                         *)
(***************************************************************************)
EXTENDS SealFinality, UnitsTheorems

\* What NoSelfAttestation says of an engine.
SelfFree(e) ==
    /\ \A i \in e.creators : CreatorOf[i] \notin e.atts[i]
    /\ \A s \in Seals : CreatorOf[s] \notin e.sealAtts[s]

\* An engine with its types that counts no creator.
Sound(e) == e \in Engines /\ SelfFree(e)
-----------------------------------------------------------------------------
(* Levels *)

\* recompute_confirmation gives one of the four levels.
LEMMA LevelForType ==
    ASSUME NEW e, NEW i
    PROVE  LevelFor(e, i) \in Pending..Anchored
  BY DEF LevelFor, Pending, Sealed, Finalized, Anchored

\* A change of levels to levels keeps an engine sound.
LEMMA LevelsSound ==
    ASSUME NEW e, Sound(e), NEW l \in [Ids -> Pending..Anchored]
    PROVE  Sound([e EXCEPT !.level = l])
  BY Zenon DEF Sound, SelfFree, Engines

\* Recompute, ForceFinalized and AtLeastSealed change levels only.
LEMMA RecomputeSound ==
    ASSUME NEW e, e \in Engines, NEW i \in Ids
    PROVE  /\ Recompute(e, i) \in Engines
           /\ Recompute(e, i).creators = e.creators
           /\ Recompute(e, i).atts = e.atts
           /\ Recompute(e, i).sealAtts = e.sealAtts
  BY LevelForType, Zenon DEF Recompute, Engines

LEMMA ForceFinalizedSound ==
    ASSUME NEW e, Sound(e), NEW F
    PROVE  Sound(ForceFinalized(e, F))
  <1> DEFINE l == [i \in Ids |-> IF i \in F /\ e.level[i] < Finalized THEN Finalized ELSE e.level[i]]
  <1>1. l \in [Ids -> Pending..Anchored]
    BY DEF Sound, Engines, Pending, Finalized, Anchored
  <1>2. ForceFinalized(e, F) = [e EXCEPT !.level = l]
    BY DEF ForceFinalized
  <1> HIDE DEF l
  <1> QED BY <1>1, <1>2, LevelsSound

LEMMA AtLeastSealedSound ==
    ASSUME NEW e, Sound(e), NEW M
    PROVE  Sound(AtLeastSealed(e, M))
  <1> DEFINE l == [i \in Ids |-> IF i \in M /\ e.level[i] < Sealed THEN Sealed ELSE e.level[i]]
  <1>1. l \in [Ids -> Pending..Anchored]
    BY DEF Sound, Engines, Pending, Sealed, Anchored
  <1>2. AtLeastSealed(e, M) = [e EXCEPT !.level = l]
    BY DEF AtLeastSealed
  <1> HIDE DEF l
  <1> QED BY <1>1, <1>2, LevelsSound
-----------------------------------------------------------------------------
(* Creators and attestations *)

\* Registration purges what the creators attested before, so it keeps what held and
\* adds what it registers.
LEMMA RegisterCreatorsSound ==
    ASSUME NEW e, Sound(e), NEW B \in SUBSET Ids
    PROVE  Sound(RegisterCreators(e, B)) /\ B \subseteq RegisterCreators(e, B).creators
  <1> DEFINE new == B \ e.creators
             f == [e EXCEPT
                     !.creators = @ \cup new,
                     !.atts = [i \in Ids |-> IF i \in new THEN @[i] \ {CreatorOf[i]} ELSE @[i]],
                     !.sealAtts = [s \in Seals |->
                                     IF s \in new THEN @[s] \ {CreatorOf[s]} ELSE @[s]]]
             purged == {i \in new : \/ CreatorOf[i] \in e.atts[i]
                                    \/ i \in Seals /\ CreatorOf[i] \in e.sealAtts[i]}
             l == [i \in Ids |-> IF i \in purged THEN LevelFor(f, i) ELSE f.level[i]]
  <1>1. f \in Engines /\ f.creators = e.creators \cup B
    BY Zenon DEF Sound, Engines
  <1>2. SelfFree(f)
    BY DEF Sound, SelfFree, Engines, Ids
  <1>3. Sound(f)
    BY <1>1, <1>2 DEF Sound
  <1>4. RegisterCreators(e, B) = [f EXCEPT !.level = l]
    BY DEF RegisterCreators
  <1> HIDE DEF f, purged
  <1>5. l \in [Ids -> Pending..Anchored]
    BY <1>1, LevelForType DEF Engines
  <1> HIDE DEF l
  <1>6. Sound([f EXCEPT !.level = l])
    BY <1>3, <1>5, LevelsSound
  <1>7. [f EXCEPT !.level = l].creators = f.creators
    BY <1>1 DEF Engines
  <1> QED BY <1>1, <1>4, <1>6, <1>7, Zenon

\* A creator the engine knows is refused.
LEMMA AddAttestationSound ==
    ASSUME NEW e, Sound(e), NEW i \in Ids, NEW w \in Stakers
    PROVE  /\ Sound(AddAttestation(e, i, w))
           /\ AddAttestation(e, i, w).creators = e.creators
  <1> DEFINE f == [e EXCEPT !.atts[i] = @ \cup {w}]
  <1>1. CASE IsCreator(e, i, w) \/ w \in e.atts[i]
    BY <1>1 DEF AddAttestation
  <1>2. CASE ~(IsCreator(e, i, w) \/ w \in e.atts[i])
    <2>1. f \in Engines /\ f.creators = e.creators
      BY Zenon DEF Sound, Engines
    <2>2. SelfFree(f)
      BY <1>2 DEF Sound, SelfFree, Engines, IsCreator
    <2>3. AddAttestation(e, i, w) = Recompute(f, i)
      BY <1>2 DEF AddAttestation
    <2> HIDE DEF f
    <2>4. SelfFree(Recompute(f, i))
      BY <2>1, <2>2, RecomputeSound DEF SelfFree
    <2> QED BY <2>1, <2>3, <2>4, RecomputeSound DEF Sound
  <1> QED BY <1>1, <1>2

\* The feeds attest a seal only when they have registered its creator.
LEMMA AddSealAttestationSound ==
    ASSUME NEW e, Sound(e), NEW s \in Seals, s \in e.creators, NEW w \in Stakers
    PROVE  Sound(AddSealAttestation(e, s, w))
  <1> DEFINE added == [e EXCEPT !.sealAtts[s] = @ \cup {w}]
             settled == [added EXCEPT !.challenge = @ \cup {s}]
  <1>1. CASE IsCreator(e, s, w) \/ w \in e.sealAtts[s]
    BY <1>1 DEF AddSealAttestation
  <1>2. CASE ~(IsCreator(e, s, w) \/ w \in e.sealAtts[s])
    <2>1. Sound(added)
      BY <1>2, Zenon DEF Sound, SelfFree, Engines, IsCreator
    <2>2. Sound(settled)
      BY <2>1, Zenon DEF Sound, SelfFree, Engines
    <2>3. Sound(ForceFinalized(settled, e.members[s]))
      BY <2>2, ForceFinalizedSound
    <2> QED BY <1>2, <2>1, <2>2, <2>3 DEF AddSealAttestation
  <1> QED BY <1>1, <1>2
-----------------------------------------------------------------------------
(* Seals and prunes *)

\* The list of a seal holds ordinary records, and attestations are left alone.
LEMMA RegisterSealSound ==
    ASSUME NEW e, Sound(e), NEW s \in Seals, NEW M \in SUBSET Ordinary
    PROVE  Sound(RegisterSeal(e, s, M))
  <1> DEFINE f == AtLeastSealed(e, M)
             r == [f EXCEPT !.registered = @ \cup {s}, !.members[s] = M]
  <1>1. Sound(f)
    BY AtLeastSealedSound
  <1>2. RegisterSeal(e, s, M) = IF IsSealSettled(r, s) THEN ForceFinalized(r, M) ELSE r
    BY DEF RegisterSeal
  <1> HIDE DEF f
  <1>3. Sound(r)
    BY <1>1, Zenon DEF Sound, SelfFree, Engines
  <1> HIDE DEF r
  <1> QED BY <1>2, <1>3, ForceFinalizedSound

LEMMA ParkUnresolvedSound ==
    ASSUME NEW e, Sound(e), NEW s \in Seals, NEW U
    PROVE  Sound(ParkUnresolved(e, s, U))
  <1> DEFINE u == [o \in Ordinary |-> IF o \in U THEN s ELSE e.unresolved[o]]
  <1>1. u \in [Ordinary -> Seals \cup {None}]
    BY DEF Sound, Engines
  <1>2. ParkUnresolved(e, s, U) = [e EXCEPT !.unresolved = u]
    BY DEF ParkUnresolved
  <1> HIDE DEF u
  <1> QED BY <1>1, <1>2 DEF Sound, SelfFree, Engines

LEMMA ResolveLateSound ==
    ASSUME NEW e, Sound(e), NEW o \in Ordinary
    PROVE  Sound(ResolveLate(e, o))
  <1> DEFINE s == e.unresolved[o]
             freed == [e EXCEPT !.unresolved[o] = None]
             f == AtLeastSealed(freed, {o})
             joined == [f EXCEPT !.members[s] = @ \cup {o}]
  <1>1. s \in Seals \cup {None}
    BY DEF Sound, Engines
  <1>2. Sound(freed)
    BY Zenon DEF Sound, SelfFree, Engines
  <1>3. ResolveLate(e, o) = IF s = None THEN e
                            ELSE IF s \notin e.registered THEN freed
                            ELSE IF IsSealSettled(joined, s) THEN ForceFinalized(joined, {o})
                            ELSE joined
    BY DEF ResolveLate
  <1> HIDE DEF freed
  <1>4. Sound(f)
    BY <1>2, AtLeastSealedSound
  <1> HIDE DEF f, s
  <1>5. Sound(joined)
    BY <1>4, Zenon DEF Sound, SelfFree, Engines
  <1> HIDE DEF joined
  <1> QED BY <1>2, <1>3, <1>5, ForceFinalizedSound

\* A forgotten level is Pending, which is a level.
LEMMA WithoutLevel ==
    ASSUME NEW l \in [Ids -> Pending..Anchored], NEW D
    PROVE  Without(l, D, Pending) \in [Ids -> Pending..Anchored]
  BY DEF Without, Pending, Anchored

LEMMA PruneWhereSound ==
    ASSUME NEW e, Sound(e), NEW X
    PROVE  Sound(PruneWhere(e, X))
  <1> DEFINE a == Without(e.atts, X, {})
             l == Without(e.level, X, Pending)
             n == e.anchored \ X
             c == e.creators \ X
  <1>1. a \in [Ids -> SUBSET Stakers]
    BY DEF Without, Sound, Engines
  <1>2. \A i \in Ids : a[i] \subseteq e.atts[i]
    BY DEF Without, Sound, Engines
  <1>3. l \in [Ids -> Pending..Anchored]
    BY WithoutLevel DEF Sound, Engines
  <1>4. PruneWhere(e, X) =
            [e EXCEPT !.atts = a, !.level = l, !.anchored = n, !.creators = c]
    BY DEF PruneWhere
  <1>5. n \in SUBSET Ids /\ c \in SUBSET Ids /\ c \subseteq e.creators
    BY DEF Sound, Engines
  <1> HIDE DEF a, l, n, c
  <1>6. PruneWhere(e, X) \in Engines
    BY <1>1, <1>3, <1>4, <1>5, Zenon DEF Sound, Engines
  <1>7. SelfFree(PruneWhere(e, X))
    BY <1>1, <1>2, <1>4, <1>5 DEF Sound, SelfFree, Engines
  <1> QED BY <1>6, <1>7 DEF Sound

LEMMA UnregisterSound ==
    ASSUME NEW e, Sound(e), NEW D
    PROVE  Sound(Unregister(e, D))
  <1> DEFINE r == e.registered \ D
             m == Without(e.members, D, {})
             c == e.challenge \ D
             u == [o \in Ordinary |->
                     IF e.unresolved[o] \in e.registered \ D THEN e.unresolved[o] ELSE None]
  <1>1. m \in [Seals -> SUBSET Ordinary]
    BY DEF Without, Sound, Engines
  <1>2. u \in [Ordinary -> Seals \cup {None}]
    BY DEF Sound, Engines
  <1>3. Unregister(e, D) =
            [e EXCEPT !.registered = r, !.members = m, !.challenge = c, !.unresolved = u]
    BY DEF Unregister
  <1>4. r \in SUBSET Seals /\ c \in SUBSET Seals
    BY DEF Sound, Engines
  <1> HIDE DEF m, u, r, c
  <1> QED BY <1>1, <1>2, <1>3, <1>4 DEF Sound, SelfFree, Engines

LEMMA PruneAnchoredSealsSound ==
    ASSUME NEW e, Sound(e), NEW X
    PROVE  Sound(PruneAnchoredSeals(e, X))
  <1> DEFINE f == [e EXCEPT !.sealAtts = Without(@, X, {})]
  <1>1. Sound(f)
    BY DEF Without, Sound, SelfFree, Engines
  <1>2. PruneAnchoredSeals(e, X) = Unregister(f, X)
    BY DEF PruneAnchoredSeals
  <1> HIDE DEF f
  <1> QED BY <1>1, <1>2, UnregisterSound

LEMMA PruneOlderThanSound ==
    ASSUME NEW e, Sound(e), NEW A, NEW S
    PROVE  Sound(PruneOlderThan(e, A, S))
  <1> DEFINE a == [e EXCEPT !.atts = Without(@, A, {}), !.sealAtts = Without(@, S, {})]
             idle == Ids \ Tracked(a)
             l == IF A = {} THEN a.level ELSE Without(a.level, idle, Pending)
             n == IF A = {} THEN a.anchored ELSE a.anchored \ idle
             b == [a EXCEPT !.creators = @ \ idle, !.level = l, !.anchored = n]
             D == {s \in Seals : b.sealAtts[s] = {}}
  <1>1. Sound(a)
    BY Zenon DEF Without, Sound, SelfFree, Engines
  <1>2. PruneOlderThan(e, A, S) = Unregister(b, D)
    BY DEF PruneOlderThan
  <1> HIDE DEF a, idle
  <1>3. l \in [Ids -> Pending..Anchored] /\ n \in SUBSET Ids
    BY <1>1, WithoutLevel DEF Sound, Engines
  <1> HIDE DEF l, n
  <1>4. Sound(b)
    BY <1>1, <1>3, Zenon DEF Sound, SelfFree, Engines
  <1> HIDE DEF b, D
  <1> QED BY <1>2, <1>4, UnregisterSound
-----------------------------------------------------------------------------
(* The invariant *)

\* What the two theorems say together, and that a prune that has swept is within its bound.
\* No part is inductive alone: a registration needs the types to purge, and the prune
\* counts its round after the sweep that was allowed to begin it.
FinalityInv ==
    /\ SealFinalityTypeOK
    /\ Sound(engine)
    /\ swept => pruneTicks < MaxPruneTicks

LEMMA InitInv == ASSUME SealFinalityInit PROVE FinalityInv
  <1>1. EmptyEngine \in Engines
    <2>1. [i \in Ids |-> Pending] \in [Ids -> Pending..Anchored]
      BY DEF Pending, Anchored
    <2> QED BY <2>1 DEF Engines, EmptyEngine
  <1>2. SelfFree(EmptyEngine)
    BY DEF SelfFree, EmptyEngine, Ids
  <1>3. registrar \in [LocalSeals -> [pc : {"resolve", "register", "done"}, found : SUBSET Ordinary]]
    BY Zenon DEF SealFinalityInit
  <1>4. pruneTicks \in 0..MaxPruneTicks
    BY SealFinalityConstants DEF SealFinalityInit
  <1> QED BY <1>1, <1>2, <1>3, <1>4, Zenon DEF SealFinalityInit, FinalityInv, SealFinalityTypeOK, Sound

\* The history of a change of engine stays a set of seals, and what is carried ids.
LEMMA DriveType ==
    ASSUME FinalityInv, NEW f, Sound(f), Drive(f)
    PROVE  Sound(engine') /\ engine' \in Engines /\ lapsed' \subseteq Seals
  BY DEF FinalityInv, SealFinalityTypeOK, Drive, Forgets, Sound

LEMMA CarryType ==
    ASSUME FinalityInv, NEW S \in SUBSET Ids, Carry(S)
    PROVE  routing' \subseteq Ids
  BY DEF FinalityInv, SealFinalityTypeOK, Carry

LEMMA RisenType ==
    ASSUME NEW f
    PROVE  Risen(f) \in SUBSET Ids
  BY DEF Risen, FinalLevel

\* What both registrations of a seal do.
LEMMA RegisterType ==
    ASSUME FinalityInv, NEW s \in Seals, NEW M \in SUBSET Ordinary, Register(s, M)
    PROVE  Sound(engine') /\ engine' \in Engines /\ lapsed' \subseteq Seals /\ routing' \subseteq Ids
  <1> DEFINE f == RegisterSeal(engine, s, M)
  <1>1. PICK kept \in SUBSET (Listed[s] \ M) : Drive(ParkUnresolved(f, s, kept)) /\ Carry(Risen(f))
    BY DEF Register
  <1>2. Sound(f)
    BY RegisterSealSound DEF FinalityInv
  <1> HIDE DEF f
  <1>3. Sound(ParkUnresolved(f, s, kept))
    BY <1>2, ParkUnresolvedSound
  <1> QED BY <1>1, <1>3, DriveType, CarryType, RisenType, Zenon

\* What both feeds do, whether or not their read found the record.
LEMMA FeedType ==
    ASSUME FinalityInv, NEW i \in Ids, NEW w \in Stakers, NEW found \in BOOLEAN, NEW gate,
           Settle(i, Fed(i, w, found), gate)
    PROVE  Sound(engine') /\ engine' \in Engines /\ lapsed' \subseteq Seals /\ routing' \subseteq Ids
  <1> DEFINE a == IF found THEN RegisterCreator(engine, i) ELSE engine
             b == AddAttestation(a, i, w)
             f == Fed(i, w, found)
             settled == IsSettled(f, i) /\ gate
             g == IF settled THEN ForceFinalized(f, {i}) ELSE f
             C == (IF i \in Seals THEN Risen(f) \ {i} ELSE {}) \cup (IF settled THEN {i} ELSE {})
  <1>1. Sound(a) /\ (found => i \in a.creators)
    BY RegisterCreatorsSound DEF RegisterCreator, FinalityInv
  <1> HIDE DEF a
  <1>2. Sound(b) /\ (found => i \in b.creators)
    BY <1>1, AddAttestationSound, Zenon
  <1>3. f = IF found /\ i \in Seals THEN AddSealAttestation(b, i, w) ELSE b
    BY DEF Fed, a
  <1> HIDE DEF b, f
  <1>4. Sound(f)
    BY <1>2, <1>3, AddSealAttestationSound, Zenon
  <1>5. Drive(g) /\ Carry(C)
    BY DEF Settle, f
  <1>6. C \in SUBSET Ids
    BY RisenType
  <1> HIDE DEF settled, C
  <1>7. Sound(g)
    BY <1>4, ForceFinalizedSound, Zenon
  <1> HIDE DEF g
  <1> QED BY <1>5, <1>6, <1>7, DriveType, CarryType
-----------------------------------------------------------------------------
(* Every step keeps it *)

LEMMA StepInv == ASSUME FinalityInv, [SealFinalityNext]_sfVars PROVE FinalityInv'
  <1> DEFINE Rest == UNCHANGED <<stored, worker, registrar, conflicted, index, phantoms, swept,
                                 pruneTicks, mistaken>>
             Changed == /\ Sound(engine') /\ engine' \in Engines
                        /\ lapsed' \subseteq Seals /\ routing' \subseteq Ids
  <1> USE DEF FinalityInv
  <1>rest. ASSUME Rest, Changed PROVE FinalityInv'
    BY <1>rest, Zenon DEF SealFinalityTypeOK, Rest, Changed
  <1>1. CASE UNCHANGED sfVars
    BY <1>1, Zenon DEF sfVars, SealFinalityTypeOK
  <1>2. ASSUME NEW i \in Ids, IngestStore(i) PROVE FinalityInv'
    <2>1. Sound(RegisterCreator(engine, i))
      BY RegisterCreatorsSound DEF RegisterCreator
    <2>2. Sound(engine') /\ engine' \in Engines /\ lapsed' \subseteq Seals
      BY <1>2, <2>1, DriveType, Zenon DEF IngestStore
    <2> QED BY <1>2, <2>2 DEF IngestStore, SealFinalityTypeOK
  <1>3. CASE IngestLateMember
    <2>1. Sound(ResolveLate(engine, worker))
      BY <1>3, ResolveLateSound, Zenon DEF IngestLateMember
    <2>2. Sound(engine') /\ engine' \in Engines /\ lapsed' \subseteq Seals /\ routing' \subseteq Ids
      BY <1>3, <2>1, DriveType, CarryType, RisenType, Zenon DEF IngestLateMember
    <2> QED BY <1>3, <2>2 DEF IngestLateMember, SealFinalityTypeOK
  <1>4. CASE IngestSeal
    <2>1. Listed[worker] \cap stored \in SUBSET Ordinary
      BY <1>4, SealFinalityConstants, Zenon DEF IngestSeal
    <2>2. Sound(engine') /\ engine' \in Engines /\ lapsed' \subseteq Seals /\ routing' \subseteq Ids
      BY <1>4, <2>1, RegisterType, Zenon DEF IngestSeal
    <2> QED BY <1>4, <2>2 DEF IngestSeal, SealFinalityTypeOK
  <1>5. ASSUME NEW s \in LocalSeals, CreatorResolves(s) PROVE FinalityInv'
    <2>1. Listed[s] \cap stored \in SUBSET Ordinary
      BY SealFinalityConstants, Zenon
    <2>2. registrar' \in [LocalSeals -> [pc : {"resolve", "register", "done"}, found : SUBSET Ordinary]]
      BY <1>5, <2>1 DEF CreatorResolves, SealFinalityTypeOK
    <2> QED BY <1>5, <2>2 DEF CreatorResolves, SealFinalityTypeOK
  <1>6. ASSUME NEW s \in LocalSeals, CreatorRegisters(s) PROVE FinalityInv'
    <2>1. s \in Seals /\ registrar[s].found \in SUBSET Ordinary
      BY SealFinalityConstants DEF SealFinalityTypeOK
    <2>2. Changed
      BY <1>6, <2>1, RegisterType DEF CreatorRegisters
    <2>3. registrar' \in [LocalSeals -> [pc : {"resolve", "register", "done"}, found : SUBSET Ordinary]]
      BY <1>6, Zenon DEF CreatorRegisters, SealFinalityTypeOK
    <2> QED BY <1>6, <2>2, <2>3, Zenon DEF CreatorRegisters, SealFinalityTypeOK
  <1>7. ASSUME NEW i \in Ids, FlagConflict(i) PROVE FinalityInv'
    BY <1>7, Zenon DEF FlagConflict, SealFinalityTypeOK
  <1>8. ASSUME NEW i \in Ids, NEW w \in Stakers, Feed(i, w) \/ Refeed(i, w) PROVE FinalityInv'
    <2>1. PICK found \in BOOLEAN, gate \in BOOLEAN : Settle(i, Fed(i, w, found), gate)
      BY <1>8, Zenon DEF Feed, Refeed
    <2>2. Changed
      BY <2>1, FeedType
    <2>3. Rest
      BY <1>8, Zenon DEF Feed, Refeed
    <2> QED BY <1>rest, <2>2, <2>3, Zenon
  <1>9. ASSUME NEW i \in Ids, Route(i) PROVE FinalityInv'
    BY <1>9 DEF Route, SealFinalityTypeOK
  <1>10. CASE Monitor
    <2>1. routing' \subseteq Ids
      BY <1>10, Zenon DEF Monitor, Carry, Tracked, SealFinalityTypeOK
    <2> QED BY <1>10, <2>1 DEF Monitor, SealFinalityTypeOK
  <1>11. CASE CollectPhantoms
    BY <1>11, Zenon DEF CollectPhantoms, Phantoms, Tracked, SealFinalityTypeOK
  <1>12. CASE MonitorPrune
    <2>1. Sound(PruneWhere(engine, index \cup phantoms))
      BY PruneWhereSound
    <2>2. Sound(engine') /\ engine' \in Engines /\ lapsed' \subseteq Seals
      BY <1>12, <2>1, DriveType, Zenon DEF MonitorPrune
    <2> QED BY <1>12, <2>2 DEF MonitorPrune, SealFinalityTypeOK
  <1>13. ASSUME NEW s \in Seals, PromoteAnchored(s) PROVE FinalityInv'
    <2> DEFINE new == engine.members[s] \ engine.anchored
               n == engine.anchored \cup new
               l == [i \in Ids |-> IF i \in new THEN Anchored ELSE engine.level[i]]
               c == engine.challenge \ {s}
               f == [engine EXCEPT !.anchored = n, !.level = l, !.challenge = c]
    <2>1. new \in SUBSET Ids /\ n \in SUBSET Ids /\ c \in SUBSET Seals
      BY DEF Sound, Engines, Ids
    <2>2. l \in [Ids -> Pending..Anchored]
      BY DEF Sound, Engines, Pending, Anchored
    <2>3. Drive(f) /\ Carry(new)
      BY <1>13 DEF PromoteAnchored
    <2> HIDE DEF new, n, l, c
    <2>4. Sound(f)
      BY <2>1, <2>2, Zenon DEF Sound, SelfFree, Engines
    <2> HIDE DEF f
    <2>5. Changed
      BY <2>1, <2>3, <2>4, DriveType, CarryType
    <2>6. Rest
      BY <1>13 DEF PromoteAnchored
    <2> QED BY <1>rest, <2>5, <2>6, Zenon
  <1>14. ASSUME NEW carried \in BOOLEAN, Recheck(carried) PROVE FinalityInv'
    <2>1. PICK B \in SUBSET {i \in stored \ engine.creators : Stake[CreatorOf[i]] > 0} :
             LET f == ForceFinalizeSettled(RegisterCreators(engine, B))
             IN  Drive(f) /\ Carry(IF carried THEN Risen(f) ELSE {}) /\ Rest
      BY <1>14 DEF Recheck
    <2> DEFINE e == RegisterCreators(engine, B)
               f == ForceFinalizeSettled(e)
    <2>2. B \in SUBSET Ids
      BY DEF SealFinalityTypeOK
    <2>3. Sound(e)
      BY <2>2, RegisterCreatorsSound, Zenon
    <2>4. Drive(f) /\ Carry(IF carried THEN Risen(f) ELSE {}) /\ Rest
      BY <2>1
    <2> HIDE DEF e
    <2>5. Sound(f)
      BY <2>3, ForceFinalizedSound DEF ForceFinalizeSettled
    <2> HIDE DEF f
    <2>6. (IF carried THEN Risen(f) ELSE {}) \in SUBSET Ids
      BY RisenType, Zenon
    <2>7. Changed
      BY <2>4, <2>5, <2>6, DriveType, CarryType, Zenon
    <2> QED BY <1>rest, <2>4, <2>7
  <1>15. CASE SweepFinal
    BY <1>15, Zenon DEF SweepFinal, FinalLevel, SealFinalityTypeOK
  <1>16. CASE MemoryPrune
    <2> DEFINE e == PruneAnchoredSeals(PruneWhere(engine, index), index)
    <2>1. PICK A, S : Drive(PruneOlderThan(e, A, S))
      BY <1>16, Zenon DEF MemoryPrune
    <2>2. Sound(e)
      BY PruneWhereSound, PruneAnchoredSealsSound
    <2> HIDE DEF e
    <2>3. Sound(PruneOlderThan(e, A, S))
      BY <2>2, PruneOlderThanSound
    <2>4. Sound(engine') /\ engine' \in Engines /\ lapsed' \subseteq Seals
      BY <2>1, <2>3, DriveType
    <2>5. pruneTicks' \in 0..MaxPruneTicks
      <3>1. swept /\ pruneTicks' = pruneTicks + 1
        BY <1>16, Zenon DEF MemoryPrune
      <3>2. pruneTicks \in 0..MaxPruneTicks /\ pruneTicks < MaxPruneTicks
        BY <3>1 DEF SealFinalityTypeOK
      <3>3. MaxPruneTicks \in Nat
        BY SealFinalityConstants
      <3> QED BY ONLY <3>1, <3>2, <3>3
    <2> QED BY <1>16, <2>4, <2>5, Zenon DEF MemoryPrune, SealFinalityTypeOK
  <1> QED
    BY <1>1, <1>2, <1>3, <1>4, <1>5, <1>6, <1>7, <1>8, <1>9, <1>10, <1>11, <1>12, <1>13, <1>14,
       <1>15, <1>16 DEF SealFinalityNext

\* The engine, the index and what travels between them keep their types, whatever the
\* records, the seals and the stakes are.
THEOREM SealFinalityTyped == SealFinalitySpec => []SealFinalityTypeOK
  <1>1. FinalityInv => SealFinalityTypeOK
    BY DEF FinalityInv
  <1> QED BY <1>1, InitInv, StepInv, PTL DEF SealFinalitySpec

\* No creator is ever among the attesters of a record that the engine knows to be its
\* own, nor of a seal, in whatever order attestations, records and prunes come
\* (register_creator_stake, purge_creator_self_attestations).
THEOREM NeverSelfAttested == SealFinalitySpec => []NoSelfAttestation
  <1>1. FinalityInv => NoSelfAttestation
    BY DEF FinalityInv, Sound, SelfFree, NoSelfAttestation
  <1> QED BY <1>1, InitInv, StepInv, PTL DEF SealFinalitySpec
-----------------------------------------------------------------------------
(* Settlement *)

\* More attesters have more stake, and no attester has none.
LEMMA StakeOfGrows ==
    ASSUME NEW T \in SUBSET Stakers, NEW S \in SUBSET T
    PROVE  /\ StakeOf[S] \in Nat /\ StakeOf[T] \in Nat
           /\ StakeOf[S] <= StakeOf[T]
           /\ S = {} => StakeOf[S] = 0
  <1> DEFINE f == [w \in T |-> Stake[w]]
             g == [w \in S |-> Stake[w]]
             h == [w \in T \ S |-> f[w]]
  <1>1. IsFiniteSet(T) /\ IsFiniteSet(S) /\ IsFiniteSet(T \ S)
    BY SealFinalityConstants, FS_Subset, Zenon
  <1>2. f \in [T -> Nat] /\ g \in [S -> Nat] /\ h \in [T \ S -> Nat]
    BY SealFinalityConstants
  <1>3. StakeOf[S] = Total(g) /\ StakeOf[T] = Total(f)
    BY DEF StakeOf
  <1>4. g = [w \in S |-> f[w]]
    BY Zenon
  <1> HIDE DEF f, g
  <1>5. Total(f) = Total([w \in S |-> f[w]]) + Total(h)
    BY <1>1, <1>2, TotalPartition
  <1> HIDE DEF h
  <1>6. Total(f) \in Nat /\ Total(g) \in Nat /\ Total(h) \in Nat
    BY <1>1, <1>2, UnitsFinite
  <1>7. S = {} => Total(g) = 0
    BY <1>2, TotalZero, Zenon
  <1> QED BY <1>3, <1>4, <1>5, <1>6, <1>7

\* What an id can be attested by is a whole amount.
LEMMA EligibleType ==
    ASSUME NEW e, NEW i \in Ids
    PROVE  Eligible(e, i) \in Int
  <1>1. TotalStake \in Nat
    BY StakeOfGrows DEF TotalStake
  <1>2. Stake[CreatorOf[i]] \in Nat
    BY SealFinalityConstants
  <1> QED BY <1>1, <1>2 DEF Eligible

\* A record that is settled has been attested.
LEMMA SettledIsTracked ==
    ASSUME NEW e, e \in Engines, NEW i \in Ids, IsSettled(e, i)
    PROVE  e.atts[i] # {}
  <1>1. e.atts[i] \in SUBSET Stakers
    BY DEF Engines
  <1>2. e.atts[i] = {} => StakeOf[e.atts[i]] = 0
    BY <1>1, StakeOfGrows
  <1>3. Eligible(e, i) \in Int /\ Eligible(e, i) > 0
    BY EligibleType DEF IsSettled, TwoThirds
  <1> QED BY <1>2, <1>3 DEF IsSettled, TwoThirds

\* An attestation more leaves a record settled.
LEMMA SettledStays ==
    ASSUME NEW e, e \in Engines, NEW f, f \in Engines, NEW i \in Ids,
           e.atts[i] \subseteq f.atts[i], i \in e.creators <=> i \in f.creators,
           IsSettled(e, i)
    PROVE  IsSettled(f, i)
  <1> DEFINE a == StakeOf[e.atts[i]]
             b == StakeOf[f.atts[i]]
             n == Eligible(e, i)
  <1>1. a \in Nat /\ b \in Nat /\ a <= b
    <2>1. f.atts[i] \in SUBSET Stakers
      BY Zenon DEF Engines
    <2> QED BY <2>1, StakeOfGrows, Zenon
  <1>2. Eligible(f, i) = n /\ n \in Int
    BY EligibleType, Zenon DEF Eligible
  <1>3. n > 0 /\ a * 3 >= n * 2
    BY Zenon DEF IsSettled, TwoThirds
  <1>4. IsSettled(f, i) <=> n > 0 /\ b * 3 >= n * 2
    BY <1>2 DEF IsSettled, TwoThirds
  <1> HIDE DEF a, b, n
  <1> QED BY <1>1, <1>2, <1>3, <1>4

\* recompute_confirmation finds a record final that is anchored or settled.
LEMMA LevelForFinal ==
    ASSUME NEW e, NEW i, LevelFor(e, i) >= Finalized
    PROVE  i \in e.anchored \/ IsSettled(e, i)
  BY DEF LevelFor, Pending, Sealed, Finalized, Anchored
-----------------------------------------------------------------------------
(* Final levels *)

\* Where the finality of a record comes from, when K are the ids that are in the index or
\* on their way and C those whose slot is conflicted: a final level that nothing carries
\* rests on attestations that no registration of a creator can take back, a record that
\* is settled without its creator being known is carried, and so is one that is anchored.
Grounded(e, K, C) ==
    \A i \in Ids :
        /\ e.level[i] >= Finalized /\ i \notin K \cup C => i \in e.creators /\ IsSettled(e, i)
        /\ IsSettled(e, i) => i \in e.creators \cup K
        /\ i \in e.anchored => i \in K

\* From e to f, a final level that nothing carries stays; or, in a prune, is forgotten.
Stays(e, f, K, C) ==
    \A i \in Ids \ (K \cup C) : e.level[i] >= Finalized => f.level[i] >= Finalized
StaysOrGoes(e, f, K, C) ==
    \A i \in Ids \ (K \cup C) : e.level[i] >= Finalized =>
        f.level[i] >= Finalized \/ f.level[i] = Pending

LEMMA GroundedWider ==
    ASSUME NEW e, NEW K, NEW L, NEW C, NEW D, K \subseteq L, C \subseteq D, Grounded(e, K, C)
    PROVE  Grounded(e, L, D)
  BY DEF Grounded

\* Whether an id is settled depends on its attesters and on its creator being known.
LEMMA SettledSame ==
    ASSUME NEW e, NEW f, NEW i, f.atts[i] = e.atts[i], i \in f.creators <=> i \in e.creators
    PROVE  IsSettled(f, i) <=> IsSettled(e, i)
  BY Zenon DEF IsSettled, Eligible

\* From e to f attestations and creators are left alone, levels rise, and what gets to a
\* final level is settled or in L; what is anchored is in L.
Raised(e, f, L) ==
    /\ f.atts = e.atts /\ f.creators = e.creators
    /\ f.anchored \subseteq e.anchored \cup L
    /\ \A i \in Ids :
          /\ e.level[i] >= Finalized => f.level[i] >= Finalized
          /\ f.level[i] >= Finalized => e.level[i] >= Finalized \/ i \in L \/ IsSettled(e, i)

LEMMA RaisedGrounded ==
    ASSUME NEW e, NEW f, NEW K, NEW L, NEW C, K \subseteq L, Raised(e, f, L), Grounded(e, K, C)
    PROVE  Grounded(f, L, C) /\ Stays(e, f, K, C)
  <1>1. Stays(e, f, K, C)
    BY Zenon DEF Raised, Stays
  <1>2. SUFFICES ASSUME NEW i \in Ids
                 PROVE  /\ f.level[i] >= Finalized /\ i \notin L \cup C
                               => i \in f.creators /\ IsSettled(f, i)
                        /\ IsSettled(f, i) => i \in f.creators \cup L
                        /\ i \in f.anchored => i \in L
    BY <1>1, Zenon DEF Grounded
  <1>3. IsSettled(f, i) <=> IsSettled(e, i)
    BY SettledSame, Zenon DEF Raised
  <1> QED BY <1>3, Zenon DEF Raised, Grounded

\* What a prune may do: entries, creators and levels go, and the creator goes or the
\* attestations go only with the level.
Pruned(e, f) ==
    /\ f.anchored \subseteq e.anchored /\ f.creators \subseteq e.creators
    /\ \A i \in Ids :
          /\ f.level[i] \in {e.level[i], Pending}
          /\ f.atts[i] \in {e.atts[i], {}}
          /\ f.atts[i] # {} /\ i \in e.creators => i \in f.creators
          /\ f.level[i] # Pending /\ e.atts[i] # {} => f.atts[i] # {}
    /\ f.registered \subseteq e.registered
    /\ \A s \in Seals : f.sealAtts[s] \in {e.sealAtts[s], {}} /\ f.members[s] \subseteq e.members[s]

LEMMA PrunedTwice ==
    ASSUME NEW e, NEW f, NEW g, Pruned(e, f), Pruned(f, g)
    PROVE  Pruned(e, g)
  BY DEF Pruned

LEMMA PrunedGrounded ==
    ASSUME NEW e, e \in Engines, NEW f, f \in Engines, NEW K, NEW C, Pruned(e, f), Grounded(e, K, C)
    PROVE  Grounded(f, K, C) /\ StaysOrGoes(e, f, K, C)
  <1>1. StaysOrGoes(e, f, K, C)
    BY Zenon DEF Pruned, StaysOrGoes
  <1>2. SUFFICES ASSUME NEW i \in Ids
                 PROVE  /\ f.level[i] >= Finalized /\ i \notin K \cup C
                               => i \in f.creators /\ IsSettled(f, i)
                        /\ IsSettled(f, i) => i \in f.creators \cup K
                        /\ i \in f.anchored => i \in K
    BY <1>1 DEF Grounded
  <1>3. ASSUME f.level[i] >= Finalized, i \notin K \cup C
        PROVE  i \in f.creators /\ IsSettled(f, i)
    <2>1. f.level[i] = e.level[i] /\ f.level[i] # Pending
      BY <1>3 DEF Pruned, Pending, Finalized
    <2>2. i \in e.creators /\ IsSettled(e, i)
      BY <1>3, <2>1 DEF Grounded
    <2>3. e.atts[i] # {}
      BY <2>2, SettledIsTracked, Zenon
    <2>4. f.atts[i] = e.atts[i] /\ i \in f.creators
      BY <2>1, <2>2, <2>3, Zenon DEF Pruned
    <2> QED BY <2>2, <2>4, SettledSame, Zenon
  <1>4. ASSUME IsSettled(f, i)
        PROVE  i \in f.creators \cup K
    <2>1. f.atts[i] # {}
      BY <1>4, SettledIsTracked, Zenon
    <2>2. f.atts[i] = e.atts[i] /\ (i \in f.creators <=> i \in e.creators)
      BY <2>1, Zenon DEF Pruned
    <2>3. IsSettled(e, i)
      BY <1>4, <2>2, SettledSame, Zenon
    <2> QED BY <2>2, <2>3 DEF Grounded
  <1>5. i \in f.anchored => i \in K
    BY DEF Pruned, Grounded
  <1> QED BY <1>3, <1>4, <1>5, Zenon
-----------------------------------------------------------------------------
(* What the methods change *)

\* From e to f only levels and challenge windows change.
OnlyLevels(e, f) ==
    /\ f.creators = e.creators /\ f.atts = e.atts /\ f.anchored = e.anchored
    /\ f.sealAtts = e.sealAtts /\ f.registered = e.registered /\ f.members = e.members
    /\ f.unresolved = e.unresolved

\* From e to f the ids of F get to a final level, and the others keep theirs.
Forced(e, F, f) ==
    /\ OnlyLevels(e, f)
    /\ \A i \in Ids : /\ i \in F => f.level[i] >= Finalized
                      /\ i \notin F => f.level[i] = e.level[i]
                      /\ e.level[i] >= Finalized => f.level[i] >= Finalized

LEMMA ForceFinalizedLevels ==
    ASSUME NEW e, e \in Engines, NEW F
    PROVE  Forced(e, F, ForceFinalized(e, F))
  <1> DEFINE l == [i \in Ids |-> IF i \in F /\ e.level[i] < Finalized THEN Finalized ELSE e.level[i]]
  <1>1. ForceFinalized(e, F) = [e EXCEPT !.level = l]
    BY DEF ForceFinalized
  <1>2. \A i \in Ids : e.level[i] \in Int
    BY DEF Engines, Pending, Anchored
  <1>3. \A i \in Ids : /\ i \in F => l[i] >= Finalized
                       /\ i \notin F => l[i] = e.level[i]
                       /\ e.level[i] >= Finalized => l[i] >= Finalized
    BY <1>2 DEF Finalized
  <1> HIDE DEF l
  <1>4. [e EXCEPT !.level = l].level = l
    BY DEF Engines
  <1>5. OnlyLevels(e, [e EXCEPT !.level = l])
    BY DEF Engines, OnlyLevels
  <1> QED BY <1>1, <1>3, <1>4, <1>5 DEF Forced

LEMMA AtLeastSealedLevels ==
    ASSUME NEW e, e \in Engines, NEW M
    PROVE  /\ OnlyLevels(e, AtLeastSealed(e, M))
           /\ \A i \in Ids : AtLeastSealed(e, M).level[i] >= Finalized <=> e.level[i] >= Finalized
  <1> DEFINE l == [i \in Ids |-> IF i \in M /\ e.level[i] < Sealed THEN Sealed ELSE e.level[i]]
  <1>1. AtLeastSealed(e, M) = [e EXCEPT !.level = l]
    BY DEF AtLeastSealed
  <1>2. \A i \in Ids : e.level[i] \in Int
    BY DEF Engines, Pending, Anchored
  <1>3. \A i \in Ids : l[i] >= Finalized <=> e.level[i] >= Finalized
    BY <1>2 DEF Finalized, Sealed
  <1> HIDE DEF l
  <1>4. [e EXCEPT !.level = l].level = l
    BY DEF Engines
  <1>5. OnlyLevels(e, [e EXCEPT !.level = l])
    BY DEF Engines, OnlyLevels
  <1> QED BY <1>1, <1>3, <1>4, <1>5, Zenon

\* From e to f, a seal that is settled and registered promotes its members or had done so:
\* a member is at a final level, or was on the list of the seal when it was settled.
Inherits(e, f) ==
    \A s \in Seals :
        s \in e.creators /\ s \in f.creators /\ s \in f.registered /\ IsSealSettled(f, s) =>
            \A o \in f.members[s] :
                \/ f.level[o] >= Finalized
                \/ s \in e.registered /\ IsSealSettled(e, s) /\ o \in e.members[s]

\* Lists and attestations of a seal whose creator is known are kept or go.
FewerSeals(e, f) ==
    /\ f.registered \subseteq e.registered
    /\ \A s \in Seals : /\ s \in e.creators => f.sealAtts[s] \in {e.sealAtts[s], {}}
                        /\ f.members[s] \subseteq e.members[s]

LEMMA SealSettledSame ==
    ASSUME NEW e, NEW f, NEW s, f.sealAtts[s] = e.sealAtts[s], s \in f.creators <=> s \in e.creators
    PROVE  IsSealSettled(f, s) <=> IsSealSettled(e, s)
  BY Zenon DEF IsSealSettled, Eligible

LEMMA FewerSealsInherit ==
    ASSUME NEW e, NEW f, FewerSeals(e, f)
    PROVE  Inherits(e, f)
  <1> SUFFICES ASSUME NEW s \in Seals, s \in e.creators, s \in f.creators, s \in f.registered,
                      IsSealSettled(f, s), NEW o \in f.members[s]
               PROVE  s \in e.registered /\ IsSealSettled(e, s) /\ o \in e.members[s]
    BY DEF Inherits
  <1>1. f.sealAtts[s] # {}
    BY DEF IsSealSettled
  <1>2. f.sealAtts[s] = e.sealAtts[s]
    BY <1>1 DEF FewerSeals
  <1> QED BY <1>2, SealSettledSame, Zenon DEF FewerSeals

\* register_creator_stake changes nothing of the ids it knows, keeps the entry of one whose
\* creator had not attested, and computes the level of the others anew.
CreatorsJoin(e, B, g) ==
    /\ g.creators = e.creators \cup B /\ g.anchored = e.anchored
    /\ g.registered = e.registered /\ g.members = e.members /\ g.unresolved = e.unresolved
    /\ \A s \in Seals : s \in e.creators => g.sealAtts[s] = e.sealAtts[s]
    /\ \A i \in Ids : i \notin B \ e.creators => g.atts[i] = e.atts[i] /\ g.level[i] = e.level[i]
    /\ \A i \in B \ e.creators : g.level[i] \in {e.level[i], LevelFor(g, i)}

LEMMA RegisterCreatorsChanges ==
    ASSUME NEW e, e \in Engines, NEW B \in SUBSET Ids
    PROVE  CreatorsJoin(e, B, RegisterCreators(e, B))
  <1> DEFINE new == B \ e.creators
             c == e.creators \cup new
             a == [i \in Ids |-> IF i \in new THEN e.atts[i] \ {CreatorOf[i]} ELSE e.atts[i]]
             t == [s \in Seals |-> IF s \in new THEN e.sealAtts[s] \ {CreatorOf[s]} ELSE e.sealAtts[s]]
             f == [e EXCEPT !.creators = c, !.atts = a, !.sealAtts = t]
             purged == {i \in new : \/ CreatorOf[i] \in e.atts[i]
                                    \/ i \in Seals /\ CreatorOf[i] \in e.sealAtts[i]}
             l == [i \in Ids |-> IF i \in purged THEN LevelFor(f, i) ELSE f.level[i]]
             g == RegisterCreators(e, B)
  <1>1. g = [f EXCEPT !.level = l]
    BY Zenon DEF RegisterCreators
  <1> HIDE DEF g
  <1>2. /\ \A s \in Seals : s \in e.creators => t[s] = e.sealAtts[s]
        /\ \A i \in Ids : i \notin new => a[i] = e.atts[i]
        /\ c = e.creators \cup B /\ new \subseteq Ids /\ purged \subseteq new
        /\ c \in SUBSET Ids /\ a \in [Ids -> SUBSET Stakers] /\ t \in [Seals -> SUBSET Stakers]
    BY DEF Engines
  <1> HIDE DEF c, a, t, purged
  <1>3. /\ f.creators = c /\ f.atts = a /\ f.sealAtts = t /\ f.anchored = e.anchored
        /\ f.registered = e.registered /\ f.members = e.members /\ f.unresolved = e.unresolved
        /\ f.level = e.level
    BY DEF Engines
  <1>4. f \in Engines
    BY <1>2, Zenon DEF Engines
  <1> HIDE DEF f
  <1>5. \A i \in Ids : l[i] = IF i \in purged THEN LevelFor(f, i) ELSE f.level[i]
    OBVIOUS
  <1> HIDE DEF l
  <1>6. /\ g.creators = f.creators /\ g.atts = f.atts /\ g.sealAtts = f.sealAtts
        /\ g.anchored = f.anchored /\ g.registered = f.registered /\ g.members = f.members
        /\ g.unresolved = f.unresolved /\ g.level = l
    BY <1>1, <1>4 DEF Engines
  <1>7. \A i \in Ids : LevelFor(g, i) = LevelFor(f, i)
    BY <1>6 DEF LevelFor, IsSettled, Eligible
  <1>8. CreatorsJoin(e, B, g)
    <2>1. /\ g.creators = e.creators \cup B /\ g.anchored = e.anchored
          /\ g.registered = e.registered /\ g.members = e.members /\ g.unresolved = e.unresolved
          /\ \A s \in Seals : s \in e.creators => g.sealAtts[s] = e.sealAtts[s]
      BY ONLY <1>2, <1>3, <1>6
    <2>2. \A i \in Ids : i \notin new => g.atts[i] = e.atts[i] /\ g.level[i] = e.level[i]
      BY ONLY <1>2, <1>3, <1>5, <1>6
    <2>3. \A i \in new : g.level[i] \in {e.level[i], LevelFor(g, i)}
      BY <1>2, <1>3, <1>5, <1>6, <1>7, Zenon
    <2> QED BY <2>1, <2>2, <2>3, Zenon DEF CreatorsJoin
  <1> QED BY <1>8 DEF g
-----------------------------------------------------------------------------
(* Every method keeps finality grounded *)

LEMMA RegisterCreatorsGrounded ==
    ASSUME NEW e, Sound(e), NEW B \in SUBSET Ids, NEW K, NEW C, Grounded(e, K, C),
           NEW g, g = RegisterCreators(e, B)
    PROVE  Grounded(g, K, C) /\ Stays(e, g, K, C) /\ FewerSeals(e, g)
  <1>1. e \in Engines /\ g \in Engines
    BY RegisterCreatorsSound DEF Sound
  <1>2. CreatorsJoin(e, B, g)
    BY <1>1, RegisterCreatorsChanges, Zenon
  <1>3. Stays(e, g, K, C)
    BY <1>2, Zenon DEF CreatorsJoin, Stays, Grounded
  <1>4. FewerSeals(e, g)
    BY <1>2, Zenon DEF CreatorsJoin, FewerSeals
  <1>5. ASSUME NEW i \in Ids
        PROVE  /\ g.level[i] >= Finalized /\ i \notin K \cup C => i \in g.creators /\ IsSettled(g, i)
               /\ IsSettled(g, i) => i \in g.creators \cup K
               /\ i \in g.anchored => i \in K
    <2>1. CASE i \in B \ e.creators
      BY <1>2, <2>1, LevelForFinal, Zenon DEF CreatorsJoin, Grounded
    <2>2. CASE i \notin B \ e.creators
      <3>1. IsSettled(g, i) <=> IsSettled(e, i)
        BY <1>2, <2>2, SettledSame DEF CreatorsJoin
      <3> QED BY <1>2, <2>2, <3>1 DEF CreatorsJoin, Grounded
    <2> QED BY <2>1, <2>2, Zenon
  <1> QED BY <1>3, <1>4, <1>5, Zenon DEF Grounded

\* What an engine knows at a final level and another did not.
RisenFrom(e, f) == FinalLevel(f) \ FinalLevel(e)

\* From e to g the seal s was registered with the list M, which f may have promoted.
Registers(e, f, g, s, M) ==
    /\ \A L : Raised(e, g, L \cup RisenFrom(e, f))
    /\ Inherits(e, g)
    /\ g.registered = e.registered \cup {s}
    /\ g.members = [e.members EXCEPT ![s] = M]

\* A seal that is settled when it is registered promotes the list it is given.
LEMMA RegisterSealRaises ==
    ASSUME NEW e, Sound(e), NEW s \in Seals, NEW M \in SUBSET Ordinary, NEW kept,
           NEW f, f = RegisterSeal(e, s, M), NEW g, g = ParkUnresolved(f, s, kept)
    PROVE  Registers(e, f, g, s, M)
  <1> DEFINE d == AtLeastSealed(e, M)
             r == [d EXCEPT !.registered = @ \cup {s}, !.members[s] = M]
             u == [o \in Ordinary |-> IF o \in kept THEN s ELSE f.unresolved[o]]
  <1>1. e \in Engines /\ d \in Engines
    BY AtLeastSealedSound, Zenon DEF Sound
  <1>2. OnlyLevels(e, d) /\ \A i \in Ids : d.level[i] >= Finalized <=> e.level[i] >= Finalized
    BY <1>1, AtLeastSealedLevels
  <1>3. f = IF IsSealSettled(r, s) THEN ForceFinalized(r, M) ELSE r
    BY DEF RegisterSeal
  <1> HIDE DEF d
  <1>4. /\ r \in Engines /\ r.creators = d.creators /\ r.atts = d.atts /\ r.anchored = d.anchored
        /\ r.sealAtts = d.sealAtts /\ r.level = d.level
        /\ r.registered = d.registered \cup {s} /\ r.members = [d.members EXCEPT ![s] = M]
    BY <1>1, Zenon DEF Engines
  <1> HIDE DEF r
  <1>5. /\ OnlyLevels(r, f)
        /\ \A i \in Ids : r.level[i] >= Finalized => f.level[i] >= Finalized
        /\ IsSealSettled(r, s) => \A i \in M : f.level[i] >= Finalized
    <2>1. Forced(r, M, ForceFinalized(r, M))
      BY <1>4, ForceFinalizedLevels
    <2> QED BY <1>3, <2>1, Zenon DEF Forced, OnlyLevels, Ids
  <1>6. f \in Engines
    BY RegisterSealSound DEF Sound
  <1>7. g = [f EXCEPT !.unresolved = u]
    BY DEF ParkUnresolved
  <1> HIDE DEF u
  <1>8. /\ g.creators = f.creators /\ g.atts = f.atts /\ g.anchored = f.anchored
        /\ g.sealAtts = f.sealAtts /\ g.level = f.level /\ g.registered = f.registered
        /\ g.members = f.members
    BY <1>6, <1>7, Zenon DEF Engines
  <1>9. /\ g.creators = e.creators /\ g.atts = e.atts /\ g.anchored = e.anchored
        /\ g.sealAtts = e.sealAtts /\ g.registered = e.registered \cup {s}
        /\ g.members = [e.members EXCEPT ![s] = M]
    <2>1. /\ f.creators = e.creators /\ f.atts = e.atts /\ f.anchored = e.anchored
          /\ f.sealAtts = e.sealAtts /\ f.registered = d.registered \cup {s}
          /\ f.members = [d.members EXCEPT ![s] = M]
      BY <1>2, <1>4, <1>5, Zenon DEF OnlyLevels
    <2>2. d.registered = e.registered /\ d.members = e.members
      BY <1>2, Zenon DEF OnlyLevels
    <2> QED BY ONLY <1>8, <2>1, <2>2, Zenon
  <1>10. \A L : Raised(e, g, L \cup RisenFrom(e, f))
    BY <1>2, <1>4, <1>5, <1>8, <1>9, Zenon DEF Raised, RisenFrom, FinalLevel
  <1>11. Inherits(e, g)
    <2> SUFFICES ASSUME NEW z \in Seals, z \in g.registered, IsSealSettled(g, z), NEW o \in g.members[z]
                 PROVE  \/ g.level[o] >= Finalized
                        \/ z \in e.registered /\ IsSealSettled(e, z) /\ o \in e.members[z]
      BY Zenon DEF Inherits
    <2>1. CASE z = s
      <3>1. o \in M
        BY <1>1, <1>9, <2>1, Zenon DEF Engines
      <3>2. IsSealSettled(r, s)
        BY <1>5, <1>8, <2>1, SealSettledSame, Zenon DEF OnlyLevels
      <3> QED BY <1>5, <1>8, <3>1, <3>2, Zenon
    <2>2. CASE z # s
      <3>1. IsSealSettled(e, z)
        BY <1>9, SealSettledSame, Zenon
      <3> QED BY <1>1, <1>9, <2>2, <3>1, Zenon DEF Engines
    <2> QED BY <2>1, <2>2, Zenon
  <1> QED BY <1>9, <1>10, <1>11, Zenon DEF Registers

\* A late member of a seal that is settled is promoted.
LEMMA ResolveLateRaises ==
    ASSUME NEW e, Sound(e), NEW o \in Ordinary, NEW g, g = ResolveLate(e, o)
    PROVE  /\ \A L : Raised(e, g, L \cup RisenFrom(e, g))
           /\ Inherits(e, g)
           /\ g.registered = e.registered
           /\ \A z \in Seals : z \in e.registered /\ e.unresolved[o] = z => o \in g.members[z]
  <1> DEFINE s == e.unresolved[o]
             freed == [e EXCEPT !.unresolved[o] = None]
             d == AtLeastSealed(freed, {o})
             joined == [d EXCEPT !.members[s] = @ \cup {o}]
  <1>1. e \in Engines
    BY DEF Sound
  <1>2. g = IF s = None THEN e
            ELSE IF s \notin e.registered THEN freed
            ELSE IF IsSealSettled(joined, s) THEN ForceFinalized(joined, {o})
            ELSE joined
    BY Zenon DEF ResolveLate
  <1>3. s \in Seals \cup {None} /\ None \notin Seals
    BY <1>1, SealFinalityConstants DEF Engines, Ids
  <1>4. /\ freed \in Engines /\ freed.creators = e.creators /\ freed.atts = e.atts
        /\ freed.anchored = e.anchored /\ freed.sealAtts = e.sealAtts /\ freed.level = e.level
        /\ freed.registered = e.registered /\ freed.members = e.members
    BY <1>1, Zenon DEF Engines
  <1>5. CASE s \notin e.registered
    <2>1. g \in {e, freed}
      BY <1>2, <1>5, Zenon
    <2> HIDE DEF freed
    <2>2. /\ g.creators = e.creators /\ g.atts = e.atts
          /\ g.anchored = e.anchored /\ g.sealAtts = e.sealAtts /\ g.level = e.level
          /\ g.registered = e.registered /\ g.members = e.members
      BY <1>4, <2>1, Zenon
    <2>3. FewerSeals(e, g)
      BY <2>2 DEF FewerSeals
    <2>4. Inherits(e, g)
      BY <2>3, FewerSealsInherit, Zenon
    <2> QED BY <1>5, <2>2, <2>4, Zenon DEF Raised
  <1>6. CASE s \in e.registered
    <2>1. s \in Seals /\ g = IF IsSealSettled(joined, s) THEN ForceFinalized(joined, {o}) ELSE joined
      BY <1>1, <1>2, <1>3, <1>6, Zenon DEF Engines
    <2> HIDE DEF freed
    <2>2. d \in Engines /\ OnlyLevels(freed, d)
      <3>1. Sound(freed)
        BY <1>4, Zenon DEF Sound, SelfFree
      <3> QED BY <1>4, <3>1, AtLeastSealedSound, AtLeastSealedLevels, Zenon DEF Sound
    <2>3. \A i \in Ids : d.level[i] >= Finalized <=> e.level[i] >= Finalized
      BY <1>4, AtLeastSealedLevels
    <2> HIDE DEF d, s
    <2>4. /\ joined \in Engines /\ joined.creators = d.creators /\ joined.atts = d.atts
          /\ joined.anchored = d.anchored /\ joined.sealAtts = d.sealAtts /\ joined.level = d.level
          /\ joined.registered = d.registered
          /\ joined.members = [d.members EXCEPT ![s] = @ \cup {o}]
      BY <2>1, <2>2, Zenon DEF Engines
    <2> HIDE DEF joined
    <2>5. /\ OnlyLevels(joined, g)
          /\ \A i \in Ids : joined.level[i] >= Finalized => g.level[i] >= Finalized
          /\ IsSealSettled(joined, s) => g.level[o] >= Finalized
      <3>1. Forced(joined, {o}, ForceFinalized(joined, {o}))
        BY <2>4, ForceFinalizedLevels, Zenon
      <3> QED BY <2>1, <3>1, Zenon DEF Forced, OnlyLevels, Ids
    <2>6. /\ g.creators = e.creators /\ g.atts = e.atts /\ g.anchored = e.anchored
          /\ g.sealAtts = e.sealAtts /\ g.registered = e.registered
          /\ g.members = [e.members EXCEPT ![s] = @ \cup {o}]
      BY <1>4, <2>2, <2>4, <2>5 DEF OnlyLevels
    <2>7. \A L : Raised(e, g, L \cup RisenFrom(e, g))
      BY <2>3, <2>4, <2>5, <2>6, Zenon DEF Raised, RisenFrom, FinalLevel
    <2>8. Inherits(e, g)
      <3> SUFFICES ASSUME NEW z \in Seals, z \in g.registered, IsSealSettled(g, z), NEW p \in g.members[z]
                   PROVE  \/ g.level[p] >= Finalized
                          \/ z \in e.registered /\ IsSealSettled(e, z) /\ p \in e.members[z]
        BY Zenon DEF Inherits
      <3>1. IsSealSettled(e, z) /\ IsSealSettled(joined, z)
        BY <2>5, <2>6, SealSettledSame, Zenon DEF OnlyLevels
      <3>2. p \in e.members[z] \/ (z = s /\ p = o)
        <4>1. e.members \in [Seals -> SUBSET Ordinary]
          BY <1>1, Zenon DEF Engines
        <4> QED BY ONLY <2>1, <2>6, <4>1, z \in Seals, p \in g.members[z]
      <3> QED BY <2>5, <2>6, <3>1, <3>2, Zenon
    <2>9. o \in g.members[s]
      BY <1>1, <2>1, <2>6, Zenon DEF Engines
    <2> QED BY <2>6, <2>7, <2>8, <2>9, Zenon DEF s
  <1> QED BY <1>5, <1>6, Zenon

LEMMA PruneWherePrunes ==
    ASSUME NEW e, e \in Engines, NEW X
    PROVE  Pruned(e, PruneWhere(e, X))
  <1> DEFINE a == Without(e.atts, X, {})
             l == Without(e.level, X, Pending)
             n == e.anchored \ X
             c == e.creators \ X
             f == [e EXCEPT !.atts = a, !.level = l, !.anchored = n, !.creators = c]
  <1>1. PruneWhere(e, X) = f
    BY Zenon DEF PruneWhere
  <1>2. \A i \in Ids : /\ a[i] = IF i \in X THEN {} ELSE e.atts[i]
                       /\ l[i] = IF i \in X THEN Pending ELSE e.level[i]
    BY DEF Without, Engines
  <1> HIDE DEF a, l
  <1>3. /\ f.atts = a /\ f.level = l /\ f.anchored = n /\ f.creators = c
        /\ f.sealAtts = e.sealAtts /\ f.registered = e.registered /\ f.members = e.members
    BY Zenon DEF Engines
  <1> HIDE DEF f
  <1> QED BY <1>1, <1>2, <1>3, Zenon DEF Pruned

\* From e to f, seals are unregistered and nothing else changes.
LEMMA UnregisterPrunes ==
    ASSUME NEW e, e \in Engines, NEW D
    PROVE  Pruned(e, Unregister(e, D))
  <1> DEFINE r == e.registered \ D
             m == Without(e.members, D, {})
             c == e.challenge \ D
             u == [o \in Ordinary |->
                     IF e.unresolved[o] \in e.registered \ D THEN e.unresolved[o] ELSE None]
             f == [e EXCEPT !.registered = r, !.members = m, !.challenge = c, !.unresolved = u]
  <1>1. Unregister(e, D) = f
    BY Zenon DEF Unregister
  <1>2. \A s \in Seals : m[s] \subseteq e.members[s]
    BY DEF Without, Engines
  <1> HIDE DEF m, u, c
  <1>3. /\ f.atts = e.atts /\ f.level = e.level /\ f.anchored = e.anchored
        /\ f.creators = e.creators /\ f.sealAtts = e.sealAtts /\ f.registered = r /\ f.members = m
    BY Zenon DEF Engines
  <1> HIDE DEF f
  <1> QED BY <1>1, <1>2, <1>3, Zenon DEF Pruned

LEMMA PruneAnchoredSealsPrunes ==
    ASSUME NEW e, Sound(e), NEW X
    PROVE  Pruned(e, PruneAnchoredSeals(e, X))
  <1> DEFINE t == Without(e.sealAtts, X, {})
             f == [e EXCEPT !.sealAtts = t]
  <1>1. PruneAnchoredSeals(e, X) = Unregister(f, X)
    BY Zenon DEF PruneAnchoredSeals
  <1>2. e \in Engines /\ t \in [Seals -> SUBSET Stakers]
    BY Zenon DEF Without, Sound, Engines
  <1>3. \A s \in Seals : t[s] \in {e.sealAtts[s], {}}
    BY <1>2 DEF Without, Engines
  <1> HIDE DEF t
  <1>4. /\ f \in Engines /\ f.sealAtts = t
        /\ f.atts = e.atts /\ f.level = e.level /\ f.anchored = e.anchored
        /\ f.creators = e.creators /\ f.registered = e.registered /\ f.members = e.members
    BY <1>2, Zenon DEF Engines
  <1> HIDE DEF f
  <1>5. Pruned(e, f)
    BY <1>3, <1>4, Zenon DEF Pruned
  <1> QED BY <1>1, <1>4, <1>5, UnregisterPrunes, PrunedTwice, Zenon

LEMMA PruneOlderThanPrunes ==
    ASSUME NEW e, Sound(e), NEW A, NEW S
    PROVE  Pruned(e, PruneOlderThan(e, A, S))
  <1> DEFINE q == Without(e.atts, A, {})
             t == Without(e.sealAtts, S, {})
             a == [e EXCEPT !.atts = q, !.sealAtts = t]
             idle == Ids \ Tracked(a)
             c == a.creators \ idle
             l == IF A = {} THEN a.level ELSE Without(a.level, idle, Pending)
             n == IF A = {} THEN a.anchored ELSE a.anchored \ idle
             b == [a EXCEPT !.creators = c, !.level = l, !.anchored = n]
             D == {s \in Seals : b.sealAtts[s] = {}}
  <1>1. PruneOlderThan(e, A, S) = Unregister(b, D)
    BY Zenon DEF PruneOlderThan
  <1>2. /\ e \in Engines /\ q \in [Ids -> SUBSET Stakers] /\ t \in [Seals -> SUBSET Stakers]
        /\ \A i \in Ids : q[i] = IF i \in A THEN {} ELSE e.atts[i]
        /\ \A s \in Seals : t[s] \in {e.sealAtts[s], {}}
    BY DEF Without, Sound, Engines
  <1> HIDE DEF q, t
  <1>3. /\ a \in Engines /\ a.atts = q /\ a.sealAtts = t
        /\ a.level = e.level /\ a.anchored = e.anchored
        /\ a.creators = e.creators /\ a.registered = e.registered /\ a.members = e.members
    BY <1>2, Zenon DEF Engines
  <1> HIDE DEF a
  <1>4. \A i \in Ids : i \in idle <=> q[i] = {}
    BY <1>3 DEF Tracked
  <1> HIDE DEF idle
  <1>5. /\ l \in [Ids -> Pending..Anchored] /\ n \in SUBSET Ids /\ c \in SUBSET Ids
        /\ \A i \in Ids : l[i] = IF A # {} /\ i \in idle THEN Pending ELSE e.level[i]
        /\ n \subseteq e.anchored /\ c = e.creators \ idle
    <2>1. Without(a.level, idle, Pending) \in [Ids -> Pending..Anchored]
      BY <1>3, WithoutLevel DEF Engines
    <2>2. \A i \in Ids : Without(a.level, idle, Pending)[i] = IF i \in idle THEN Pending ELSE a.level[i]
      BY <1>3 DEF Without, Engines
    <2> QED BY <1>3, <2>1, <2>2, Zenon DEF Engines
  <1> HIDE DEF l, n, c
  <1>6. /\ b \in Engines /\ b.atts = q /\ b.sealAtts = t /\ b.level = l /\ b.anchored = n
        /\ b.creators = c /\ b.registered = e.registered /\ b.members = e.members
    BY <1>3, <1>5, Zenon DEF Engines
  <1> HIDE DEF b, D
  <1>7. Pruned(e, b)
    BY <1>2, <1>4, <1>5, <1>6, Zenon DEF Pruned
  <1> QED BY <1>1, <1>6, <1>7, UnregisterPrunes, PrunedTwice, Zenon
-----------------------------------------------------------------------------
(* A feed *)

\* What an attestation of i changes: its attesters and its level.
Attested(e, i, f) ==
    /\ f.creators = e.creators /\ f.anchored = e.anchored /\ f.sealAtts = e.sealAtts
    /\ f.registered = e.registered /\ f.members = e.members
    /\ e.atts[i] \subseteq f.atts[i]
    /\ \A j \in Ids : j # i => f.atts[j] = e.atts[j] /\ f.level[j] = e.level[j]
    /\ f = e \/ f.level[i] = LevelFor(f, i)

LEMMA AddAttestationChanges ==
    ASSUME NEW e, Sound(e), NEW i \in Ids, NEW w \in Stakers
    PROVE  Attested(e, i, AddAttestation(e, i, w))
  <1> DEFINE f == AddAttestation(e, i, w)
             a == [e EXCEPT !.atts[i] = @ \cup {w}]
             l == [a.level EXCEPT ![i] = LevelFor(a, i)]
  <1>1. CASE IsCreator(e, i, w) \/ w \in e.atts[i]
    BY <1>1 DEF AddAttestation, Attested
  <1>2. CASE ~(IsCreator(e, i, w) \/ w \in e.atts[i])
    <2>1. f = [a EXCEPT !.level = l]
      <3>1. f = Recompute(a, i)
        BY <1>2 DEF AddAttestation
      <3> QED BY <3>1 DEF Recompute
    <2> HIDE DEF f
    <2>2. /\ a \in Engines /\ a.creators = e.creators /\ a.anchored = e.anchored
          /\ a.sealAtts = e.sealAtts /\ a.registered = e.registered /\ a.members = e.members
          /\ a.level = e.level /\ a.atts = [e.atts EXCEPT ![i] = @ \cup {w}]
      BY Zenon DEF Sound, Engines
    <2> HIDE DEF a
    <2>3. l[i] = LevelFor(a, i) /\ \A j \in Ids : j # i => l[j] = a.level[j]
      BY <2>2 DEF Engines
    <2> HIDE DEF l
    <2>4. /\ f.creators = a.creators /\ f.anchored = a.anchored /\ f.sealAtts = a.sealAtts
          /\ f.registered = a.registered /\ f.members = a.members /\ f.atts = a.atts /\ f.level = l
      BY <2>1, <2>2 DEF Engines
    <2>5. LevelFor(f, i) = LevelFor(a, i)
      BY <2>4 DEF LevelFor, IsSettled, Eligible
    <2>6. e.atts \in [Ids -> SUBSET Stakers]
      BY Zenon DEF Sound, Engines
    <2>7. Attested(e, i, f)
      BY <2>2, <2>3, <2>4, <2>5, <2>6 DEF Attested
    <2> QED BY <2>7 DEF f
  <1> QED BY <1>1, <1>2, Zenon

\* What an attestation of a seal changes: its attesters, and the levels of its members,
\* which it raises when it settles the seal.
SealAttested(e, s, f) ==
    /\ f.creators = e.creators /\ f.anchored = e.anchored /\ f.atts = e.atts
    /\ f.registered = e.registered /\ f.members = e.members
    /\ f.level[s] = e.level[s]
    /\ \A z \in Seals : z # s => f.sealAtts[z] = e.sealAtts[z]
    /\ \A j \in Ids : e.level[j] >= Finalized => f.level[j] >= Finalized
    /\ s \in e.registered /\ IsSealSettled(f, s) =>
          IsSealSettled(e, s) \/ \A o \in e.members[s] : f.level[o] >= Finalized

LEMMA AddSealAttestationChanges ==
    ASSUME NEW e, e \in Engines, NEW s \in Seals, NEW w \in Stakers
    PROVE  SealAttested(e, s, AddSealAttestation(e, s, w))
  <1> DEFINE f == AddSealAttestation(e, s, w)
             t == [e.sealAtts EXCEPT ![s] = @ \cup {w}]
             added == [e EXCEPT !.sealAtts = t]
             settled == [added EXCEPT !.challenge = @ \cup {s}]
  <1>1. CASE IsCreator(e, s, w) \/ w \in e.sealAtts[s]
    BY <1>1 DEF AddSealAttestation, SealAttested
  <1>2. CASE ~(IsCreator(e, s, w) \/ w \in e.sealAtts[s])
    <2>1. f = IF ~IsSealSettled(added, s) THEN added
              ELSE IF s \in e.registered THEN ForceFinalized(settled, e.members[s])
              ELSE settled
      BY <1>2, Zenon DEF AddSealAttestation
    <2> HIDE DEF f
    <2>2. t \in [Seals -> SUBSET Stakers] /\ \A z \in Seals : z # s => t[z] = e.sealAtts[z]
      BY DEF Engines
    <2> HIDE DEF t
    <2>3. added \in Engines /\ added.level = e.level
      BY <2>2 DEF Engines
    <2>4. /\ added.creators = e.creators /\ added.anchored = e.anchored /\ added.atts = e.atts
          /\ added.registered = e.registered /\ added.members = e.members /\ added.sealAtts = t
      BY DEF Engines
    <2> HIDE DEF added
    <2>5. settled \in Engines /\ OnlyLevels(added, settled) /\ settled.level = added.level
      BY <2>3, Zenon DEF Engines, OnlyLevels
    <2> HIDE DEF settled
    <2>6. e.members[s] \subseteq Ordinary /\ s \notin e.members[s]
      BY SealFinalityConstants DEF Engines
    <2>7. /\ OnlyLevels(added, f) /\ f.level[s] = e.level[s]
          /\ \A j \in Ids : e.level[j] >= Finalized => f.level[j] >= Finalized
          /\ s \in e.registered /\ IsSealSettled(added, s) =>
                \A o \in e.members[s] : f.level[o] >= Finalized
      <3>1. CASE s \in e.registered /\ IsSealSettled(added, s)
        <4>1. f = ForceFinalized(settled, e.members[s])
          BY <2>1, <3>1, Zenon
        <4>2. Forced(settled, e.members[s], f)
          BY <2>5, <4>1, ForceFinalizedLevels, Zenon
        <4> QED BY <2>3, <2>5, <2>6, <4>2, Zenon DEF Forced, OnlyLevels, Ids
      <3>2. CASE ~(s \in e.registered /\ IsSealSettled(added, s))
        <4>1. f \in {added, settled}
          BY <2>1, <3>2, Zenon
        <4> QED BY <2>3, <2>5, <3>2, <4>1, Zenon DEF OnlyLevels
      <3> QED BY <3>1, <3>2, Zenon
    <2>8. IsSealSettled(f, s) <=> IsSealSettled(added, s)
      BY <2>7, SealSettledSame, Zenon DEF OnlyLevels
    <2>9. SealAttested(e, s, f)
      BY <2>2, <2>4, <2>7, <2>8, Zenon DEF OnlyLevels, SealAttested
    <2> QED BY <2>9 DEF f
  <1> QED BY <1>1, <1>2, Zenon

\* What a feed that makes f of the engine leaves, and what it carries: a record that is
\* settled now is final and carried, unless the slot of a record that was found is in C.
FeedLeaves(i, f, found, C, g, S) ==
    LET R == IF i \in Seals THEN Risen(f) \ {i} ELSE {}
    IN  \/ IsSettled(f, i) /\ g = ForceFinalized(f, {i}) /\ S = R \cup {i}
        \/ (IsSettled(f, i) => found /\ i \in C) /\ g = f /\ S = R

\* The levels that nothing carries stay, and whatever rises is carried.
LEMMA FeedGrounded ==
    ASSUME Sound(engine), NEW K, NEW C, Grounded(engine, K, C),
           NEW i \in Ids, NEW w \in Stakers, NEW found \in BOOLEAN,
           NEW f, f = Fed(i, w, found), NEW g, NEW S, FeedLeaves(i, f, found, C, g, S)
    PROVE  /\ Grounded(g, K \cup S, C) /\ Stays(engine, g, K, C) /\ Inherits(engine, g)
           /\ g.registered = engine.registered
  <1> DEFINE a == IF found THEN RegisterCreator(engine, i) ELSE engine
             b == AddAttestation(a, i, w)
             R == IF i \in Seals THEN Risen(f) \ {i} ELSE {}
             settled == IsSettled(f, i) /\ g = ForceFinalized(f, {i}) /\ S = R \cup {i}
  <1>0. /\ R \subseteq S /\ (settled => i \in S)
        /\ ~settled => g = f /\ (IsSettled(f, i) => found /\ i \in C)
    BY Zenon DEF FeedLeaves
  <1>1. /\ Sound(a) /\ (found => i \in a.creators)
        /\ Grounded(a, K, C) /\ Stays(engine, a, K, C) /\ FewerSeals(engine, a)
        /\ a.registered = engine.registered /\ a.members = engine.members
        /\ \A s \in Seals : s \in engine.creators => a.sealAtts[s] = engine.sealAtts[s]
        /\ \A j \in Ids : j # i \/ j \in engine.creators =>
              /\ a.atts[j] = engine.atts[j] /\ a.level[j] = engine.level[j]
              /\ j \in a.creators <=> j \in engine.creators
    <2>1. CASE found
      <3>1. a = RegisterCreators(engine, {i}) /\ {i} \in SUBSET Ids
        BY <2>1 DEF RegisterCreator
      <3>2. engine \in Engines
        BY Zenon DEF Sound
      <3> HIDE DEF a
      <3>3. Sound(a) /\ i \in a.creators
        BY <3>1, RegisterCreatorsSound, Zenon
      <3>4. Grounded(a, K, C) /\ Stays(engine, a, K, C) /\ FewerSeals(engine, a)
        BY <3>1, RegisterCreatorsGrounded, Zenon
      <3>5. CreatorsJoin(engine, {i}, a)
        BY <3>1, <3>2, RegisterCreatorsChanges, Zenon
      <3> QED BY <3>3, <3>4, <3>5, Zenon DEF CreatorsJoin
    <2>2. CASE ~found
      BY <2>2, Zenon DEF Stays, FewerSeals
    <2> QED BY <2>1, <2>2, Zenon
  <1>2. f = IF found /\ i \in Seals THEN AddSealAttestation(b, i, w) ELSE b
    BY Zenon DEF Fed
  <1> HIDE DEF a
  <1>3. Attested(a, i, b)
    BY <1>1, AddAttestationChanges, Zenon
  <1>4. Sound(b) /\ a \in Engines /\ b \in Engines
    BY <1>1, AddAttestationSound, Zenon DEF Sound
  <1> HIDE DEF b
  <1>5. /\ f.creators = b.creators /\ f.anchored = b.anchored /\ f.atts = b.atts
        /\ f.registered = b.registered /\ f.members = b.members
        /\ f.level[i] = b.level[i]
        /\ \A z \in Seals : z # i => f.sealAtts[z] = b.sealAtts[z]
        /\ \A j \in Ids : b.level[j] >= Finalized => f.level[j] >= Finalized
        /\ i \notin Seals => f = b
        /\ i \in Seals /\ i \in b.registered /\ IsSealSettled(f, i) =>
              IsSealSettled(b, i) \/ \A o \in b.members[i] : f.level[o] >= Finalized
    <2>1. CASE found /\ i \in Seals
      <3>1. SealAttested(b, i, f)
        BY <1>2, <1>4, <2>1, AddSealAttestationChanges, Zenon
      <3> QED BY <2>1, <3>1, Zenon DEF SealAttested
    <2>2. CASE ~(found /\ i \in Seals)
      <3>1. f = b
        BY <1>2, <2>2, Zenon
      <3> QED BY <3>1, Zenon
    <2> QED BY <2>1, <2>2, Zenon
  <1>6. f \in Engines
    <2>1. found => i \in b.creators
      BY <1>1, <1>3, Zenon DEF Attested
    <2>2. found /\ i \in Seals => Sound(AddSealAttestation(b, i, w))
      BY <1>4, <2>1, AddSealAttestationSound, Zenon
    <2> QED BY <1>2, <1>4, <2>2, Zenon DEF Sound
  <1>7. /\ OnlyLevels(f, g)
        /\ \A j \in Ids : j # i \/ ~settled => g.level[j] = f.level[j]
        /\ \A j \in Ids : f.level[j] >= Finalized => g.level[j] >= Finalized
        /\ settled => g.level[i] >= Finalized
    <2>1. Forced(f, {i}, ForceFinalized(f, {i}))
      BY <1>6, ForceFinalizedLevels, Zenon
    <2>2. CASE settled
      BY <2>1, <2>2, Zenon DEF Forced
    <2>3. CASE ~settled
      BY <1>0, <2>3, Zenon DEF OnlyLevels
    <2> QED BY <2>2, <2>3, Zenon
  <1>8. ASSUME NEW j \in Ids
        PROVE  /\ g.level[j] >= Finalized /\ j \notin K \cup S \cup C => j \in g.creators /\ IsSettled(g, j)
               /\ IsSettled(g, j) => j \in g.creators \cup K \cup S
               /\ j \in g.anchored => j \in K \cup S
    <2>1. IsSettled(g, j) <=> IsSettled(b, j)
      BY <1>5, <1>7, SettledSame, Zenon DEF OnlyLevels
    <2>2. g.creators = a.creators /\ g.anchored = a.anchored
      BY <1>3, <1>5, <1>7, Zenon DEF OnlyLevels, Attested
    <2>3. CASE j # i
      <3>1. IsSettled(b, j) <=> IsSettled(a, j)
        BY <1>3, <2>3, SettledSame, Zenon DEF Attested
      <3>2. g.level[j] >= Finalized /\ j \notin S => a.level[j] >= Finalized
        <4>1. g.level[j] = f.level[j] /\ a.level[j] = engine.level[j]
          BY <1>1, <1>7, <2>3, Zenon
        <4>2. CASE i \in Seals
          <5>1. f.level[j] >= Finalized /\ j \notin S => engine.level[j] >= Finalized
            BY <1>0, <2>3, <4>2, Zenon DEF Risen, FinalLevel
          <5> QED BY <4>1, <5>1, Zenon
        <4>3. CASE i \notin Seals
          BY <1>3, <1>5, <2>3, <4>1, <4>3, Zenon DEF Attested
        <4> QED BY <4>2, <4>3, Zenon
      <3> QED BY <1>1, <2>1, <2>2, <3>1, <3>2, Zenon DEF Grounded
    <2>4. CASE j = i
      <3>1. IsSettled(f, i) <=> IsSettled(b, i)
        BY <1>5, SettledSame, Zenon
      <3>2. CASE settled
        BY <1>0, <1>1, <2>2, <2>4, <3>2, Zenon DEF Grounded
      <3>3. CASE ~settled /\ IsSettled(f, i)
        BY <1>0, <1>1, <2>2, <2>4, <3>3, Zenon DEF Grounded
      <3>4. CASE ~settled /\ ~IsSettled(f, i)
        <4>1. g.level[i] = b.level[i]
          BY <1>5, <1>7, <3>4, Zenon
        <4>2. b.level[i] >= Finalized => i \in K \cup C
          BY <1>1, <1>3, <3>1, <3>4, LevelForFinal DEF Grounded, Attested
        <4> QED BY <1>1, <2>1, <2>2, <2>4, <3>1, <3>4, <4>1, <4>2 DEF Grounded
      <3> QED BY <3>2, <3>3, <3>4, Zenon
    <2> QED BY <2>3, <2>4, Zenon
  <1>9. ASSUME NEW j \in Ids \ (K \cup C), engine.level[j] >= Finalized
        PROVE  g.level[j] >= Finalized
    <2>1. CASE j # i
      <3>1. b.level[j] = engine.level[j]
        BY <1>1, <1>3, <2>1, Zenon DEF Attested
      <3> QED BY <1>5, <1>7, <1>9, <3>1, Zenon
    <2>2. CASE j = i
      <3>1. i \in engine.creators /\ IsSettled(engine, i)
        BY <1>9, <2>2, Zenon DEF Grounded
      <3>2. IsSettled(a, i)
        BY <1>1, <3>1, SettledSame, Zenon
      <3>3. IsSettled(b, i)
        BY <1>3, <1>4, <3>2, SettledStays, Zenon DEF Attested
      <3>4. IsSettled(f, i)
        BY <1>5, <3>3, SettledSame, Zenon
      <3> QED BY <1>0, <1>7, <1>9, <2>2, <3>4, Zenon
    <2> QED BY <2>1, <2>2, Zenon
  <1>10. ASSUME NEW z \in Seals, z \in engine.creators, z \in g.registered, IsSealSettled(g, z),
                NEW o \in g.members[z]
         PROVE  \/ g.level[o] >= Finalized
                \/ z \in engine.registered /\ IsSealSettled(engine, z) /\ o \in engine.members[z]
    <2>1. z \in Ids /\ o \in Ids
      BY <1>6, <1>7, <1>10, Zenon DEF OnlyLevels, Engines, Ids
    <2>2. z \in engine.registered /\ z \in b.registered /\ o \in engine.members[z] /\ o \in b.members[z]
      BY <1>1, <1>3, <1>5, <1>7, <1>10, Zenon DEF OnlyLevels, Attested
    <2>3. IsSealSettled(f, z)
      BY <1>7, <1>10, SealSettledSame, Zenon DEF OnlyLevels
    <2>4. IsSealSettled(b, z) => IsSealSettled(engine, z)
      BY <1>1, <1>3, <1>10, <2>1, SealSettledSame, Zenon DEF Attested
    <2>5. z # i => IsSealSettled(b, z)
      BY <1>5, <2>3, SealSettledSame, Zenon
    <2>6. IsSealSettled(b, z) \/ f.level[o] >= Finalized
      BY <1>5, <2>2, <2>3, <2>5, Zenon
    <2> QED BY <1>7, <2>1, <2>2, <2>4, <2>6, Zenon
  <1>11. g.registered = engine.registered
    BY <1>1, <1>3, <1>5, <1>7, Zenon DEF OnlyLevels, Attested
  <1> QED BY <1>8, <1>9, <1>10, <1>11, Zenon DEF Grounded, Stays, Inherits
-----------------------------------------------------------------------------
(* What is carried stays carried, and what is final stays final *)

Carried == index \cup routing

\* One step, as the levels and the seals see it.
SoundStep ==
    /\ Grounded(engine', Carried', conflicted')
    /\ StaysOrGoes(engine, engine', Carried, conflicted)
    /\ Inherits(engine, engine')
    /\ Carried \subseteq Carried' /\ conflicted \subseteq conflicted'

LEMMA CarryCarries ==
    ASSUME NEW S, Carry(S), index' = index
    PROVE  Carried' = Carried \cup S
  BY DEF Carry, Carried

\* A step that leaves the engine alone.
LEMMA EngineRests ==
    ASSUME Grounded(engine, Carried, conflicted), engine' = engine,
           Carried \subseteq Carried', conflicted \subseteq conflicted'
    PROVE  SoundStep
  <1>1. FewerSeals(engine, engine)
    BY DEF FewerSeals
  <1>2. Inherits(engine, engine')
    BY <1>1, FewerSealsInherit
  <1>3. StaysOrGoes(engine, engine', Carried, conflicted)
    BY Zenon DEF StaysOrGoes
  <1> QED BY <1>2, <1>3, GroundedWider, Zenon DEF SoundStep

\* A step that raises levels and carries S.
LEMMA EngineRises ==
    ASSUME Grounded(engine, Carried, conflicted), NEW S, Raised(engine, engine', Carried \cup S),
           Inherits(engine, engine'), Carry(S), index' = index, conflicted' = conflicted
    PROVE  SoundStep
  <1>1. Carried' = Carried \cup S
    BY CarryCarries
  <1>2. Grounded(engine', Carried \cup S, conflicted) /\ Stays(engine, engine', Carried, conflicted)
    BY RaisedGrounded
  <1> QED BY <1>1, <1>2 DEF SoundStep, Stays, StaysOrGoes

\* A step that prunes.
LEMMA EngineShrinks ==
    ASSUME Sound(engine), Sound(engine'), Grounded(engine, Carried, conflicted), Pruned(engine, engine'),
           Carried' = Carried, conflicted' = conflicted
    PROVE  SoundStep
  <1>1. FewerSeals(engine, engine')
    BY DEF Pruned, FewerSeals
  <1>2. Grounded(engine', Carried, conflicted) /\ StaysOrGoes(engine, engine', Carried, conflicted)
    BY PrunedGrounded, Zenon DEF Sound
  <1> QED BY <1>1, <1>2, FewerSealsInherit DEF SoundStep

LEMMA RegisterSteps ==
    ASSUME Sound(engine), Grounded(engine, Carried, conflicted), NEW s \in Seals,
           NEW M \in SUBSET Ordinary, Register(s, M), index' = index, conflicted' = conflicted
    PROVE  /\ SoundStep
           /\ engine'.registered = engine.registered \cup {s}
           /\ engine'.members = [engine.members EXCEPT ![s] = M]
           /\ \E f : Drive(f)
  <1> DEFINE f == RegisterSeal(engine, s, M)
  <1>1. PICK kept \in SUBSET (Listed[s] \ M) : Drive(ParkUnresolved(f, s, kept)) /\ Carry(Risen(f))
    BY Zenon DEF Register
  <1>2. engine' = ParkUnresolved(f, s, kept)
    BY <1>1, Zenon DEF Drive
  <1>3. /\ \A L : Raised(engine, engine', L \cup RisenFrom(engine, f))
        /\ Inherits(engine, engine')
        /\ engine'.registered = engine.registered \cup {s}
        /\ engine'.members = [engine.members EXCEPT ![s] = M]
    <2>1. f = RegisterSeal(engine, s, M)
      BY Zenon
    <2> HIDE DEF f
    <2>2. Registers(engine, f, engine', s, M)
      BY ONLY Sound(engine), s \in Seals, M \in SUBSET Ordinary, <1>2, <2>1, RegisterSealRaises, Zenon
    <2> QED BY <2>2, Zenon DEF Registers
  <1>4. Risen(f) = RisenFrom(engine, f)
    BY Zenon DEF Risen, RisenFrom
  <1> HIDE DEF f
  <1>5. Raised(engine, engine', Carried \cup Risen(f))
    BY <1>3, <1>4, Zenon
  <1> QED BY <1>1, <1>3, <1>5, EngineRises, Zenon

LEMMA FeedSteps ==
    ASSUME Sound(engine), Grounded(engine, Carried, conflicted), NEW i \in Ids, NEW w \in Stakers,
           Feed(i, w) \/ Refeed(i, w)
    PROVE  SoundStep /\ engine'.registered = engine.registered /\ \E f : Drive(f)
  <1>1. PICK found \in BOOLEAN, gate \in BOOLEAN :
           Settle(i, Fed(i, w, found), gate) /\ (gate \/ (found /\ i \in conflicted))
    BY Zenon DEF Feed, Refeed
  <1> DEFINE f == Fed(i, w, found)
             settled == IsSettled(f, i) /\ gate
             g == IF settled THEN ForceFinalized(f, {i}) ELSE f
             S == (IF i \in Seals THEN Risen(f) \ {i} ELSE {}) \cup (IF settled THEN {i} ELSE {})
  <1>2. Drive(g) /\ Carry(S)
    BY <1>1 DEF Settle
  <1>3. engine' = g
    BY <1>2 DEF Drive
  <1>4. FeedLeaves(i, f, found, conflicted, g, S)
    BY <1>1, Zenon DEF FeedLeaves
  <1> HIDE DEF g, S
  <1>5. /\ Grounded(g, Carried \cup S, conflicted) /\ Stays(engine, g, Carried, conflicted)
        /\ Inherits(engine, g) /\ g.registered = engine.registered
    BY <1>4, FeedGrounded
  <1>6. index' = index /\ conflicted' = conflicted
    BY Zenon DEF Feed, Refeed
  <1>7. Carried' = Carried \cup S
    BY <1>2, <1>6, CarryCarries, Zenon
  <1> QED BY <1>2, <1>3, <1>5, <1>6, <1>7, Zenon DEF SoundStep, Stays, StaysOrGoes
-----------------------------------------------------------------------------
(* Seals that are kept *)

\* Of a seal of which the engine has forgotten nothing: its creator is known from the time
\* it is stored, its list from the end of its ingest; a member that is not on the list is
\* parked for it until it arrives; and once the seal is settled, the list is final.
KeptSeal(s) ==
    /\ s \in stored => s \in engine.creators
    /\ s \in stored /\ worker # s => s \in engine.registered
    /\ s \in engine.registered =>
          \A o \in Listed[s] : o \in engine.members[s] \/ (engine.unresolved[o] = s /\ Awaited(o))
    /\ s \in engine.registered /\ IsSealSettled(engine, s) =>
          \A o \in Listed[s] : o \in engine.members[s] => o \in conflicted \/ Final(o)

\* Only stored seals are registered, by the worker or by their creator.
Registrations ==
    /\ worker # None => worker \in stored
    /\ engine.registered \subseteq stored
    /\ \A s \in LocalSeals : registrar[s].pc = "register" => s \in stored /\ worker # s

\* The inductive invariant of the finality theorems.
SettledInv ==
    /\ FinalityInv
    /\ Grounded(engine, Carried, conflicted)
    /\ Registrations
    /\ \A s \in Seals \ lapsed : KeptSeal(s)

\* What a change of engine leaves to a seal that has not lapsed.
LEMMA NotForgotten ==
    ASSUME NEW f, Drive(f), NEW s \in Seals \ lapsed'
    PROVE  /\ s \notin lapsed
           /\ s \in engine.registered => s \in engine'.registered
           /\ s \in engine.creators => s \in engine'.creators
           /\ \A o \in Listed[s] :
                 /\ o \in engine.members[s] => o \in engine'.members[s]
                 /\ engine.level[o] >= Finalized /\ engine'.level[o] = Pending => o \in Carried
                 /\ s \in engine'.registered /\ Awaited(o) =>
                       o \in engine'.members[s] \/ engine'.unresolved[o] = s
  <1>1. s \notin lapsed /\ s \notin Forgets(engine, f) /\ engine' = f
    BY Zenon DEF Drive
  <1> QED BY <1>1, Zenon DEF Forgets, Carried

\* Once a seal is settled its list stays final: what was final stays so or is carried,
\* and what a step adds it promotes.
LEMMA ListStaysFinal ==
    ASSUME SettledInv, NEW f, Drive(f), SoundStep, NEW s \in Seals \ lapsed',
           s \in engine.creators, s \in engine'.registered, IsSealSettled(engine', s),
           NEW o \in Listed[s], o \in engine'.members[s]
    PROVE  o \in conflicted' \/ Final(o)'
  <1>1. s \in engine'.creators /\ s \notin lapsed /\ o \in Ids
    BY NotForgotten, SealFinalityConstants, Zenon DEF Ids
  <1>2. CASE engine'.level[o] >= Finalized
    BY <1>2, Zenon DEF Final
  <1>3. CASE s \in engine.registered /\ IsSealSettled(engine, s) /\ o \in engine.members[s]
    <2>1. o \in conflicted \/ o \in Carried \/ engine.level[o] >= Finalized
      BY <1>1, <1>3, Zenon DEF SettledInv, KeptSeal, Final, Carried
    <2>2. o \in conflicted \cup Carried => o \in conflicted' \cup Carried'
      BY Zenon DEF SoundStep
    <2>3. o \notin conflicted \cup Carried /\ engine.level[o] >= Finalized
              => engine'.level[o] >= Finalized \/ engine'.level[o] = Pending
      BY <1>1, Zenon DEF SoundStep, StaysOrGoes
    <2>4. engine.level[o] >= Finalized /\ engine'.level[o] = Pending => o \in Carried
      BY NotForgotten, Zenon
    <2>5. o \in conflicted' \/ o \in Carried' \/ engine'.level[o] >= Finalized
      BY <2>1, <2>2, <2>3, <2>4, Zenon
    <2> QED BY <2>5, Zenon DEF Final, Carried
  <1> QED BY <1>1, <1>2, <1>3, Zenon DEF SoundStep, Inherits

\* A step of a task other than the worker, which registers no seal that was not.
LEMMA QuietStep ==
    ASSUME SettledInv, NEW f, Drive(f), SoundStep, UNCHANGED <<stored, worker>>,
           engine'.registered \subseteq stored,
           \A s \in Seals \ lapsed' : s \in engine'.registered => s \in engine.registered,
           NEW s \in Seals \ lapsed'
    PROVE  KeptSeal(s)'
  <1>1. KeptSeal(s)
    BY NotForgotten, Zenon DEF SettledInv
  <1>2. s \in engine.registered => s \in stored
    BY Zenon DEF SettledInv, Registrations
  <1>3. /\ s \in stored' => s \in engine'.creators
        /\ s \in stored' /\ worker' # s => s \in engine'.registered
    BY <1>1, NotForgotten, Zenon DEF KeptSeal
  <1>4. ASSUME NEW o \in Listed[s], s \in engine'.registered
        PROVE  o \in engine'.members[s] \/ (engine'.unresolved[o] = s /\ Awaited(o)')
    BY <1>1, <1>4, NotForgotten, Zenon DEF KeptSeal, Awaited
  <1>5. ASSUME NEW o \in Listed[s], s \in engine'.registered, IsSealSettled(engine', s),
               o \in engine'.members[s]
        PROVE  o \in conflicted' \/ Final(o)'
    <2>1. s \in engine.creators
      BY <1>1, <1>2, <1>5, Zenon DEF KeptSeal
    <2> QED BY <1>5, <2>1, ListStaysFinal, Zenon
  <1> QED BY <1>3, <1>4, <1>5, Zenon DEF KeptSeal

\* A step that leaves the engine and the worker alone.
LEMMA IdleStep ==
    ASSUME SettledInv, UNCHANGED <<stored, worker, engine, lapsed>>, Carried \subseteq Carried',
           conflicted \subseteq conflicted', NEW s \in Seals \ lapsed'
    PROVE  KeptSeal(s)'
  <1>1. KeptSeal(s)
    BY DEF SettledInv
  <1>2. \A o : Final(o) => Final(o)'
    BY DEF Final, Carried
  <1>3. \A o : Awaited(o) => Awaited(o)'
    BY Zenon DEF Awaited
  <1> QED BY <1>1, <1>2, <1>3, Zenon DEF KeptSeal, IsSealSettled, Eligible
-----------------------------------------------------------------------------
(* Every step keeps it *)

\* The step of each task, as the seals see it.
StepKeeps == SoundStep /\ Registrations' /\ \A s \in Seals \ lapsed' : KeptSeal(s)'

\* A task other than the worker that registers nothing.
LEMMA TaskKeeps ==
    ASSUME SettledInv, NEW f, Drive(f), SoundStep, UNCHANGED <<stored, worker, registrar>>,
           engine'.registered \subseteq engine.registered
    PROVE  StepKeeps
  <1>1. engine'.registered \subseteq stored
    BY Zenon DEF SettledInv, Registrations
  <1>2. \A s \in Seals \ lapsed' : KeptSeal(s)'
    BY <1>1, QuietStep, Zenon
  <1>3. Registrations'
    BY <1>1 DEF SettledInv, Registrations
  <1> QED BY <1>2, <1>3, Zenon DEF StepKeeps

\* Phases 2 to 4: the record was awaited, and is until the worker has looked for its seal.
LEMMA IngestStoreKeeps ==
    ASSUME SettledInv, NEW i \in Ids, IngestStore(i)
    PROVE  StepKeeps
  <1> DEFINE f == RegisterCreators(engine, {i})
  <1>1. /\ worker = None /\ i \notin stored /\ stored' = stored \cup {i} /\ worker' = i
        /\ Drive(f) /\ UNCHANGED <<registrar, conflicted, index, routing>>
    BY Zenon DEF IngestStore, RegisterCreator
  <1>2. engine' = f /\ Carried' = Carried /\ Sound(engine) /\ engine \in Engines
    BY <1>1, Zenon DEF Drive, Carried, SettledInv, FinalityInv, Sound
  <1>3. /\ Grounded(f, Carried, conflicted) /\ Stays(engine, f, Carried, conflicted)
        /\ FewerSeals(engine, f)
    BY <1>2, RegisterCreatorsGrounded, Zenon DEF SettledInv
  <1>4. f.registered = engine.registered /\ i \in f.creators
    <2>1. CreatorsJoin(engine, {i}, f)
      BY <1>2, RegisterCreatorsChanges, Zenon
    <2> QED BY <2>1, Zenon DEF CreatorsJoin
  <1> HIDE DEF f
  <1>5. SoundStep
    BY <1>1, <1>2, <1>3, FewerSealsInherit, Zenon DEF SoundStep, Stays, StaysOrGoes
  <1>6. Registrations'
    BY <1>1, <1>2, <1>4, SealFinalityConstants, Zenon DEF SettledInv, Registrations, Ids
  <1>7. ASSUME NEW s \in Seals \ lapsed'
        PROVE  KeptSeal(s)'
    <2>1. KeptSeal(s)
      BY <1>1, NotForgotten, Zenon DEF SettledInv
    <2>2. s # None /\ (s \in engine.registered => s \in stored)
      BY SealFinalityConstants, Zenon DEF SettledInv, Registrations, Ids
    <2>3. /\ s \in stored' => s \in engine'.creators
          /\ s \in stored' /\ worker' # s => s \in engine'.registered
      BY <1>1, <1>2, <1>4, <2>1, <2>2, NotForgotten, Zenon DEF KeptSeal
    <2>4. ASSUME NEW o \in Listed[s], s \in engine'.registered
          PROVE  o \in engine'.members[s] \/ (engine'.unresolved[o] = s /\ Awaited(o)')
      <3>1. Awaited(o) => Awaited(o)'
        <4>1. o # None
          BY SealFinalityConstants, Zenon DEF Ids
        <4> QED BY <1>1, <4>1, Zenon DEF Awaited
      <3> QED BY <1>1, <1>2, <1>4, <2>1, <2>4, <3>1, NotForgotten DEF KeptSeal
    <2>5. ASSUME NEW o \in Listed[s], s \in engine'.registered, IsSealSettled(engine', s),
                 o \in engine'.members[s]
          PROVE  o \in conflicted' \/ Final(o)'
      <3>1. s \in engine.creators
        BY <1>2, <1>4, <2>1, <2>2, <2>5, Zenon DEF KeptSeal
      <3> QED BY <1>1, <1>5, <2>5, <3>1, ListStaysFinal, Zenon
    <2> QED BY <2>3, <2>4, <2>5, Zenon DEF KeptSeal
  <1> QED BY <1>5, <1>6, <1>7, Zenon DEF StepKeeps

\* Phase 5 of a record: if a seal awaits it, it joins the list of that seal.
LEMMA IngestLateMemberKeeps ==
    ASSUME SettledInv, IngestLateMember
    PROVE  StepKeeps
  <1> DEFINE f == ResolveLate(engine, worker)
  <1>1. /\ worker \in Ordinary /\ worker' = None /\ Drive(f) /\ Carry(Risen(f))
        /\ UNCHANGED <<stored, registrar, conflicted, index>>
    BY DEF IngestLateMember
  <1>2. engine' = f /\ Sound(engine)
    BY <1>1, Zenon DEF Drive, SettledInv, FinalityInv
  <1>3. /\ \A L : Raised(engine, f, L \cup RisenFrom(engine, f))
        /\ Inherits(engine, f) /\ f.registered = engine.registered
        /\ \A z \in Seals : z \in engine.registered /\ engine.unresolved[worker] = z
                                => worker \in f.members[z]
    BY <1>1, <1>2, ResolveLateRaises, Zenon
  <1>4. Risen(f) = RisenFrom(engine, f)
    BY Zenon DEF Risen, RisenFrom
  <1> HIDE DEF f
  <1>5. SoundStep
    BY <1>1, <1>2, <1>3, <1>4, EngineRises, Zenon DEF SettledInv
  <1>6. Registrations'
    BY <1>1, <1>2, <1>3, SealFinalityConstants, Zenon DEF SettledInv, Registrations, Ids
  <1>7. ASSUME NEW s \in Seals \ lapsed'
        PROVE  KeptSeal(s)'
    <2>1. KeptSeal(s)
      BY <1>1, NotForgotten, Zenon DEF SettledInv
    <2>2. worker # s /\ (s \in engine.registered => s \in stored)
      BY <1>1, SealFinalityConstants, Zenon DEF SettledInv, Registrations
    <2>3. /\ s \in stored' => s \in engine'.creators
          /\ s \in stored' /\ worker' # s => s \in engine'.registered
      BY <1>1, <1>2, <1>3, <2>1, <2>2, NotForgotten, Zenon DEF KeptSeal
    <2>4. ASSUME NEW o \in Listed[s], s \in engine'.registered
          PROVE  o \in engine'.members[s] \/ (engine'.unresolved[o] = s /\ Awaited(o)')
      <3>1. o \in engine.members[s] \/ (engine.unresolved[o] = s /\ Awaited(o))
        BY <1>2, <1>3, <2>1, <2>4, Zenon DEF KeptSeal
      <3>2. CASE o = worker
        BY <1>1, <1>2, <1>3, <2>4, <3>1, <3>2, NotForgotten
      <3>3. CASE o # worker
        BY <1>1, <2>4, <3>1, <3>3, NotForgotten, Zenon DEF Awaited
      <3> QED BY <3>2, <3>3, Zenon
    <2>5. ASSUME NEW o \in Listed[s], s \in engine'.registered, IsSealSettled(engine', s),
                 o \in engine'.members[s]
          PROVE  o \in conflicted' \/ Final(o)'
      <3>1. s \in engine.creators
        BY <1>2, <1>3, <2>1, <2>2, <2>5, Zenon DEF KeptSeal
      <3> QED BY <1>1, <1>5, <2>5, <3>1, ListStaysFinal, Zenon
    <2> QED BY <2>3, <2>4, <2>5, Zenon DEF KeptSeal
  <1> QED BY <1>5, <1>6, <1>7, Zenon DEF StepKeeps

\* Phase 5 of a seal: what is stored of its list is registered, and the rest is parked.
LEMMA IngestSealKeeps ==
    ASSUME SettledInv, IngestSeal
    PROVE  StepKeeps
  <1> DEFINE M == Listed[worker] \cap stored
  <1>1. /\ worker \in Seals /\ worker' = None /\ Register(worker, M)
        /\ UNCHANGED <<stored, registrar, conflicted, index>>
    BY Zenon DEF IngestSeal
  <1>2. M \in SUBSET Ordinary /\ Sound(engine) /\ Grounded(engine, Carried, conflicted)
    BY <1>1, SealFinalityConstants, Zenon DEF SettledInv, FinalityInv
  <1>3. /\ SoundStep /\ engine'.registered = engine.registered \cup {worker}
        /\ engine'.members = [engine.members EXCEPT ![worker] = M] /\ \E f : Drive(f)
    BY <1>1, <1>2, RegisterSteps, Zenon
  <1>4. PICK f : Drive(f)
    BY <1>3, Zenon
  <1>5. worker \in stored
    BY <1>1, SealFinalityConstants, Zenon DEF SettledInv, Registrations, Ids
  <1>6. Registrations'
    BY <1>1, <1>3, <1>5, SealFinalityConstants, Zenon DEF SettledInv, Registrations, Ids
  <1>7. \A o \in M : o \in engine'.members[worker]
    BY <1>1, <1>2, <1>3 DEF Sound, Engines
  <1>8. ASSUME NEW s \in Seals \ lapsed'
        PROVE  KeptSeal(s)'
    <2>1. KeptSeal(s)
      BY <1>4, NotForgotten, Zenon DEF SettledInv
    <2>2. s \in engine'.registered => s \in stored
      BY <1>3, <1>5, Zenon DEF SettledInv, Registrations
    <2>3. /\ s \in stored' => s \in engine'.creators
          /\ s \in stored' /\ worker' # s => s \in engine'.registered
      BY <1>1, <1>3, <1>4, <2>1, NotForgotten, Zenon DEF KeptSeal
    <2>4. ASSUME NEW o \in Listed[s], s \in engine'.registered
          PROVE  o \in engine'.members[s] \/ (engine'.unresolved[o] = s /\ Awaited(o)')
      <3>1. o # worker
        BY <1>1, SealFinalityConstants, Zenon
      <3>2. Awaited(o) <=> o \notin stored'
        BY <1>1, <3>1, Zenon DEF Awaited
      <3>3. Awaited(o) => o \in engine'.members[s] \/ (engine'.unresolved[o] = s /\ Awaited(o)')
        BY <1>4, <2>4, <3>2, NotForgotten, Zenon DEF Awaited
      <3>4. ~Awaited(o) => o \in engine'.members[s]
        BY <1>1, <1>3, <1>4, <1>7, <2>1, <2>4, <3>2, NotForgotten DEF KeptSeal
      <3> QED BY <3>3, <3>4, Zenon
    <2>5. ASSUME NEW o \in Listed[s], s \in engine'.registered, IsSealSettled(engine', s),
                 o \in engine'.members[s]
          PROVE  o \in conflicted' \/ Final(o)'
      <3>1. s \in engine.creators
        BY <2>1, <2>2, <2>5, Zenon DEF KeptSeal
      <3> QED BY <1>3, <1>4, <2>5, <3>1, ListStaysFinal
    <2> QED BY <2>3, <2>4, <2>5 DEF KeptSeal
  <1> QED BY <1>3, <1>6, <1>8, Zenon DEF StepKeeps

\* The creator's own registration comes after the worker's, unless that was forgotten.
LEMMA CreatorRegistersKeeps ==
    ASSUME SettledInv, NEW z \in LocalSeals, CreatorRegisters(z)
    PROVE  StepKeeps
  <1> DEFINE M == registrar[z].found
  <1>1. /\ registrar[z].pc = "register" /\ registrar' = [registrar EXCEPT ![z].pc = "done"]
        /\ Register(z, M) /\ UNCHANGED <<stored, worker, conflicted, index>>
    BY Zenon DEF CreatorRegisters
  <1>2. /\ z \in Seals /\ M \in SUBSET Ordinary /\ Sound(engine)
        /\ Grounded(engine, Carried, conflicted)
    BY SealFinalityConstants, Zenon DEF SettledInv, FinalityInv, SealFinalityTypeOK
  <1>3. SoundStep /\ engine'.registered = engine.registered \cup {z} /\ \E f : Drive(f)
    BY <1>1, <1>2, RegisterSteps, Zenon
  <1>4. PICK f : Drive(f)
    BY <1>3
  <1>5. z \in stored /\ worker # z
    BY <1>1 DEF SettledInv, Registrations
  <1>6. engine'.registered \subseteq stored
    BY <1>3, <1>5, Zenon DEF SettledInv, Registrations
  <1>7. \A s \in Seals \ lapsed' : s \in engine'.registered => s \in engine.registered
    BY <1>3, <1>4, <1>5, NotForgotten, Zenon DEF SettledInv, KeptSeal
  <1>8. \A s \in Seals \ lapsed' : KeptSeal(s)'
    BY <1>1, <1>3, <1>4, <1>6, <1>7, QuietStep, Zenon
  <1>9. Registrations'
    <2>1. \A s \in LocalSeals : registrar'[s].pc = "register" => registrar[s].pc = "register"
      BY <1>1, Zenon DEF SettledInv, FinalityInv, SealFinalityTypeOK
    <2> QED BY <1>1, <1>6, <2>1, Zenon DEF SettledInv, Registrations
  <1> QED BY <1>3, <1>8, <1>9, Zenon DEF StepKeeps

\* A step that leaves the engine alone and carries no less.
LEMMA IdleKeeps ==
    ASSUME SettledInv, UNCHANGED <<stored, worker, engine, lapsed>>, Carried \subseteq Carried',
           conflicted \subseteq conflicted',
           \A s \in LocalSeals : registrar'[s].pc = "register" =>
               registrar[s].pc = "register" \/ (s \in stored /\ worker # s)
    PROVE  StepKeeps
  <1>1. SoundStep
    BY EngineRests, Zenon DEF SettledInv
  <1>2. \A s \in Seals \ lapsed' : KeptSeal(s)'
    BY IdleStep, Zenon
  <1>3. Registrations'
    BY Zenon DEF SettledInv, Registrations
  <1> QED BY <1>1, <1>2, <1>3, Zenon DEF StepKeeps

LEMMA RecheckKeeps ==
    ASSUME SettledInv, NEW carried \in BOOLEAN, Recheck(carried)
    PROVE  StepKeeps
  <1>1. PICK B \in SUBSET {i \in stored \ engine.creators : Stake[CreatorOf[i]] > 0} :
           LET f == ForceFinalizeSettled(RegisterCreators(engine, B))
           IN  /\ Drive(f) /\ Carry(IF carried THEN Risen(f) ELSE {})
               /\ UNCHANGED <<stored, worker, registrar, conflicted, index>>
    BY Zenon DEF Recheck
  <1> DEFINE e == RegisterCreators(engine, B)
             F == {i \in Tracked(e) : IsSettled(e, i)}
             f == ForceFinalized(e, F)
             S == IF carried THEN Risen(f) ELSE {}
  <1>2. B \in SUBSET Ids /\ Sound(engine) /\ Grounded(engine, Carried, conflicted)
    BY Zenon DEF SettledInv, FinalityInv, SealFinalityTypeOK
  <1>3. Drive(f) /\ Carry(S) /\ UNCHANGED <<stored, worker, registrar, conflicted, index>>
    BY <1>1, Zenon DEF ForceFinalizeSettled
  <1>4. Sound(e)
    BY <1>2, RegisterCreatorsSound, Zenon
  <1>5. /\ Grounded(e, Carried, conflicted) /\ Stays(engine, e, Carried, conflicted)
        /\ FewerSeals(engine, e)
    BY <1>2, RegisterCreatorsGrounded, Zenon
  <1> HIDE DEF e
  <1>6. Forced(e, F, f)
    BY <1>4, ForceFinalizedLevels, Zenon DEF Sound
  <1>7. \A i \in F : IsSettled(e, i)
    BY Zenon
  <1> HIDE DEF F, f
  <1>8. Raised(e, f, Carried \cup S)
    BY <1>6, <1>7, Zenon DEF Forced, Raised, OnlyLevels
  <1> HIDE DEF S
  <1>9. Grounded(f, Carried \cup S, conflicted) /\ Stays(e, f, Carried, conflicted)
    BY <1>5, <1>8, RaisedGrounded, Zenon
  <1>10. engine' = f /\ Carried' = Carried \cup S
    BY <1>3, CarryCarries, Zenon DEF Drive
  <1>11. FewerSeals(engine, f)
    BY <1>5, <1>6, Zenon DEF Forced, FewerSeals, OnlyLevels
  <1>12. SoundStep
    BY <1>3, <1>5, <1>9, <1>10, <1>11, FewerSealsInherit DEF SoundStep, Stays, StaysOrGoes
  <1>13. engine'.registered \subseteq engine.registered
    BY <1>10, <1>11, Zenon DEF FewerSeals
  <1> QED BY <1>3, <1>12, <1>13, TaskKeeps, Zenon

LEMMA PromoteAnchoredKeeps ==
    ASSUME SettledInv, NEW s \in Seals, PromoteAnchored(s)
    PROVE  StepKeeps
  <1> DEFINE new == engine.members[s] \ engine.anchored
             n == engine.anchored \cup new
             l == [i \in Ids |-> IF i \in new THEN Anchored ELSE engine.level[i]]
             c == engine.challenge \ {s}
             f == [engine EXCEPT !.anchored = n, !.level = l, !.challenge = c]
  <1>1. /\ Drive(f) /\ Carry(new)
        /\ UNCHANGED <<stored, worker, registrar, conflicted, index>>
    BY Zenon DEF PromoteAnchored
  <1>2. engine \in Engines
    BY Zenon DEF SettledInv, FinalityInv, Sound
  <1>3. \A i \in Ids : /\ engine.level[i] >= Finalized => l[i] >= Finalized
                       /\ i \notin new => l[i] = engine.level[i]
    BY ONLY DEF Finalized, Anchored
  <1> HIDE DEF l, c
  <1>4. /\ f.atts = engine.atts /\ f.creators = engine.creators /\ f.anchored = n /\ f.level = l
        /\ f.sealAtts = engine.sealAtts /\ f.registered = engine.registered
        /\ f.members = engine.members
    <2> HIDE DEF n, new
    <2> QED BY ONLY <1>2 DEF Engines
  <1>5. engine' = f
    BY <1>1, Zenon DEF Drive
  <1> HIDE DEF f, new
  <1>6. Raised(engine, engine', Carried \cup new)
    BY <1>3, <1>4, <1>5, Zenon DEF Raised
  <1>7. FewerSeals(engine, engine')
    BY <1>4, <1>5, Zenon DEF FewerSeals
  <1>8. SoundStep
    BY <1>1, <1>6, <1>7, FewerSealsInherit, EngineRises, Zenon DEF SettledInv
  <1> QED BY <1>1, <1>4, <1>5, <1>8, TaskKeeps

\* Both prunes.
LEMMA PruneKeeps ==
    ASSUME SettledInv, FinalityInv', NEW f, Drive(f), Pruned(engine, f),
           UNCHANGED <<stored, worker, registrar, conflicted, index, routing>>
    PROVE  StepKeeps
  <1>1. engine' = f /\ Sound(engine) /\ Sound(engine') /\ Carried' = Carried
    BY Zenon DEF Drive, SettledInv, FinalityInv, Carried
  <1>2. SoundStep
    BY <1>1, EngineShrinks, Zenon DEF SettledInv
  <1> QED BY <1>1, <1>2, TaskKeeps, Zenon DEF Pruned

LEMMA SettledInitially == ASSUME SealFinalityInit PROVE SettledInv
  <1>1. FinalityInv
    BY InitInv, Zenon
  <1>2. engine \in Engines /\ engine = EmptyEngine
    BY <1>1, Zenon DEF FinalityInv, Sound, SealFinalityInit
  <1>3. /\ engine.anchored = {} /\ engine.registered = {}
        /\ \A i \in Ids : engine.level[i] = Pending /\ engine.atts[i] = {}
    BY <1>2, Zenon DEF EmptyEngine
  <1>4. \A i \in Ids : ~IsSettled(engine, i)
    BY <1>2, <1>3, SettledIsTracked, Zenon
  <1>5. Grounded(engine, Carried, conflicted)
    BY <1>3, <1>4 DEF Grounded, Pending, Finalized
  <1>6. /\ stored = {} /\ worker = None
        /\ \A s \in LocalSeals : registrar[s].pc = "resolve"
    BY Zenon DEF SealFinalityInit
  <1>7. Registrations
    BY <1>3, <1>6, Zenon DEF Registrations
  <1>8. \A s \in Seals : KeptSeal(s)
    BY <1>3, <1>6, Zenon DEF KeptSeal
  <1> QED BY <1>1, <1>5, <1>7, <1>8, Zenon DEF SettledInv

LEMMA SettledStep == ASSUME SettledInv, [SealFinalityNext]_sfVars PROVE SettledInv' /\ SoundStep
  <1>1. FinalityInv'
    BY StepInv, Zenon DEF SettledInv
  <1> SUFFICES StepKeeps
    BY <1>1, Zenon DEF SettledInv, StepKeeps, SoundStep
  <1>2. CASE UNCHANGED sfVars
    BY <1>2, IdleKeeps, Zenon DEF sfVars, Carried
  <1>3. ASSUME NEW s \in LocalSeals, CreatorResolves(s) PROVE StepKeeps
    <2>1. UNCHANGED <<stored, worker, engine, conflicted, index, routing, lapsed>>
      BY <1>3, Zenon DEF CreatorResolves
    <2>2. \A z \in LocalSeals : registrar'[z].pc = "register" =>
              registrar[z].pc = "register" \/ (z \in stored /\ worker # z)
      BY <1>3, Zenon DEF CreatorResolves, SettledInv, FinalityInv, SealFinalityTypeOK
    <2> QED BY <2>1, <2>2, IdleKeeps, Zenon DEF Carried
  <1>4. ASSUME NEW i \in Ids, FlagConflict(i) PROVE StepKeeps
    BY <1>4, IdleKeeps, Zenon DEF FlagConflict, Carried
  <1>5. ASSUME NEW i \in Ids, NEW w \in Stakers, Feed(i, w) \/ Refeed(i, w) PROVE StepKeeps
    <2>1. SoundStep /\ engine'.registered = engine.registered /\ \E f : Drive(f)
      BY <1>5, FeedSteps, Zenon DEF SettledInv, FinalityInv
    <2>2. UNCHANGED <<stored, worker, registrar>>
      BY <1>5, Zenon DEF Feed, Refeed
    <2> QED BY <2>1, <2>2, TaskKeeps, Zenon
  <1>6. ASSUME NEW i \in Ids, Route(i) PROVE StepKeeps
    BY <1>6, IdleKeeps, Zenon DEF Route, Carried
  <1>7. CASE Monitor
    BY <1>7, IdleKeeps, Zenon DEF Monitor, Carry, Carried
  <1>8. CASE CollectPhantoms
    BY <1>8, IdleKeeps, Zenon DEF CollectPhantoms, Carried
  <1>9. CASE MonitorPrune
    <2>1. Pruned(engine, PruneWhere(engine, index \cup phantoms))
      BY PruneWherePrunes, Zenon DEF SettledInv, FinalityInv, Sound
    <2> QED BY <1>1, <1>9, <2>1, PruneKeeps, Zenon DEF MonitorPrune
  <1>10. CASE SweepFinal
    BY <1>10, IdleKeeps, Zenon DEF SweepFinal, Carried
  <1>11. CASE MemoryPrune
    <2> DEFINE d == PruneWhere(engine, index)
               e == PruneAnchoredSeals(d, index)
    <2>1. PICK A, S : Drive(PruneOlderThan(e, A, S))
      BY <1>11, Zenon DEF MemoryPrune
    <2>2. Sound(engine) /\ Sound(d) /\ Sound(e)
      BY PruneWhereSound, PruneAnchoredSealsSound, Zenon DEF SettledInv, FinalityInv
    <2>3. Pruned(engine, d)
      BY <2>2, PruneWherePrunes, Zenon DEF Sound
    <2> HIDE DEF d
    <2>4. Pruned(d, e)
      BY <2>2, PruneAnchoredSealsPrunes, Zenon
    <2> HIDE DEF e
    <2>5. Pruned(e, PruneOlderThan(e, A, S))
      BY <2>2, PruneOlderThanPrunes, Zenon
    <2>6. Pruned(engine, PruneOlderThan(e, A, S))
      BY <2>3, <2>4, <2>5, PrunedTwice, Zenon
    <2> QED BY <1>1, <1>11, <2>1, <2>6, PruneKeeps DEF MemoryPrune
  <1> QED
    BY <1>2, <1>3, <1>4, <1>5, <1>6, <1>7, <1>8, <1>9, <1>10, <1>11, IngestStoreKeeps,
       IngestLateMemberKeeps, IngestSealKeeps, CreatorRegistersKeeps, PromoteAnchoredKeeps,
       RecheckKeeps DEF SealFinalityNext

\* Once a seal is settled every record it lists that the node holds is final or on its way
\* to the index, whichever of the attestations, the registration and the record came last,
\* for any seals, lists and stakes, as long as the engine has forgotten nothing of the seal
\* (add_seal_attestation, register_seal_records, resolve_late_seal_member).
THEOREM SettledSealsFinalize == SealFinalitySpec => []MembersFinalWhileKept
  <1>1. ASSUME SettledInv PROVE MembersFinalWhileKept
    <2> SUFFICES ASSUME NEW s \in Seals \ lapsed, s \in stored, worker # s, IsSealSettled(engine, s),
                        NEW o \in Listed[s], o \in stored \ conflicted, worker # o
                 PROVE  Final(o)
      BY Zenon DEF MembersFinalWhileKept, MembersFinal
    <2> QED BY <1>1, Zenon DEF SettledInv, KeptSeal, Awaited
  <1> QED BY <1>1, SettledInitially, SettledStep, PTL DEF SealFinalitySpec

\* A level that recompute_confirmation lowers from Finalized belongs to a record that is in
\* the index or on its way there, unless its slot is conflicted.
THEOREM DowngradesAreCarried == SealFinalitySpec => DowngradeKeepsFinality
  <1>1. ASSUME SettledInv, [SealFinalityNext]_sfVars
        PROVE  [\A i \in Ids \ conflicted :
                   engine.level[i] >= Finalized /\ engine'.level[i] = Sealed
                       => i \in (index \cup routing)']_sfVars
    <2>1. SoundStep
      BY <1>1, SettledStep
    <2> QED BY <2>1 DEF SoundStep, StaysOrGoes, Carried, Pending, Sealed, Finalized
  <1> QED BY <1>1, SettledInitially, SettledStep, PTL DEF SealFinalitySpec, DowngradeKeepsFinality
=============================================================================
