---------------------------- MODULE SealFinality ----------------------------
(***************************************************************************)
(* How a node decides that a record is final: the engine AWCConsensus of   *)
(* src/src/network/consensus.rs and the tasks that drive it.               *)
(*                                                                         *)
(* A record becomes final on its own attestations (layer 1), or because    *)
(* an epoch seal that lists it gathers two thirds of the stake (layer 2).  *)
(* The engine lives in memory behind one mutex; what it decides is carried *)
(* to the durable FinalizedIndex by the task that held the mutex, after it *)
(* let go.  Ingest is one worker; attestations, the creator's second       *)
(* registration of its seal, the finality monitor, the epoch loop and the  *)
(* memory prune run beside it.                                             *)
(*                                                                         *)
(* The engine is one record; its methods are operators from an engine to   *)
(* an engine.  Stakes do not change while the model runs, no committee and *)
(* no witness profile is registered (a small network: effective stake is   *)
(* stake), and no record has cross-zone parents.  Which attestations share *)
(* a cluster is a constant.  Age is left out of the prune: any entry may   *)
(* be past the cutoff.                                                     *)
(***************************************************************************)
EXTENDS Units

CONSTANTS
    Ordinary,         \* ids of records that are not seals
    Seals,            \* ids of epoch seals
    Stakers,          \* identities with stake, who attest
    Stake,            \* ledger.staked
    CreatorOf,        \* creator_identity_hash of a record
    Listed,           \* the ordinary records that a seal's record_hashes name
    LocalSeals,       \* the seals this node created
    ClusterOf,        \* the cluster of a witness
    MinWitnesses,     \* CONFIRMED_MIN_WITNESSES
    MinClusters,      \* CONFIRMED_MIN_CLUSTERS
    MaxUnresolved,    \* MAX_UNRESOLVED_SEAL_MEMBERS
    MaxPruneTicks,    \* bound on the rounds of the memory prune
    None

Ids == Ordinary \cup Seals

ASSUME SealFinalityConstants ==
    /\ Ordinary \cap Seals = {} /\ None \notin Ids
    /\ IsFiniteSet(Stakers) /\ Stake \in [Stakers -> Nat]
    /\ CreatorOf \in [Ids -> Stakers]
    /\ Listed \in [Seals -> SUBSET Ordinary]
    /\ LocalSeals \subseteq Seals
    /\ MinWitnesses \in Nat \ {0} /\ MinClusters \in Nat
    /\ MaxUnresolved \in Nat /\ MaxPruneTicks \in Nat

\* ConfirmationLevel.  A record without an entry counts as Pending.
Pending == 0
Sealed == 1
Finalized == 2
Anchored == 3

VARIABLES
    stored,           \* CF_RECORDS
    worker,           \* the id whose ingest has stored it and not finished, or None
    engine,           \* AWCConsensus
    registrar,        \* how far the epoch loop is with a local seal, and the members
                      \* it found
    conflicted,       \* records whose slot has a conflict proof
    index,            \* FinalizedIndex
    routing,          \* ids on their way from the engine to the index
    phantoms,         \* ids that the monitor found tracked and not stored, and will prune
    swept,            \* the memory prune has swept final ids and not pruned yet
    pruneTicks,
    \* History: seals of which the engine forgot something, and ids at a final level that
    \* were pruned as phantoms although they had been stored since.
    lapsed, mistaken

sfVars == <<stored, worker, engine, registrar, conflicted, index, routing, phantoms, swept,
            pruneTicks, lapsed, mistaken>>

\* The fields of AWCConsensus.  creators stands for creator_identity and creator_stakes,
\* registered for the domain of seal_record_ids.
Engines ==
    [creators : SUBSET Ids,
     atts : [Ids -> SUBSET Stakers],
     level : [Ids -> Pending..Anchored],
     anchored : SUBSET Ids,
     sealAtts : [Seals -> SUBSET Stakers],
     registered : SUBSET Seals,
     members : [Seals -> SUBSET Ordinary],
     unresolved : [Ordinary -> Seals \cup {None}],
     challenge : SUBSET Seals]

EmptyEngine ==
    [creators |-> {},
     atts |-> [i \in Ids |-> {}],
     level |-> [i \in Ids |-> Pending],
     anchored |-> {},
     sealAtts |-> [s \in Seals |-> {}],
     registered |-> {},
     members |-> [s \in Seals |-> {}],
     unresolved |-> [o \in Ordinary |-> None],
     challenge |-> {}]

SealFinalityInit ==
    /\ stored = {} /\ worker = None
    /\ engine = EmptyEngine
    /\ registrar = [s \in LocalSeals |-> [pc |-> "resolve", found |-> {}]]
    /\ conflicted = {} /\ index = {} /\ routing = {}
    /\ phantoms = {} /\ swept = FALSE /\ pruneTicks = 0
    /\ lapsed = {} /\ mistaken = {}
-----------------------------------------------------------------------------
(* Settlement *)

StakeOf == [S \in SUBSET Stakers |-> Total([w \in S |-> Stake[w]])]
TotalStake == StakeOf[Stakers]

\* What can attest i: the creator cannot, once the engine knows who that is.
Eligible(e, i) == TotalStake - (IF i \in e.creators THEN Stake[CreatorOf[i]] ELSE 0)

TwoThirds(attesting, eligible) == eligible > 0 /\ attesting * 3 >= eligible * 2

IsSettled(e, i) == TwoThirds(StakeOf[e.atts[i]], Eligible(e, i))
IsSealSettled(e, s) == e.sealAtts[s] # {} /\ TwoThirds(StakeOf[e.sealAtts[s]], Eligible(e, s))

Tracked(e) == {i \in Ids : e.atts[i] # {}}
FinalLevel(e) == {i \in Ids : e.level[i] >= Finalized}

\* recompute_confirmation writes whatever the attestations give, higher or lower.
LevelFor(e, i) ==
    IF e.atts[i] = {} THEN Pending
    ELSE IF i \in e.anchored THEN Anchored
    ELSE IF /\ Cardinality(e.atts[i]) >= MinWitnesses
            /\ Cardinality({ClusterOf[w] : w \in e.atts[i]}) >= MinClusters
            /\ IsSettled(e, i)
         THEN Finalized
    ELSE Sealed

Recompute(e, i) == [e EXCEPT !.level[i] = LevelFor(e, i)]

\* force_finalized, of each of F, which is also promote_seal_members; and of every record
\* that is settled.
ForceFinalized(e, F) ==
    [e EXCEPT !.level = [i \in Ids |-> IF i \in F /\ @[i] < Finalized THEN Finalized ELSE @[i]]]
ForceFinalizeSettled(e) == ForceFinalized(e, {i \in Tracked(e) : IsSettled(e, i)})
-----------------------------------------------------------------------------
(* Attestations *)

\* register_creator_stake, of each of B, with purge_creator_self_attestations: what the
\* creator attested before it was known is taken back, and the level computed anew.
RegisterCreators(e, B) ==
    LET new == B \ e.creators
        f == [e EXCEPT
                !.creators = @ \cup new,
                !.atts = [i \in Ids |-> IF i \in new THEN @[i] \ {CreatorOf[i]} ELSE @[i]],
                !.sealAtts = [s \in Seals |-> IF s \in new THEN @[s] \ {CreatorOf[s]} ELSE @[s]]]
        purged == {i \in new : \/ CreatorOf[i] \in e.atts[i]
                               \/ i \in Seals /\ CreatorOf[i] \in e.sealAtts[i]}
    IN  [f EXCEPT !.level = [i \in Ids |-> IF i \in purged THEN LevelFor(f, i) ELSE @[i]]]

\* A registration that keeps what the creator attested before it was known.
MutantRegisterCreator(e, i) == [e EXCEPT !.creators = @ \cup {i}]

RegisterCreator(e, i) == RegisterCreators(e, {i})

IsCreator(e, i, w) == i \in e.creators /\ w = CreatorOf[i]

\* add_attestation: a creator is refused, a repetition changes nothing.
AddAttestation(e, i, w) ==
    IF IsCreator(e, i, w) \/ w \in e.atts[i] THEN e
    ELSE Recompute([e EXCEPT !.atts[i] = @ \cup {w}], i)

\* add_seal_attestation: the attestation that settles the seal promotes its members.
AddSealAttestation(e, s, w) ==
    LET added == [e EXCEPT !.sealAtts[s] = @ \cup {w}]
        settled == [added EXCEPT !.challenge = @ \cup {s}]
    IN  IF IsCreator(e, s, w) \/ w \in e.sealAtts[s] THEN e
        ELSE IF ~IsSealSettled(added, s) THEN added
        ELSE IF s \in e.registered THEN ForceFinalized(settled, e.members[s])
        ELSE settled
-----------------------------------------------------------------------------
(* Seals and their members *)

AtLeastSealed(e, M) ==
    [e EXCEPT !.level = [i \in Ids |-> IF i \in M /\ @[i] < Sealed THEN Sealed ELSE @[i]]]

\* A registration that leaves the promotion to the next attestation.
MutantRegisterSeal(e, s, M) ==
    [AtLeastSealed(e, M) EXCEPT !.registered = @ \cup {s}, !.members[s] = M]

\* register_seal_records: the list replaces the one the engine had, and a seal that is
\* already settled promotes it.
RegisterSeal(e, s, M) ==
    LET r == [AtLeastSealed(e, M) EXCEPT !.registered = @ \cup {s}, !.members[s] = M]
    IN  IF IsSealSettled(r, s) THEN ForceFinalized(r, M) ELSE r

Parked(e) == {o \in Ordinary : e.unresolved[o] # None}

\* register_unresolved_seal_members parks the hashes until the map is full.
ParkUnresolved(e, s, U) ==
    [e EXCEPT !.unresolved = [o \in Ordinary |-> IF o \in U THEN s ELSE @[o]]]
MayPark(e, U, kept) ==
    /\ kept \subseteq U
    /\ \/ kept = U
       \/ Cardinality(Parked(e) \cup kept) = MaxUnresolved
    /\ kept \subseteq Parked(e) \/ Cardinality(Parked(e) \cup kept) <= MaxUnresolved

\* resolve_late_seal_member
ResolveLate(e, o) ==
    LET s == e.unresolved[o]
        freed == [e EXCEPT !.unresolved[o] = None]
        joined == [AtLeastSealed(freed, {o}) EXCEPT !.members[s] = @ \cup {o}]
    IN  IF s = None THEN e
        ELSE IF s \notin e.registered THEN freed
        ELSE IF IsSealSettled(joined, s) THEN ForceFinalized(joined, {o})
        ELSE joined
-----------------------------------------------------------------------------
(* Prunes *)

Without(f, D, default) == [x \in DOMAIN f |-> IF x \in D THEN default ELSE f[x]]

PruneWhere(e, X) ==
    [e EXCEPT !.atts = Without(@, X, {}), !.level = Without(@, X, Pending),
              !.anchored = @ \ X, !.creators = @ \ X]

\* What unregistering the seals of D leaves: their late members are no longer awaited.
Unregister(e, D) ==
    [e EXCEPT !.registered = @ \ D, !.members = Without(@, D, {}), !.challenge = @ \ D,
              !.unresolved = [o \in Ordinary |-> IF @[o] \in e.registered \ D THEN @[o] ELSE None]]

PruneAnchoredSeals(e, X) ==
    Unregister([e EXCEPT !.sealAtts = Without(@, X, {})], X)

\* prune_older_than drops the entries of A and the seal attestations of S, and every
\* registered seal that has no attestation.
PruneOlderThan(e, A, S) ==
    LET a == [e EXCEPT !.atts = Without(@, A, {}), !.sealAtts = Without(@, S, {})]
        idle == Ids \ Tracked(a)
        b == [a EXCEPT !.creators = @ \ idle,
                       !.level = IF A = {} THEN @ ELSE Without(@, idle, Pending),
                       !.anchored = IF A = {} THEN @ ELSE @ \ idle]
    IN  Unregister(b, {s \in Seals : b.sealAtts[s] = {}})
-----------------------------------------------------------------------------
(* Ingest, the state-core worker *)

\* A member is awaited until the worker has looked for the seal that parked it.
Awaited(o) == o \notin stored \/ o = worker

\* Seals that the change from e to f makes forget something it needs: the seal's list,
\* a member on it or awaited for it, the level of a member that is not in the index, or
\* the creator whose stake does not count.
Forgets(e, f) ==
    {s \in Seals :
        \/ s \in e.registered \ f.registered
        \/ s \in e.creators \ f.creators
        \/ \E o \in Listed[s] : o \in e.members[s] \ f.members[s]
        \/ \E o \in Listed[s] \ (index \cup routing) :
               e.level[o] >= Finalized /\ f.level[o] = Pending
        \/ s \in f.registered /\ \E o \in Listed[s] :
               Awaited(o) /\ o \notin f.members[s] /\ f.unresolved[o] # s}

Drive(f) == engine' = f /\ lapsed' = lapsed \cup Forgets(engine, f)
Carry(S) == routing' = routing \cup (S \ index)
Risen(f) == FinalLevel(f) \ FinalLevel(engine)

\* Phases 2 to 4: the record is stored and its creator registered.
IngestStore(i) ==
    /\ worker = None /\ i \notin stored
    /\ stored' = stored \cup {i}
    /\ worker' = i
    /\ Drive(RegisterCreator(engine, i))
    /\ UNCHANGED <<registrar, conflicted, index, routing, phantoms, swept, pruneTicks, mistaken>>

\* Phase 5 of a record: it may be a member that a seal listed before it arrived.
IngestLateMember ==
    /\ worker \in Ordinary
    /\ worker' = None
    /\ LET f == ResolveLate(engine, worker) IN Drive(f) /\ Carry(Risen(f))
    /\ UNCHANGED <<stored, registrar, conflicted, index, phantoms, swept, pruneTicks, mistaken>>

Register(s, M) ==
    \E kept \in SUBSET (Listed[s] \ M) :
        LET f == RegisterSeal(engine, s, M)
        IN  /\ MayPark(f, Listed[s] \ M, kept)
            /\ Drive(ParkUnresolved(f, s, kept))
            /\ Carry(Risen(f))

\* Phase 5 of a seal: its hashes are resolved and its members registered.
IngestSeal ==
    /\ worker \in Seals
    /\ worker' = None
    /\ Register(worker, Listed[worker] \cap stored)
    /\ UNCHANGED <<stored, registrar, conflicted, index, phantoms, swept, pruneTicks, mistaken>>

\* The epoch loop of the node that made the seal resolves the hashes a second time,
\* without the worker, and registers what it found.
CreatorResolves(s) ==
    /\ registrar[s].pc = "resolve"
    /\ s \in stored /\ worker # s
    /\ registrar' = [registrar EXCEPT ![s] = [pc |-> "register", found |-> Listed[s] \cap stored]]
    /\ UNCHANGED <<stored, worker, engine, conflicted, index, routing, phantoms, swept,
                   pruneTicks, lapsed, mistaken>>

CreatorRegisters(s) ==
    /\ registrar[s].pc = "register"
    /\ registrar' = [registrar EXCEPT ![s].pc = "done"]
    /\ Register(s, registrar[s].found)
    /\ UNCHANGED <<stored, worker, conflicted, index, phantoms, swept, pruneTicks, mistaken>>

\* A conflict proof of the slot of a stored record is verified.
FlagConflict(i) ==
    /\ i \in stored
    /\ conflicted' = conflicted \cup {i}
    /\ UNCHANGED <<stored, worker, engine, registrar, index, routing, phantoms, swept,
                   pruneTicks, lapsed, mistaken>>
-----------------------------------------------------------------------------
(* Attestations that arrive *)

\* What a feed makes of the engine, when its read of the record found it or did not.
Fed(i, w, found) ==
    LET a == IF found THEN RegisterCreator(engine, i) ELSE engine
        b == AddAttestation(a, i, w)
    IN  IF found /\ i \in Seals THEN AddSealAttestation(b, i, w) ELSE b

\* The rest of the critical section and the routing after it; gate is the check that the
\* slot of the record is not conflicted.
Settle(i, f, gate) ==
    LET settled == IsSettled(f, i) /\ gate
        g == IF settled THEN ForceFinalized(f, {i}) ELSE f
        promoted == IF i \in Seals THEN Risen(f) \ {i} ELSE {}
    IN  Drive(g) /\ Carry(promoted \cup (IF settled THEN {i} ELSE {}))

\* feed_attestation and batch_feed_attestations.  The record is read before the lock is
\* taken, so it may have arrived since.
Feed(i, w) ==
    /\ \E found \in BOOLEAN :
          /\ found => i \in stored
          /\ Settle(i, Fed(i, w, found), ~(found /\ i \in conflicted))
    /\ UNCHANGED <<stored, worker, registrar, conflicted, index, phantoms, swept, pruneTicks,
                   mistaken>>

\* The pull loop feeds an attestation again that the engine has lost.
Refeed(i, w) ==
    /\ w \notin engine.atts[i]
    /\ \E found \in BOOLEAN : (found => i \in stored) /\ Settle(i, Fed(i, w, found), TRUE)
    /\ UNCHANGED <<stored, worker, registrar, conflicted, index, phantoms, swept, pruneTicks,
                   mistaken>>

\* A routing that ends with one of the ids it carries.
MutantRoute(i) ==
    /\ i \in routing /\ phantoms = {}
    /\ index' = index \cup {i}
    /\ routing' = {}
    /\ UNCHANGED <<stored, worker, engine, registrar, conflicted, phantoms, swept, pruneTicks,
                   lapsed, mistaken>>

\* insert_marked and insert_batch_returning_new, by the task that carries the id.
Route(i) ==
    /\ i \in routing /\ phantoms = {}
    /\ index' = index \cup {i}
    /\ routing' = routing \ {i}
    /\ UNCHANGED <<stored, worker, engine, registrar, conflicted, phantoms, swept, pruneTicks,
                   lapsed, mistaken>>
-----------------------------------------------------------------------------
(* The loops *)

\* A monitor that takes a final level for a sign that the id is on its way.
MutantMonitor ==
    LET new == {i \in Tracked(engine) \ FinalLevel(engine) : i \notin index /\ IsSettled(engine, i)}
    IN  /\ phantoms = {} /\ ~(new \subseteq routing)
        /\ Carry(new)
        /\ UNCHANGED <<stored, worker, engine, registrar, conflicted, index, phantoms, swept,
                       pruneTicks, lapsed, mistaken>>

\* The finality monitor collects what is settled and not in the index.
Monitor ==
    LET new == {i \in Tracked(engine) : i \notin index /\ IsSettled(engine, i)}
    IN  /\ phantoms = {} /\ ~(new \subseteq routing)
        /\ Carry(new)
        /\ UNCHANGED <<stored, worker, engine, registrar, conflicted, index, phantoms, swept,
                       pruneTicks, lapsed, mistaken>>

\* Every fifth cycle it prunes the entries of records that are final, or not stored.  It
\* holds the index for reading meanwhile, and lets go of the engine in between.
Phantoms == {i \in Tracked(engine) : i \notin index /\ i \notin stored}

CollectPhantoms ==
    /\ phantoms = {} /\ Phantoms # {}
    /\ phantoms' = Phantoms
    /\ UNCHANGED <<stored, worker, engine, registrar, conflicted, index, routing, swept,
                   pruneTicks, lapsed, mistaken>>

MonitorPrune ==
    /\ phantoms # {} \/ Phantoms = {}
    /\ phantoms' = {}
    /\ Drive(PruneWhere(engine, index \cup phantoms))
    /\ mistaken' = mistaken \cup (phantoms \cap stored \cap FinalLevel(engine))
    /\ UNCHANGED <<stored, worker, registrar, conflicted, index, routing, swept, pruneTicks>>

\* promote_anchored, of a seal whose challenge window has passed.
PromoteAnchored(s) ==
    /\ s \in engine.challenge /\ phantoms = {}
    /\ LET new == engine.members[s] \ engine.anchored
       IN  /\ Drive([engine EXCEPT
                       !.anchored = @ \cup new,
                       !.level = [i \in Ids |-> IF i \in new THEN Anchored ELSE @[i]],
                       !.challenge = @ \ {s}])
           /\ Carry(new)
    /\ UNCHANGED <<stored, worker, registrar, conflicted, index, phantoms, swept, pruneTicks,
                   mistaken>>

\* The creators of records that the engine tracked and did not know are registered, and
\* what is settled now is finalized.  The records B were listed and read before the lock
\* was taken, and a cycle takes some of them.  The pull loop carries the ids, the epoch
\* loop does not.
Recheck(carried) ==
    \E B \in SUBSET {i \in stored \ engine.creators : Stake[CreatorOf[i]] > 0} :
        LET f == ForceFinalizeSettled(RegisterCreators(engine, B))
        IN  /\ f # engine
            /\ Drive(f)
            /\ Carry(IF carried THEN Risen(f) ELSE {})
            /\ UNCHANGED <<stored, worker, registrar, conflicted, index, phantoms, swept,
                           pruneTicks, mistaken>>

\* The memory prune first routes every id at a final level, then prunes.
SweepFinal ==
    /\ ~swept /\ pruneTicks < MaxPruneTicks /\ phantoms = {}
    /\ swept' = TRUE
    /\ index' = index \cup FinalLevel(engine)
    /\ routing' = routing \ index'
    /\ UNCHANGED <<stored, worker, engine, registrar, conflicted, phantoms, pruneTicks, lapsed,
                   mistaken>>

MemoryPrune ==
    /\ swept
    /\ swept' = FALSE
    /\ pruneTicks' = pruneTicks + 1
    /\ LET e == PruneAnchoredSeals(PruneWhere(engine, index), index)
       IN  \E A \in SUBSET Tracked(e), S \in SUBSET {s \in Seals : e.sealAtts[s] # {}} :
              Drive(PruneOlderThan(e, A, S))
    /\ UNCHANGED <<stored, worker, registrar, conflicted, index, routing, phantoms, mistaken>>
-----------------------------------------------------------------------------
SealFinalityNext ==
    \/ \E i \in Ids : IngestStore(i)
    \/ IngestLateMember
    \/ IngestSeal
    \/ \E s \in LocalSeals : CreatorResolves(s) \/ CreatorRegisters(s)
    \/ \E i \in Ids : FlagConflict(i)
    \/ \E i \in Ids, w \in Stakers : Feed(i, w) \/ Refeed(i, w)
    \/ \E i \in Ids : Route(i)
    \/ Monitor
    \/ CollectPhantoms
    \/ MonitorPrune
    \/ \E s \in Seals : PromoteAnchored(s)
    \/ \E carried \in BOOLEAN : Recheck(carried)
    \/ SweepFinal
    \/ MemoryPrune

\* The monitor ticks for ever, and takes in what is settled before every prune; a task
\* that carries ids gets the lock of the index in its turn (the lock is a fair one).
SealFinalityFairness ==
    /\ SF_sfVars(Monitor) /\ WF_sfVars(phantoms # {} /\ MonitorPrune)
    /\ \A i \in Ids : SF_sfVars(Route(i))

SealFinalitySpec == SealFinalityInit /\ [][SealFinalityNext]_sfVars /\ SealFinalityFairness
-----------------------------------------------------------------------------
(* Properties *)

\* The engine has its fields, and everything else is an id of the right kind.
SealFinalityTypeOK ==
    /\ stored \subseteq Ids /\ worker \in Ids \cup {None}
    /\ engine \in Engines
    /\ registrar \in [LocalSeals -> [pc : {"resolve", "register", "done"}, found : SUBSET Ordinary]]
    /\ conflicted \subseteq Ids /\ index \subseteq Ids /\ routing \subseteq Ids
    /\ phantoms \subseteq Ids /\ swept \in BOOLEAN /\ pruneTicks \in 0..MaxPruneTicks
    /\ lapsed \subseteq Seals /\ mistaken \subseteq Ids

\* The creator of a record is never among its attesters once the engine knows it, and
\* never among those of a seal, whatever the order in which attestations, the record and
\* the prunes come (register_creator_stake, purge_creator_self_attestations).
NoSelfAttestation ==
    /\ \A i \in engine.creators : CreatorOf[i] \notin engine.atts[i]
    /\ \A s \in Seals : CreatorOf[s] \notin engine.sealAtts[s]

Final(o) == o \in index \cup routing \/ engine.level[o] >= Finalized

MembersFinal(s) ==
    s \in stored /\ worker # s /\ IsSealSettled(engine, s)
        => \A o \in Listed[s] : o \in stored \ conflicted /\ worker # o => Final(o)

\* As long as a seal's registration and its creator are kept, every record it lists that
\* this node holds is final or on its way to the index once the seal is settled,
\* whichever of the attestations, the registration and the record came last.  A record
\* whose slot is conflicted is left out: the gate may stop it.
MembersFinalWhileKept == \A s \in Seals \ lapsed : MembersFinal(s)

\* "When enough diverse witnesses attest, the seal reaches Finalized status, and all
\* records in the seal inherit ConfirmationLevel::Finalized" (add_seal_attestation).
SealedRecordsInherit == \A s \in Seals : MembersFinal(s)

\* A record whose level falls from Finalized while it is still tracked is in the index or
\* on its way there, unless its slot is conflicted: recompute_confirmation may lower a
\* level, never lose a finality.
DowngradeKeepsFinality ==
    [][\A i \in Ids \ conflicted :
          engine.level[i] >= Finalized /\ engine'.level[i] = Sealed => i \in (index \cup routing)']_sfVars

\* A record that reaches a final level gets into the index, whichever path raised it and
\* whether or not that path carries it, or is forgotten in one of two windows: between the
\* sweep and the prune of the memory prune, and between the monitor's two looks at a
\* record that arrived late.
FinalIsIndexed ==
    \A i \in Ids : engine.level[i] >= Finalized
        ~> \/ i \in index \cup mistaken
           \/ engine.level[i] = Pending /\ pruneTicks > 0
=============================================================================
