----------------------- MODULE DepositionGeant4Proofs -----------------------
(***************************************************************************)
(* Proofs about DepositionGeant4 for any sensors and any numbers of        *)
(* events, particles, tracks and steps: an event works with its own seeds, *)
(* is dispatched with its own data, and the relations of its deposits,     *)
(* particles and tracks are those of the tracks that Geant4 simulated.     *)
(***************************************************************************)
EXTENDS DepositionGeant4, SequenceTheorems, TLAPS

-----------------------------------------------------------------------------
(* Seeds.  The queue holds the seeds of the event until its first Geant4   *)
(* event takes them, which comes before everything that ends the run.      *)

SeedInv ==
    /\ event \in Nat /\ left \in Nat
    /\ pc # "tracking" => current = NULL /\ waiting = <<>>
    /\ pc = "tracking" => left > 0
    /\ ~stranded =>
         /\ pc \in {"idle", "dispatch"} => state = "Idle" /\ seeds = <<>>
         /\ pc = "beam" => IF seeded THEN seeds = <<>> /\ engine = event
                           ELSE seeds = <<event>> /\ left > 0 /\ ~aborted
         /\ pc = "tracking" => seeded /\ seeds = <<>> /\ engine = event

\* What the hooks leave alone, all of which run while tracks are simulated.
LEMMA HooksInTracking ==
  ASSUME SeedInv, StartTrack \/ Step \/ EndTrack
  PROVE  /\ pc = "tracking"
         /\ UNCHANGED <<recordAll, pc, event, left, seeded, seeds, engine, out, stranded>>
  <1>1. pc = "tracking"
    BY DEF SeedInv, StartTrack, Step, ProcessHits, Scatter, Secondary, NegativeStep,
           EndTrack, Moving
  <1>2. CASE StartTrack
    BY <1>1, <1>2 DEF StartTrack, geant4
  <1>3. CASE Step
    BY <1>1, <1>3 DEF Step, ProcessHits, Scatter, Secondary, NegativeStep, geant4
  <1>4. CASE EndTrack
    BY <1>1, <1>4 DEF EndTrack, geant4
  <1> QED BY <1>2, <1>3, <1>4

\* No seeds are left over before the first event.
LEMMA SeedInit == Init => SeedInv
  BY DEF Init, SeedInv

\* Every step keeps the invariant of the seeds.
LEMMA SeedStep ==
  ASSUME SeedInv, [Next]_vars
  PROVE  SeedInv'
  <1> USE DEF SeedInv
  <1>1. CASE Run
    <2>1. /\ pc = "idle" /\ event' = event + 1 /\ seeds' = Append(seeds, event + 1)
          /\ UNCHANGED <<stranded, current, waiting>>
          /\ IF state = "Idle" THEN pc' = "beam" /\ left' = NumParticles /\ ~aborted' /\ ~seeded'
             ELSE pc' = "dispatch" /\ left' = left
      BY <1>1 DEF Run
    <2>2. NumParticles \in Nat \ {0}
      BY Geant4Assumption
    <2>3. ~stranded => state = "Idle" /\ seeds' = <<event'>>
      BY <2>1
    <2> QED BY <2>1, <2>2, <2>3
  <1>2. CASE GenerateEvent
    <2>1. pc = "beam" /\ left > 0 /\ TakeSeeds /\ pc' = "tracking"
          /\ UNCHANGED <<event, left, stranded>>
      BY <1>2 DEF GenerateEvent
    <2>2. ~stranded => seeded' /\ seeds' = <<>> /\ engine' = event
      BY <2>1 DEF TakeSeeds, SeedNow
    <2> QED BY <2>1, <2>2
  <1>3. CASE TerminateEvent
    BY <1>3 DEF TerminateEvent, tracking
  <1>4. CASE TerminateBeam
    BY <1>4 DEF TerminateBeam, tracking
  <1>5. CASE Dispatch
    BY <1>5 DEF Dispatch, geant4, tracking
  <1>6. CASE StartTrack \/ Step \/ EndTrack
    BY <1>6, HooksInTracking
  <1>7. CASE AbortEvent
    BY <1>7 DEF AbortEvent, Abort
  <1>11. CASE AbortPrimaries
    <2>1. pc = "beam" /\ left > 0 /\ TakeSeeds /\ Abort
      BY <1>11 DEF AbortPrimaries
    <2>2. ~stranded => seeds' = <<>>
      BY <2>1 DEF TakeSeeds, SeedNow
    <2> QED BY <2>1, <2>2 DEF Abort
  <1>8. CASE OtherException
    BY <1>8 DEF OtherException, Strand
  <1>9. CASE NoMorePrimaries
    BY <1>9 DEF NoMorePrimaries, Strand
  <1>10. CASE UNCHANGED vars
    BY <1>10 DEF vars, geant4, tracking
  <1> QED BY <1>1, <1>2, <1>3, <1>4, <1>5, <1>6, <1>7, <1>8, <1>9, <1>10, <1>11 DEF Next

\* The invariant of the seeds holds.
LEMMA SeedInvariant == Spec => []SeedInv
  <1>1. Init => SeedInv
    BY SeedInit
  <1>2. SeedInv /\ [Next]_vars => SeedInv'
    BY SeedStep
  <1> QED BY <1>1, <1>2, PTL DEF Spec

\* Geant4 works with the seeds of the event it simulates, whatever became of the
\* events before it, and none are left over.
THEOREM SeedsMatchHolds == Spec => []SeedsMatch
  <1>1. SeedInv => SeedsMatch
    BY DEF SeedInv, SeedsMatch
  <1> QED BY <1>1, SeedInvariant, PTL

-----------------------------------------------------------------------------
(* Types.  A track that waits or is in work has its parent's number.       *)

Numbered(S) == UNION {[D -> S] : D \in SUBSET Nat}
HitTracks == Numbered([parent : Nat, self : Selves])
HitDeposits == Seq([id : Nat, self : Selves])

TypeInv ==
    /\ waiting \in Seq(Tracks) /\ lastTrack \in Nat
    /\ current \in TracksInWork \cup {NULL}
    /\ manager \in [counter : Nat \ {0}, ids : Numbered(Nat), parents : Numbered(Nat),
                   toStore : SUBSET Nat, infos : Seq(Infos)]
    /\ hits \in [Sensors -> [tracks : HitTracks, deposits : HitDeposits]]
    /\ rayleigh \in Seq(Nat)
    /\ truth \in [deposits : [Sensors -> Seq(Selves)], scatters : Nat, tracks : Seq(Started)]
    /\ \A i \in DOMAIN waiting : waiting[i].parent \in {0} \cup DOMAIN manager.ids
    /\ current # NULL => current.track.g4 \in DOMAIN manager.ids

\* Membership in Numbered, for sets and functions of the model.
LEMMA NumberedIn ==
  ASSUME NEW S, NEW f \in Numbered(S)
  PROVE  /\ DOMAIN f \subseteq Nat /\ f \in [DOMAIN f -> S]
  BY DEF Numbered

LEMMA NumberedBy ==
  ASSUME NEW S, NEW D \in SUBSET Nat, NEW f \in [D -> S]
  PROVE  f \in Numbered(S)
  BY DEF Numbered

\* Set() changes one entry of a function, or adds it.
LEMMA SetEntry ==
  ASSUME NEW S, NEW f \in Numbered(S), NEW k \in Nat, NEW v \in S
  PROVE  /\ Set(f, k, v) \in Numbered(S)
         /\ DOMAIN Set(f, k, v) = DOMAIN f \cup {k}
         /\ Set(f, k, v)[k] = v
         /\ \A x \in DOMAIN f : x # k => Set(f, k, v)[x] = f[x]
  <1>1. DOMAIN f \subseteq Nat /\ f \in [DOMAIN f -> S]
    BY NumberedIn
  <1>2. Set(f, k, v) \in [DOMAIN f \cup {k} -> S]
    BY <1>1 DEF Set
  <1>3. Set(f, k, v) \in Numbered(S)
    BY <1>1, <1>2, NumberedBy
  <1> QED BY <1>1, <1>2, <1>3 DEF Set

\* What resetTrackInfoManager() and clearEventInfo() leave is well typed.
LEMMA EmptyTyped ==
  /\ NoTracks \in [counter : Nat \ {0}, ids : Numbered(Nat), parents : Numbered(Nat),
                   toStore : SUBSET Nat, infos : Seq(Infos)]
  /\ NoHits \in [tracks : HitTracks, deposits : HitDeposits]
  /\ Nothing \in [deposits : [Sensors -> Seq(Selves)], scatters : Nat, tracks : Seq(Started)]
  <1>1. \A S : <<>> \in Numbered(S)
    <2> SUFFICES ASSUME NEW S PROVE <<>> \in Numbered(S)
      OBVIOUS
    <2>1. <<>> \in [{} -> S]
      OBVIOUS
    <2> QED BY <2>1, NumberedBy, {} \in SUBSET Nat
  <1>2. \A S : <<>> \in Seq(S)
    BY EmptySeq
  <1>3. NoTracks \in [counter : Nat \ {0}, ids : Numbered(Nat), parents : Numbered(Nat),
                   toStore : SUBSET Nat, infos : Seq(Infos)]
    BY <1>1, <1>2 DEF NoTracks
  <1>4. NoHits \in [tracks : HitTracks, deposits : HitDeposits]
    BY <1>1, <1>2 DEF NoHits, HitTracks, HitDeposits
  <1>5. Nothing \in [deposits : [Sensors -> Seq(Selves)], scatters : Nat, tracks : Seq(Started)]
    BY <1>2 DEF Nothing
  <1> QED BY <1>3, <1>4, <1>5

LEMMA TypeInit == Init => TypeInv
  <1> SUFFICES ASSUME Init PROVE TypeInv
    OBVIOUS
  <1>1. /\ waiting = <<>> /\ lastTrack = 0 /\ current = NULL /\ manager = NoTracks
        /\ hits = [s \in Sensors |-> NoHits] /\ rayleigh = <<>> /\ truth = Nothing
    BY DEF Init
  <1>2. waiting \in Seq(Tracks) /\ rayleigh \in Seq(Nat) /\ DOMAIN waiting = {}
    BY <1>1, EmptySeq
  <1> QED BY <1>1, <1>2, EmptyTyped DEF TypeInv

\* Track() makes a track.
LEMMA TrackTyped ==
  ASSUME SeedInv, NEW g4 \in Nat, NEW from \in Nat, NEW born \in Volumes,
         NEW whose \in Selves \cup {NULL}
  PROVE  Track(g4, from, born, whose) \in Tracks
  BY DEF SeedInv, Track, Tracks, Selves

\* The types of the hits survive one.
LEMMA HitTyped ==
  ASSUME SeedInv, TypeInv, NEW s \in Sensors, NEW charged \in BOOLEAN,
         ProcessHits(s, charged)
  PROVE  /\ hits' \in [Sensors -> [tracks : HitTracks, deposits : HitDeposits]]
         /\ \A r \in Sensors \ {s} : hits'[r] = hits[r]
         /\ hits'[s].tracks =
              IF current.id \in DOMAIN hits[s].tracks THEN hits[s].tracks
              ELSE Set(hits[s].tracks, current.id,
                       [parent |-> ParentIn(s), self |-> current.track.self])
         /\ hits'[s].deposits =
              IF charged
              THEN Append(hits[s].deposits, [id |-> current.id, self |-> current.track.self])
              ELSE hits[s].deposits
  <1> DEFINE first == [parent |-> ParentIn(s), self |-> current.track.self]
             tracks == IF current.id \in DOMAIN hits[s].tracks THEN hits[s].tracks
                       ELSE Set(hits[s].tracks, current.id, first)
             deposits == IF charged
                         THEN Append(hits[s].deposits,
                                     [id |-> current.id, self |-> current.track.self])
                         ELSE hits[s].deposits
  <1>1. current \in TracksInWork /\ current.id \in Nat /\ current.track.self \in Selves
        /\ current.parent \in Nat
    BY DEF ProcessHits, Moving, TypeInv, TracksInWork, Tracks
  <1>2. hits[s] \in [tracks : HitTracks, deposits : HitDeposits]
    BY DEF TypeInv
  <1>3. first \in [parent : Nat, self : Selves]
    BY <1>1 DEF ParentIn
  <1>4. tracks \in HitTracks
    <2>1. hits[s].tracks \in Numbered([parent : Nat, self : Selves])
      BY <1>2 DEF HitTracks
    <2> HIDE DEF first
    <2>2. Set(hits[s].tracks, current.id, first) \in Numbered([parent : Nat, self : Selves])
      BY <1>1, <1>3, <2>1, SetEntry
    <2> QED BY <2>1, <2>2 DEF HitTracks
  <1>5. deposits \in HitDeposits
    <2>1. hits[s].deposits \in Seq([id : Nat, self : Selves])
      BY <1>2 DEF HitDeposits
    <2>2. [id |-> current.id, self |-> current.track.self] \in [id : Nat, self : Selves]
      BY <1>1
    <2>3. Append(hits[s].deposits, [id |-> current.id, self |-> current.track.self])
            \in Seq([id : Nat, self : Selves])
      BY <2>1, <2>2, AppendProperties
    <2> QED BY <2>1, <2>3 DEF HitDeposits
  <1>6. hits' = [hits EXCEPT ![s].tracks = tracks, ![s].deposits = deposits]
    BY DEF ProcessHits
  <1>7. hits \in [Sensors -> [tracks : HitTracks, deposits : HitDeposits]]
    BY DEF TypeInv
  <1> HIDE DEF tracks, deposits
  <1>8. /\ hits' = [r \in Sensors |-> IF r = s THEN [tracks |-> tracks, deposits |-> deposits]
                                      ELSE hits[r]]
    <2>1. hits' = [hits EXCEPT ![s] = [[hits[s] EXCEPT !.tracks = tracks] EXCEPT !.deposits = deposits]]
      BY <1>6, <1>7
    <2>2. [[hits[s] EXCEPT !.tracks = tracks] EXCEPT !.deposits = deposits]
            = [tracks |-> tracks, deposits |-> deposits]
      <3>1. PICK r : r = [hits[s] EXCEPT !.tracks = tracks]
        OBVIOUS
      <3>2. r = [tracks |-> tracks, deposits |-> hits[s].deposits]
        BY <1>2, <3>1
      <3>3. [r EXCEPT !.deposits = deposits] = [tracks |-> tracks, deposits |-> deposits]
        BY <3>2
      <3> QED BY <3>1, <3>3
    <2> QED BY <1>7, <2>1, <2>2
  <1>9. /\ hits' \in [Sensors -> [tracks : HitTracks, deposits : HitDeposits]]
        /\ hits'[s].tracks = tracks /\ hits'[s].deposits = deposits
        /\ \A r \in Sensors \ {s} : hits'[r] = hits[r]
    BY <1>4, <1>5, <1>7, <1>8
  <1> QED BY <1>9 DEF tracks, deposits, first

\* Every step keeps the types.
LEMMA TypeStep ==
  ASSUME SeedInv, SeedInv', TypeInv, [Next]_vars
  PROVE  TypeInv'
  <1> DEFINE Managers == [counter : Nat \ {0}, ids : Numbered(Nat), parents : Numbered(Nat),
                          toStore : SUBSET Nat, infos : Seq(Infos)]
             Truths == [deposits : [Sensors -> Seq(Selves)], scatters : Nat,
                        tracks : Seq(Started)]
             HitSets == [Sensors -> [tracks : HitTracks, deposits : HitDeposits]]
  <1>0. /\ waiting \in Seq(Tracks) /\ lastTrack \in Nat
        /\ current \in TracksInWork \cup {NULL} /\ manager \in Managers /\ hits \in HitSets
        /\ rayleigh \in Seq(Nat) /\ truth \in Truths
        /\ \A i \in DOMAIN waiting : waiting[i].parent \in {0} \cup DOMAIN manager.ids
        /\ current # NULL => current.track.g4 \in DOMAIN manager.ids
    BY DEF TypeInv
  <1>1. CASE Run
    <2>1. /\ UNCHANGED <<waiting, current, manager, hits>>
          /\ lastTrack' = 0 /\ rayleigh' = <<>> /\ truth' = Nothing
      BY <1>1 DEF Run
    <2> QED BY <1>0, <2>1, EmptySeq, EmptyTyped DEF TypeInv
  <1>2. CASE GenerateEvent
    <2>1. UNCHANGED <<current, manager, hits, rayleigh, truth>> /\ pc = "beam"
      BY <1>2 DEF GenerateEvent
    <2>2. PICK n \in 1 .. 2 : /\ waiting' = [i \in 1 .. n |-> Track(i, 0, World, NULL)]
                              /\ lastTrack' = n
      BY <1>2 DEF GenerateEvent
    <2>3. \A i \in 1 .. n : Track(i, 0, World, NULL) \in Tracks
                            /\ Track(i, 0, World, NULL).parent = 0
      BY TrackTyped DEF Volumes, Track
    <2>4. waiting' \in Seq(Tracks)
      BY <2>2, <2>3, IsASeq
    <2>5. \A i \in DOMAIN waiting' : waiting'[i].parent = 0
      BY <2>2, <2>3
    <2> QED BY <1>0, <2>1, <2>2, <2>4, <2>5 DEF TypeInv
  <1>3. CASE TerminateEvent \/ TerminateBeam
    BY <1>0, <1>3 DEF TerminateEvent, TerminateBeam, tracking, TypeInv
  <1>4. CASE Dispatch
    <2>1. /\ UNCHANGED <<waiting, current, lastTrack, truth>> /\ pc = "dispatch"
          /\ hits' = [s \in Sensors |-> NoHits] /\ rayleigh' = <<>> /\ manager' = NoTracks
      BY <1>4 DEF Dispatch, Clear, tracking
    <2>2. current = NULL /\ waiting = <<>>
      BY <2>1 DEF SeedInv
    <2> QED BY <1>0, <2>1, <2>2, EmptyTyped, EmptySeq DEF TypeInv
  <1>5. CASE AbortEvent \/ AbortPrimaries
    <2>1. /\ UNCHANGED <<lastTrack, truth>> /\ current' = NULL /\ waiting' = <<>>
          /\ hits' = [s \in Sensors |-> NoHits] /\ rayleigh' = <<>> /\ manager' = NoTracks
      BY <1>5 DEF AbortEvent, AbortPrimaries, Abort, Clear
    <2> QED BY <1>0, <2>1, EmptyTyped, EmptySeq DEF TypeInv
  <1>6. CASE OtherException \/ NoMorePrimaries
    <2>1. /\ UNCHANGED <<lastTrack, truth, manager, hits, rayleigh>>
          /\ current' = NULL /\ waiting' = <<>>
      BY <1>6 DEF OtherException, NoMorePrimaries, Strand
    <2> QED BY <1>0, <2>1, EmptySeq DEF TypeInv
  <1>7. CASE StartTrack
    <2> DEFINE t == Last(waiting)
               id == manager.counter
               parent == IF t.parent = 0 THEN 0 ELSE manager.ids[t.parent]
    <2>1. /\ current' = [track |-> t, id |-> id, parent |-> parent] /\ waiting' = Front(waiting)
          /\ manager' = [manager EXCEPT !.counter = id + 1, !.ids = Set(@, t.g4, id),
                                        !.parents = Set(@, id, parent)]
          /\ truth' = [truth EXCEPT !.tracks =
                Append(@, [self |-> t.self, from |-> t.from, born |-> t.born])]
          /\ UNCHANGED <<lastTrack, hits, rayleigh>> /\ waiting # <<>>
      BY <1>7 DEF StartTrack
    <2>2. /\ Len(waiting) \in Nat \ {0} /\ t \in Tracks /\ t = waiting[Len(waiting)]
          /\ Front(waiting) = SubSeq(waiting, 1, Len(waiting) - 1)
          /\ Len(waiting) \in DOMAIN waiting
      BY <1>0, <2>1, EmptySeq DEF Last, Front
    <2>3. /\ waiting' \in Seq(Tracks) /\ DOMAIN waiting' \subseteq DOMAIN waiting
          /\ \A i \in DOMAIN waiting' : waiting'[i] = waiting[i]
      BY <1>0, <2>1, <2>2
    <2>4. id \in Nat \ {0} /\ t.g4 \in Nat /\ t.self \in Selves
      BY <1>0, <2>2 DEF Tracks
    <2>5. parent \in Nat
      <3>1. manager.ids \in [DOMAIN manager.ids -> Nat]
        BY <1>0, NumberedIn
      <3> QED BY <1>0, <2>2, <3>1
    <2> HIDE DEF t, id, parent
    <2>6. /\ Set(manager.ids, t.g4, id) \in Numbered(Nat)
          /\ DOMAIN Set(manager.ids, t.g4, id) = DOMAIN manager.ids \cup {t.g4}
          /\ Set(manager.parents, id, parent) \in Numbered(Nat)
      <3>1. manager.ids \in Numbered(Nat) /\ manager.parents \in Numbered(Nat)
        BY <1>0
      <3>2. /\ Set(manager.ids, t.g4, id) \in Numbered(Nat)
            /\ DOMAIN Set(manager.ids, t.g4, id) = DOMAIN manager.ids \cup {t.g4}
        <4>1. manager.ids \in Numbered(Nat) /\ t.g4 \in Nat /\ id \in Nat
          BY <2>4, <3>1
        <4>2. Set(manager.ids, t.g4, id) \in Numbered(Nat)
          BY <4>1, SetEntry
        <4>3. DOMAIN Set(manager.ids, t.g4, id) = DOMAIN manager.ids \cup {t.g4}
          BY DEF Set
        <4> QED BY <4>2, <4>3
      <3>3. Set(manager.parents, id, parent) \in Numbered(Nat)
        BY <2>4, <2>5, <3>1, SetEntry
      <3> QED BY <3>2, <3>3
    <2>7. /\ manager' \in Managers /\ manager'.ids = Set(manager.ids, t.g4, id)
      <3>1. manager' = [counter |-> id + 1, ids |-> Set(manager.ids, t.g4, id),
                        parents |-> Set(manager.parents, id, parent),
                        toStore |-> manager.toStore, infos |-> manager.infos]
        BY <1>0, <2>1
      <3> QED BY <1>0, <2>4, <2>6, <3>1
    <2>8. current' \in TracksInWork /\ current'.track = t
      BY <2>1, <2>2, <2>4, <2>5 DEF TracksInWork
    <2>9. truth' \in Truths
      <3>1. [self |-> t.self, from |-> t.from, born |-> t.born] \in Started
        BY <2>2 DEF Tracks, Started
      <3>2. Append(truth.tracks, [self |-> t.self, from |-> t.from, born |-> t.born])
              \in Seq(Started)
        BY <1>0, <3>1, AppendProperties
      <3> QED BY <1>0, <2>1, <3>2
    <2>10. \A i \in DOMAIN waiting' : waiting'[i].parent \in {0} \cup DOMAIN manager'.ids
      BY <1>0, <2>3, <2>6, <2>7
    <2> QED BY <1>0, <2>1, <2>3, <2>6, <2>7, <2>8, <2>9, <2>10 DEF TypeInv
  <1>8. CASE \E s \in Sensors, charged \in BOOLEAN : ProcessHits(s, charged)
    <2> PICK s \in Sensors, charged \in BOOLEAN : ProcessHits(s, charged)
      BY <1>8
    <2>1. /\ manager' = IF current.id \in DOMAIN hits[s].tracks THEN manager
                        ELSE [manager EXCEPT !.toStore = @ \cup {current.id}]
          /\ truth' = IF charged
                THEN [truth EXCEPT !.deposits[s] = Append(@, current.track.self)] ELSE truth
          /\ UNCHANGED <<waiting, current, lastTrack, rayleigh>> /\ current # NULL
      BY DEF ProcessHits, Moving, tracking
    <2>2. current.id \in Nat /\ current.track.self \in Selves
      BY <1>0, <2>1 DEF TracksInWork, Tracks
    <2>3. manager' \in Managers /\ manager'.ids = manager.ids
      BY <1>0, <2>1, <2>2
    <2>4. truth' \in Truths
      <3>1. Append(truth.deposits[s], current.track.self) \in Seq(Selves)
        BY <1>0, <2>2, AppendProperties
      <3> QED BY <1>0, <2>1, <3>1
    <2>5. hits' \in HitSets
      BY HitTyped
    <2> QED BY <1>0, <2>1, <2>3, <2>4, <2>5 DEF TypeInv
  <1>9. CASE Scatter
    <2>1. /\ rayleigh' = Append(rayleigh, event) /\ truth' = [truth EXCEPT !.scatters = @ + 1]
          /\ UNCHANGED <<waiting, current, lastTrack, manager, hits>>
      BY <1>9 DEF Scatter, tracking
    <2>2. rayleigh' \in Seq(Nat) /\ truth' \in Truths
      <3>1. event \in Nat
        BY DEF SeedInv
      <3>2. rayleigh' \in Seq(Nat)
        BY <1>0, <2>1, <3>1, AppendProperties
      <3>3. truth' = [deposits |-> truth.deposits, scatters |-> truth.scatters + 1,
                      tracks |-> truth.tracks]
        BY <1>0, <2>1
      <3> QED BY <1>0, <3>2, <3>3
    <2> QED BY <1>0, <2>1, <2>2 DEF TypeInv
  <1>10. CASE \E volume \in Volumes : Secondary(volume)
    <2> PICK volume \in Volumes : Secondary(volume)
      BY <1>10
    <2> DEFINE t == Track(lastTrack + 1, current.track.g4, volume, current.track.self)
    <2>1. /\ lastTrack' = lastTrack + 1 /\ waiting' = Append(waiting, t)
          /\ UNCHANGED <<current, manager, hits, rayleigh, truth>> /\ current # NULL
      BY DEF Secondary, Moving
    <2>2. t \in Tracks /\ t.parent = current.track.g4
      <3>1. current.track.g4 \in Nat /\ current.track.self \in Selves
        BY <1>0, <2>1 DEF TracksInWork, Tracks
      <3>2. lastTrack + 1 \in Nat /\ current.track.self \in Selves \cup {NULL}
        BY <1>0, <3>1
      <3>3. t \in Tracks
        BY <3>1, <3>2, TrackTyped
      <3> QED BY <3>3 DEF Track
    <2> HIDE DEF t
    <2>3. /\ waiting' \in Seq(Tracks) /\ DOMAIN waiting' = 1 .. Len(waiting) + 1
          /\ waiting'[Len(waiting) + 1] = t
          /\ \A i \in 1 .. Len(waiting) : waiting'[i] = waiting[i]
      BY <1>0, <2>1, <2>2, AppendProperties
    <2>4. \A i \in DOMAIN waiting' : waiting'[i].parent \in {0} \cup DOMAIN manager.ids
      BY <1>0, <2>1, <2>2, <2>3
    <2> QED BY <1>0, <2>1, <2>3, <2>4 DEF TypeInv
  <1>11. CASE NegativeStep
    BY <1>0, <1>11, EmptySeq DEF NegativeStep, TypeInv
  <1>12. CASE EndTrack
    <2> DEFINE info == [id |-> current.id, self |-> current.track.self,
                        from |-> current.track.from, born |-> current.track.born]
    <2>1. /\ manager' = [manager EXCEPT
               !.infos   = IF recordAll \/ info.id \in manager.toStore THEN Append(@, info) ELSE @,
               !.toStore = @ \ {info.id}]
          /\ UNCHANGED <<waiting, lastTrack, hits, rayleigh, truth>>
          /\ current' = NULL /\ current # NULL
      BY <1>12 DEF EndTrack
    <2>2. info \in Infos
      BY <1>0, <2>1 DEF TracksInWork, Tracks, Infos
    <2> HIDE DEF info
    <2>3. Append(manager.infos, info) \in Seq(Infos)
      BY <1>0, <2>2, AppendProperties
    <2>4. manager' \in Managers /\ manager'.ids = manager.ids
      BY <1>0, <2>1, <2>3
    <2> QED BY <1>0, <2>1, <2>4 DEF TypeInv
  <1>13. CASE UNCHANGED vars
    BY <1>0, <1>13 DEF vars, tracking, TypeInv
  <1> QED BY <1>1, <1>2, <1>3, <1>4, <1>5, <1>6, <1>7, <1>8, <1>9, <1>10, <1>11, <1>12, <1>13
          DEF Next, Step

\* The types hold.
LEMMA TypeInvariant == Spec => []TypeInv
  <1>1. Init => TypeInv
    BY TypeInit
  <1>2. SeedInv /\ SeedInv' /\ TypeInv /\ [Next]_vars => TypeInv'
    BY TypeStep
  <1> QED BY <1>1, <1>2, SeedInvariant, PTL DEF Spec

-----------------------------------------------------------------------------
(* Data.  Between Run and the dispatch the hooks have collected just what  *)
(* happened in the event, and an idle thread has nothing left.             *)

Selfs(deposits) == [i \in DOMAIN deposits |-> deposits[i].self]
Repeated(n) == [i \in 1 .. n |-> event]

DataInv ==
    /\ pc # "idle" => out = NULL
    /\ ~stranded =>
         /\ pc = "idle" => manager = NoTracks /\ hits = [s \in Sensors |-> NoHits]
         /\ pc # "idle" => /\ \A s \in Sensors : Selfs(hits[s].deposits) = truth.deposits[s]
                           /\ rayleigh = Repeated(truth.scatters)

\* The list of selves grows with the list of deposits.
LEMMA SelfsAppend ==
  ASSUME NEW ds \in HitDeposits, NEW d \in [id : Nat, self : Selves]
  PROVE  Selfs(Append(ds, d)) = Append(Selfs(ds), d.self)
  <1>1. ds \in Seq([id : Nat, self : Selves])
    BY DEF HitDeposits
  <1>2. /\ Len(ds) \in Nat /\ DOMAIN ds = 1 .. Len(ds)
        /\ DOMAIN Append(ds, d) = 1 .. Len(ds) + 1
        /\ \A i \in 1 .. Len(ds) : Append(ds, d)[i] = ds[i]
        /\ Append(ds, d)[Len(ds) + 1] = d
    BY <1>1, AppendProperties, LenProperties
  <1>3. Selfs(ds) \in Seq(Selves) /\ Len(Selfs(ds)) = Len(ds)
    <2>1. \A i \in 1 .. Len(ds) : ds[i].self \in Selves
      <3>1. \A i \in 1 .. Len(ds) : ds[i] \in [id : Nat, self : Selves]
        BY <1>1, ElementOfSeq
      <3> QED BY <3>1
    <2>2. Selfs(ds) = [i \in 1 .. Len(ds) |-> ds[i].self]
      BY <1>2 DEF Selfs
    <2>3. [i \in 1 .. Len(ds) |-> ds[i].self] \in Seq(Selves)
      BY <1>2, <2>1, IsASeq
    <2>4. DOMAIN Selfs(ds) = 1 .. Len(ds)
      BY <2>2
    <2> QED BY <1>2, <2>2, <2>3, <2>4, LenProperties
  <1>4. /\ DOMAIN Append(Selfs(ds), d.self) = 1 .. Len(ds) + 1
        /\ \A i \in 1 .. Len(ds) : Append(Selfs(ds), d.self)[i] = ds[i].self
        /\ Append(Selfs(ds), d.self)[Len(ds) + 1] = d.self
    BY <1>2, <1>3, AppendProperties DEF Selfs
  <1>5. Append(Selfs(ds), d.self) = [i \in 1 .. Len(ds) + 1 |-> Append(Selfs(ds), d.self)[i]]
    BY <1>3, <1>4, AppendProperties
  <1>6. Selfs(Append(ds, d)) = [i \in 1 .. Len(ds) + 1 |-> Append(ds, d)[i].self]
    BY <1>2 DEF Selfs
  <1>7. \A i \in 1 .. Len(ds) + 1 : Append(ds, d)[i].self = Append(Selfs(ds), d.self)[i]
    BY <1>2, <1>4
  <1> QED BY <1>5, <1>6, <1>7

\* One more scatter of the event.
LEMMA RepeatedAppend ==
  ASSUME NEW n \in Nat, event \in Nat
  PROVE  Append(Repeated(n), event) = Repeated(n + 1)
  <1>1. Repeated(n) \in Seq(Nat) /\ Len(Repeated(n)) = n
    BY IsASeq DEF Repeated
  <1>2. /\ DOMAIN Append(Repeated(n), event) = 1 .. n + 1
        /\ Append(Repeated(n), event) \in Seq(Nat)
        /\ \A i \in 1 .. n : Append(Repeated(n), event)[i] = event
        /\ Append(Repeated(n), event)[n + 1] = event
    BY <1>1, AppendProperties DEF Repeated
  <1>3. Append(Repeated(n), event) = [i \in 1 .. n + 1 |-> Append(Repeated(n), event)[i]]
    <2> DEFINE longer == Append(Repeated(n), event)
    <2>1. longer \in Seq(Nat) /\ DOMAIN longer = 1 .. n + 1
      BY <1>2
    <2> HIDE DEF longer
    <2>2. longer = [i \in 1 .. n + 1 |-> longer[i]]
      BY <2>1, LenProperties
    <2> QED BY <2>2 DEF longer
  <1>4. \A i \in 1 .. n + 1 : Append(Repeated(n), event)[i] = event
    BY <1>2
  <1> QED BY <1>3, <1>4 DEF Repeated

LEMMA DataInit == Init => DataInv
  BY DEF Init, DataInv

\* Every step keeps the data of the event, and no other data.
LEMMA DataStep ==
  ASSUME SeedInv, TypeInv, DataInv, [Next]_vars
  PROVE  DataInv'
  <1> USE DEF DataInv
  <1>1. CASE Run
    <2>1. /\ pc = "idle" /\ pc' # "idle" /\ out' = NULL /\ rayleigh' = <<>> /\ truth' = Nothing
          /\ UNCHANGED <<hits, stranded>>
      BY <1>1 DEF Run
    <2>2. ~stranded => \A s \in Sensors : Selfs(hits'[s].deposits) = <<>>
      BY <2>1 DEF NoHits, Selfs
    <2>3. Repeated(0)' = <<>>
      BY DEF Repeated
    <2> QED BY <2>1, <2>2, <2>3 DEF Nothing, Repeated
  <1>2. CASE GenerateEvent \/ TerminateEvent \/ TerminateBeam
    BY <1>2 DEF GenerateEvent, TerminateEvent, TerminateBeam, Repeated
  <1>3. CASE Dispatch
    BY <1>3 DEF Dispatch, Clear
  <1>4. CASE AbortEvent \/ AbortPrimaries
    BY <1>4 DEF AbortEvent, AbortPrimaries, Abort, Clear
  <1>5. CASE OtherException \/ NoMorePrimaries
    BY <1>5 DEF OtherException, NoMorePrimaries, Strand
  <1>6. CASE StartTrack \/ Step \/ EndTrack
    <2>0. /\ pc = "tracking"
          /\ UNCHANGED <<pc, event, out, stranded>>
      BY <1>6, HooksInTracking
    <2>1. CASE StartTrack
      <3>1. PICK tracks : truth' = [truth EXCEPT !.tracks = tracks]
        BY <2>1 DEF StartTrack
      <3>2. truth'.deposits = truth.deposits /\ truth'.scatters = truth.scatters
        BY <3>1 DEF TypeInv
      <3>3. UNCHANGED <<hits, rayleigh>>
        BY <2>1 DEF StartTrack
      <3> QED BY <2>0, <3>2, <3>3 DEF Repeated
    <2>2. CASE \E s \in Sensors, charged \in BOOLEAN : ProcessHits(s, charged)
      <3> PICK s \in Sensors, charged \in BOOLEAN : ProcessHits(s, charged)
        BY <2>2
      <3> DEFINE d == [id |-> current.id, self |-> current.track.self]
      <3>1. d \in [id : Nat, self : Selves] /\ d.self = current.track.self
        BY DEF ProcessHits, Moving, TypeInv, TracksInWork, Tracks
      <3>2. /\ truth' = IF charged THEN [truth EXCEPT !.deposits[s] = Append(@, d.self)] ELSE truth
            /\ rayleigh' = rayleigh
        BY <3>1 DEF ProcessHits
      <3>3. /\ \A r \in Sensors \ {s} : hits'[r] = hits[r]
            /\ hits'[s].deposits = IF charged THEN Append(hits[s].deposits, d)
                                   ELSE hits[s].deposits
        BY HitTyped
      <3> HIDE DEF d
      <3>4. /\ truth'.scatters = truth.scatters
            /\ \A r \in Sensors : truth'.deposits[r] =
                 IF r = s /\ charged THEN Append(truth.deposits[r], d.self) ELSE truth.deposits[r]
        BY <3>2 DEF TypeInv
      <3>5. Selfs(Append(hits[s].deposits, d)) = Append(Selfs(hits[s].deposits), d.self)
        <4>1. hits[s].deposits \in HitDeposits
          BY DEF TypeInv
        <4> QED BY <3>1, <4>1, SelfsAppend
      <3>6. ~stranded => \A r \in Sensors : Selfs(hits'[r].deposits) = truth'.deposits[r]
        BY <2>0, <3>3, <3>4, <3>5
      <3> QED BY <2>0, <3>2, <3>4, <3>6 DEF Repeated
    <2>3. CASE Scatter
      <3>1. /\ rayleigh' = Append(rayleigh, event) /\ truth' = [truth EXCEPT !.scatters = @ + 1]
            /\ UNCHANGED hits
        BY <2>3 DEF Scatter
      <3>2. /\ truth'.deposits = truth.deposits /\ truth'.scatters = truth.scatters + 1
            /\ truth.scatters \in Nat
        BY <3>1 DEF TypeInv
      <3>3. Append(Repeated(truth.scatters), event) = Repeated(truth.scatters + 1)
        BY <3>2, RepeatedAppend DEF SeedInv
      <3>4. Repeated(truth.scatters)' = Repeated(truth.scatters + 1)
        BY <2>0, <3>2 DEF Repeated
      <3> QED BY <2>0, <3>1, <3>2, <3>3, <3>4
    <2>4. CASE EndTrack \/ NegativeStep \/ \E volume \in Volumes : Secondary(volume)
      BY <2>0, <2>4 DEF EndTrack, NegativeStep, Secondary, Repeated
    <2> QED BY <1>6, <2>1, <2>2, <2>3, <2>4 DEF Step
  <1>7. CASE UNCHANGED vars
    BY <1>7 DEF vars, Repeated
  <1> QED BY <1>1, <1>2, <1>3, <1>4, <1>5, <1>6, <1>7 DEF Next

\* What a dispatch says of deposits and scatters, until the next event starts.
LEMMA OwnDataStep ==
  ASSUME SeedInv, TypeInv, DataInv, OwnDataOnly, [Next]_vars
  PROVE  OwnDataOnly'
  <1> SUFFICES ASSUME Dispatched', ~stranded'
               PROVE  /\ \A s \in Sensors : Selfs(out'.deposits[s]) = truth'.deposits[s]
                      /\ out'.scatters = Repeated(truth.scatters)'
    BY DEF OwnDataOnly, Selfs, Repeated
  <1>1. CASE Dispatch
    <2>1. /\ pc = "dispatch" /\ UNCHANGED <<truth, stranded, event>>
          /\ out' = [tracks |-> MCTracks, particles |-> [s \in Sensors |-> MCParticles(s)],
               deposits |-> [s \in Sensors |-> Deposits(s)], scatters |-> rayleigh]
      BY <1>1 DEF Dispatch
    <2>2. /\ \A s \in Sensors : out'.deposits[s] = Deposits(s)
          /\ out'.scatters = rayleigh
      BY <2>1
    <2>3. \A s \in Sensors : Selfs(Deposits(s)) = Selfs(hits[s].deposits)
      BY DEF Selfs, Deposits
    <2>4. /\ \A s \in Sensors : Selfs(hits[s].deposits) = truth.deposits[s]
          /\ rayleigh = Repeated(truth.scatters)
      BY <2>1 DEF DataInv
    <2>5. Repeated(truth.scatters)' = Repeated(truth.scatters)
      BY <2>1 DEF Repeated
    <2> QED BY <2>1, <2>2, <2>3, <2>4, <2>5
  <1>2. CASE UNCHANGED <<pc, event, out, truth, stranded>>
    BY <1>2 DEF OwnDataOnly, Dispatched, Selfs, Repeated
  <1>3. CASE Run \/ GenerateEvent \/ TerminateEvent \/ TerminateBeam \/ AbortEvent
             \/ AbortPrimaries \/ OtherException \/ NoMorePrimaries
    <2>1. pc' # "idle" \/ out' = NULL
      BY <1>3 DEF Run, GenerateEvent, TerminateEvent, TerminateBeam, AbortEvent,
                  AbortPrimaries, Abort, OtherException, NoMorePrimaries, Strand
    <2> QED BY <2>1 DEF Dispatched
  <1>4. CASE StartTrack \/ Step \/ EndTrack
    <2>1. pc' # "idle"
      BY <1>4, HooksInTracking
    <2> QED BY <2>1 DEF Dispatched
  <1>5. CASE UNCHANGED vars
    BY <1>2, <1>5 DEF vars
  <1> QED BY <1>1, <1>3, <1>4, <1>5 DEF Next

\* An event is dispatched with all of its own deposits and scatters, and with those
\* only, however the events before it on the same thread have ended.
THEOREM OwnDataOnlyHolds == Spec => []OwnDataOnly
  <1>1. Init => DataInv /\ OwnDataOnly
    BY DataInit DEF Init, OwnDataOnly, Dispatched
  <1>2. SeedInv /\ TypeInv /\ DataInv /\ [Next]_vars => DataInv'
    BY DataStep
  <1>3. SeedInv /\ TypeInv /\ DataInv /\ OwnDataOnly /\ [Next]_vars => OwnDataOnly'
    BY OwnDataStep
  <1> QED BY <1>1, <1>2, <1>3, SeedInvariant, TypeInvariant, PTL DEF Spec

-----------------------------------------------------------------------------
(* History.  The tracks of an event are counted as they start, whatever     *)
(* their numbers in Geant4, and the count leads to what is known of them.   *)

\* The tracks that wait are known by the number of their Geant4 event, and so is the
\* track that made them; no track of an earlier one has the same number.
Waits(w) ==
    /\ w.self = <<event, left, w.g4>> /\ w.g4 \in 1 .. lastTrack
    /\ \A a \in DOMAIN truth.tracks : truth.tracks[a].self # w.self
    /\ IF w.parent = 0 THEN w.from = NULL
       ELSE /\ w.from = <<event, left, w.parent>>
            /\ manager.ids[w.parent] \in DOMAIN truth.tracks
            /\ truth.tracks[manager.ids[w.parent]].self = w.from

\* What the manager knows is what happened: tracks have their place in the history as
\* their number, and their parents' places as the numbers of the parents.
Numbers ==
    /\ Len(truth.tracks) = manager.counter - 1
    /\ DOMAIN manager.parents = DOMAIN truth.tracks
    /\ \A a, b \in DOMAIN truth.tracks :
         truth.tracks[a].self = truth.tracks[b].self => a = b
    /\ \A a \in DOMAIN truth.tracks :
         LET t == truth.tracks[a]  p == manager.parents[a]
         IN  /\ IF t.from = NULL THEN p = 0
                ELSE p \in DOMAIN truth.tracks /\ truth.tracks[p].self = t.from
             /\ \/ left < t.self[2]
                \/ pc = "tracking" /\ t.self[2] = left /\ t.self[3] <= lastTrack

Stack ==
    /\ \A i \in DOMAIN waiting : Waits(waiting[i])
    /\ \A i, j \in DOMAIN waiting : waiting[i].g4 = waiting[j].g4 => i = j

InWork ==
    current # NULL =>
        LET t == current.track
        IN  /\ t.self = <<event, left, t.g4>> /\ t.g4 # 0
            /\ current.id \in DOMAIN truth.tracks /\ manager.ids[t.g4] = current.id
            /\ truth.tracks[current.id] = [self |-> t.self, from |-> t.from, born |-> t.born]
            /\ manager.parents[current.id] = current.parent

\* A track is kept, or is in work and will be.
Kept(id) == \/ \E i \in DOMAIN manager.infos : manager.infos[i].id = id
            \/ current # NULL /\ current.id = id /\ (recordAll \/ id \in manager.toStore)

Records ==
    /\ \A i \in DOMAIN manager.infos :
         LET t == manager.infos[i]
         IN  /\ t.id \in DOMAIN truth.tracks
             /\ truth.tracks[t.id] = [self |-> t.self, from |-> t.from, born |-> t.born]
    /\ recordAll => \A a \in DOMAIN truth.tracks : Kept(a)

InSensor(s) ==
    /\ \A id \in DOMAIN hits[s].tracks :
         LET t == hits[s].tracks[id]
         IN  /\ id \in DOMAIN truth.tracks /\ Kept(id)
             /\ t.self = truth.tracks[id].self
             /\ t.parent = IF truth.tracks[id].born = s THEN manager.parents[id] ELSE 0
    /\ \A i \in DOMAIN hits[s].deposits :
         LET d == hits[s].deposits[i]
         IN  d.id \in DOMAIN hits[s].tracks /\ d.self = truth.tracks[d.id].self

HistInv ==
    ~stranded /\ pc # "idle" =>
        Numbers /\ Stack /\ InWork /\ Records /\ \A s \in Sensors : InSensor(s)

\* The types in the form that the steps use.
LEMMA HistTypes ==
  ASSUME SeedInv, TypeInv
  PROVE  /\ event \in Nat /\ left \in Nat /\ lastTrack \in Nat /\ NULL \notin Selves
         /\ truth.tracks \in Seq(Started) /\ Len(truth.tracks) \in Nat
         /\ DOMAIN truth.tracks = 1 .. Len(truth.tracks)
         /\ \A a \in DOMAIN truth.tracks :
              LET t == truth.tracks[a]
              IN  /\ t \in Started /\ t = [self |-> t.self, from |-> t.from, born |-> t.born]
                  /\ t.self \in Selves /\ t.self[2] \in Nat /\ t.self[3] \in Nat
         /\ waiting \in Seq(Tracks) /\ Len(waiting) \in Nat /\ DOMAIN waiting = 1 .. Len(waiting)
         /\ \A i \in DOMAIN waiting : waiting[i] \in Tracks
         /\ manager.counter \in Nat \ {0}
         /\ manager.ids \in Numbered(Nat) /\ manager.parents \in Numbered(Nat)
         /\ manager.infos \in Seq(Infos) /\ Len(manager.infos) \in Nat
         /\ DOMAIN manager.infos = 1 .. Len(manager.infos)
  <1>1. /\ truth.tracks \in Seq(Started) /\ waiting \in Seq(Tracks)
        /\ manager.infos \in Seq(Infos) /\ manager.counter \in Nat \ {0}
        /\ manager.ids \in Numbered(Nat) /\ manager.parents \in Numbered(Nat)
    BY DEF TypeInv
  <1>2. /\ Len(truth.tracks) \in Nat /\ DOMAIN truth.tracks = 1 .. Len(truth.tracks)
        /\ Len(waiting) \in Nat /\ DOMAIN waiting = 1 .. Len(waiting)
        /\ Len(manager.infos) \in Nat /\ DOMAIN manager.infos = 1 .. Len(manager.infos)
    BY <1>1, LenProperties
  <1>3. \A i \in DOMAIN waiting : waiting[i] \in Tracks
    BY <1>1, <1>2, ElementOfSeq
  <1>4. \A a \in DOMAIN truth.tracks : truth.tracks[a] \in Started
    BY <1>1, <1>2, ElementOfSeq
  <1>5. \A a \in DOMAIN truth.tracks :
              LET t == truth.tracks[a]
              IN  /\ t \in Started /\ t = [self |-> t.self, from |-> t.from, born |-> t.born]
                  /\ t.self \in Selves /\ t.self[2] \in Nat /\ t.self[3] \in Nat
    BY <1>4 DEF Started, Selves
  <1> QED BY <1>1, <1>2, <1>3, <1>5, Geant4Assumption DEF SeedInv, TypeInv

\* No event is in work at first.
LEMMA HistInit == Init => HistInv
  BY DEF Init, HistInv

\* A new event starts with an empty history.
LEMMA HistRun ==
  ASSUME SeedInv, TypeInv, DataInv, HistInv, Run
  PROVE  HistInv'
  <1> SUFFICES ASSUME ~stranded' PROVE (Numbers /\ Stack /\ InWork /\ Records /\ \A s \in Sensors : InSensor(s))'
    BY DEF HistInv
  <1>1. /\ pc = "idle" /\ truth' = Nothing /\ UNCHANGED <<manager, hits, waiting, current, stranded>>
    BY DEF Run
  <1>2. /\ truth'.tracks = <<>> /\ DOMAIN truth'.tracks = {} /\ Len(truth'.tracks) = 0
    BY <1>1 DEF Nothing
  <1>3. /\ waiting' = <<>> /\ current' = NULL /\ manager' = NoTracks
        /\ hits' = [s \in Sensors |-> NoHits]
    BY <1>1 DEF SeedInv, DataInv
  <1>4. Numbers' /\ Records'
    BY <1>2, <1>3 DEF Numbers, Records, NoTracks
  <1>5. Stack' /\ InWork'
    BY <1>3 DEF Stack, InWork
  <1>6. (\A s \in Sensors : InSensor(s))'
    BY <1>3 DEF InSensor, NoHits
  <1> QED BY <1>4, <1>5, <1>6

\* The tracks of the primaries of a Geant4 event are new ones.
LEMMA HistGenerate ==
  ASSUME SeedInv, TypeInv, HistInv, GenerateEvent
  PROVE  HistInv'
  <1> SUFFICES ASSUME ~stranded' PROVE (Numbers /\ Stack /\ InWork /\ Records /\ \A s \in Sensors : InSensor(s))'
    BY DEF HistInv
  <1>1. /\ pc = "beam" /\ pc' = "tracking"
        /\ UNCHANGED <<recordAll, event, left, current, manager, hits, truth, stranded>>
    BY DEF GenerateEvent
  <1>2. PICK n \in 1 .. 2 : /\ waiting' = [i \in 1 .. n |-> Track(i, 0, World, NULL)]
                            /\ lastTrack' = n
    BY DEF GenerateEvent
  <1>3. /\ Numbers /\ Stack /\ InWork /\ Records /\ \A s \in Sensors : InSensor(s)
        /\ current = NULL
    BY <1>1 DEF HistInv, SeedInv
  <1>4. Numbers'
    BY <1>1, <1>3 DEF Numbers
  <1>5. InWork' /\ Records' /\ (\A s \in Sensors : InSensor(s))'
    BY <1>1, <1>3 DEF InWork, Records, InSensor, Kept
  <1>6. Stack'
    <2>1. \A a \in DOMAIN truth.tracks : left < truth.tracks[a].self[2]
      BY <1>1, <1>3 DEF Numbers
    <2>2. \A i \in DOMAIN waiting' :
             LET w == waiting'[i]
             IN  /\ w.self = <<event, left, w.g4>> /\ w.g4 = i /\ i \in 1 .. n
                 /\ w.parent = 0 /\ w.from = NULL
      BY <1>2 DEF Track
    <2>3. \A i \in DOMAIN waiting' : Waits(waiting[i])'
      <3> SUFFICES ASSUME NEW i \in DOMAIN waiting' PROVE Waits(waiting[i])'
        OBVIOUS
      <3>1. waiting'[i].self = <<event, left, i>>
        BY <2>2
      <3>2. \A a \in DOMAIN truth.tracks : truth.tracks[a].self # waiting'[i].self
        BY <2>1, <3>1, HistTypes
      <3> QED BY <1>1, <1>2, <2>2, <3>2 DEF Waits
    <2> QED BY <2>2, <2>3 DEF Stack
  <1> QED BY <1>4, <1>5, <1>6

\* The next Geant4 event has a number of its own.
LEMMA HistTerminate ==
  ASSUME SeedInv, TypeInv, HistInv, TerminateEvent \/ TerminateBeam
  PROVE  HistInv'
  <1> SUFFICES ASSUME ~stranded' PROVE (Numbers /\ Stack /\ InWork /\ Records /\ \A s \in Sensors : InSensor(s))'
    BY DEF HistInv
  <1>1. /\ UNCHANGED <<recordAll, event, waiting, current, lastTrack, manager, hits, truth, stranded>>
        /\ waiting = <<>> /\ current = NULL /\ pc # "idle"
        /\ \/ pc = "tracking" /\ left' = left - 1
           \/ pc = "beam" /\ left' = left
    BY DEF TerminateEvent, TerminateBeam, tracking, SeedInv
  <1>2. /\ Numbers /\ Stack /\ InWork /\ Records /\ \A s \in Sensors : InSensor(s)
    BY <1>1 DEF HistInv
  <1>3. Numbers'
    <2>1. \A a \in DOMAIN truth.tracks : left' < truth.tracks[a].self[2]
      <3> SUFFICES ASSUME NEW a \in DOMAIN truth.tracks
                   PROVE  left' < truth.tracks[a].self[2]
        OBVIOUS
      <3>1. truth.tracks[a].self[2] \in Nat /\ left \in Nat
        BY HistTypes
      <3>2. \/ left < truth.tracks[a].self[2]
            \/ pc = "tracking" /\ truth.tracks[a].self[2] = left
        BY <1>2 DEF Numbers
      <3> QED BY <1>1, <3>1, <3>2
    <2> QED BY <1>1, <1>2, <2>1 DEF Numbers
  <1>4. Stack' /\ InWork' /\ Records' /\ (\A s \in Sensors : InSensor(s))'
    BY <1>1, <1>2 DEF Stack, InWork, Records, InSensor, Kept
  <1> QED BY <1>3, <1>4

\* A track that starts goes on with the count, and the number that its parent has in
\* the count is known, because the parent is of the same Geant4 event.
LEMMA HistStart ==
  ASSUME SeedInv, TypeInv, HistInv, StartTrack
  PROVE  HistInv'
  <1> SUFFICES ASSUME ~stranded' PROVE (Numbers /\ Stack /\ InWork /\ Records /\ \A s \in Sensors : InSensor(s))'
    BY DEF HistInv
  <1> DEFINE t == Last(waiting)
             id == manager.counter
             parent == IF t.parent = 0 THEN 0 ELSE manager.ids[t.parent]
             k == [self |-> t.self, from |-> t.from, born |-> t.born]
             T == truth.tracks
  <1>1. /\ pc = "tracking" /\ current = NULL /\ waiting # <<>>
        /\ UNCHANGED <<recordAll, pc, event, left, lastTrack, hits, stranded>>
        /\ current' = [track |-> t, id |-> id, parent |-> parent] /\ waiting' = Front(waiting)
        /\ manager' = [manager EXCEPT !.counter = id + 1, !.ids = Set(@, t.g4, id),
                                      !.parents = Set(@, id, parent)]
        /\ truth' = [truth EXCEPT !.tracks = Append(@, k)]
    BY DEF StartTrack, geant4
  <1>2. /\ Numbers /\ Stack /\ InWork /\ Records /\ \A s \in Sensors : InSensor(s)
    BY <1>1 DEF HistInv
  <1>3. /\ Len(waiting) \in DOMAIN waiting /\ t = waiting[Len(waiting)] /\ t \in Tracks
        /\ DOMAIN waiting' = 1 .. Len(waiting) - 1
        /\ \A i \in DOMAIN waiting' : waiting'[i] = waiting[i] /\ i \in DOMAIN waiting
                                      /\ i # Len(waiting)
    BY <1>1, HistTypes DEF Last, Front
  <1>4. Waits(t) /\ t.parent \in {0} \cup DOMAIN manager.ids
    BY <1>2, <1>3 DEF Stack, TypeInv
  <1>5. /\ id = Len(T) + 1 /\ id \in Nat \ {0} /\ DOMAIN T = 1 .. Len(T) /\ Len(T) \in Nat
    BY <1>2, HistTypes DEF Numbers
  <1>6. /\ truth'.tracks = Append(T, k) /\ k \in Started
    <2>1. k \in Started
      BY <1>3 DEF Started, Tracks
    <2> HIDE DEF k
    <2> QED BY <1>1, <2>1 DEF TypeInv
  <1>7. /\ DOMAIN truth'.tracks = 1 .. id /\ Len(truth'.tracks) = id
        /\ truth'.tracks[id] = k /\ \A a \in DOMAIN T : truth'.tracks[a] = T[a] /\ a # id
    <2>1. T \in Seq(Started)
      BY HistTypes
    <2> HIDE DEF k, T, id
    <2> QED BY <1>5, <1>6, <2>1, AppendProperties
  <1>8. IF t.from = NULL THEN parent = 0
        ELSE parent \in DOMAIN T /\ T[parent].self = t.from
    <2>1. CASE t.parent = 0
      BY <1>4, <2>1 DEF Waits
    <2>2. CASE t.parent # 0
      <3>1. /\ t.from = T[manager.ids[t.parent]].self /\ manager.ids[t.parent] \in DOMAIN T
        BY <1>4, <2>2 DEF Waits
      <3>2. t.from # NULL
        BY <3>1, HistTypes
      <3> QED BY <2>2, <3>1, <3>2
    <2> QED BY <2>1, <2>2
  <1>9. parent \in Nat /\ t.g4 \in Nat /\ t.g4 # 0
    <2>1. manager.ids \in [DOMAIN manager.ids -> Nat]
      BY HistTypes, NumberedIn
    <2> QED BY <1>3, <1>4, <2>1 DEF Tracks, Waits
  <1> HIDE DEF t, id, parent
  <1>10. /\ manager'.counter = id + 1 /\ manager'.infos = manager.infos
         /\ manager'.toStore = manager.toStore
         /\ manager'.ids = Set(manager.ids, t.g4, id)
         /\ manager'.parents = Set(manager.parents, id, parent)
    <2>1. manager' = [counter |-> id + 1, ids |-> Set(manager.ids, t.g4, id),
                      parents |-> Set(manager.parents, id, parent),
                      toStore |-> manager.toStore, infos |-> manager.infos]
      BY <1>1 DEF TypeInv
    <2> QED BY <2>1
  <1>11. /\ manager'.ids[t.g4] = id
         /\ \A x \in DOMAIN manager.ids : x # t.g4 => manager'.ids[x] = manager.ids[x]
    BY <1>10 DEF Set
  <1>12. /\ DOMAIN manager'.parents = 1 .. id /\ manager'.parents[id] = parent
         /\ \A a \in DOMAIN T : manager'.parents[a] = manager.parents[a]
    <2>1. /\ DOMAIN manager'.parents = DOMAIN manager.parents \cup {id}
          /\ manager'.parents[id] = parent
          /\ \A x \in DOMAIN manager.parents : x # id => manager'.parents[x] = manager.parents[x]
      BY <1>10 DEF Set
    <2>2. DOMAIN manager.parents = DOMAIN T
      BY <1>2 DEF Numbers
    <2>3. DOMAIN T \cup {id} = 1 .. id /\ id \notin DOMAIN T
      BY <1>5
    <2> HIDE DEF T
    <2> QED BY <2>1, <2>2, <2>3
  <1>13. Numbers'
    <2>1. Len(truth'.tracks) = manager'.counter - 1 /\ DOMAIN manager'.parents = DOMAIN truth'.tracks
      BY <1>5, <1>7, <1>10, <1>12
    <2>2. \A a, b \in DOMAIN truth'.tracks :
             truth'.tracks[a].self = truth'.tracks[b].self => a = b
      <3>1. \A a \in DOMAIN T : T[a].self # k.self
        BY <1>4 DEF Waits
      <3>2. \A a, b \in DOMAIN T : T[a].self = T[b].self => a = b
        BY <1>2 DEF Numbers
      <3>3. DOMAIN truth'.tracks = DOMAIN T \cup {id}
        BY <1>5, <1>7
      <3> HIDE DEF k
      <3> QED BY <1>7, <3>1, <3>2, <3>3
    <2>3. ASSUME NEW a \in DOMAIN truth'.tracks
          PROVE  /\ IF truth'.tracks[a].from = NULL THEN manager'.parents[a] = 0
                    ELSE manager'.parents[a] \in DOMAIN truth'.tracks
                         /\ truth'.tracks[manager'.parents[a]].self = truth'.tracks[a].from
                 /\ \/ left < truth'.tracks[a].self[2]
                    \/ truth'.tracks[a].self[2] = left /\ truth'.tracks[a].self[3] <= lastTrack
      <3>0. DOMAIN truth'.tracks = DOMAIN T \cup {id}
        BY <1>5, <1>7
      <3>1. CASE a \in DOMAIN T
        BY <1>2, <1>7, <1>12, <3>0, <3>1 DEF Numbers
      <3>2. CASE a = id
        <4>1. /\ truth'.tracks[a] = k /\ manager'.parents[a] = parent
              /\ k.from = t.from /\ k.self = t.self
          BY <1>7, <1>12, <3>2
        <4>2. k.self[2] = left /\ k.self[3] <= lastTrack
          BY <1>4, HistTypes DEF Waits
        <4>3. IF k.from = NULL THEN parent = 0
              ELSE parent \in DOMAIN truth'.tracks /\ truth'.tracks[parent].self = k.from
          BY <1>7, <1>8, <3>0
        <4> HIDE DEF k
        <4> QED BY <4>1, <4>2, <4>3
      <3> QED BY <3>0, <3>1, <3>2
    <2> QED BY <1>1, <2>1, <2>2, <2>3 DEF Numbers
  <1>14. Stack'
    <2>1. ASSUME NEW i \in DOMAIN waiting' PROVE Waits(waiting[i])'
      <3> DEFINE w == waiting[i]
      <3>1. /\ Waits(w) /\ w.g4 # t.g4 /\ w = waiting'[i]
            /\ w.parent \in {0} \cup DOMAIN manager.ids
        BY <1>2, <1>3 DEF Stack, TypeInv
      <3>2. k.self # w.self
        BY <1>4, <3>1 DEF Waits
      <3>3. DOMAIN truth'.tracks = DOMAIN T \cup {id}
        BY <1>5, <1>7
      <3>4. \A a \in DOMAIN truth'.tracks : truth'.tracks[a].self # w.self
        BY <1>7, <3>1, <3>2, <3>3 DEF Waits
      <3>5. CASE w.parent = 0
        BY <1>1, <3>1, <3>4, <3>5 DEF Waits
      <3>6. CASE w.parent # 0
        <4>1. /\ w.from = <<event, left, w.parent>> /\ manager.ids[w.parent] \in DOMAIN T
              /\ T[manager.ids[w.parent]].self = w.from
          BY <3>1, <3>6 DEF Waits
        <4>2. t.self = <<event, left, t.g4>> /\ \A a \in DOMAIN T : T[a].self # t.self
          BY <1>4 DEF Waits
        <4>3. w.parent # t.g4
          BY <4>1, <4>2
        <4>4. /\ manager'.ids[w.parent] \in DOMAIN truth'.tracks
              /\ truth'.tracks[manager'.ids[w.parent]].self = w.from
          BY <1>7, <1>11, <3>1, <3>3, <3>6, <4>1, <4>3
        <4>5. w.self = <<event, left, w.g4>> /\ w.g4 \in 1 .. lastTrack
          BY <3>1 DEF Waits
        <4> HIDE DEF w
        <4> QED BY <1>1, <3>1, <3>4, <3>6, <4>1, <4>4, <4>5 DEF Waits
      <3> QED BY <3>5, <3>6
    <2>2. \A i, j \in DOMAIN waiting' : waiting'[i].g4 = waiting'[j].g4 => i = j
      BY <1>2, <1>3 DEF Stack
    <2> QED BY <2>1, <2>2 DEF Stack
  <1>15. InWork'
    <2>1. t.self = <<event, left, t.g4>>
      BY <1>4 DEF Waits
    <2>2. id \in DOMAIN truth'.tracks
      BY <1>5, <1>7
    <2> QED BY <1>1, <1>7, <1>9, <1>11, <1>12, <2>1, <2>2 DEF InWork
  <1>16. Records' /\ (\A s \in Sensors : InSensor(s))'
    <2>0. DOMAIN truth'.tracks = DOMAIN T \cup {id}
      BY <1>5, <1>7
    <2>1. \A a : Kept(a) => Kept(a)'
      BY <1>1, <1>10 DEF Kept
    <2>2. \A a : recordAll /\ a = id => Kept(a)'
      <3>1. current' \in TracksInWork
        BY <1>1, <1>3, <1>5, <1>9 DEF TracksInWork
      <3>2. current' # NULL /\ current'.id = id
        BY <1>1, <3>1, Geant4Assumption
      <3> QED BY <1>1, <3>2 DEF Kept
    <2>3. Records'
      <3>1. \A i \in DOMAIN manager.infos :
              LET r == manager.infos[i]
              IN  /\ r.id \in DOMAIN T
                  /\ T[r.id] = [self |-> r.self, from |-> r.from, born |-> r.born]
        BY <1>2 DEF Records
      <3>2. recordAll => \A a \in DOMAIN truth'.tracks : Kept(a)'
        BY <1>2, <2>0, <2>1, <2>2 DEF Records
      <3> HIDE DEF T, k
      <3> QED BY <1>1, <1>7, <1>10, <2>0, <3>1, <3>2 DEF Records
    <2>4. (\A s \in Sensors : InSensor(s))'
      BY <1>1, <1>2, <1>7, <1>12, <2>0, <2>1 DEF InSensor
    <2> QED BY <2>3, <2>4
  <1> QED BY <1>13, <1>14, <1>15, <1>16

\* A step in a sensor refers to the track in work, which will be kept.
LEMMA HistHits ==
  ASSUME SeedInv, TypeInv, HistInv, NEW s \in Sensors, NEW charged \in BOOLEAN,
         ProcessHits(s, charged)
  PROVE  HistInv'
  <1> SUFFICES ASSUME ~stranded' PROVE (Numbers /\ Stack /\ InWork /\ Records /\ \A r \in Sensors : InSensor(r))'
    BY DEF HistInv
  <1> DEFINE id == current.id
             T == truth.tracks
             first == [parent |-> ParentIn(s), self |-> current.track.self]
             new == [id |-> id, self |-> current.track.self]
             tracks == hits[s].tracks
             deposits == hits[s].deposits
  <1>0. pc = "tracking"
    BY DEF ProcessHits, Moving, SeedInv
  <1>1. /\ current # NULL
        /\ UNCHANGED <<recordAll, pc, event, left, waiting, current, lastTrack, stranded>>
        /\ manager' = IF id \in DOMAIN tracks THEN manager
                      ELSE [manager EXCEPT !.toStore = @ \cup {id}]
        /\ truth' = IF charged
                    THEN [truth EXCEPT !.deposits[s] = Append(@, current.track.self)] ELSE truth
    BY DEF ProcessHits, Moving, geant4, tracking
  <1>2. /\ Numbers /\ Stack /\ InWork /\ Records /\ \A r \in Sensors : InSensor(r)
    BY <1>0, <1>1 DEF HistInv
  <1>3. truth'.tracks = T
    BY <1>1 DEF TypeInv
  <1>4. /\ manager'.counter = manager.counter /\ manager'.ids = manager.ids
        /\ manager'.parents = manager.parents /\ manager'.infos = manager.infos
        /\ manager.toStore \subseteq manager'.toStore
        /\ id \notin DOMAIN tracks => id \in manager'.toStore
    BY <1>1 DEF TypeInv
  <1>5. /\ \A r \in Sensors \ {s} : hits'[r] = hits[r]
        /\ hits'[s].tracks = IF id \in DOMAIN tracks THEN tracks ELSE Set(tracks, id, first)
        /\ hits'[s].deposits = IF charged THEN Append(deposits, new) ELSE deposits
    BY HitTyped
  <1>6. \A a : Kept(a) => Kept(a)'
    BY <1>1, <1>4 DEF Kept
  <1>7. Numbers' /\ InWork'
    BY <1>1, <1>2, <1>3, <1>4 DEF Numbers, InWork
  <1>8. Stack'
    BY <1>1, <1>2, <1>3, <1>4 DEF Stack, Waits
  <1>9. Records'
    BY <1>1, <1>2, <1>3, <1>4, <1>6 DEF Records
  <1>10. /\ id \in DOMAIN T /\ current.track.self = T[id].self
         /\ first.self = T[id].self
         /\ first.parent = IF T[id].born = s THEN manager.parents[id] ELSE 0
    BY <1>1, <1>2 DEF InWork, ParentIn
  <1> HIDE DEF first, T
  <1>11. ASSUME NEW r \in Sensors PROVE InSensor(r)'
    <2>1. CASE r # s
      BY <1>2, <1>3, <1>4, <1>5, <1>6, <2>1 DEF InSensor, T
    <2>2. CASE r = s
      <3>1. /\ id \in DOMAIN hits'[s].tracks /\ DOMAIN tracks \subseteq DOMAIN hits'[s].tracks
            /\ DOMAIN hits'[s].tracks \subseteq DOMAIN tracks \cup {id}
            /\ \A a \in DOMAIN tracks : hits'[s].tracks[a] = tracks[a]
            /\ id \notin DOMAIN tracks => hits'[s].tracks[id] = first
        BY <1>5 DEF Set
      <3>2. \A a : a = id /\ id \notin DOMAIN tracks => Kept(a)'
        BY <1>1, <1>4 DEF Kept
      <3>3. \A a \in DOMAIN tracks :
               /\ a \in DOMAIN T /\ Kept(a) /\ tracks[a].self = T[a].self
               /\ tracks[a].parent = IF T[a].born = s THEN manager.parents[a] ELSE 0
        BY <1>2 DEF InSensor, T
      <3>4. \A a \in DOMAIN hits'[s].tracks :
               /\ a \in DOMAIN T /\ Kept(a)' /\ hits'[s].tracks[a].self = T[a].self
               /\ hits'[s].tracks[a].parent = IF T[a].born = s THEN manager.parents[a] ELSE 0
        <4> HIDE DEF id, tracks
        <4> QED BY <1>6, <1>10, <3>1, <3>2, <3>3
      <3>5. \A i \in DOMAIN hits'[s].deposits :
               \/ hits'[s].deposits[i] = new
               \/ i \in DOMAIN deposits /\ hits'[s].deposits[i] = deposits[i]
        <4>1. deposits \in Seq([id : Nat, self : Selves])
          BY DEF TypeInv, HitDeposits
        <4>2. new \in [id : Nat, self : Selves]
          BY <1>1 DEF TypeInv, TracksInWork, Tracks
        <4> HIDE DEF new, deposits
        <4>3. \A i \in DOMAIN Append(deposits, new) :
                \/ Append(deposits, new)[i] = new
                \/ i \in DOMAIN deposits /\ Append(deposits, new)[i] = deposits[i]
          <5>1. Len(deposits) \in Nat /\ DOMAIN deposits = 1 .. Len(deposits)
            BY <4>1, LenProperties
          <5>2. /\ DOMAIN Append(deposits, new) = 1 .. Len(deposits) + 1
                /\ Append(deposits, new)[Len(deposits) + 1] = new
                /\ \A i \in 1 .. Len(deposits) : Append(deposits, new)[i] = deposits[i]
            BY <4>1, <4>2, AppendProperties
          <5>3. \A i \in 1 .. Len(deposits) + 1 : i \in 1 .. Len(deposits) \/ i = Len(deposits) + 1
            BY <5>1
          <5> QED BY <5>1, <5>2, <5>3
        <4> QED BY <1>5, <4>3
      <3>6. /\ \A i \in DOMAIN deposits :
                 deposits[i].id \in DOMAIN tracks /\ deposits[i].self = T[deposits[i].id].self
        BY <1>2 DEF InSensor, T
      <3>7. \A i \in DOMAIN hits'[s].deposits :
               /\ hits'[s].deposits[i].id \in DOMAIN hits'[s].tracks
               /\ hits'[s].deposits[i].self = T[hits'[s].deposits[i].id].self
        <4> SUFFICES ASSUME NEW i \in DOMAIN hits'[s].deposits
                     PROVE  /\ hits'[s].deposits[i].id \in DOMAIN hits'[s].tracks
                            /\ hits'[s].deposits[i].self = T[hits'[s].deposits[i].id].self
          OBVIOUS
        <4>1. new.id = id /\ new.self = T[id].self
          BY <1>10
        <4> HIDE DEF id, new, tracks, deposits
        <4> QED BY <3>1, <3>5, <3>6, <4>1
      <3> HIDE DEF id, new, tracks, deposits
      <3> QED BY <1>3, <1>4, <2>2, <3>4, <3>7 DEF InSensor, T
    <2> QED BY <2>1, <2>2
  <1> QED BY <1>7, <1>8, <1>9, <1>11

\* A secondary track has a number that no track of its Geant4 event had.
LEMMA HistSecondary ==
  ASSUME SeedInv, TypeInv, HistInv, NEW volume \in Volumes, Secondary(volume)
  PROVE  HistInv'
  <1> SUFFICES ASSUME ~stranded' PROVE (Numbers /\ Stack /\ InWork /\ Records /\ \A r \in Sensors : InSensor(r))'
    BY DEF HistInv
  <1> DEFINE t == Track(lastTrack + 1, current.track.g4, volume, current.track.self)
  <1>1. /\ lastTrack' = lastTrack + 1 /\ waiting' = Append(waiting, t)
        /\ UNCHANGED <<recordAll, pc, event, left, current, manager, hits, truth, stranded>>
        /\ current # NULL /\ pc = "tracking"
    BY DEF Secondary, Moving, geant4, SeedInv
  <1>2. /\ Numbers /\ Stack /\ InWork /\ Records /\ \A r \in Sensors : InSensor(r)
    BY <1>1 DEF HistInv
  <1>3. /\ t.g4 = lastTrack + 1 /\ t.self = <<event, left, lastTrack + 1>>
        /\ t.parent = current.track.g4 /\ t.from = current.track.self
    BY DEF Track
  <1>4. t \in Tracks
    <2>1. current.track.g4 \in Nat /\ current.track.self \in Selves \cup {NULL}
      BY <1>1 DEF TypeInv, TracksInWork, Tracks
    <2>2. lastTrack + 1 \in Nat
      BY HistTypes
    <2> QED BY <2>1, <2>2, TrackTyped
  <1> HIDE DEF t
  <1>5. /\ DOMAIN waiting' = DOMAIN waiting \cup {Len(waiting) + 1}
        /\ waiting'[Len(waiting) + 1] = t
        /\ \A i \in DOMAIN waiting : waiting'[i] = waiting[i] /\ i # Len(waiting) + 1
    <2>1. waiting \in Seq(Tracks) /\ Len(waiting) \in Nat /\ DOMAIN waiting = 1 .. Len(waiting)
      BY HistTypes
    <2> QED BY <1>1, <1>4, <2>1, AppendProperties
  <1>6. Numbers'
    <2>1. \A a \in DOMAIN truth.tracks : truth.tracks[a].self[3] \in Nat
      BY HistTypes
    <2>2. lastTrack \in Nat
      BY HistTypes
    <2>3. ASSUME NEW a \in DOMAIN truth.tracks
          PROVE  \/ left < truth.tracks[a].self[2]
                 \/ truth.tracks[a].self[2] = left /\ truth.tracks[a].self[3] <= lastTrack + 1
      BY <1>2, <2>1, <2>2 DEF Numbers
    <2> QED BY <1>1, <1>2, <2>3 DEF Numbers
  <1>7. InWork' /\ Records' /\ (\A r \in Sensors : InSensor(r))'
    BY <1>1, <1>2 DEF InWork, Records, InSensor, Kept
  <1>8. \A a \in DOMAIN truth.tracks : truth.tracks[a].self # t.self
    <2> SUFFICES ASSUME NEW a \in DOMAIN truth.tracks, truth.tracks[a].self = t.self
                 PROVE  FALSE
      OBVIOUS
    <2>1. truth.tracks[a].self[2] = left /\ truth.tracks[a].self[3] = lastTrack + 1
      BY <1>3
    <2>2. /\ \/ left < truth.tracks[a].self[2]
             \/ truth.tracks[a].self[2] = left /\ truth.tracks[a].self[3] <= lastTrack
          /\ left \in Nat /\ lastTrack \in Nat
      BY <1>2, HistTypes DEF Numbers
    <2> QED BY <2>1, <2>2
  <1>9. ASSUME NEW i \in DOMAIN waiting' PROVE Waits(waiting[i])'
    <2>1. CASE i \in DOMAIN waiting
      <3>1. Waits(waiting[i]) /\ waiting'[i] = waiting[i]
        BY <1>2, <1>5, <2>1 DEF Stack
      <3>2. 1 .. lastTrack \subseteq 1 .. lastTrack'
        BY <1>1, HistTypes
      <3> QED BY <1>1, <3>1, <3>2 DEF Waits
    <2>2. CASE i = Len(waiting) + 1
      <3>1. /\ current.track.g4 # 0 /\ current.track.self = <<event, left, current.track.g4>>
            /\ current.id \in DOMAIN truth.tracks
            /\ manager.ids[current.track.g4] = current.id
            /\ truth.tracks[current.id].self = current.track.self
        BY <1>1, <1>2 DEF InWork
      <3>2. lastTrack + 1 \in 1 .. lastTrack'
        BY <1>1, HistTypes
      <3>3. waiting'[i] = t
        BY <1>5, <2>2
      <3> QED BY <1>1, <1>3, <1>8, <3>1, <3>2, <3>3 DEF Waits
    <2> QED BY <1>5, <2>1, <2>2
  <1>10. Stack'
    <2>1. \A i \in DOMAIN waiting : waiting[i].g4 # t.g4
      BY <1>2, <1>3, HistTypes DEF Stack, Waits
    <2>2. \A i, j \in DOMAIN waiting : waiting[i].g4 = waiting[j].g4 => i = j
      BY <1>2 DEF Stack
    <2>3. \A i, j \in DOMAIN waiting' : waiting'[i].g4 = waiting'[j].g4 => i = j
      BY <1>5, <2>1, <2>2
    <2> QED BY <1>9, <2>3 DEF Stack
  <1> QED BY <1>6, <1>7, <1>10

\* A scatter or a negative step touches no number; the waiting tracks may go.
LEMMA HistScatter ==
  ASSUME SeedInv, TypeInv, HistInv, Scatter \/ NegativeStep
  PROVE  HistInv'
  <1> SUFFICES ASSUME ~stranded' PROVE (Numbers /\ Stack /\ InWork /\ Records /\ \A r \in Sensors : InSensor(r))'
    BY DEF HistInv
  <1>1. /\ UNCHANGED <<recordAll, pc, event, left, current, lastTrack, manager, hits, stranded>>
        /\ waiting' \in {waiting, <<>>} /\ pc = "tracking"
    BY DEF Scatter, NegativeStep, Moving, geant4, tracking, SeedInv
  <1>2. truth'.tracks = truth.tracks
    BY DEF Scatter, NegativeStep, TypeInv
  <1>3. /\ Numbers /\ Stack /\ InWork /\ Records /\ \A r \in Sensors : InSensor(r)
    BY <1>1 DEF HistInv
  <1>4. Numbers' /\ InWork' /\ Records' /\ (\A r \in Sensors : InSensor(r))'
    BY <1>1, <1>2, <1>3 DEF Numbers, InWork, Records, InSensor, Kept
  <1>5. Stack'
    BY <1>1, <1>2, <1>3 DEF Stack, Waits
  <1> QED BY <1>4, <1>5

\* A track that ends is kept if everything is, or if a sensor refers to it.
LEMMA HistEnd ==
  ASSUME SeedInv, TypeInv, HistInv, EndTrack
  PROVE  HistInv'
  <1> SUFFICES ASSUME ~stranded' PROVE (Numbers /\ Stack /\ InWork /\ Records /\ \A r \in Sensors : InSensor(r))'
    BY DEF HistInv
  <1> DEFINE info == [id |-> current.id, self |-> current.track.self,
                      from |-> current.track.from, born |-> current.track.born]
             kept == recordAll \/ info.id \in manager.toStore
  <1>1. /\ manager' = [manager EXCEPT !.infos   = IF kept THEN Append(@, info) ELSE @,
                                      !.toStore = @ \ {info.id}]
        /\ UNCHANGED <<recordAll, pc, event, left, waiting, lastTrack, hits, truth, stranded>>
        /\ current' = NULL /\ current # NULL /\ pc = "tracking"
    BY DEF EndTrack, geant4, SeedInv
  <1>2. /\ Numbers /\ Stack /\ InWork /\ Records /\ \A r \in Sensors : InSensor(r)
    BY <1>1 DEF HistInv
  <1>3. info \in Infos
    BY <1>1 DEF TypeInv, TracksInWork, Tracks, Infos
  <1>4. /\ info.id = current.id /\ info.id \in DOMAIN truth.tracks
        /\ truth.tracks[info.id] = [self |-> info.self, from |-> info.from, born |-> info.born]
    BY <1>1, <1>2 DEF InWork
  <1>5. kept <=> recordAll \/ current.id \in manager.toStore
    OBVIOUS
  <1> HIDE DEF info, kept
  <1>6. /\ manager'.counter = manager.counter /\ manager'.ids = manager.ids
        /\ manager'.parents = manager.parents
        /\ manager'.infos = IF kept THEN Append(manager.infos, info) ELSE manager.infos
    BY <1>1 DEF TypeInv
  <1>7. /\ \A i \in DOMAIN manager.infos :
             i \in DOMAIN manager'.infos /\ manager'.infos[i] = manager.infos[i]
        /\ kept => \E i \in DOMAIN manager'.infos : manager'.infos[i] = info
        /\ \A i \in DOMAIN manager'.infos :
             \/ manager'.infos[i] = info
             \/ i \in DOMAIN manager.infos /\ manager'.infos[i] = manager.infos[i]
    <2>1. manager.infos \in Seq(Infos) /\ Len(manager.infos) \in Nat
          /\ DOMAIN manager.infos = 1 .. Len(manager.infos)
      BY HistTypes
    <2>2. /\ DOMAIN Append(manager.infos, info) = 1 .. Len(manager.infos) + 1
          /\ Append(manager.infos, info)[Len(manager.infos) + 1] = info
          /\ \A i \in 1 .. Len(manager.infos) : Append(manager.infos, info)[i] = manager.infos[i]
      BY <1>3, <2>1, AppendProperties
    <2>3. CASE kept
      <3>1. manager'.infos = Append(manager.infos, info)
        BY <1>6, <2>3
      <3>2. 1 .. Len(manager.infos) + 1 = 1 .. Len(manager.infos) \cup {Len(manager.infos) + 1}
        BY <2>1
      <3> QED BY <2>1, <2>2, <2>3, <3>1, <3>2
    <2>4. CASE ~kept
      BY <1>6, <2>4
    <2> QED BY <2>3, <2>4
  <1>8. \A a : Kept(a) => Kept(a)'
    BY <1>1, <1>4, <1>5, <1>7 DEF Kept
  <1>9. Numbers' /\ InWork' /\ (\A r \in Sensors : InSensor(r))'
    BY <1>1, <1>2, <1>6, <1>8 DEF Numbers, InWork, InSensor
  <1>10. Stack'
    BY <1>1, <1>2, <1>6 DEF Stack, Waits
  <1>11. Records'
    BY <1>1, <1>2, <1>4, <1>7, <1>8 DEF Records
  <1> QED BY <1>9, <1>10, <1>11

\* Every step keeps the history.
LEMMA HistStep ==
  ASSUME SeedInv, TypeInv, DataInv, HistInv, [Next]_vars
  PROVE  HistInv'
  <1>1. CASE Dispatch \/ AbortEvent \/ AbortPrimaries \/ OtherException \/ NoMorePrimaries
    BY <1>1 DEF Dispatch, AbortEvent, AbortPrimaries, Abort, OtherException, NoMorePrimaries, Strand, HistInv
  <1>2. CASE Run
    BY <1>2, HistRun
  <1>3. CASE GenerateEvent
    BY <1>3, HistGenerate
  <1>4. CASE TerminateEvent \/ TerminateBeam
    BY <1>4, HistTerminate
  <1>5. CASE StartTrack
    BY <1>5, HistStart
  <1>6. CASE Step
    BY <1>6, HistHits, HistSecondary, HistScatter DEF Step
  <1>7. CASE EndTrack
    BY <1>7, HistEnd
  <1>8. CASE UNCHANGED vars
    <2>1. /\ event' = event /\ left' = left /\ pc' = pc /\ lastTrack' = lastTrack
          /\ waiting' = waiting /\ current' = current /\ manager' = manager /\ hits' = hits
          /\ truth' = truth /\ recordAll' = recordAll /\ stranded' = stranded
      BY <1>8, Zenon DEF vars, geant4, tracking
    <2>2. \A w : Waits(w)' <=> Waits(w)
      BY <2>1 DEF Waits
    <2>3. \A id : Kept(id)' <=> Kept(id)
      BY <2>1 DEF Kept
    <2>4. \A s \in Sensors : InSensor(s)' <=> InSensor(s)
      BY <2>1, <2>3 DEF InSensor
    <2>5. /\ Numbers' <=> Numbers
          /\ InWork' <=> InWork
      BY <2>1 DEF Numbers, InWork
    <2>6. /\ Stack' <=> Stack
          /\ Records' <=> Records
      BY <2>1, <2>2, <2>3 DEF Stack, Records
    <2> QED BY <2>1, <2>4, <2>5, <2>6 DEF HistInv
  <1> QED BY <1>1, <1>2, <1>3, <1>4, <1>5, <1>6, <1>7, <1>8 DEF Next

\* What is kept of a track is what is known of it.
LEMMA RecordsPlace ==
  ASSUME Records, NEW i \in DOMAIN manager.infos
  PROVE  LET r == manager.infos[i]
         IN  /\ r.id \in DOMAIN truth.tracks
             /\ truth.tracks[r.id] = [self |-> r.self, from |-> r.from, born |-> r.born]
             /\ truth.tracks[r.id].self = r.self
  <1>1. LET r == manager.infos[i]
        IN  /\ r.id \in DOMAIN truth.tracks
            /\ truth.tracks[r.id] = [self |-> r.self, from |-> r.from, born |-> r.born]
    BY DEF Records
  <1> QED BY <1>1

\* What TrackOf() finds for a number is the track with this place in the history.
LEMMA TrackOfPlace ==
  ASSUME SeedInv, TypeInv, Numbers, Records, NEW id
  PROVE  IF \E i \in DOMAIN manager.infos : manager.infos[i].id = id
         THEN /\ id \in DOMAIN truth.tracks /\ TrackOf(id) # NULL
              /\ SelfOf(TrackOf(id)) = truth.tracks[id].self
         ELSE SelfOf(TrackOf(id)) = NULL
  <1>1. CASE \E i \in DOMAIN manager.infos : manager.infos[i].id = id
    <2>1. \E x \in ToSet(manager.infos) : x.id = id
      BY <1>1 DEF ToSet
    <2>2. TrackOf(id) \in ToSet(manager.infos) /\ TrackOf(id).id = id
      BY <2>1 DEF TrackOf
    <2>3. PICK i \in DOMAIN manager.infos : manager.infos[i] = TrackOf(id)
      BY <2>2 DEF ToSet
    <2>4. TrackOf(id) \in Infos
      BY <2>3, HistTypes, ElementOfSeq
    <2>5. TrackOf(id) # NULL
      BY <2>4, Geant4Assumption
    <2>6. id \in DOMAIN truth.tracks /\ truth.tracks[id].self = TrackOf(id).self
      BY <2>2, <2>3, RecordsPlace
    <2> QED BY <1>1, <2>5, <2>6 DEF SelfOf
  <1>2. CASE ~ \E i \in DOMAIN manager.infos : manager.infos[i].id = id
    <2>1. ~ \E x \in ToSet(manager.infos) : x.id = id
      BY <1>2 DEF ToSet
    <2>2. TrackOf(id) = NULL
      BY <2>1 DEF TrackOf
    <2> QED BY <1>2, <2>2 DEF SelfOf
  <1> QED BY <1>1, <1>2

\* The tracks that are dispatched, and the relation between them.
LEMMA TracksTrue ==
  ASSUME SeedInv, TypeInv, Numbers, Records
  PROVE  /\ \A i \in DOMAIN manager.infos : \E t \in MCTracks :
              t.self = manager.infos[i].self /\ t.from = manager.infos[i].from
              /\ t.born = manager.infos[i].born
         /\ \A t \in MCTracks : \E i \in DOMAIN manager.infos :
              t.self = manager.infos[i].self /\ t.from = manager.infos[i].from
              /\ t.born = manager.infos[i].born
              /\ t.parent = SelfOf(TrackOf(manager.parents[manager.infos[i].id]))
         /\ \A t \in MCTracks :
              /\ [self |-> t.self, from |-> t.from, born |-> t.born] \in Range(truth.tracks)
              /\ t.parent = IF \E u \in MCTracks : u.self = t.from THEN t.from ELSE NULL
  <1>1. \A i \in DOMAIN manager.infos : \E t \in MCTracks :
          t.self = manager.infos[i].self /\ t.from = manager.infos[i].from
          /\ t.born = manager.infos[i].born
    <2> SUFFICES ASSUME NEW i \in DOMAIN manager.infos
                 PROVE  \E t \in MCTracks :
                          t.self = manager.infos[i].self /\ t.from = manager.infos[i].from
                          /\ t.born = manager.infos[i].born
      OBVIOUS
    <2> DEFINE r == manager.infos[i]
               t == [self |-> r.self, from |-> r.from, born |-> r.born,
                     parent |-> SelfOf(TrackOf(manager.parents[r.id]))]
    <2>1. t \in MCTracks
      BY DEF MCTracks, ToSet
    <2>2. t.self = r.self /\ t.from = r.from /\ t.born = r.born
      OBVIOUS
    <2> HIDE DEF t
    <2> QED BY <2>1, <2>2
  <1>2. \A t \in MCTracks : \E i \in DOMAIN manager.infos :
          t.self = manager.infos[i].self /\ t.from = manager.infos[i].from
          /\ t.born = manager.infos[i].born
          /\ t.parent = SelfOf(TrackOf(manager.parents[manager.infos[i].id]))
    BY DEF MCTracks, ToSet
  <1>3. ASSUME NEW t \in MCTracks
        PROVE  /\ [self |-> t.self, from |-> t.from, born |-> t.born] \in Range(truth.tracks)
               /\ t.parent = IF \E u \in MCTracks : u.self = t.from THEN t.from ELSE NULL
    <2>1. PICK i \in DOMAIN manager.infos :
            t.self = manager.infos[i].self /\ t.from = manager.infos[i].from
            /\ t.born = manager.infos[i].born
            /\ t.parent = SelfOf(TrackOf(manager.parents[manager.infos[i].id]))
      BY <1>2
    <2> DEFINE id == manager.infos[i].id
               p == manager.parents[id]
    <2>2. /\ id \in DOMAIN truth.tracks
          /\ truth.tracks[id] = [self |-> t.self, from |-> t.from, born |-> t.born]
      BY <2>1 DEF Records
    <2>3. truth.tracks[id].from = t.from
      BY <2>2
    <2>4. IF t.from = NULL THEN p = 0 ELSE p \in DOMAIN truth.tracks /\ truth.tracks[p].self = t.from
      BY <2>2, <2>3 DEF Numbers
    <2>5. ASSUME NEW u \in MCTracks, u.self = t.from
          PROVE  t.from # NULL /\ \E j \in DOMAIN manager.infos : manager.infos[j].id = p
      <3>1. PICK j \in DOMAIN manager.infos : u.self = manager.infos[j].self
        BY <1>2
      <3>2. /\ manager.infos[j].id \in DOMAIN truth.tracks
            /\ truth.tracks[manager.infos[j].id].self = t.from
        BY <2>5, <3>1, RecordsPlace
      <3>3. t.from # NULL
        BY <3>2, HistTypes
      <3> QED BY <2>4, <3>2, <3>3 DEF Numbers
    <2>6. CASE \E j \in DOMAIN manager.infos : manager.infos[j].id = p
      <3>1. p \in DOMAIN truth.tracks /\ t.parent = truth.tracks[p].self
        BY <2>1, <2>6, TrackOfPlace
      <3>2. p # 0
        BY <3>1, HistTypes
      <3>3. t.parent = t.from
        BY <2>4, <3>1, <3>2
      <3>4. PICK j \in DOMAIN manager.infos : manager.infos[j].id = p
        BY <2>6
      <3>5. manager.infos[j].self = truth.tracks[p].self
        BY <3>4, RecordsPlace
      <3>6. \E u \in MCTracks : u.self = t.from
        BY <1>1, <3>1, <3>3, <3>5
      <3> QED BY <2>1, <2>2, <3>3, <3>6 DEF Range
    <2>7. CASE ~ \E j \in DOMAIN manager.infos : manager.infos[j].id = p
      <3>1. t.parent = NULL
        BY <2>1, <2>7, TrackOfPlace
      <3> QED BY <2>2, <2>5, <2>7, <3>1 DEF Range
    <2> QED BY <2>6, <2>7
  <1> QED BY <1>1, <1>2, <1>3

\* The particles of a sensor and their relations.
LEMMA ParticlesTrue ==
  ASSUME SeedInv, TypeInv, Numbers, Records, current = NULL, NEW s \in Sensors, InSensor(s)
  PROVE  /\ \A d \in Range(Deposits(s)) : d.particle = d.self
         /\ \A p \in Range(MCParticles(s)) : p.track = p.self /\ \E t \in MCTracks :
              /\ t.self = p.self
              /\ p.parent = IF t.born = s /\ \E q \in Range(MCParticles(s)) : q.self = t.from
                            THEN t.from ELSE NULL
  <1> DEFINE tracks == hits[s].tracks
             T == truth.tracks
             P == MCParticles(s)
  <1>1. \A d \in Range(Deposits(s)) : d.particle = d.self
    <2> SUFFICES ASSUME NEW i \in DOMAIN hits[s].deposits
                 PROVE  Deposits(s)[i].particle = Deposits(s)[i].self
      BY DEF Range, Deposits
    <2>1. /\ Deposits(s)[i].self = hits[s].deposits[i].self
          /\ Deposits(s)[i].particle = tracks[hits[s].deposits[i].id].self
      BY DEF Deposits
    <2> QED BY <2>1 DEF InSensor
  <1>2. /\ DOMAIN P = DOMAIN tracks
        /\ \A id \in DOMAIN tracks :
             /\ P[id].self = tracks[id].self /\ P[id].track = SelfOf(TrackOf(id))
             /\ P[id].parent = IF tracks[id].parent \in DOMAIN tracks
                               THEN tracks[tracks[id].parent].self ELSE NULL
    BY DEF MCParticles
  <1>3. \A id \in DOMAIN tracks :
          /\ id \in DOMAIN T /\ tracks[id].self = T[id].self
          /\ tracks[id].parent = IF T[id].born = s THEN manager.parents[id] ELSE 0
          /\ \E i \in DOMAIN manager.infos : manager.infos[i].id = id
    BY DEF InSensor, Kept
  <1> HIDE DEF P, T, tracks
  <1>4. ASSUME NEW id \in DOMAIN tracks
        PROVE  P[id].track = P[id].self /\ \E t \in MCTracks :
                 /\ t.self = P[id].self
                 /\ P[id].parent = IF t.born = s /\ \E q \in Range(P) : q.self = t.from
                                   THEN t.from ELSE NULL
    <2>1. P[id].track = P[id].self
      BY <1>2, <1>3, TrackOfPlace DEF T
    <2>2. PICK i \in DOMAIN manager.infos : manager.infos[i].id = id
      BY <1>3
    <2>3. T[id] = [self |-> manager.infos[i].self, from |-> manager.infos[i].from,
                   born |-> manager.infos[i].born]
      BY <2>2 DEF Records, T
    <2>4. PICK t \in MCTracks : t.self = T[id].self /\ t.from = T[id].from /\ t.born = T[id].born
      BY <2>3, TracksTrue
    <2>5. 0 \notin DOMAIN T /\ \A a \in DOMAIN T : T[a].self # NULL
      <3>1. 0 \notin DOMAIN truth.tracks /\ NULL \notin Selves
        BY HistTypes
      <3>2. \A a \in DOMAIN truth.tracks : truth.tracks[a].self \in Selves
        BY HistTypes
      <3> QED BY <3>1, <3>2 DEF T
    <2>6. /\ IF t.from = NULL THEN manager.parents[id] = 0
             ELSE manager.parents[id] \in DOMAIN T /\ T[manager.parents[id]].self = t.from
          /\ \A a, b \in DOMAIN T : T[a].self = T[b].self => a = b
      BY <1>3, <2>4 DEF Numbers, T
    <2>7. CASE t.born = s /\ \E q \in Range(P) : q.self = t.from
      <3>1. PICK b \in DOMAIN tracks : T[b].self = t.from
        BY <1>2, <1>3, <2>7 DEF Range
      <3>2. b \in DOMAIN T
        BY <1>3
      <3>3. manager.parents[id] = b
        BY <2>5, <2>6, <3>1, <3>2
      <3>4. tracks[id].parent = b
        BY <1>3, <2>4, <2>7, <3>3
      <3>5. P[id].parent = t.from
        BY <1>2, <1>3, <3>1, <3>4
      <3> QED BY <1>2, <1>3, <2>1, <2>4, <2>7, <3>5
    <2>8. CASE ~(t.born = s /\ \E q \in Range(P) : q.self = t.from)
      <3>1. tracks[id].parent \notin DOMAIN tracks
        <4> SUFFICES ASSUME tracks[id].parent \in DOMAIN tracks PROVE FALSE
          OBVIOUS
        <4>1. tracks[id].parent \in DOMAIN T /\ tracks[id].parent # 0
          BY <1>3, <2>5
        <4>2. t.born = s /\ tracks[id].parent = manager.parents[id]
          BY <1>3, <2>4, <4>1
        <4>3. P[tracks[id].parent].self = t.from
          BY <1>2, <1>3, <2>6, <4>1, <4>2
        <4> QED BY <1>2, <2>8, <4>2, <4>3 DEF Range
      <3>2. P[id].parent = NULL
        BY <1>2, <3>1
      <3> QED BY <1>2, <1>3, <2>1, <2>4, <2>8, <3>2
    <2> QED BY <2>7, <2>8
  <1>5. \A p \in Range(P) : \E id \in DOMAIN tracks : p = P[id]
    BY <1>2 DEF Range
  <1>6. \A p \in Range(P) : p.track = p.self /\ \E t \in MCTracks :
              /\ t.self = p.self
              /\ p.parent = IF t.born = s /\ \E q \in Range(P) : q.self = t.from
                            THEN t.from ELSE NULL
    BY <1>4, <1>5
  <1> QED BY <1>1, <1>6 DEF P

\* What a dispatch says of tracks and particles, until the next event starts.
LEMMA HistoryStep ==
  ASSUME SeedInv, TypeInv, DataInv, HistInv, HistoryTrue, [Next]_vars
  PROVE  HistoryTrue'
  <1>1. CASE Dispatch
    <2> SUFFICES ASSUME ~stranded' PROVE HistoryTrue'
      BY DEF HistoryTrue
    <2>1. /\ pc = "dispatch" /\ UNCHANGED <<recordAll, truth, stranded>>
          /\ out' = [tracks |-> MCTracks, particles |-> [s \in Sensors |-> MCParticles(s)],
               deposits |-> [s \in Sensors |-> Deposits(s)], scatters |-> rayleigh]
      BY <1>1 DEF Dispatch
    <2>2. /\ Numbers /\ Records /\ current = NULL /\ \A s \in Sensors : InSensor(s)
      BY <2>1 DEF HistInv, SeedInv
    <2>3. /\ out'.tracks = MCTracks
          /\ \A s \in Sensors : out'.particles[s] = MCParticles(s) /\ out'.deposits[s] = Deposits(s)
      BY <2>1
    <2>4. recordAll => {t.self : t \in MCTracks} = {t.self : t \in Range(truth.tracks)}
      <3> SUFFICES ASSUME recordAll
                   PROVE  {t.self : t \in MCTracks} = {t.self : t \in Range(truth.tracks)}
        OBVIOUS
      <3>1. \A t \in MCTracks : \E k \in Range(truth.tracks) : k.self = t.self
        <4>1. \A t \in MCTracks :
                [self |-> t.self, from |-> t.from, born |-> t.born] \in Range(truth.tracks)
          BY <2>2, TracksTrue
        <4>2. \A t : [self |-> t.self, from |-> t.from, born |-> t.born].self = t.self
          OBVIOUS
        <4> QED BY <4>1, <4>2
      <3>2. \A k \in Range(truth.tracks) : \E t \in MCTracks : t.self = k.self
        <4> SUFFICES ASSUME NEW a \in DOMAIN truth.tracks
                     PROVE  \E t \in MCTracks : t.self = truth.tracks[a].self
          BY DEF Range
        <4>1. PICK i \in DOMAIN manager.infos : manager.infos[i].id = a
          BY <2>2 DEF Records, Kept
        <4>2. manager.infos[i].self = truth.tracks[a].self
          BY <2>2, <4>1, RecordsPlace
        <4> QED BY <2>2, <4>2, TracksTrue
      <3> QED BY <3>1, <3>2
    <2>5. \A t \in MCTracks :
             /\ [self |-> t.self, from |-> t.from, born |-> t.born] \in Range(truth.tracks)
             /\ t.parent = IF \E u \in MCTracks : u.self = t.from THEN t.from ELSE NULL
      BY <2>2, TracksTrue
    <2>6. \A s \in Sensors :
            /\ \A d \in Range(Deposits(s)) : d.particle = d.self
            /\ \A p \in Range(MCParticles(s)) : p.track = p.self /\ \E t \in MCTracks :
                 /\ t.self = p.self
                 /\ p.parent = IF t.born = s /\ \E q \in Range(MCParticles(s)) : q.self = t.from
                               THEN t.from ELSE NULL
      BY <2>2, ParticlesTrue
    <2>7. /\ \A t \in out'.tracks :
               /\ [self |-> t.self, from |-> t.from, born |-> t.born] \in Range(truth'.tracks)
               /\ t.parent = IF \E u \in out'.tracks : u.self = t.from THEN t.from ELSE NULL
          /\ recordAll' => {t.self : t \in out'.tracks} = {t.self : t \in Range(truth'.tracks)}
      BY <2>1, <2>3, <2>4, <2>5
    <2>8. \A s \in Sensors :
            /\ \A d \in Range(out'.deposits[s]) : d.particle = d.self
            /\ \A p \in Range(out'.particles[s]) : p.track = p.self /\ \E t \in out'.tracks :
                 /\ t.self = p.self
                 /\ p.parent = IF t.born = s /\ \E q \in Range(out'.particles[s]) : q.self = t.from
                               THEN t.from ELSE NULL
      BY <2>3, <2>6
    <2> QED BY <2>7, <2>8 DEF HistoryTrue
  <1>2. CASE Run \/ GenerateEvent \/ TerminateEvent \/ TerminateBeam \/ AbortEvent
             \/ AbortPrimaries \/ OtherException \/ NoMorePrimaries
    <2>1. pc' # "idle" \/ out' = NULL
      BY <1>2 DEF Run, GenerateEvent, TerminateEvent, TerminateBeam, AbortEvent,
                  AbortPrimaries, Abort, OtherException, NoMorePrimaries, Strand
    <2> QED BY <2>1 DEF HistoryTrue, Dispatched
  <1>3. CASE StartTrack \/ Step \/ EndTrack
    <2>1. pc' # "idle"
      BY <1>3, HooksInTracking
    <2> QED BY <2>1 DEF HistoryTrue, Dispatched
  <1>4. CASE UNCHANGED vars
    BY <1>4 DEF vars, HistoryTrue, Dispatched
  <1> QED BY <1>1, <1>2, <1>3, <1>4 DEF Next

\* Deposits, particles and tracks are linked as the tracks were simulated, although
\* each particle of an event starts the numbers of Geant4 anew and only the tracks
\* that some sensor saw are kept.
THEOREM HistoryTrueHolds == Spec => []HistoryTrue
  <1>1. Init => DataInv /\ HistInv /\ HistoryTrue
    BY DataInit, HistInit DEF Init, HistoryTrue, Dispatched
  <1>2. SeedInv /\ TypeInv /\ DataInv /\ [Next]_vars => DataInv'
    BY DataStep
  <1>3. SeedInv /\ TypeInv /\ DataInv /\ HistInv /\ [Next]_vars => HistInv'
    BY HistStep
  <1>4. SeedInv /\ TypeInv /\ DataInv /\ HistInv /\ HistoryTrue /\ [Next]_vars => HistoryTrue'
    BY HistoryStep
  <1> QED BY <1>1, <1>2, <1>3, <1>4, SeedInvariant, TypeInvariant, PTL DEF Spec
=============================================================================
