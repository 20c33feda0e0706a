-------------------------- MODULE DepositionGeant4 --------------------------
(***************************************************************************)
(* DepositionGeant4 on one worker thread: the events that the thread runs, *)
(* each as a number of Geant4 events, and what is collected meanwhile by   *)
(* the tracking hooks, the sensitive detectors and the stepping hook.  All *)
(* of it is local to the thread and outlives the event, also when Geant4   *)
(* is left by an exception.  Geant4 is external: it calls the hooks, track *)
(* by track, and refuses a run unless its state is "Idle".                 *)
(***************************************************************************)
EXTENDS Naturals, SequencesExt, FiniteSetsExt, Functions

CONSTANTS
    Sensors,            \* detectors with a sensitive volume
    World,              \* any other volume
    NumParticles,       \* number_of_particles: Geant4 events of an event
    NumEvents,          \* bound on the events that the thread runs
    MaxTracks,          \* bound on the tracks of a Geant4 event
    MaxSteps,           \* bound on the recorded steps of an event
    NULL

Volumes == Sensors \cup {World}

\* Who a track is: its event, the Geant4 events that were left, its number there.
Selves == Nat \X Nat \X Nat
\* Tracks of Geant4, a track in work, and what the manager keeps of it.
Tracks == [g4 : Nat, parent : Nat, born : Volumes, self : Selves, from : Selves \cup {NULL}]
TracksInWork == [track : Tracks, id : Nat, parent : Nat]
Infos == [id : Nat, self : Selves, from : Selves \cup {NULL}, born : Volumes]
\* A track that Geant4 started, in the history of the event.
Started == [self : Selves, from : Selves \cup {NULL}, born : Volumes]

ASSUME Geant4Assumption ==
    /\ IsFiniteSet(Sensors) /\ Sensors # {} /\ World \notin Sensors
    /\ {NumParticles, NumEvents, MaxTracks, MaxSteps} \subseteq Nat \ {0}
    /\ NULL \notin Selves \cup TracksInWork \cup Infos

VARIABLES
    recordAll,  \* record_all_tracks
    pc,         \* "idle", "beam" in DoEventLoop(), "tracking", "dispatch"
    event,      \* the last event that the thread started
    left,       \* Geant4 events left in the run of Geant4
    state,      \* state of the G4StateManager: "Idle", "GeomClosed", "EventProc"
    aborted,    \* runAborted of the worker run manager
    seeded,     \* runIsSeeded
    seeds,      \* seedsQueue: an entry for the two seeds of an event
    engine,     \* the event whose seeds the engine of Geant4 was given
    waiting,    \* the stack of Geant4: tracks that wait
    current,    \* the track in work with its TrackInfoG4, or NULL
    lastTrack,  \* the last track number that Geant4 gave
    manager,    \* TrackInfoManager
    hits,       \* hits[s]: the tracks and deposits of sensitive detector s
    rayleigh,   \* rayleigh_scatters_
    out,        \* messages of the last event, until the next one starts
    truth,      \* history: deposits, scatters and tracks of the event in work
    steps,      \* history: steps recorded in the event
    stranded    \* history: an exception other than AbortEventException went by

geant4 == <<left, state, aborted, seeded, seeds, engine>>
tracking == <<waiting, current, lastTrack>>
vars == <<recordAll, pc, event, geant4, tracking, manager, hits, rayleigh, out,
          truth, steps, stranded>>

NoTracks == [counter |-> 1, ids |-> <<>>, parents |-> <<>>, toStore |-> {}, infos |-> <<>>]
NoHits == [tracks |-> <<>>, deposits |-> <<>>]
Nothing == [deposits |-> [s \in Sensors |-> <<>>], scatters |-> 0, tracks |-> <<>>]

Init ==
    /\ recordAll \in BOOLEAN
    /\ pc = "idle" /\ event = 0 /\ left = 0 /\ state = "Idle"
    /\ aborted = FALSE /\ seeded = FALSE /\ seeds = <<>> /\ engine = 0
    /\ waiting = <<>> /\ current = NULL /\ lastTrack = 0
    /\ manager = NoTracks /\ hits = [s \in Sensors |-> NoHits] /\ rayleigh = <<>>
    /\ out = NULL /\ truth = Nothing /\ steps = 0 /\ stranded = FALSE

-----------------------------------------------------------------------------
(* DepositionGeant4Module::run() and the worker run manager *)

\* Takes the seeds and starts the beam.  Geant4 refuses with a mere warning when
\* its state is not idle.
Run ==
    /\ pc = "idle" /\ event < NumEvents
    /\ event' = event + 1 /\ rayleigh' = <<>>
    /\ seeds' = Append(seeds, event + 1)
    /\ IF state = "Idle"
       THEN /\ pc' = "beam" /\ state' = "GeomClosed" /\ left' = NumParticles
            /\ aborted' = FALSE /\ seeded' = FALSE
       ELSE /\ pc' = "dispatch" /\ UNCHANGED <<state, left, aborted, seeded>>
    /\ out' = NULL /\ truth' = Nothing /\ steps' = 0 /\ lastTrack' = 0
    /\ UNCHANGED <<recordAll, engine, waiting, current, manager, hits, stranded>>

\* Mutant: every Geant4 event takes seeds.
SeedEach == TRUE
\* Only the first Geant4 event of a run takes seeds from the queue.
SeedNow == ~seeded

TakeSeeds ==
    /\ IF SeedNow
       THEN /\ engine' = IF seeds = <<>> THEN 0 ELSE Head(seeds)
            /\ seeds' = IF seeds = <<>> THEN <<>> ELSE Tail(seeds)
       ELSE UNCHANGED <<engine, seeds>>
    /\ seeded' = TRUE

Track(g4, from, born, whose) ==
    [g4 |-> g4, parent |-> from, born |-> born, self |-> <<event, left, g4>>, from |-> whose]

\* GenerateEvent(): the seeds, and the tracks of one or two primaries.
GenerateEvent ==
    /\ pc = "beam" /\ left > 0 /\ ~aborted
    /\ TakeSeeds
    /\ \E n \in 1 .. 2 :
         /\ n <= MaxTracks
         /\ waiting' = [i \in 1 .. n |-> Track(i, 0, World, NULL)]
         /\ lastTrack' = n
    /\ state' = "EventProc" /\ pc' = "tracking"
    /\ UNCHANGED <<recordAll, event, left, aborted, current, manager, hits, rayleigh,
                   out, truth, steps, stranded>>

\* The tracks of a Geant4 event are done.
TerminateEvent ==
    /\ pc = "tracking" /\ waiting = <<>> /\ current = NULL
    /\ left' = left - 1 /\ pc' = "beam" /\ state' = "GeomClosed"
    /\ UNCHANGED <<recordAll, event, aborted, seeded, seeds, engine, tracking, manager,
                   hits, rayleigh, out, truth, steps, stranded>>

TerminateBeam ==
    /\ pc = "beam" /\ (left = 0 \/ aborted)
    /\ state' = "Idle" /\ pc' = "dispatch"
    /\ UNCHANGED <<recordAll, event, left, aborted, seeded, seeds, engine, tracking,
                   manager, hits, rayleigh, out, truth, steps, stranded>>

-----------------------------------------------------------------------------
(* The hooks of Geant4 *)

Set(f, k, v) == [x \in DOMAIN f \cup {k} |-> IF x = k THEN v ELSE f[x]]

\* PreUserTrackingAction() and makeTrackInfo(): the numbers of Geant4 start again
\* with each Geant4 event, those of the manager go on.
StartTrack ==
    /\ pc = "tracking" /\ current = NULL /\ waiting # <<>>
    /\ LET t      == Last(waiting)
           id     == manager.counter
           parent == IF t.parent = 0 THEN 0 ELSE manager.ids[t.parent]
       IN  /\ current' = [track |-> t, id |-> id, parent |-> parent]
           /\ waiting' = Front(waiting)
           /\ manager' = [manager EXCEPT !.counter = id + 1, !.ids = Set(@, t.g4, id),
                                         !.parents = Set(@, id, parent)]
           /\ truth' = [truth EXCEPT !.tracks =
                Append(@, [self |-> t.self, from |-> t.from, born |-> t.born])]
    /\ UNCHANGED <<recordAll, pc, event, geant4, lastTrack, hits, rayleigh, out, steps,
                   stranded>>

Moving == current # NULL /\ state = "EventProc"

\* Mutant: the parent counts wherever the track was born.
ParentAnywhere(s) == current.parent
\* A track that was born elsewhere is a primary one for the sensor.
ParentIn(s) == IF current.track.born = s THEN current.parent ELSE 0

\* ProcessHits() in sensor s: the first hit of a track is remembered, a step that
\* sets charge free is a deposit.  Late steps are no hits at all.
ProcessHits(s, charged) ==
    /\ Moving /\ steps < MaxSteps
    /\ LET id    == current.id
           first == [parent |-> ParentIn(s), self |-> current.track.self]
       IN  /\ hits' = [hits EXCEPT
                 ![s].tracks   = IF id \in DOMAIN @ THEN @ ELSE Set(@, id, first),
                 ![s].deposits = IF charged
                                 THEN Append(@, [id |-> id, self |-> current.track.self]) ELSE @]
           /\ manager' = IF id \in DOMAIN hits[s].tracks THEN manager
                         ELSE [manager EXCEPT !.toStore = @ \cup {id}]
    /\ truth' = IF charged
                THEN [truth EXCEPT !.deposits[s] = Append(@, current.track.self)] ELSE truth
    /\ steps' = steps + 1
    /\ UNCHANGED <<recordAll, pc, event, geant4, tracking, rayleigh, out, stranded>>

\* UserSteppingAction() after a Rayleigh scattering.
Scatter ==
    /\ Moving /\ steps < MaxSteps
    /\ rayleigh' = Append(rayleigh, event)
    /\ truth' = [truth EXCEPT !.scatters = @ + 1]
    /\ steps' = steps + 1
    /\ UNCHANGED <<recordAll, pc, event, geant4, tracking, manager, hits, out, stranded>>

\* The step makes a secondary particle.
Secondary(volume) ==
    /\ Moving /\ lastTrack < MaxTracks
    /\ lastTrack' = lastTrack + 1
    /\ waiting' = Append(waiting,
         Track(lastTrack + 1, current.track.g4, volume, current.track.self))
    /\ UNCHANGED <<recordAll, pc, event, geant4, current, manager, hits, rayleigh, out,
                   truth, steps, stranded>>

\* PostUserTrackingAction() and storeTrackInfo().
EndTrack ==
    /\ current # NULL
    /\ LET info == [id |-> current.id, self |-> current.track.self,
                    from |-> current.track.from, born |-> current.track.born]
       IN  manager' = [manager EXCEPT
             !.infos   = IF recordAll \/ info.id \in manager.toStore THEN Append(@, info) ELSE @,
             !.toStore = @ \ {info.id}]
    /\ current' = NULL
    /\ UNCHANGED <<recordAll, pc, event, geant4, waiting, lastTrack, hits, rayleigh, out,
                   truth, steps, stranded>>

\* UserSteppingAction() finds a negative step length and aborts the run: the
\* waiting tracks are gone, the current one ends, and no exception is thrown.
NegativeStep ==
    /\ Moving
    /\ aborted' = TRUE /\ state' = "Idle" /\ waiting' = <<>>
    /\ UNCHANGED <<recordAll, pc, event, left, seeded, seeds, engine, current, lastTrack,
                   manager, hits, rayleigh, out, truth, steps, stranded>>

-----------------------------------------------------------------------------
(* Messages *)

TrackOf(id) == IF \E i \in ToSet(manager.infos) : i.id = id
               THEN CHOOSE i \in ToSet(manager.infos) : i.id = id ELSE NULL
SelfOf(info) == IF info = NULL THEN NULL ELSE info.self

\* createMCTracks() and set_all_track_parents().
MCTracks == {[self |-> i.self, from |-> i.from, born |-> i.born,
              parent |-> SelfOf(TrackOf(manager.parents[i.id]))] : i \in ToSet(manager.infos)}

\* dispatchMessages() of a sensitive detector: particles with their tracks and
\* parents, deposits with their particles.
MCParticles(s) ==
    LET tracks == hits[s].tracks
    IN  [id \in DOMAIN tracks |->
           [self |-> tracks[id].self, track |-> SelfOf(TrackOf(id)),
            parent |-> IF tracks[id].parent \in DOMAIN tracks
                       THEN tracks[tracks[id].parent].self ELSE NULL]]

Deposits(s) == [i \in DOMAIN hits[s].deposits |->
    LET d == hits[s].deposits[i]
    IN  [self |-> d.self, particle |-> hits[s].tracks[d.id].self]]

\* Mutant: what was collected in the sensors stays.
ResetTracksOnly == manager' = NoTracks /\ rayleigh' = <<>> /\ UNCHANGED hits
\* clearEventInfo() of the sensors, clearRayleighScatterInfo(), resetTrackInfoManager().
Clear ==
    /\ hits' = [s \in Sensors |-> NoHits]
    /\ rayleigh' = <<>> /\ manager' = NoTracks

\* The time reference of a sensor without hits is read past the end of its map, and
\* is not used then, as there is nothing to send.
Dispatch ==
    /\ pc = "dispatch"
    /\ out' = [tracks |-> MCTracks, particles |-> [s \in Sensors |-> MCParticles(s)],
               deposits |-> [s \in Sensors |-> Deposits(s)], scatters |-> rayleigh]
    /\ Clear
    /\ pc' = "idle"
    /\ UNCHANGED <<recordAll, event, geant4, tracking, truth, steps, stranded>>

-----------------------------------------------------------------------------
(* Exceptions: Geant4 reports a problem, which G4ExceptionHandler throws, or   *)
(* GeneratePrimaries() finds no more events                                    *)

\* AbortEventException is caught by run(), which cleans up and aborts the run, be it
\* thrown while tracks are simulated or by the generator of the primaries.
Abort ==
    /\ Clear
    /\ aborted' = TRUE /\ state' = "Idle"
    /\ waiting' = <<>> /\ current' = NULL
    /\ pc' = "idle" /\ out' = NULL
    /\ UNCHANGED <<recordAll, event, left, lastTrack, truth, steps, stranded>>

AbortEvent == pc = "tracking" /\ state = "EventProc" /\ Abort /\ UNCHANGED <<seeded, seeds, engine>>
AbortPrimaries == pc = "beam" /\ left > 0 /\ ~aborted /\ TakeSeeds /\ Abort

\* EndOfRunException and ModuleError leave everything as it is.
Strand ==
    /\ waiting' = <<>> /\ current' = NULL
    /\ pc' = "idle" /\ out' = NULL /\ stranded' = TRUE
    /\ UNCHANGED <<recordAll, event, left, state, aborted, lastTrack, manager, hits,
                   rayleigh, truth, steps>>

OtherException == pc = "tracking" /\ state = "EventProc" /\ Strand /\ UNCHANGED <<seeded, seeds, engine>>
NoMorePrimaries == pc = "beam" /\ left > 0 /\ ~aborted /\ TakeSeeds /\ Strand

-----------------------------------------------------------------------------

Step == \/ \E s \in Sensors, charged \in BOOLEAN : ProcessHits(s, charged)
        \/ Scatter
        \/ \E volume \in Volumes : Secondary(volume)
        \/ NegativeStep

Next == \/ Run \/ GenerateEvent \/ TerminateEvent \/ TerminateBeam \/ Dispatch
        \/ StartTrack \/ Step \/ EndTrack
        \/ AbortEvent \/ AbortPrimaries \/ OtherException \/ NoMorePrimaries

Spec == Init /\ [][Next]_vars

-----------------------------------------------------------------------------
(* Properties *)

Dispatched == pc = "idle" /\ out # NULL

\* Geant4 works with the seeds of the event it simulates, also after events that
\* were aborted or ended early, and none are left over (MTRunManager::Run(),
\* WorkerRunManager::GenerateEvent()).
SeedsMatch ==
    ~stranded => /\ pc = "tracking" => engine = event
                 /\ pc = "idle" => seeds = <<>>

\* An event is dispatched with all of its deposits and scatters, in their order,
\* and none of an event that ran on the thread before (run(), clearEventInfo()).
OwnDataOnly ==
    Dispatched /\ ~stranded =>
        /\ \A s \in Sensors :
             [i \in DOMAIN out.deposits[s] |-> out.deposits[s][i].self] = truth.deposits[s]
        /\ out.scatters = [i \in 1 .. truth.scatters |-> event]

\* Every deposit belongs to the particle of its own track, every particle has its
\* own MCTrack, and its parent is the particle of the parent track if it was born in
\* the sensor; the tracks of the event are linked alike.  This holds although Geant4
\* numbers the tracks of each particle of the event anew.
HistoryTrue ==
    Dispatched /\ ~stranded =>
        /\ \A t \in out.tracks :
             /\ [self |-> t.self, from |-> t.from, born |-> t.born] \in Range(truth.tracks)
             /\ t.parent = IF \E u \in out.tracks : u.self = t.from THEN t.from ELSE NULL
        /\ recordAll => {t.self : t \in out.tracks} = {t.self : t \in Range(truth.tracks)}
        /\ \A s \in Sensors :
             LET particles == Range(out.particles[s])
             IN  /\ \A d \in Range(out.deposits[s]) : d.particle = d.self
                 /\ \A p \in particles : p.track = p.self /\ \E t \in out.tracks :
                      /\ t.self = p.self
                      /\ p.parent = IF t.born = s /\ \E q \in particles : q.self = t.from
                                    THEN t.from ELSE NULL

\* Claimed by the comment of MTRunManager: the results of each event are independent
\* from each other.
EventsIndependent ==
    Dispatched => \A s \in Sensors : \A d \in Range(out.deposits[s]) : d.self[1] = event

\* Claimed by the message of UserSteppingAction(): a negative step aborts the event.
NegativeStepAborts == Dispatched /\ ~stranded => ~aborted
=============================================================================
