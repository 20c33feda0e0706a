---------------------------- MODULE InputReaders ----------------------------
(***************************************************************************)
(* The modules that read their input event by event: DepositionReader from *)
(* CSV files and ROOT trees, DepositionGenerator from GENIE and HepMC      *)
(* files.  They are sequential modules, so that the events reach them one  *)
(* by one and in order, from number 1 + skip_events on.  Each format has   *)
(* its own rule to match the numbers in the file, which start at zero and  *)
(* may have gaps, with the numbers of the events.  One step is one record  *)
(* of the file.                                                            *)
(***************************************************************************)
EXTENDS FileAccess

CONSTANTS
    Formats,    \* the formats to explore
    Files,      \* contents of the file: a set of sequences of file events
    Skips       \* values of skip_events

\* DepositionReader with CSV, ROOT and ROOT with require_sequential_events unset;
\* DepositionGenerator.
Deposited == {"CSV", "ROOT", "BLOCKS"}
Generated == {"GENIE", "HEPMC"}

\* A file event has a number and items, deposits or particles.  An item counts
\* unless it lies in no sensor, or is no final-state particle.
Unknown == "unknown"    \* a detector that the geometry does not have
Items == [id : Nat, detector : Detectors \cup {Unknown}, track : Nat, parent : Nat,
          charge : Nat, inside : BOOLEAN]

\* The events are in the order of their numbers, the items are identified by their
\* order in the file.
Ordered(f) ==
    \A i, j \in DOMAIN f :
      /\ i < j => f[i].number < f[j].number
      /\ \A k \in DOMAIN f[i].items, l \in DOMAIN f[j].items :
           i < j \/ (i = j /\ k < l) => f[i].items[k].id < f[j].items[l].id

ASSUME InputAssumption ==
    /\ Formats \subseteq Deposited \cup Generated
    /\ Skips \subseteq Nat
    /\ Files \subseteq Seq([number : Nat, items : Seq(Items)])
    /\ \A f \in Files : Ordered(f)
    /\ NULL \notin Nat /\ NULL \notin Detectors \X Nat

VARIABLES
    format,     \* the format of the file
    file,       \* its events
    newline,    \* the last line ends with a newline; always, but for CSV files
    skip,       \* skip_events
    number,     \* number of the event that was last started
    pc,         \* "idle", "read" in run() of the module, or "end" of the run
    position,   \* the next record of the file
    block,      \* curr_event_id, or the number of the HepMC event in hand
    collected,  \* items read for this event
    particles,  \* MCParticles of this event, per detector
    delivered   \* delivered[n]: what event n was given

InputSetup == <<format, file, newline, skip>>
inputVars == <<InputSetup, number, pc, position, block, collected, particles, delivered>>

\* The records of a file.  CSV: a header for each event and a line for each deposit;
\* ROOT: an entry for each deposit; generators: an entry for each event.
Record(kind, e, items) == [kind |-> kind, number |-> e.number, items |-> items]
Deposits(e) == [i \in DOMAIN e.items |-> Record("deposit", e, <<e.items[i]>>)]
RecordsOf(e, f) == CASE f = "CSV" -> <<Record("header", e, <<>>)>> \o Deposits(e)
                     [] f \in {"ROOT", "BLOCKS"} -> Deposits(e)
                     [] OTHER -> <<Record("event", e, e.items)>>
InputRecords == [f \in Formats |-> [c \in Files |->
              FlattenSeq([i \in DOMAIN c |-> RecordsOf(c[i], f)])]]

Input == InputRecords[format][file]
\* A last line without a newline is not used: getline() meets the end of the file
\* in it, and read_csv() throws before it looks at the line.
Readable == IF newline THEN Len(Input) ELSE Len(Input) - 1
AtEnd == position > Readable
Current == Input[position]

InputInit ==
    /\ format \in Formats /\ file \in Files /\ skip \in Skips
    /\ newline \in BOOLEAN /\ (newline \/ (format = "CSV" /\ Len(Input) > 0))
    /\ number = skip /\ pc = "idle" /\ position = 1
    /\ block = NULL /\ collected = <<>> /\ particles = <<>> /\ delivered = <<>>

\* The event loop starts the next event, also when the input has ended and the
\* request to stop comes too late.
StartEvent ==
    /\ pc # "read" /\ number < skip + NumEvents
    /\ number' = number + 1 /\ pc' = "read"
    /\ block' = NULL /\ collected' = <<>> /\ particles' = <<>>
    /\ UNCHANGED <<InputSetup, position, delivered>>

-----------------------------------------------------------------------------
(* DepositionReaderModule::run() *)

\* MCParticles and what track_id_to_mcparticle finds: the particle of a track in
\* a detector adds up the charge of its deposits.
\* Mutant: one particle for the track in all detectors.
ParticleAnywhere(item) == <<"any", item.track>>
ParticleOf(item) == <<item.detector, item.track>>

AddParticle(ps, item) ==
    LET p == ParticleOf(item)
    IN  IF p \in DOMAIN ps
        THEN [ps EXCEPT ![p].charge = @ + item.charge]
        ELSE [q \in DOMAIN ps \cup {p} |-> IF q = p
                THEN [charge |-> item.charge, parent |-> item.parent] ELSE ps[q]]

\* The parent of a particle, if it is another particle of the same detector.
Parent(ps, p) ==
    LET q == <<p[1], ps[p].parent>>
    IN  IF q \in DOMAIN ps \ {p} THEN q ELSE NULL

\* The messages: deposits that refer to their particle, particles to their parent.
Message ==
    [deposits |-> [i \in DOMAIN collected |->
                     [item |-> collected[i], particle |-> ParticleOf(collected[i])]],
     particles |-> [p \in DOMAIN particles |->
                     [charge |-> particles[p].charge, parent |-> Parent(particles, p)]]]

Dispatch(next) ==
    /\ delivered' = Append(delivered, Message)
    /\ pc' = next
    /\ UNCHANGED <<InputSetup, number, block, collected, particles>>

\* Adds the item of the record, unless the detector is unknown or the position is
\* outside of its sensor, and advances the file.
Collect ==
    /\ LET item == Current.items[1]
       IN  IF item.detector \in Detectors /\ item.inside
           THEN /\ collected' = Append(collected, item)
                /\ particles' = AddParticle(particles, item)
           ELSE UNCHANGED <<collected, particles>>
    /\ position' = position + 1
    /\ UNCHANGED <<InputSetup, number, pc, delivered>>

\* Mutant: the exception leaves at once.
EndOfRunAtOnce ==
    /\ pc' = "end"
    /\ delivered' = Append(delivered, [deposits |-> <<>>, particles |-> <<>>])
    /\ UNCHANGED <<InputSetup, number, position, block, collected, particles>>

\* The end of the file: the items read so far are dispatched before
\* EndOfRunException leaves run().
EndOfRunNow == Dispatch("end") /\ UNCHANGED position

EndOfInput == pc = "read" /\ format \in Deposited /\ AtEnd /\ EndOfRunNow

\* Mutant: the numbers are compared as if both started at one.
LaterByOne(r) == r.number > number
Later(r) == r.number + 1 > number

\* read_csv(): a header of a later event ends this event, and is consumed.
ReadHeader ==
    /\ pc = "read" /\ format = "CSV" /\ ~AtEnd /\ Current.kind = "header"
    /\ position' = position + 1
    /\ IF Later(Current) THEN Dispatch("idle")
       ELSE UNCHANGED <<InputSetup, number, pc, block, collected, particles, delivered>>

ReadLine ==
    /\ pc = "read" /\ format = "CSV" /\ ~AtEnd /\ Current.kind = "deposit"
    /\ Collect /\ UNCHANGED block

\* read_root(): the entry of a later event stays where it is.
ReadEntry ==
    /\ pc = "read" /\ format = "ROOT" /\ ~AtEnd
    /\ IF Later(Current) THEN Dispatch("idle") /\ UNCHANGED position
       ELSE Collect /\ UNCHANGED block

\* Without require_sequential_events the number has to change, to whatever.
ReadBlock ==
    /\ pc = "read" /\ format = "BLOCKS" /\ ~AtEnd
    /\ IF block \notin {NULL, Current.number} THEN Dispatch("idle") /\ UNCHANGED position
       ELSE Collect /\ block' = Current.number

-----------------------------------------------------------------------------
(* PrimariesReader::getParticles(), called while Geant4 generates the event *)

Accepted(r) == Only(r.items, {item \in ToSet(r.items) : item.inside})

Generate(items, next) ==
    /\ delivered' = Append(delivered,
         [deposits |-> [i \in DOMAIN items |-> [item |-> items[i], particle |-> NULL]],
          particles |-> <<>>])
    /\ pc' = next
    /\ UNCHANGED <<InputSetup, number, collected, particles>>

\* Both readers: nothing left, the run ends.
EndOfGenerator ==
    /\ pc = "read" /\ format \in Generated /\ AtEnd /\ block = NULL
    /\ Generate(<<>>, "end") /\ UNCHANGED <<position, block>>

\* The entry is consumed also when it belongs to a later event.
ReadGenie ==
    /\ pc = "read" /\ format = "GENIE" /\ ~AtEnd
    /\ Generate(IF Later(Current) THEN <<>> ELSE Accepted(Current), "idle")
    /\ position' = position + 1 /\ UNCHANGED block

\* read_event(); a read that fails leaves an event with an earlier number.
ReadHepMC ==
    /\ pc = "read" /\ format = "HEPMC" /\ block = NULL /\ ~AtEnd
    /\ block' = position /\ position' = position + 1
    /\ UNCHANGED <<InputSetup, number, pc, collected, particles, delivered>>

\* Mutant: events that are too late are dropped as well.
NotMine(r) == r.number + 1 # number
TooEarly(r) == r.number + 1 < number

\* Events that are too early are dropped, without a look at failed().
DropHepMC ==
    /\ pc = "read" /\ format = "HEPMC" /\ block # NULL
    /\ TooEarly(Input[block])
    /\ IF AtEnd THEN UNCHANGED <<block, position>>
       ELSE block' = position /\ position' = position + 1
    /\ UNCHANGED <<InputSetup, number, pc, collected, particles, delivered>>

TakeHepMC ==
    /\ pc = "read" /\ format = "HEPMC" /\ block # NULL
    /\ ~TooEarly(Input[block])
    /\ Generate(IF Later(Input[block]) THEN <<>> ELSE Accepted(Input[block]), "idle")
    /\ UNCHANGED <<position, block>>

-----------------------------------------------------------------------------

ReadInput == \/ EndOfInput \/ ReadHeader \/ ReadLine \/ ReadEntry \/ ReadBlock
        \/ EndOfGenerator \/ ReadGenie \/ ReadHepMC \/ DropHepMC \/ TakeHepMC

InputNext == StartEvent \/ ReadInput

InputSpec == InputInit /\ [][InputNext]_inputVars /\ WF_inputVars(ReadInput)

-----------------------------------------------------------------------------
(* Properties *)

Given(n) == [i \in DOMAIN delivered[n].deposits |-> delivered[n].deposits[i].item]
Usable(items) == Only(items, {item \in ToSet(items) :
    item.inside /\ (format \in Deposited => item.detector \in Detectors)})

\* What the file holds for event n of the run: file numbers start at zero.
Own(n) == FlattenSeq([i \in DOMAIN file |->
    IF file[i].number + 1 = skip + n THEN Usable(file[i].items) ELSE <<>>])
Matched == \A n \in DOMAIN delivered : Given(n) = Own(n)

\* A file that has every number from zero on, read from its start; HepMC files
\* alone can be entered later.  A tree shows only events that have entries.
Regular ==
    /\ \A i \in DOMAIN file : file[i].number = i - 1
    /\ skip = 0 \/ format = "HEPMC"
    /\ format = "BLOCKS" => \A i \in DOMAIN file : file[i].items # <<>>

\* Every event is given what the file holds for its number, no matter which format
\* and in which event the file ends (DepositionReader run(), getParticles()).
EventsMatched == Regular /\ newline => Matched

\* With every file, items are given once and in the order of the file; what
\* DepositionReader has passed in the file is given or in its hands, and when it ends
\* the run it has passed all but a last line without a newline; and the rules that
\* compare numbers without consuming never give an item too early.
GivenSoFar == FlattenSeq([n \in DOMAIN delivered |-> Given(n)])
InHand == IF pc = "read" THEN collected ELSE <<>>
DeliveredOnce ==
    /\ \A i, j \in DOMAIN GivenSoFar : i < j => GivenSoFar[i].id < GivenSoFar[j].id
    /\ format \in Deposited =>
         /\ GivenSoFar \o InHand = FlattenSeq([i \in 1 .. position - 1 |-> Usable(Input[i].items)])
         /\ pc = "end" => position = Readable + 1
    /\ format \in {"ROOT"} \cup Generated =>
         \A n \in DOMAIN delivered : \A e \in Range(file) :
           e.number + 1 > skip + n => ToSet(Given(n)) \cap ToSet(e.items) = {}

\* Both: nothing goes to a wrong event, twice or out of order, and no line that ends
\* with a newline is lost when the file ends in the middle of an event.
DeliveredExactly == EventsMatched /\ DeliveredOnce

\* The charge of a track in a detector.
ChargeOf(items, detector, track) ==
    LET sum[i \in 0 .. Len(items)] ==
          IF i = 0 THEN 0
          ELSE sum[i - 1] + (IF items[i].detector = detector /\ items[i].track = track
                             THEN items[i].charge ELSE 0)
    IN  sum[Len(items)]

\* The particle of a deposit has the charge of all deposits of its track in its
\* detector, and the parent is the particle of the parent track there.
ParticlesTrue ==
    format \in Deposited => \A n \in DOMAIN delivered :
      \A d \in ToSet(delivered[n].deposits) :
        LET p    == delivered[n].particles[d.particle]
            here == {item \in ToSet(Given(n)) : item.detector = d.item.detector}
        IN  /\ p.charge = ChargeOf(Given(n), d.item.detector, d.item.track)
            /\ (p.parent # NULL) <=> \E item \in here : item.track # d.item.track
                 /\ \E first \in here : /\ first.track = d.item.track
                                        /\ first.parent = item.track
                                        /\ \A other \in here :
                                             other.track = first.track => first.id <= other.id

\* Reading an event comes to an end, except in a HepMC file that ends before the
\* first event of the run.
EventsFinish ==
    (pc = "read" /\ ~(format = "HEPMC" /\ Last(file).number < skip)) ~> pc # "read"

\* Claimed by the documentation of DepositionGenerator: event numbers are matched,
\* and events that are missing in the file leave an event empty.
NumbersMatched == format \in Generated => Matched

\* Claimed by a comment of PrimariesReaderHepMC: with no more events the run ends.
HepMCEnds == (pc = "read" /\ format = "HEPMC") ~> pc # "read"
=============================================================================
