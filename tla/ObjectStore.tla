---------------------------- MODULE ObjectStore ----------------------------
(***************************************************************************)
(* The objects of a simulation stored in a ROOT file by ROOTObjectWriter   *)
(* and read back by ROOTObjectReader in a later job.  The objects of one   *)
(* event point to each other (PixelHit to PixelCharge, MCParticle to its   *)
(* MCTrack, ...).  The writer turns the pointers to stored objects into    *)
(* ROOT references, numbers that are unique within one event only; the     *)
(* reader resolves a number through a table of the whole process, which    *)
(* the events that other threads read at the same time share.              *)
(***************************************************************************)
EXTENDS FileAccess

\* NumEvents is the number of events of the writing and of the reading job.
CONSTANTS
    Concurrent,     \* events of the reading job that exist at a time
    Contents,       \* what an event may contain, see ObjectsOf
    WriteFilters,   \* classes the include and exclude lists of the writer keep
    ReadFilters     \* and those of the reader

Classes == <<"MCTrack", "MCParticle", "DepositedCharge", "PropagatedCharge",
             "PixelCharge", "PixelPulse", "PixelHit">>
\* The classes that the reader has a message creator for: pixel pulses are read
\* from their tree and left there.
Creators == ToSet(Classes) \ {"PixelPulse"}
Events == 1 .. NumEvents
Global == "global"      \* the branch of messages without a detector

ASSUME StoreAssumption ==
    /\ Concurrent \in Nat \ {0} /\ Global \notin Detectors
    /\ Contents \subseteq [classes : SUBSET ToSet(Classes),
                           detectors : SUBSET Detectors, tracks : 1 .. 2]
    /\ WriteFilters \cup ReadFilters \subseteq SUBSET ToSet(Classes)

-----------------------------------------------------------------------------
(* The objects of an event and their pointers *)

\* The pointers that the constructor of each class sets.
Fields == [
    MCTrack          |-> <<"parent">>,
    MCParticle       |-> <<"parent", "track">>,
    DepositedCharge  |-> <<"mc_particle">>,
    PropagatedCharge |-> <<"deposited_charge", "mc_particle">>,
    PixelCharge      |-> <<"propagated_charges", "mc_particles">>,
    PixelPulse       |-> <<"pixel_charge", "mc_particles">>,
    PixelHit         |-> <<"pixel_charge", "mc_particles", "pixel_pulse">>]

\* petrifyHistory() of the class stores the pointer, loadHistory() loads it.
Petrified(class) == ToSet(Fields[class]) \ {"pixel_pulse"}

FieldClass == [track |-> "MCTrack", mc_particle |-> "MCParticle",
               mc_particles |-> "MCParticle", deposited_charge |-> "DepositedCharge",
               propagated_charges |-> "PropagatedCharge",
               pixel_charge |-> "PixelCharge", pixel_pulse |-> "PixelPulse"]

\* Class and detector of the messages of an event, in the order of dispatch.
KeysOfClass(c, class) ==
    IF class \notin c.classes \/ c.detectors = {} THEN <<>>
    ELSE IF class = "MCTrack" THEN <<<<class, Global>>>>
    ELSE LET dets == SetToSeq(c.detectors)
         IN  [i \in DOMAIN dets |-> <<class, dets[i]>>]
KeysOf == [c \in Contents |->
    FlattenSeq([k \in DOMAIN Classes |-> KeysOfClass(c, Classes[k])])]

\* Tracks and particles come with up to two generations, the charges descend from
\* the last one.
Generations(c, class) == IF class \in {"MCTrack", "MCParticle"} THEN c.tracks ELSE 1

\* A message holds objects of one class for one detector.
MessageOf(c, class, detector) ==
    [j \in 1 .. Generations(c, class) |-> <<class, detector, j>>]
MessagesOf == [c \in Contents |->
    [i \in DOMAIN KeysOf[c] |-> MessageOf(c, KeysOf[c][i][1], KeysOf[c][i][2])]]

ObjectsOf == [c \in Contents |-> UNION {ToSet(m) : m \in ToSet(MessagesOf[c])}]

\* Where the pointer leads.
TargetOf(c, o, field) ==
    LET class == o[1]
        t == CASE field = "parent" -> <<class, o[2], o[3] - 1>>
               [] field = "track"  -> <<"MCTrack", Global, o[3]>>
               [] OTHER -> LET to == FieldClass[field]
                           IN  <<to, o[2], Generations(c, to)>>
    IN  IF t \in ObjectsOf[c] THEN t ELSE NULL

Target == [c \in Contents |-> [o \in ObjectsOf[c] |->
             [f \in ToSet(Fields[o[1]]) |-> TargetOf(c, o, f)]]]

VARIABLES
    phase,      \* "write", then "read"
    inSequence, \* require_sequence of the writer
    filters,    \* [write, read]: the classes kept
    content,    \* content[n]: what event n of the writing job contains
    pending,    \* events of the writing job that have not finished
    eventTree,  \* the Event tree: the number of the event of each entry
    entries,    \* entries[class]: GetEntries() of the tree of the class
    columns,    \* columns[branch]: the entries of the branch <<class, detector>>
    unread,     \* events of the reading job that have not started
    table,      \* objects table of the TProcessID: uid -> object in memory
    live,       \* live[m]: the objects that event m of the reading job holds
    crowded     \* history: events read while another one was alive

fileVars == <<eventTree, entries, columns>>
readVars == <<unread, table, live, crowded>>
vars == <<phase, inSequence, filters, content, pending, fileVars, readVars>>

Init ==
    /\ phase = "write"
    /\ inSequence \in BOOLEAN
    /\ filters \in [write : WriteFilters, read : ReadFilters]
    /\ content \in [Events -> Contents]
    /\ pending = Events
    /\ eventTree = <<>> /\ entries = <<>> /\ columns = <<>>
    /\ unread = Events /\ table = <<>> /\ live = <<>> /\ crowded = {}

Setup == <<inSequence, filters, content>>

-----------------------------------------------------------------------------
(* ROOTObjectWriterModule::run() *)

\* fetchFilteredMessages(): the messages that filter() accepts.
Filtered(c, keep) ==
    Only(MessagesOf[c], {m \in ToSet(MessagesOf[c]) : m[1][1] \in keep})

\* petrifyHistory() of one object: the targets marked for storage, each message
\* of the event being marked before, get a reference.
Petrify(c, o, marked) ==
    LET stored == Only(Fields[o[1]], Petrified(o[1]))
    IN  Only([k \in DOMAIN stored |-> Target[c][o][stored[k]]], marked)

References(c, keep) ==
    LET objects == FlattenSeq(Filtered(c, keep))
    IN  FlattenSeq([i \in DOMAIN objects |-> Petrify(c, objects[i], ToSet(objects))])

\* The unique IDs that the references are given: numbers in the order of the
\* first reference, from 1 on in every event (SetObjectCount()).
First(s, o) == Min({i \in DOMAIN s : s[i] = o})
NumberIn(s, o) ==
    IF o \in ToSet(s) THEN Cardinality({t \in ToSet(s) : First(s, t) <= First(s, o)}) ELSE 0

Uids == [c \in Contents |-> [keep \in WriteFilters |->
           LET references == References(c, keep)
           IN  [o \in ObjectsOf[c] \cup {NULL} |-> NumberIn(references, o)]]]

\* The object as the tree stores it.
Stored == [c \in Contents |-> [keep \in WriteFilters |-> [o \in ObjectsOf[c] |->
    [object |-> o, uid |-> Uids[c][keep][o],
     refs |-> [f \in ToSet(Fields[o[1]]) |->
        IF f \in Petrified(o[1]) THEN Uids[c][keep][Target[c][o][f]] ELSE 0]]]]]

\* Mutant: the new branch misses one empty record.
PrefillOneLess(count) == [i \in 1 .. count - 1 |-> {}]

\* Empty records for the events a new tree or branch has missed.
Prefill(count) == [i \in 1 .. count |-> {}]

Missed == Len(eventTree)

\* The branch of a message, and the objects of the messages of a branch.
BranchOf(msg) == <<msg[1][1], msg[1][2]>>
ObjectsIn(msgs, b) == UNION {ToSet(m) : m \in {x \in msgs : BranchOf(x) = b}}

WriteEvent(n) ==
    LET c == content[n]
        msgs == ToSet(Filtered(c, filters.write))
        branches == DOMAIN columns \cup {BranchOf(m) : m \in msgs}
        Past(b) == IF b \in DOMAIN columns THEN columns[b] ELSE Prefill(Missed)
    IN  /\ columns' = [b \in branches |->
                         Append(Past(b), {Stored[c][filters.write][o] : o \in ObjectsIn(msgs, b)})]
        /\ entries' = [class \in {b[1] : b \in branches} |->
                         (IF class \in DOMAIN entries THEN entries[class] ELSE Missed) + 1]
        /\ eventTree' = Append(eventTree, n)

\* The writer waits for its turn unless the sequence requirement is waived.
Turn(n) == n \in pending /\ (inSequence => \A i \in pending : n <= i)

Write(n) ==
    /\ phase = "write" /\ Turn(n)
    /\ WriteEvent(n)
    /\ pending' = pending \ {n}
    /\ UNCHANGED <<phase, Setup, readVars>>

\* Another module threw an AbortEventException: the writer never sees the event.
Abort(n) ==
    /\ phase = "write" /\ Turn(n)
    /\ pending' = pending \ {n}
    /\ UNCHANGED <<phase, Setup, fileVars, readVars>>

CloseFile ==
    /\ phase = "write" /\ pending = {}
    /\ phase' = "read"
    /\ UNCHANGED <<Setup, pending, fileVars, readVars>>

-----------------------------------------------------------------------------
(* ROOTObjectReaderModule::run() *)

Copy(m, o) == [event |-> m, object |-> o]

TreesRead == DOMAIN entries \cap filters.read

\* Mutant: the number of the event is used as ROOT's entry, which counts from 0.
EntryNotShifted(m) == m + 1

\* The entry of the trees that an event reads.
EntryOf(m) == m

\* The stored objects of entry m that become messages.
Records(m) == UNION {columns[b][EntryOf(m)] :
                       b \in {br \in DOMAIN columns : br[1] \in TreesRead \cap Creators}}

\* The creators put the copy of every referenced object in the process table.
Register(m) ==
    LET referenced == {r \in Records(m) : r.uid # 0}
        uids == {r.uid : r \in referenced}
    IN  [u \in DOMAIN table \cup uids |->
           IF u \in uids THEN Copy(m, (CHOOSE r \in referenced : r.uid = u).object)
           ELSE table[u]]

\* TRef::GetObject()
Resolve(uid, t) == IF uid \in DOMAIN t THEN t[uid] ELSE NULL

\* loadHistory() of one object; a pointer that is not loaded stays null.
Load(r, t) == [object |-> r.object, links |-> [f \in DOMAIN r.refs |-> Resolve(r.refs[f], t)]]

Read(m) ==
    /\ phase = "read" /\ m \in unread /\ Cardinality(DOMAIN live) < Concurrent
    /\ \A class \in TreesRead : EntryOf(m) <= entries[class]
    /\ unread' = unread \ {m}
    /\ table' = Register(m)
    /\ live' = [k \in DOMAIN live \cup {m} |->
                  IF k = m THEN {Load(r, table') : r \in Records(m)} ELSE live[k]]
    /\ crowded' = IF DOMAIN live = {} THEN crowded ELSE crowded \cup {m}
    /\ UNCHANGED <<phase, Setup, pending, fileVars>>

\* EndOfRunException: the trees hold no entry for the event.
EndOfRun(m) ==
    /\ phase = "read" /\ m \in unread
    /\ \E class \in TreesRead : EntryOf(m) > entries[class]
    /\ unread' = unread \ {m}
    /\ UNCHANGED <<phase, Setup, pending, fileVars, table, live, crowded>>

\* Mutant: the copies are destroyed without leaving the table.
NothingRemoved(m) == DOMAIN table

\* The entries of the process table that the end of event m leaves: an object
\* that is destroyed is removed if the table still holds it.
Remaining(m) == {u \in DOMAIN table : table[u].event # m}

\* The event ends and its messages with the objects are destroyed.
Finish(m) ==
    /\ m \in DOMAIN live
    /\ live' = Restrict(live, DOMAIN live \ {m})
    /\ table' = Restrict(table, Remaining(m))
    /\ UNCHANGED <<phase, Setup, pending, fileVars, unread, crowded>>

Next ==
    \/ \E n \in Events : Write(n) \/ Abort(n)
    \/ CloseFile
    \/ \E m \in Events : Read(m) \/ EndOfRun(m) \/ Finish(m)

Spec == Init /\ [][Next]_vars

-----------------------------------------------------------------------------
(* Properties *)

Kept == filters.write \cap filters.read \cap Creators
KeptOf(c) == {o \in ObjectsOf[c] : o[1] \in Kept}

\* What the event of entry m was; without any tree there is no last entry.
Written(m) == content[eventTree[m]]
KeptObjects(m) == IF m \in DOMAIN eventTree THEN KeptOf(Written(m)) ELSE {}

\* All trees and all branches hold one entry per event written, also those that
\* appeared after other events were written, so that one entry number selects
\* the same event everywhere (ROOTObjectWriterModule::run(), prefilling).
TreesAligned ==
    /\ \A class \in DOMAIN entries : entries[class] = Len(eventTree)
    /\ \A b \in DOMAIN columns : Len(columns[b]) = Len(eventTree)

\* Event m of the reading job gets exactly the kept objects of the m-th event
\* that was written, and so those of event m if none was aborted or overtaken.
ReadBackExact ==
    \A m \in DOMAIN live :
        LET received == {r.object : r \in live[m]}
        IN  /\ received = KeptObjects(m)
            /\ inSequence /\ Len(eventTree) = NumEvents => received = KeptOf(content[m])

\* A pointer that was stored leads, after reading, to the object of the same
\* event that it led to before.  If that object was not kept the pointer is
\* null, unless the event was read while another one was alive.
LinksRestored ==
    \A m \in DOMAIN live : \A r \in live[m] : \A f \in Petrified(r.object[1]) :
        LET t == Target[Written(m)][r.object][f]
        IN  IF t \in KeptObjects(m) THEN r.links[f] = Copy(m, t)
            ELSE m \notin crowded => r.links[f] = NULL

\* "Relations between objects within a single event are internally stored as
\* ROOT TRefs, allowing retrieval of related objects as long as these are loaded
\* in memory": a pointer to an object of the event in memory is restored.
RelationsSurvive ==
    \A m \in DOMAIN live : \A r \in live[m] : \A f \in DOMAIN r.links :
        LET t == Target[Written(m)][r.object][f]
        IN  t \in KeptObjects(m) => r.links[f] = Copy(m, t)

\* "Whenever the related object is not in memory [...] a MissingReferenceException
\* will be thrown": a pointer to an object that was not kept leads nowhere.
MissingIsNoticed ==
    \A m \in DOMAIN live : \A r \in live[m] : \A f \in DOMAIN r.links :
        Target[Written(m)][r.object][f] \notin KeptObjects(m) => r.links[f] = NULL
=============================================================================
