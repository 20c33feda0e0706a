---------------------------- MODULE ModuleLoader ----------------------------
(***************************************************************************)
(* The list of modules from the configuration to the end of the process:   *)
(* ModuleManager::load() constructs the instances of each section of the   *)
(* configuration, places them in the run list by priority and destroys the *)
(* ones it does not use; the listed modules then exchange the messages of  *)
(* an event; and at the end all of them are destroyed.                     *)
(***************************************************************************)
EXTENDS Messenger

CONSTANTS
    Section,        \* Section[m]: the section of the configuration that asks for m
    UniqueName,     \* UniqueName[m]: getUniqueName() of its identifier
    MaxMessages     \* bound on the messages of the event

Rivals(m) == {n \in Modules \ {m} : UniqueName[n] = UniqueName[m]}

ASSUME LoaderAssumption ==
    /\ MaxMessages \in Nat
    /\ Section \in [Modules -> Nat]
    /\ \A m, n \in Modules : m < n => Section[m] <= Section[n]
    /\ \A m \in Modules : \A n \in Rivals(m) :
         Detector[m] = Detector[n] /\ Input[m] = Input[n]

VARIABLES
    phase,      \* "load", "event", "destroy", "over"
    priority,   \* unique or by name: 0, by type: 1, for all detectors: 2
    next,       \* the instance to construct next
    configs,    \* instance_configs_: the instances that have one
    created,    \* mod_list: instances of a section that are not placed yet
    modules,    \* modules_, in the order in which they will run
    at,         \* index of the module whose turn it is in the event
    inside,     \* that module is in its run()
    failed,     \* an exception ended the loading or the event
    ran,        \* history: modules whose run() was called
    turn        \* history: number of messages sent when the turn of m came

listVars  == <<next, configs, created, modules>>
runVars   == <<at, inside, ran, turn>>
localVars == <<box, sent>>
vars == <<phase, priority, next, configs, created, modules, at, inside, failed,
          ran, turn, binds, own, listeners, location, box, sent>>

Init ==
    /\ MessengerInit
    /\ phase = "load"
    /\ priority \in [Modules -> 0 .. 2]
    /\ \A m \in Modules : Rivals(m) = {} => priority[m] = 0
    /\ next = 1 /\ configs = {} /\ created = <<>> /\ modules = <<>>
    /\ at = 1 /\ inside = FALSE /\ failed = FALSE
    /\ ran = {} /\ turn = [m \in Modules |-> 0]

\* What stays the same in the whole run.
Setup == <<priority, binds>>

-----------------------------------------------------------------------------
(* load(): the instances of a section are constructed *)

Constructing ==
    /\ phase = "load" /\ next <= NumModules
    /\ created # <<>> => Section[Head(created)] = Section[next]

SameIdentifier(m, n) == UniqueName[m] = UniqueName[n] /\ priority[m] = priority[n]

\* addInstanceConfiguration()
AddConfiguration ==
    /\ Constructing /\ next \notin configs
    /\ ~\E m \in configs : SameIdentifier(m, next)
    /\ configs' = configs \cup {next}
    /\ UNCHANGED <<Setup, phase, next, created, modules, failed, registryVars, runVars, localVars>>

\* AmbiguousInstantiationError
ConfigurationExists ==
    /\ Constructing /\ next \notin configs
    /\ \E m \in configs : SameIdentifier(m, next)
    /\ phase' = "destroy" /\ failed' = TRUE
    /\ UNCHANGED <<Setup, listVars, registryVars, runVars, localVars>>

Bind ==
    /\ Constructing /\ next \in configs
    /\ AddDelegate(next)
    /\ UNCHANGED <<Setup, phase, listVars, failed, runVars, localVars>>

Constructed ==
    /\ Constructing /\ next \in configs
    /\ Len(own[next]) = Len(binds[next])
    /\ created' = Append(created, next)
    /\ next' = next + 1
    /\ UNCHANGED <<Setup, phase, configs, modules, failed, registryVars, runVars, localVars>>

\* A constructor throws: the base class is destroyed, and load() is left.
ConstructorThrows ==
    /\ Constructing /\ next \in configs
    /\ RemoveDelegates(next)
    /\ phase' = "destroy" /\ failed' = TRUE
    /\ UNCHANGED <<Setup, listVars, runVars, localVars>>

\* InvalidModuleStateException: the constructor of a detector module did not forward
\* its detector to the base class.  The instance is left behind, bound as it is.
InvalidState ==
    /\ Constructing /\ next \in configs /\ Detector[next] # NoDetector
    /\ Len(own[next]) = Len(binds[next])
    /\ created' = Append(created, next)
    /\ phase' = "destroy" /\ failed' = TRUE
    /\ UNCHANGED <<Setup, next, configs, modules, registryVars, runVars, localVars>>

-----------------------------------------------------------------------------
(* load(): the instances of the section are added to the run list *)

Placing ==
    /\ phase = "load" /\ created # <<>>
    /\ next <= NumModules => Section[next] # Section[Head(created)]

Listed == ToSet(modules) \cap Rivals(Head(created))

Place ==
    /\ Placing /\ Listed = {}
    /\ modules' = Append(modules, Head(created))
    /\ created' = Tail(created)
    /\ UNCHANGED <<Setup, phase, next, configs, failed, registryVars, runVars, localVars>>

\* Mutant: the lower priority wins.
PlaceReplacingReversed ==
    /\ Placing
    /\ \E i \in DOMAIN modules : LET m == modules[i] IN
         /\ m \in Listed /\ priority[Head(created)] > priority[m]
         /\ configs' = configs \ {m}
         /\ RemoveDelegates(m)
         /\ modules' = Append(RemoveAt(modules, i), Head(created))
    /\ created' = Tail(created)
    /\ UNCHANGED <<Setup, phase, next, failed, runVars, localVars>>

\* A lower number is a higher priority: the listed instance is destroyed.
PlaceReplacing ==
    /\ Placing
    /\ \E i \in DOMAIN modules : LET m == modules[i] IN
         /\ m \in Listed /\ priority[Head(created)] < priority[m]
         /\ configs' = configs \ {m}
         /\ RemoveDelegates(m)
         /\ modules' = Append(RemoveAt(modules, i), Head(created))
    /\ created' = Tail(created)
    /\ UNCHANGED <<Setup, phase, next, failed, runVars, localVars>>

\* Otherwise the new one is destroyed.
PlaceDropped ==
    /\ Placing
    /\ \E m \in Listed : priority[Head(created)] > priority[m]
    /\ configs' = configs \ {Head(created)}
    /\ RemoveDelegates(Head(created))
    /\ created' = Tail(created)
    /\ UNCHANGED <<Setup, phase, next, modules, failed, runVars, localVars>>

Loaded ==
    /\ phase = "load" /\ next > NumModules /\ created = <<>>
    /\ phase' = "event"
    /\ UNCHANGED <<Setup, listVars, failed, registryVars, runVars, localVars>>

-----------------------------------------------------------------------------
(* The event: the module loop of ModuleManager::run() and its messages *)

Current == modules[at]

TakeTurn ==
    /\ phase = "event" /\ at <= Len(modules) /\ ~inside
    /\ turn' = [turn EXCEPT ![Current] = Len(sent)]

SkipModule ==
    /\ TakeTurn
    /\ ~CheckDelegates(Current)
    /\ at' = at + 1
    /\ UNCHANGED <<Setup, phase, listVars, failed, registryVars, inside, ran, localVars>>

EnterModule ==
    /\ TakeTurn
    /\ CheckDelegates(Current)
    /\ ran' = ran \cup {Current}
    /\ inside' = TRUE
    /\ UNCHANGED <<Setup, phase, listVars, failed, registryVars, at, localVars>>

\* A module dispatches a message; an exception of a receiver leaves the run() of
\* the sender and ends the run.
DispatchMessage ==
    /\ phase = "event" /\ inside /\ Len(sent) < MaxMessages
    /\ \E type \in MessageTypes, detector \in Detectors \cup {NoDetector}, name \in Names :
         Dispatch(Current, type, detector, name)
    /\ failed' = (sent' = sent)
    /\ phase' = IF failed' THEN "destroy" ELSE phase
    /\ UNCHANGED <<Setup, listVars, registryVars, runVars>>

\* Mutant: the next module is passed over.
LeaveModuleTwice ==
    /\ phase = "event" /\ inside
    /\ inside' = FALSE
    /\ at' = at + 2
    /\ UNCHANGED <<Setup, phase, listVars, failed, registryVars, ran, turn, localVars>>

LeaveModule ==
    /\ phase = "event" /\ inside
    /\ inside' = FALSE
    /\ at' = at + 1
    /\ UNCHANGED <<Setup, phase, listVars, failed, registryVars, ran, turn, localVars>>

EventDone ==
    /\ phase = "event" /\ at > Len(modules)
    /\ phase' = "destroy"
    /\ UNCHANGED <<Setup, listVars, failed, registryVars, runVars, localVars>>

-----------------------------------------------------------------------------
(* The end: ~ModuleManager() destroys the run list, then comes ~Messenger() *)

DestroyModule ==
    /\ phase = "destroy" /\ modules # <<>>
    /\ RemoveDelegates(Head(modules))
    /\ modules' = Tail(modules)
    /\ UNCHANGED <<Setup, phase, next, configs, created, failed, runVars, localVars>>

AllDestroyed ==
    /\ phase = "destroy" /\ modules = <<>>
    /\ phase' = "over"
    /\ UNCHANGED <<Setup, listVars, failed, registryVars, runVars, localVars>>

Next ==
    \/ AddConfiguration \/ ConfigurationExists \/ Bind \/ Constructed \/ ConstructorThrows
    \/ InvalidState
    \/ Place \/ PlaceReplacing \/ PlaceDropped \/ Loaded
    \/ SkipModule \/ EnterModule \/ DispatchMessage \/ LeaveModule \/ EventDone
    \/ DestroyModule \/ AllDestroyed

Spec == Init /\ [][Next]_vars

-----------------------------------------------------------------------------
Ids == UNION {{<<m, k>> : k \in DOMAIN binds[m]} : m \in Modules}

TypeOK ==
    /\ phase \in {"load", "event", "destroy", "over"}
    /\ priority \in [Modules -> 0 .. 2]
    /\ next \in 1 .. NumModules + 1
    /\ configs \subseteq Modules
    /\ created \in Seq(Modules) /\ modules \in Seq(Modules)
    /\ at \in 1 .. NumModules + 1 /\ (phase = "event" => at <= Len(modules) + 1)
    /\ inside \in BOOLEAN /\ failed \in BOOLEAN
    /\ ran \subseteq Modules
    /\ turn \in [Modules -> 0 .. MaxMessages]
    /\ own \in [Modules -> Seq(Ids)]
    /\ listeners \in [Places -> Seq(Ids)]
    /\ DOMAIN location \subseteq Ids
    /\ \A id \in DOMAIN location : location[id] \in Places
    /\ Len(sent) <= MaxMessages

\* Instances that exist.  An exception in the middle of a section leaves the ones
\* of mod_list behind, which nobody destroys.
Existing ==
    ToSet(modules) \cup ToSet(created) \cup
    (IF phase = "load" /\ next <= NumModules THEN {next} ELSE {})

\* Delegates belong to modules that exist: no dispatch reaches a module that was
\* replaced, dropped or destroyed, and remove_delegate() finds every delegate
\* where it was put, whatever the order in which instances come and go.
RegistryExact ==
    /\ \A m \in Modules \ Existing : own[m] = <<>>
    /\ DOMAIN location = UNION {ToSet(own[m]) : m \in Modules}
    /\ \A p \in Places :
         /\ ToSet(listeners[p]) = {id \in DOMAIN location : location[id] = p}
         /\ IsInjective(listeners[p])

\* The run list has one instance of each name, the one with the highest priority
\* that was asked for, and its configurations are the ones that are kept: "dumping
\* the config actually dumps only the instance configurations that were used"
\* (ConfigManager.cpp:150).
BestInstanceRuns ==
    phase = "event" =>
        /\ \A m \in Modules : \E n \in ToSet(modules) :
             n = m \/ (n \in Rivals(m) /\ priority[n] < priority[m])
        /\ \A i, j \in DOMAIN modules : UniqueName[modules[i]] = UniqueName[modules[j]] => i = j
        /\ configs = ToSet(modules)

\* A delegate is sent a message: the rules of the user manual (06_messages.md),
\* except that a message without detector does not reach a detector module.
Heard(id, message) ==
    /\ message.source # id[1]
    /\ Delegate(id).type \in {message.type, "BaseMessage"}
    /\ \/ Delegate(id).name = "ignore"
       \/ Delegate(id).name = "unnamed" /\ message.name = ""
       \/ Delegate(id).name = "input" /\ Input[id[1]] \in {"*", message.name}
    /\ Detector[id[1]] \in {NoDetector, message.detector}

AllHeard(id) == {n \in DOMAIN sent : Heard(id, sent[n])}
HeardBy(id) == Picked([n \in DOMAIN sent |-> n], AllHeard(id))

\* "Messages are always received by modules in the order they have been
\* dispatched": a module finds each message it listens to once and in order, and
\* none of a filter it rejected.
ReceivedInOrder ==
    phase = "event" => \A m \in ToSet(modules) : \A i \in DOMAIN own[m] :
        LET id == own[m][i]
            place == <<m, Delegate(id).type>>
        IN /\ Delegate(id).kind = "multi" => box.multi[place] = HeardBy(id)
           /\ Delegate(id).kind = "filter" =>
                box.filtered[place] =
                    Picked([n \in DOMAIN sent |-> n],
                           {n \in AllHeard(id) : id \notin sent[n].rejected})

\* A module that binds a single message reads the only one there was, or the last
\* one if it allows to overwrite it: no message is lost silently.
SingleUnambiguous ==
    phase = "event" => \A m \in ToSet(modules) : \A i \in DOMAIN own[m] :
        LET id == own[m][i]
            heard == HeardBy(id)
        IN Delegate(id).kind = "single" =>
             /\ ~Delegate(id).overwrite => Len(heard) <= 1
             /\ box.single[<<m, Delegate(id).type>>] =
                  IF heard = <<>> THEN 0 ELSE Last(heard)

\* Both: each module finds its messages, however they are bound.
MessagesTrue == ReceivedInOrder /\ SingleUnambiguous

\* run() is called exactly if every required message was dispatched before the
\* turn of the module came, so that fetching a required message cannot fail.
RequiredBeforeRun ==
    phase = "event" => \A i \in 1 .. at - 1 :
        LET m == modules[i]
            Came(id) == \E n \in 1 .. turn[m] : Heard(id, sent[n])
        IN m \in ran <=> \A k \in DOMAIN own[m] : Delegate(own[m][k]).required => Came(own[m][k])

\* hasReceiver() tells a module beforehand whether its message will reach anybody:
\* it agrees with what dispatchMessage() would do now, except that it does not
\* know of the listeners to unnamed messages.
HasReceiverAgrees ==
    phase = "event" /\ inside =>
        \A type \in MessageTypes, detector \in Detectors \cup {NoDetector}, name \in Names :
            HasReceiver(Current, type, detector, name) <=>
                \E id \in ToSet(Receivers(Current, type, detector, name)) :
                    Delegate(id).name # "unnamed"
=============================================================================
