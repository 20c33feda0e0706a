----------------------------- MODULE Messenger -----------------------------
(***************************************************************************)
(* The state and the operations of the messenger.  Modules register        *)
(* delegates while they are constructed and lose them when they are        *)
(* destroyed; a message that is dispatched during an event is put into the *)
(* boxes of the modules that listen to it.                                 *)
(*                                                                         *)
(* A module instance is a number, a delegate is <<instance, number>> and a *)
(* message is its place in sent_messages_.  The delegates do not change    *)
(* while events are processed, and every event has a LocalMessenger of its *)
(* own: one event stands for all of them.                                  *)
(***************************************************************************)
EXTENDS Integers, FiniteSets, SequencesExt

CONSTANTS
    NumModules,             \* number of instances the configuration asks for
    Detector,               \* Detector[m]: its detector, or NoDetector
    Input,                  \* Input[m]: its parameter "input"
    Bindings,               \* Bindings[m]: lists of delegates it may bind
    MessageTypes,           \* classes derived from BaseMessage
    Detectors, NoDetector,
    Names                   \* names of messages; "" is no name

Modules   == 1 .. NumModules
AllTypes  == MessageTypes \cup {"BaseMessage"}
Places    == AllTypes \X (Names \cup {"*", "?"})
Delegates == [kind : {"single", "multi", "filter"}, type : AllTypes,
              required : BOOLEAN, overwrite : BOOLEAN,
              name : {"input", "ignore", "unnamed"}]

\* A module binds a type at most once: its delegates to one type would share
\* their entry of the box.
ASSUME MessengerAssumption ==
    /\ NumModules \in Nat \ {0}
    /\ NoDetector \notin Detectors /\ "BaseMessage" \notin MessageTypes
    /\ "" \in Names /\ Names \cap {"*", "?"} = {}
    /\ Detector \in [Modules -> Detectors \cup {NoDetector}]
    /\ Input \in [Modules -> Names \cup {"*"}]
    /\ \A m \in Modules : \A b \in Bindings[m] :
         /\ b \in Seq(Delegates)
         /\ \A i, j \in DOMAIN b : b[i].type = b[j].type => i = j

VARIABLES
    binds,      \* the delegates each constructor binds
    own,        \* Module::delegates_
    listeners,  \* delegates_: the delegates at each type and name
    location,   \* delegate_to_iterator_: type and name of each delegate
    box,        \* messages_ of the local messenger
    sent        \* sent_messages_

registryVars == <<own, listeners, location>>

EmptyBox ==
    [present  |-> {},
     single   |-> [p \in Modules \X AllTypes |-> 0],
     multi    |-> [p \in Modules \X AllTypes |-> <<>>],
     filtered |-> [p \in Modules \X AllTypes |-> <<>>]]

MessengerInit ==
    /\ binds \in [Modules -> UNION {Bindings[m] : m \in Modules}]
    /\ \A m \in Modules : binds[m] \in Bindings[m]
    /\ own = [m \in Modules |-> <<>>]
    /\ listeners = [p \in Places |-> <<>>]
    /\ location = [d \in {} |-> <<>>]
    /\ box = EmptyBox
    /\ sent = <<>>

Delegate(id) == binds[id[1]][id[2]]

\* The elements of s at these places, in their order.
Picked(s, places) ==
    [k \in 1 .. Cardinality(places) |->
       s[CHOOSE i \in places : Cardinality({j \in places : j <= i}) = k]]

-----------------------------------------------------------------------------
(* The registry *)

\* The name a delegate is registered under: IGNORE_NAME goes before
\* UNNAMED_ONLY, and both go before the parameter "input".
ListensTo(id) ==
    IF Delegate(id).name = "ignore" THEN "*"
    ELSE IF Delegate(id).name = "unnamed" THEN "?"
    ELSE Input[id[1]]

\* add_delegate() for the next delegate of m.
AddDelegate(m) ==
    /\ Len(own[m]) < Len(binds[m])
    /\ LET id == <<m, Len(own[m]) + 1>>
           place == <<Delegate(id).type, ListensTo(id)>>
       IN /\ listeners' = [listeners EXCEPT ![place] = Append(@, id)]
          /\ location' = [d \in DOMAIN location \cup {id} |->
                            IF d = id THEN place ELSE location[d]]
          /\ own' = [own EXCEPT ![m] = Append(@, id)]

\* Mutant: the delegates of a destroyed module stay in the lists.
RemoveDelegatesForgetful(m) ==
    /\ location' = [d \in DOMAIN location \ ToSet(own[m]) |-> location[d]]
    /\ own' = [own EXCEPT ![m] = <<>>]
    /\ UNCHANGED listeners

\* ~Module(): remove_delegate() for each of its delegates.
RemoveDelegates(m) ==
    /\ LET Stays(p, id) == id \notin ToSet(own[m]) \/ location[id] # p
       IN  listeners' = [p \in Places |->
             Picked(listeners[p], {i \in DOMAIN listeners[p] : Stays(p, listeners[p][i])})]
    /\ location' = [d \in DOMAIN location \ ToSet(own[m]) |-> location[d]]
    /\ own' = [own EXCEPT ![m] = <<>>]

-----------------------------------------------------------------------------
(* The local messenger *)

\* A message of the type of the delegate has come for its module.
IsSatisfied(id) == <<id[1], location[id][1]>> \in box.present

\* Mutant: one satisfied delegate is enough.
CheckDelegatesAny(m) ==
    own[m] = <<>> \/ \E i \in DOMAIN own[m] :
        ~Delegate(own[m][i]).required \/ IsSatisfied(own[m][i])

CheckDelegates(m) ==
    \A i \in DOMAIN own[m] : Delegate(own[m][i]).required => IsSatisfied(own[m][i])

\* check_send(): the detectors agree, and nobody sends to himself.
CheckSend(source, detector, id) ==
    /\ Detector[id[1]] \in {NoDetector, detector}
    /\ id[1] # source

\* The delegates at a type and a name that a message is sent to.
Addressed(source, detector, place) ==
    Picked(listeners[place], {i \in DOMAIN listeners[place] :
                                CheckSend(source, detector, listeners[place][i])})

\* First the listeners to the type of the message, then those to BaseMessage.
Listening(source, type, detector, key) ==
    Addressed(source, detector, <<type, key>>) \o Addressed(source, detector, <<"BaseMessage", key>>)

\* Mutant: listeners to unnamed messages are forgotten.
ReceiversNamed(source, type, detector, name) ==
    Listening(source, type, detector, name) \o Listening(source, type, detector, "*")

\* The delegates a message goes to, in the order of dispatchMessage().
Receivers(source, type, detector, name) ==
    Listening(source, type, detector, name) \o Listening(source, type, detector, "*")
    \o (IF name = "" THEN Listening(source, type, detector, "?") ELSE <<>>)

\* Mutant: listeners to BaseMessage are forgotten.
HasReceiverOfType(source, type, detector, name) ==
    \E key \in {name, "*"} :
        \E id \in ToSet(listeners[<<type, key>>]) : CheckSend(source, detector, id)

\* hasReceiver(), for the name in the parameter "output" of the source.
HasReceiver(source, type, detector, name) ==
    \E listened \in {type, "BaseMessage"}, key \in {name, "*"} :
        \E id \in ToSet(listeners[<<listened, key>>]) : CheckSend(source, detector, id)

\* process() of the three kinds of delegates; a filter may reject a message.
Process(b, id, message, rejected) ==
    LET place == <<id[1], Delegate(id).type>> IN
    CASE Delegate(id).kind = "single" -> [b EXCEPT !.single[place] = message]
      [] Delegate(id).kind = "multi"  -> [b EXCEPT !.multi[place] = Append(@, message)]
      [] Delegate(id).kind = "filter" ->
           IF id \in rejected THEN b
           ELSE [b EXCEPT !.filtered[place] = Append(@, message)]

\* Mutant: a message that is there already is overwritten.
UnexpectedNever(b, id) == FALSE

\* UnexpectedMessageException of SingleBindDelegate.
Unexpected(b, id) ==
    /\ Delegate(id).kind = "single" /\ ~Delegate(id).overwrite
    /\ b.single[<<id[1], Delegate(id).type>>] # 0

\* One receiver after another, up to the first one that throws.  The entry of the
\* receiver is made before process() is called.
Receive(state, id, message, rejected) ==
    LET b == [state.box EXCEPT !.present = @ \cup {<<id[1], Delegate(id).type>>}]
    IN  IF state.thrown THEN state
        ELSE IF Unexpected(b, id) THEN [box |-> b, thrown |-> TRUE]
        ELSE [box |-> Process(b, id, message, rejected), thrown |-> FALSE]

\* The box after the message went to the receivers.
Deliver(receivers, message, rejected) ==
    LET after[i \in 0 .. Len(receivers)] ==
          IF i = 0 THEN [box |-> box, thrown |-> FALSE]
          ELSE Receive(after[i - 1], receivers[i], message, rejected)
    IN  after[Len(receivers)]

\* dispatchMessage(): a copy of the message is kept if no receiver throws.
Dispatch(source, type, detector, name) ==
    LET receivers == Receivers(source, type, detector, name)
        filters == {id \in ToSet(receivers) : Delegate(id).kind = "filter"}
    IN \E rejected \in SUBSET filters :
         LET delivery == Deliver(receivers, Len(sent) + 1, rejected)
             message == [source |-> source, type |-> type, detector |-> detector,
                         name |-> name, rejected |-> rejected]
         IN /\ box' = delivery.box
            /\ sent' = IF delivery.thrown THEN sent ELSE Append(sent, message)
=============================================================================
