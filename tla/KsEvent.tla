------------------------------ MODULE KsEvent ------------------------------
(***************************************************************************)
(* ksEvent and ksEventHandle: components publish events, others bind       *)
(* callbacks to them and keep a handle, and either side may be destroyed   *)
(* first.  A callback is user code: it may bind, unbind and broadcast      *)
(* while the broadcast that called it is still walking its list.           *)
(***************************************************************************)
EXTENDS Integers, Sequences, SequencesExt

CONSTANTS
    Event,             \* event objects
    Slot,              \* unique_ptr variables that hold an event handle
    MaxUID,            \* bound of the model: callbacks bound to one event
    MaxDepth           \* bound of the model: nested broadcasts

ASSUME EventAssumption == MaxUID \in Nat /\ MaxDepth \in Nat

VARIABLES
    alive,             \* the events that exist
    callbacks,         \* of each event, the UIDs of its callbacks in order
    lastCallbackUID,   \* of each event
    handle,            \* what each slot holds: [event, uid], or NoHandle
    broadcasts,        \* the broadcasts under way, innermost last
    undefined          \* the program has no defined behaviour any more

eventVars == <<alive, callbacks, lastCallbackUID, handle, broadcasts, undefined>>

NoHandle == [uid |-> 0]

\* One broadcast: its event, the positions the range-based for has still to
\* visit, whether a callback is running, and three histories: what was bound
\* when it began, what it has called, and whether something has been unbound
\* from its list since.
Innermost == Last(broadcasts)
Walked == {broadcasts[i].event : i \in 1..Len(broadcasts)}

\* Code runs that may use events: callbacks, or the component loops around them.
UserCodeRuns == ~undefined /\ (broadcasts # <<>> => Innermost.running)

-----------------------------------------------------------------------------
EventInit ==
    /\ alive = Event
    /\ callbacks = [e \in Event |-> <<>>]
    /\ lastCallbackUID = [e \in Event |-> 0]
    /\ handle = [s \in Slot |-> NoHandle]
    /\ broadcasts = <<>>
    /\ undefined = FALSE

\* remove_if and erase: the callbacks without any that has this UID.
Without(list, uid) ==
    LET kept[n \in 0..Len(list)] ==
            IF n = 0 THEN <<>>
            ELSE IF list[n] = uid THEN kept[n - 1] ELSE Append(kept[n - 1], list[n])
    IN  kept[Len(list)]

\* Mutant of Unbound: the event of the handle is not told.
NotUnbound(s) == callbacks

\* The callback lists when the handle in slot s is destroyed: the event is only
\* told if it still exists.
Unbound(s) ==
    IF handle[s] # NoHandle /\ handle[s].event \in alive
    THEN [callbacks EXCEPT ![handle[s].event] = Without(@, handle[s].uid)]
    ELSE callbacks

\* The broadcasts under way, told that the handle in slot s is destroyed.
Shrunk(s) ==
    [i \in DOMAIN broadcasts |->
        [broadcasts[i] EXCEPT !.shrunk =
            @ \/ (handle[s] # NoHandle /\ handle[s].event = broadcasts[i].event)]]

NextUID(e) == lastCallbackUID[e] + 1

\* registerEvent: the new handle replaces, and so destroys, the one in the slot
\* before the callback is added.  The list may move in memory when it grows.
RegisterEvent(e, s) ==
    /\ UserCodeRuns
    /\ e \in alive /\ lastCallbackUID[e] < MaxUID
    /\ lastCallbackUID' = [lastCallbackUID EXCEPT ![e] = NextUID(e)]
    /\ handle' = [handle EXCEPT ![s] = [event |-> e, uid |-> NextUID(e)]]
    /\ callbacks' = [Unbound(s) EXCEPT ![e] = Append(@, NextUID(e))]
    /\ undefined' \in (IF e \in Walked THEN BOOLEAN ELSE {FALSE})
    /\ broadcasts' = Shrunk(s)
    /\ UNCHANGED alive

\* The handle in slot s is destroyed.
DestroyHandle(s) ==
    /\ UserCodeRuns
    /\ handle[s] # NoHandle
    /\ handle' = [handle EXCEPT ![s] = NoHandle]
    /\ callbacks' = Unbound(s)
    /\ broadcasts' = Shrunk(s)
    /\ UNCHANGED <<alive, lastCallbackUID, undefined>>

\* The component that owns event e is destroyed, and the event with it.
DestroyEvent(e) ==
    /\ ~undefined /\ broadcasts = <<>>
    /\ e \in alive
    /\ alive' = alive \ {e}
    /\ callbacks' = [callbacks EXCEPT ![e] = <<>>]
    /\ UNCHANGED <<lastCallbackUID, handle, broadcasts, undefined>>

\* broadcast: begin() and end() are taken here.
BeginBroadcast(e) ==
    /\ UserCodeRuns
    /\ e \in alive /\ Len(broadcasts) < MaxDepth
    /\ broadcasts' = Append(broadcasts,
          [event |-> e, next |-> 1, end |-> Len(callbacks[e]), running |-> FALSE,
           bound |-> callbacks[e], called |-> <<>>, shrunk |-> FALSE])
    /\ UNCHANGED <<alive, callbacks, lastCallbackUID, handle, undefined>>

SetInnermost(b) == broadcasts' = [broadcasts EXCEPT ![Len(broadcasts)] = b]

\* The next callback is called.
CallNext ==
    /\ ~undefined /\ broadcasts # <<>>
    /\ ~Innermost.running /\ Innermost.next <= Innermost.end
    /\ Innermost.next <= Len(callbacks[Innermost.event])
    /\ SetInnermost([Innermost EXCEPT
          !.running = TRUE,
          !.called = Append(@, callbacks[Innermost.event][Innermost.next])])
    /\ UNCHANGED <<alive, callbacks, lastCallbackUID, handle, undefined>>

\* The list has become shorter: a destroyed element is called.
CallDestroyed ==
    /\ ~undefined /\ broadcasts # <<>>
    /\ ~Innermost.running /\ Innermost.next <= Innermost.end
    /\ Innermost.next > Len(callbacks[Innermost.event])
    /\ undefined' = TRUE
    /\ UNCHANGED <<alive, callbacks, lastCallbackUID, handle, broadcasts>>

\* Mutant of CallbackReturns: a callback ends the walk.
CallbackEndsWalk ==
    /\ ~undefined /\ broadcasts # <<>> /\ Innermost.running
    /\ SetInnermost([Innermost EXCEPT !.running = FALSE, !.next = Innermost.end + 1])
    /\ UNCHANGED <<alive, callbacks, lastCallbackUID, handle, undefined>>

CallbackReturns ==
    /\ ~undefined /\ broadcasts # <<>> /\ Innermost.running
    /\ SetInnermost([Innermost EXCEPT !.running = FALSE, !.next = @ + 1])
    /\ UNCHANGED <<alive, callbacks, lastCallbackUID, handle, undefined>>

EndBroadcast ==
    /\ ~undefined /\ broadcasts # <<>>
    /\ ~Innermost.running /\ Innermost.next > Innermost.end
    /\ broadcasts' = Front(broadcasts)
    /\ UNCHANGED <<alive, callbacks, lastCallbackUID, handle, undefined>>

-----------------------------------------------------------------------------
EventNext ==
    \/ \E e \in Event, s \in Slot : RegisterEvent(e, s)
    \/ \E s \in Slot : DestroyHandle(s)
    \/ \E e \in Event : DestroyEvent(e) \/ BeginBroadcast(e)
    \/ CallNext \/ CallDestroyed \/ CallbackReturns \/ EndBroadcast

EventSpec == EventInit /\ [][EventNext]_eventVars

-----------------------------------------------------------------------------
(* Properties. *)

EventTypeOK ==
    /\ alive \subseteq Event
    /\ \A e \in Event :
          /\ lastCallbackUID[e] \in 0..MaxUID
          /\ \A i \in 1..Len(callbacks[e]) : callbacks[e][i] \in 1..lastCallbackUID[e]
    /\ \A s \in Slot :
          handle[s] # NoHandle =>
             /\ handle[s].event \in Event
             /\ handle[s].uid \in 1..lastCallbackUID[handle[s].event]
    /\ undefined \in BOOLEAN

\* ksEventHandle.h: when the parent object is destroyed, the callback is
\* unbound, and nothing else is.  The callbacks of an event are, at all times
\* and each once, those that some handle stands for, whichever of handles and
\* events are destroyed or replaced first and in whatever order.
BoundWhileHandled ==
    \A e \in alive :
        /\ IsInjective(callbacks[e])
        /\ ToSet(callbacks[e]) =
              {handle[s].uid : s \in {t \in Slot : handle[t] # NoHandle /\ handle[t].event = e}}

\* Handles and callbacks agree, and nothing refers to a UID not given out yet.
HandlesAreTrue == EventTypeOK /\ BoundWhileHandled

\* A broadcast calls the callbacks that were bound when it began, each once and
\* in their order, whatever its callbacks register, broadcast again or do to
\* other events, as long as nothing is unbound from the list it walks
\* (ksEvent::broadcast).  A registration that moves that list's vector is
\* undefined, and nothing is said of such a broadcast.
ReachesAllBound ==
    [][EndBroadcast /\ ~Innermost.shrunk => Innermost.called = Innermost.bound]_eventVars

\* ksEvent.h, broadcast: broadcasts the event to all bound callbacks.  When a
\* broadcast ends it has called every callback that was bound when it began and
\* still is.
AllBoundAreCalled ==
    [][EndBroadcast =>
          ToSet(Innermost.bound) \cap ToSet(callbacks[Innermost.event])
             \subseteq ToSet(Innermost.called)]_eventVars
=============================================================================
