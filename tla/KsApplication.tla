--------------------------- MODULE KsApplication ---------------------------
(***************************************************************************)
(* One application of the framework: ksApplication and the life cycle it   *)
(* drives its ksComponents through.                                        *)
(*                                                                         *)
(* ksApplication::loop walks the component list once.  Every call it makes *)
(* into a component (init, postInit, loop) runs user code, and user code   *)
(* may add components to the list being walked and mark components for     *)
(* removal, so a call is two steps here: its dispatch and its return, with *)
(* the effects of the user code in between.                                *)
(***************************************************************************)
EXTENDS Integers, Sequences, SequencesExt

CONSTANT Component       \* the component objects an application may create

VARIABLES
    components,      \* the list of components, front first
    componentState,  \* life-cycle state of every component object
    phase,           \* what the application is doing
    it,              \* elements from the loop's iterator to end(); 0 is end().
                     \* A push_front leaves the iterator and this count alone
    call,            \* the component method being executed, or "none"
    atStart,         \* history: components listed when the pass started
    visited,         \* history: those of them the pass has dealt with
    marked,          \* history: components whose removal mark must count
    due              \* history: those already marked when the pass started

appVars == <<components, componentState, phase, it, call>>
historyVars == <<atStart, visited, marked, due>>
vars == <<components, componentState, phase, it, call,
          atStart, visited, marked, due>>

Phase == {"init", "idle", "pass", "stopped"}
Call  == {"none", "init", "postInit", "loop"}

\* "Absent" is the state of an object that does not exist (not created yet,
\* or erased and destroyed); the others are ksComponentState::TYPE.
ComponentState == {"Absent", "NotInitialized", "Initialized", "Active",
                   "ToRemove"}

-----------------------------------------------------------------------------
\* Position of the iterator, and the component it refers to.
Cursor  == Len(components) - it + 1
Current == components[Cursor]

\* The method the loop calls in each state, and the state it stores after the
\* method has returned true.  A component in state Active keeps its state.

\* Mutant of Method: no case for Initialized, so the default branch is taken
\* and the iterator moves on for ever.
MethodWithoutPostInit(s) == CASE s = "NotInitialized" -> "init"
                              [] s \in {"Initialized", "Active"} -> "loop"
                              [] OTHER -> "none"

Method(s) == CASE s = "NotInitialized" -> "init"
               [] s = "Initialized"    -> "postInit"
               [] s = "Active"         -> "loop"
               [] OTHER                -> "none"

\* Mutant of StateAfter: every successful call stores a state.
StateAlwaysStored(m, s) == IF m = "init" THEN "Initialized" ELSE "Active"

StateAfter(m, s) == CASE m = "init"     -> "Initialized"
                      [] m = "postInit" -> "Active"
                      [] OTHER          -> s

\* Code of the application or of a component runs: the application's init, its
\* own loop around the framework's, or a component method.
UserCodeRuns == phase \in {"init", "idle"} \/ call # "none"

-----------------------------------------------------------------------------
\* The application object has just been constructed and its init is running.
Init ==
    /\ components = <<>>
    /\ componentState = [c \in Component |-> "Absent"]
    /\ phase = "init"
    /\ it = 0
    /\ call = "none"
    /\ atStart = {} /\ visited = {} /\ marked = {} /\ due = {}

\* Mutant of AddComponent: the new object goes to the back of the list.
AddComponentAtBack(c) ==
    /\ UserCodeRuns
    /\ componentState[c] = "Absent"
    /\ components' = Append(components, c)
    /\ it' = IF phase = "pass" THEN it + 1 ELSE it
    /\ componentState' = [componentState EXCEPT ![c] = "NotInitialized"]
    /\ UNCHANGED <<phase, call, historyVars>>

\* addComponent: a new object at the front of the list.
AddComponent(c) ==
    /\ UserCodeRuns
    /\ componentState[c] = "Absent"
    /\ components' = Cons(c, components)
    /\ componentState' = [componentState EXCEPT ![c] = "NotInitialized"]
    /\ UNCHANGED <<phase, it, call, historyVars>>

\* A method of component c sets its own componentState to ToRemove.  The mark
\* is overwritten, and so does not count, when it is made while the loop waits
\* for c's own init or postInit.
MarkToRemove(c) ==
    /\ UserCodeRuns
    /\ componentState[c] \notin {"Absent", "ToRemove"}
    /\ componentState' = [componentState EXCEPT ![c] = "ToRemove"]
    /\ marked' = IF call \in {"init", "postInit"} /\ c = Current
                 THEN marked ELSE marked \cup {c}
    /\ UNCHANGED <<components, phase, it, call, atStart, visited, due>>

\* The application's virtual init returns.
InitReturns(ok) ==
    /\ phase = "init"
    /\ phase' = IF ok THEN "idle" ELSE "stopped"
    /\ UNCHANGED <<components, componentState, it, call, historyVars>>

BeginPass ==
    /\ phase = "idle"
    /\ phase' = "pass"
    /\ it' = Len(components)
    /\ atStart' = ToSet(components)
    /\ visited' = {}
    /\ due' = marked
    /\ UNCHANGED <<components, componentState, call, marked>>

\* The switch of the loop calls the method that the component's state asks for.
CallMethod ==
    /\ phase = "pass" /\ call = "none" /\ it > 0
    /\ componentState[Current] # "ToRemove"
    /\ call' = Method(componentState[Current])
    /\ UNCHANGED <<components, componentState, phase, it, historyVars>>

\* The method returns true: the loop stores the next state over whatever the
\* state is by now, and moves on.
MethodSucceeds ==
    /\ call # "none"
    /\ componentState' = [componentState EXCEPT ![Current] = StateAfter(call, @)]
    /\ it' = it - 1
    /\ call' = "none"
    /\ visited' = visited \cup {Current}
    /\ UNCHANGED <<components, phase, atStart, marked, due>>

\* The method returns false: the pass is abandoned and the application stops.
MethodFails ==
    /\ call # "none"
    /\ call' = "none"
    /\ phase' = "stopped"
    /\ UNCHANGED <<components, componentState, it, historyVars>>

\* Mutant of Erase: the iterator is advanced once more, as without "continue".
EraseAndAdvance ==
    /\ phase = "pass" /\ call = "none" /\ it > 0
    /\ componentState[Current] = "ToRemove"
    /\ components' = RemoveAt(components, Cursor)
    /\ componentState' = [componentState EXCEPT ![Current] = "Absent"]
    /\ it' = IF it > 1 THEN it - 2 ELSE 0
    /\ atStart' = atStart \ {Current}
    /\ visited' = visited \ {Current}
    /\ marked' = marked \ {Current}
    /\ due' = due \ {Current}
    /\ UNCHANGED <<phase, call>>

\* A component found marked is erased and its object destroyed.
Erase ==
    /\ phase = "pass" /\ call = "none" /\ it > 0
    /\ componentState[Current] = "ToRemove"
    /\ components' = RemoveAt(components, Cursor)
    /\ componentState' = [componentState EXCEPT ![Current] = "Absent"]
    /\ it' = it - 1
    /\ atStart' = atStart \ {Current}
    /\ visited' = visited \ {Current}
    /\ marked' = marked \ {Current}
    /\ due' = due \ {Current}
    /\ UNCHANGED <<phase, call>>

EndPass ==
    /\ phase = "pass" /\ call = "none" /\ it = 0
    /\ phase' = "idle"
    /\ UNCHANGED <<components, componentState, it, call, historyVars>>

-----------------------------------------------------------------------------
MethodReturns == MethodSucceeds \/ MethodFails
LoopStep == BeginPass \/ CallMethod \/ Erase \/ EndPass

Next ==
    \/ \E c \in Component : AddComponent(c) \/ MarkToRemove(c)
    \/ \E ok \in BOOLEAN : InitReturns(ok)
    \/ MethodReturns
    \/ LoopStep

Spec == Init /\ [][Next]_vars

-----------------------------------------------------------------------------
(* Properties. *)

\* Every variable has its type, the iterator stays inside the list, a method is
\* only executing while the iterator refers to an element, and the list holds
\* exactly the existing objects, each once (std::list of owning pointers).
TypeOK ==
    /\ components \in Seq(Component)
    /\ componentState \in [Component -> ComponentState]
    /\ phase \in Phase
    /\ it \in 0..Len(components)
    /\ call \in Call
    /\ call # "none" => phase = "pass" /\ it > 0
    /\ \A i, j \in 1..Len(components) : components[i] = components[j] => i = j
    /\ \A c \in Component :
          componentState[c] # "Absent" <=> \E i \in 1..Len(components) : components[i] = c

\* How far a component is in its life cycle.
Level(s) == CASE s = "Initialized" -> 1
              [] s = "Active"      -> 2
              [] OTHER             -> 0

\* Position i of the list has been passed by the iterator.
Passed(i) == phase \in {"pass", "stopped"} /\ i < Cursor

\* The life cycle advances in list order, whatever is added or erased while the
\* list is walked: nobody is behind a component that was added after it, except
\* that the part of the list the current pass has already dealt with is at most
\* one stage ahead of the part still to come (ksApplication::loop, push_front).
StagesOrdered ==
    \A i, j \in 1..Len(components) :
        (/\ i < j
         /\ componentState[components[i]] # "ToRemove"
         /\ componentState[components[j]] # "ToRemove")
        => Level(componentState[components[i]])
             <= Level(componentState[components[j]])
                  + (IF Passed(i) /\ ~Passed(j) THEN 1 ELSE 0)

\* README, Rules: postInit is the place to look other components up, even those
\* that components add in their own init.  While a postInit runs, everything
\* that was listed when the pass began has been through its init.
PostInitSeesInitialised ==
    call = "postInit" =>
        \A c \in atStart :
            componentState[c] \in {"Initialized", "Active", "ToRemove"}

\* Initialisation keeps to the order of the list, so that a postInit finds what
\* it looks up: the two together.
InitialisedInOrder == StagesOrdered /\ PostInitSeesInitialised

\* A pass deals with every listed component exactly once: what it has not dealt
\* with is ahead of the iterator, what it has dealt with is behind it, also when
\* components are added or erased on the way.
PassCoversList ==
    phase = "pass" =>
        /\ visited \subseteq atStart
        /\ \A i \in 1..Len(components) :
              i >= Cursor <=> components[i] \in atStart \ visited

\* A removal mark that is not made inside the component's own init or postInit
\* is never lost: no stage change overwrites it and no method of the component
\* is dispatched any more.  One made there is: the stage stored on return
\* replaces it (ksApplication::loop).
MarkIsKept ==
    \A c \in marked : componentState[c] = "ToRemove"

\* README: components marked for removal are safely deleted in the next cycle.
\* A pass never ends with a component that was already marked when it began.
RemovedNextCycle == [][EndPass => due = {}]_vars

\* Marking a component for removal is enough: the mark counts, and in the next
\* pass at the latest the component is gone.
MarkRemoves == [][MarkIsKept']_vars /\ RemovedNextCycle

\* An added component gets to Active, or is removed, or the application stops:
\* no component is starved by the ones added or erased around it.
BecomesActive ==
    \A c \in Component :
        componentState[c] = "NotInitialized" ~>
            componentState[c] \in {"Active", "ToRemove", "Absent"} \/ phase = "stopped"
=============================================================================
