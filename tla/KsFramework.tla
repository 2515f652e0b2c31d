---------------------------- MODULE KsFramework ----------------------------
(***************************************************************************)
(* The framework as it runs on the device: the rotator and the life cycle  *)
(* of the application it has spawned, with the calls into components as    *)
(* separate steps.  It implements KsAppRotator.                            *)
(***************************************************************************)
EXTENDS KsApplication

CONSTANTS AppCount, IndexMod

VARIABLES
    appIndex,              \* class of the application to be spawned next
    currentApplication,    \* class of the application object, or NoApp
    lastSpawned            \* history: class of the last application whose
                           \* init has returned, or NoApp

App   == 0..AppCount - 1
NoApp == -1

\* At least one class, and no more than the index can tell apart.
ASSUME FrameworkAssumption ==
    /\ AppCount \in Nat \ {0} /\ IndexMod \in Nat \ {0}
    /\ AppCount <= IndexMod

rotation == <<appIndex, currentApplication, lastSpawned>>
frameworkVars == <<vars, rotation>>

\* The rotator sees an application once its init has returned true and until
\* its loop returns false.
Running == IF phase \in {"idle", "pass"} THEN currentApplication ELSE NoApp

Rotator == INSTANCE KsAppRotator WITH currentApplication <- Running

-----------------------------------------------------------------------------
FrameworkInit ==
    /\ components = <<>>
    /\ componentState = [c \in Component |-> "Absent"]
    /\ phase = "stopped" /\ it = 0 /\ call = "none"
    /\ atStart = {} /\ visited = {} /\ marked = {} /\ due = {}
    /\ appIndex = 0 /\ currentApplication = NoApp /\ lastSpawned = NoApp

\* loopNoDelay without an application: a fresh one is constructed, and its init
\* starts running.
SpawnApplication ==
    /\ currentApplication = NoApp
    /\ currentApplication' = appIndex
    /\ phase' = "init"
    /\ UNCHANGED <<components, componentState, it, call, historyVars,
                   appIndex, lastSpawned>>

\* Mutant of FinishInit: the index only moves on when the init succeeds.
FinishInitRetrying(ok) ==
    /\ InitReturns(ok)
    /\ appIndex' = IF ok THEN Rotator!NextIndex(appIndex) ELSE appIndex
    /\ lastSpawned' = currentApplication
    /\ UNCHANGED currentApplication

\* The rest of that call, once the application's init has returned.  When it
\* has failed the object is dropped by DestroyApplication.
FinishInit(ok) ==
    /\ InitReturns(ok)
    /\ appIndex' = Rotator!NextIndex(appIndex)
    /\ lastSpawned' = currentApplication
    /\ UNCHANGED currentApplication

\* Mutant of DestroyApplication: the components outlive the application.
ForgetApplication ==
    /\ phase = "stopped" /\ currentApplication # NoApp
    /\ currentApplication' = NoApp
    /\ UNCHANGED <<components, componentState, historyVars, it>>
    /\ UNCHANGED <<phase, call, appIndex, lastSpawned>>

\* currentApplication.reset(): the application and the components it owns are
\* destroyed.
DestroyApplication ==
    /\ phase = "stopped" /\ currentApplication # NoApp
    /\ currentApplication' = NoApp
    /\ components' = <<>>
    /\ componentState' = [c \in Component |-> "Absent"]
    /\ it' = 0
    /\ atStart' = {} /\ visited' = {} /\ marked' = {} /\ due' = {}
    /\ UNCHANGED <<phase, call, appIndex, lastSpawned>>

\* Everything the application does between its init and its end.
ApplicationStep ==
    /\ \/ \E c \in Component : AddComponent(c) \/ MarkToRemove(c)
       \/ MethodReturns
       \/ LoopStep
    /\ UNCHANGED rotation

FrameworkNext ==
    \/ SpawnApplication
    \/ \E ok \in BOOLEAN : FinishInit(ok)
    \/ DestroyApplication
    \/ ApplicationStep

\* The Arduino core calls the rotator for ever, and init and the component
\* methods return.
FrameworkFairness ==
    /\ WF_frameworkVars(SpawnApplication)
    /\ WF_frameworkVars(\E ok \in BOOLEAN : FinishInit(ok))
    /\ WF_frameworkVars(DestroyApplication)
    /\ WF_frameworkVars(MethodReturns /\ UNCHANGED rotation)
    /\ WF_frameworkVars(LoopStep /\ UNCHANGED rotation)

FrameworkSpec == FrameworkInit /\ [][FrameworkNext]_frameworkVars
FrameworkFairSpec == FrameworkSpec /\ FrameworkFairness

-----------------------------------------------------------------------------
(* Properties. *)

\* While no application object exists no component of an earlier one does
\* (README: only one application runs at a time), so that the next one starts
\* from an empty list.
FrameworkTypeOK ==
    /\ TypeOK
    /\ appIndex \in App
    /\ currentApplication \in App \cup {NoApp}
    /\ lastSpawned \in App \cup {NoApp}
    /\ currentApplication = NoApp =>
          components = <<>> /\ \A c \in Component : componentState[c] = "Absent"

\* However the component life cycle interleaves, the rotator keeps its promise:
\* this module implements KsAppRotator, its fairness included, so that every
\* class of application gets its turn again and again, however the inits and
\* loops of the others fail, unless one of them keeps running for ever.
ImplementsRotator == Rotator!FairSpec /\ Rotator!EveryAppGetsATurn

\* So the classes take turns in their order, in spite of the 8-bit counter, and
\* only the one whose init returned last is ever looped
\* (ksAppRotator::loopNoDelay).
RotationInTurn == Rotator!RotatorTypeOK /\ Rotator!InTurn
=============================================================================
