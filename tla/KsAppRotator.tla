---------------------------- MODULE KsAppRotator ----------------------------
(***************************************************************************)
(* What ksAppRotator promises: the application classes given to it are     *)
(* spawned one at a time, in turn, the next one when the current one fails *)
(* in its init or in its loop.  One action is one call of loopNoDelay.     *)
(***************************************************************************)
EXTENDS Integers

CONSTANTS AppCount,      \* number of application classes, appSpawners.size()
          IndexMod       \* number of values of appIndex: 256, it is a uint8_t

\* At least one class, and no more than the index can tell apart.
RotatorAssumption ==
    /\ AppCount \in Nat \ {0} /\ IndexMod \in Nat \ {0}
    /\ AppCount <= IndexMod

VARIABLES
    appIndex,              \* class of the application to be spawned next
    currentApplication,    \* class of the running application, or NoApp
    lastSpawned            \* history: class spawned last, or NoApp

rotatorVars == <<appIndex, currentApplication, lastSpawned>>

App   == 0..AppCount - 1
NoApp == -1

\* if (++appIndex >= appSpawners.size()) appIndex = 0, on an 8-bit counter.
NextIndex(i) ==
    LET n == (i + 1) % IndexMod IN IF n >= AppCount THEN 0 ELSE n

Init ==
    /\ appIndex = 0
    /\ currentApplication = NoApp
    /\ lastSpawned = NoApp

\* No application: one is created and initialised, and dropped if its init
\* fails.  The index moves on in both cases.
Spawn(ok) ==
    /\ currentApplication = NoApp
    /\ currentApplication' = IF ok THEN appIndex ELSE NoApp
    /\ appIndex' = NextIndex(appIndex)
    /\ lastSpawned' = appIndex

\* The current application is looped, and dropped if its loop fails.
Loop(ok) ==
    /\ currentApplication # NoApp
    /\ currentApplication' = IF ok THEN currentApplication ELSE NoApp
    /\ UNCHANGED <<appIndex, lastSpawned>>

Next == \E ok \in BOOLEAN : Spawn(ok) \/ Loop(ok)

\* The Arduino core calls loop for ever.
Fairness == WF_rotatorVars(\E ok \in BOOLEAN : Spawn(ok))

Spec == Init /\ [][Next]_rotatorVars
FairSpec == Spec /\ Fairness

-----------------------------------------------------------------------------
(* Properties. *)

RotatorTypeOK ==
    /\ appIndex \in App
    /\ currentApplication \in App \cup {NoApp}
    /\ lastSpawned \in App \cup {NoApp}

\* The class after a in the rotation, without the counter.
Successor(a) == IF a = AppCount - 1 THEN 0 ELSE a + 1

\* The rotation is a round robin over all the classes in spite of the 8-bit
\* counter: the next class is always the successor of the last one spawned,
\* and only the last one spawned can be running (ksAppRotator::loopNoDelay).
InTurn ==
    /\ lastSpawned = NoApp => appIndex = 0
    /\ lastSpawned # NoApp => appIndex = Successor(lastSpawned)
    /\ currentApplication \in {NoApp, lastSpawned}

\* Every class gets its turn again and again, however the inits and loops of
\* the others fail, unless some application keeps running for ever.
EveryAppGetsATurn ==
    (\A a \in App : []<>(lastSpawned = a)) \/ <>[](currentApplication # NoApp)
=============================================================================
