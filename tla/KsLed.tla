------------------------------- MODULE KsLed -------------------------------
(***************************************************************************)
(* ksLed: a LED that its application switches or sets blinking, and whose  *)
(* state is only kept on the pin, which may be inverted.  The pattern goes *)
(* on in the loops of its application, each of which also updates the      *)
(* uptime, on KsClock's millis().                                          *)
(***************************************************************************)
EXTENDS KsClock

CONSTANTS
    BlinkIntervals,     \* intervals setBlinking is called with, but for 0
    BlinkLoops,         \* numbers of loops it is called with; 0 is for ever
    LoopGap             \* longest time between two loops of the LED, in ticks

ASSUME LedAssumption ==
    /\ BlinkIntervals \subseteq Nat \ {0}
    /\ BlinkLoops \subseteq Nat /\ 0 \in BlinkLoops
    /\ LoopGap \in 1..MaxGap
    /\ \A interval \in BlinkIntervals : interval + LoopGap < Width

VARIABLES
    level,              \* what digitalRead(pin) finds: TRUE is HIGH
    activeLow,          \* bitflags.activeLow
    driveAsPushPull,    \* bitflags.driveAsPushPull: pulled instead of driven
    blinkIntervalMs, blinkLoops, lastBlinkTimeMs,
    asked,              \* history: the loops setBlinking was last called with
    toggles,            \* history: toggles since then
    toggledAt,          \* history: true time of the last of them, or of the call
    span,               \* history: true time between the last two
    undisturbed         \* history: only the pattern has switched the LED since

patternVars == <<blinkIntervalMs, blinkLoops, lastBlinkTimeMs>>
ledHistory  == <<asked, toggles, toggledAt, span, undisturbed>>
ledVars     == <<level, activeLow, driveAsPushPull, patternVars, ledHistory>>
ledClock    == <<now, timerVars, uptimeVars>>

LedTypeOK ==
    /\ level \in BOOLEAN /\ activeLow \in BOOLEAN
    /\ driveAsPushPull \in BOOLEAN /\ undisturbed \in BOOLEAN
    /\ blinkIntervalMs \in BlinkIntervals \cup {0}
    /\ blinkLoops \in 0..asked /\ asked \in BlinkLoops
    /\ lastBlinkTimeMs \in 0..Width - 1
    /\ toggles \in Nat /\ span \in Nat /\ toggledAt \in 0..now

-----------------------------------------------------------------------------
isEnabled == level # activeLow

\* The level setEnabled puts on the pin, driving it or pulling it.
LevelFor(enabled) == enabled # activeLow

\* Constructed and initialised: init switches the LED off, and leaves alone a
\* pattern that its application has already set.
LedInit ==
    /\ activeLow \in BOOLEAN /\ level = LevelFor(FALSE)
    /\ driveAsPushPull \in BOOLEAN
    /\ blinkIntervalMs \in BlinkIntervals \cup {0} /\ blinkLoops \in BlinkLoops
    /\ blinkIntervalMs = 0 => blinkLoops = 0
    /\ lastBlinkTimeMs = 0
    /\ asked = blinkLoops /\ toggles = 0 /\ toggledAt = 0 /\ span = 0
    /\ undisturbed = FALSE

SetEnabled(enabled) ==
    /\ level' = LevelFor(enabled)
    /\ undisturbed' = FALSE
    /\ UNCHANGED <<ledClock, activeLow, driveAsPushPull, patternVars, asked, toggles,
                   toggledAt, span>>

SetBlinking(interval, loops) ==
    /\ level' = LevelFor(interval > 0)
    /\ blinkIntervalMs' = interval /\ blinkLoops' = loops
    /\ lastBlinkTimeMs' = millis
    /\ asked' = loops /\ toggles' = 0 /\ toggledAt' = now /\ span' = 0
    /\ undisturbed' = (interval > 0)
    /\ UNCHANGED <<ledClock, activeLow, driveAsPushPull>>

\* The pin is driven or pulled to the level it had.
SetDriveAsPushPull ==
    /\ driveAsPushPull' = ~driveAsPushPull
    /\ level' = LevelFor(isEnabled)
    /\ UNCHANGED <<ledClock, activeLow, patternVars, ledHistory>>

\* Mutant of Due: the deadline is computed, and compared, as a number.
DueByDeadline == blinkIntervalMs > 0 /\ millis > lastBlinkTimeMs + blinkIntervalMs

Due == blinkIntervalMs > 0 /\ (millis - lastBlinkTimeMs) % Width > blinkIntervalMs

\* blinkLoops > 0 && --blinkLoops == 0.
LastLoop == blinkLoops = 1

Toggled ==
    /\ toggles' = toggles + 1 /\ toggledAt' = now /\ span' = now - toggledAt
    /\ lastBlinkTimeMs' = millis
    /\ UNCHANGED <<activeLow, driveAsPushPull, asked, undisturbed>>

\* The pattern ends with setBlinking(0): the LED is switched off.
LoopEndsPattern ==
    /\ Due /\ LastLoop
    /\ level' = LevelFor(FALSE)
    /\ blinkIntervalMs' = 0 /\ blinkLoops' = 0
    /\ Toggled

LoopToggles ==
    /\ Due /\ ~LastLoop
    /\ level' = LevelFor(~isEnabled)
    /\ blinkLoops' = IF blinkLoops > 0 THEN blinkLoops - 1 ELSE 0
    /\ UNCHANGED blinkIntervalMs
    /\ Toggled

LoopWaits == ~Due /\ UNCHANGED ledVars

\* ksApplication::loop has updated the uptime before it loops the component.
LedLoop == UpdateDeviceUptime /\ (LoopEndsPattern \/ LoopToggles \/ LoopWaits)

LedTick == now - updatedAt < LoopGap /\ Tick /\ UNCHANGED ledVars

LedNext ==
    \/ LedLoop \/ LedTick \/ SetDriveAsPushPull
    \/ \E enabled \in BOOLEAN : SetEnabled(enabled)
    \/ \E interval \in BlinkIntervals, loops \in BlinkLoops : SetBlinking(interval, loops)
    \/ SetBlinking(0, 0)

-----------------------------------------------------------------------------
(* Properties. *)

\* ksLed.h: "Number of state toggle loops/cycles", at "Intervals between state
\* change".  As long as nobody else switches it, the LED has toggled as often as
\* the loops left to do say and ends dark, no toggle comes early, and after no
\* loop of the application is one overdue, across any wrap of millis().
BlinksAsAsked ==
    undisturbed =>
        /\ IF blinkIntervalMs > 0
           THEN /\ isEnabled <=> toggles % 2 = 0
                /\ asked > 0 => toggles + blinkLoops = asked /\ toggles < asked
                /\ updatedAt - toggledAt <= blinkIntervalMs
           ELSE ~isEnabled /\ toggles = asked
        /\ toggles > 0 /\ blinkIntervalMs > 0 => span > blinkIntervalMs
=============================================================================
