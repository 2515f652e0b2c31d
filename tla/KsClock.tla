------------------------------ MODULE KsClock ------------------------------
(***************************************************************************)
(* Time as the framework sees it: ksSimpleTimer and the 64-bit uptime,     *)
(* both built on millis(), a counter that wraps.  now is the true time     *)
(* since boot, which no code can read.                                     *)
(***************************************************************************)
EXTENDS Integers

CONSTANTS
    Width,        \* number of values of a uint32_t: 2^32
    Intervals,    \* intervals a timer is given; 0 disables it
    MaxGap,       \* longest time between two calls of ksApplication::loop
    MaxTime       \* bound of the model: the true time at which it stops

ASSUME ClockAssumption ==
    /\ Width \in Nat \ {0} /\ MaxTime \in Nat
    /\ Intervals \subseteq 0..Width - 1
    /\ MaxGap \in 1..Width - 1

VARIABLES
    now,                  \* true time, in milliseconds
    intervalMs,           \* ksSimpleTimer: the interval
    lastTriggerTimeMs,    \* ksSimpleTimer: millis() of the last restart
    uptime_low32,         \* millis() at the last updateDeviceUptime
    uptime_high32,        \* wraps counted by updateDeviceUptime
    restartedAt,          \* history: true time of the timer's last restart
    updatedAt             \* history: true time of the last updateDeviceUptime

timerVars  == <<intervalMs, lastTriggerTimeMs, restartedAt>>
uptimeVars == <<uptime_low32, uptime_high32, updatedAt>>
vars == <<now, intervalMs, lastTriggerTimeMs, uptime_low32, uptime_high32,
          restartedAt, updatedAt>>

-----------------------------------------------------------------------------
\* The Arduino clock.
millis == now % Width

\* Mutant of HasTimePassed: comparing absolute times.
DeadlineReached == intervalMs # 0 /\ millis > lastTriggerTimeMs + intervalMs

\* millis() - lastTriggerTimeMs is computed on uint32_t.
HasTimePassed == intervalMs # 0 /\ (millis - lastTriggerTimeMs) % Width > intervalMs

\* millis64().
millis64 == uptime_high32 * Width + uptime_low32

Init ==
    /\ now = 0
    /\ intervalMs \in Intervals
    /\ lastTriggerTimeMs = 0 /\ restartedAt = 0
    /\ uptime_low32 = 0 /\ uptime_high32 = 0 /\ updatedAt = 0

\* Time passes; the application is looped at least every MaxGap.
Tick ==
    /\ now < MaxTime
    /\ now - updatedAt < MaxGap
    /\ now' = now + 1
    /\ UNCHANGED <<timerVars, uptimeVars>>

Restart ==
    /\ lastTriggerTimeMs' = millis
    /\ restartedAt' = now
    /\ UNCHANGED <<now, intervalMs, uptimeVars>>

SetInterval(interval) ==
    /\ intervalMs' = interval
    /\ lastTriggerTimeMs' = millis
    /\ restartedAt' = now
    /\ UNCHANGED <<now, uptimeVars>>

\* triggered() returning true; returning false changes nothing.
Triggered ==
    /\ HasTimePassed
    /\ Restart

UpdateDeviceUptime ==
    /\ uptime_high32' = IF millis < uptime_low32
                        THEN uptime_high32 + 1 ELSE uptime_high32
    /\ uptime_low32' = millis
    /\ updatedAt' = now
    /\ UNCHANGED <<now, timerVars>>

Next ==
    \/ Tick
    \/ UpdateDeviceUptime
    \/ Triggered
    \/ Restart
    \/ \E interval \in Intervals : SetInterval(interval)

Spec == Init /\ [][Next]_vars

-----------------------------------------------------------------------------
(* Properties. *)

\* The types, and the order of the true times.
TypeOK ==
    /\ now \in Nat /\ restartedAt \in 0..now /\ updatedAt \in 0..now
    /\ intervalMs \in Intervals
    /\ lastTriggerTimeMs \in 0..Width - 1
    /\ uptime_low32 \in 0..Width - 1 /\ uptime_high32 \in Nat
    /\ now - updatedAt <= MaxGap

\* ksConstants.h, millis64: the 64-bit uptime is the true time of the last
\* update, across any number of wraps of millis(), provided the application is
\* looped at least once per wrap.
UptimeIsExact == millis64 = updatedAt

\* A timer never fires early, also when millis() has wrapped since it was
\* restarted (ksSimpleTimer::hasTimePassed).
NeverEarly == HasTimePassed => now - restartedAt > intervalMs

\* A timer that is due fires when it is polled, up to one wrap after it was
\* restarted.
FiresWhenDue ==
    (intervalMs # 0 /\ now - restartedAt \in intervalMs + 1..Width - 1)
        => HasTimePassed

\* The clock is exact in spite of its 32 bits: the uptime is, no timer fires
\* early, and one that is due fires when it is polled.
ClockIsExact == UptimeIsExact /\ NeverEarly /\ FiresWhenDue
=============================================================================
