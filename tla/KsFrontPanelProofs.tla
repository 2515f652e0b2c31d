------------------------- MODULE KsFrontPanelProofs -------------------------
(***************************************************************************)
(* Uptime and timers are right for every counter width, every interval the *)
(* counter can hold and every distance between updates below one wrap; and *)
(* so are the reset button and the LED, which measure time the same way.   *)
(***************************************************************************)
EXTENDS KsFrontPanel, TLAPS

-----------------------------------------------------------------------------
(* Arithmetic of a counter that wraps. *)

LEMMA SmallMultiple ==
    ASSUME NEW m \in Nat \ {0}, NEW k \in Int, k * m < m, -m < k * m
    PROVE  k = 0
<1>1. CASE k >= 1
  <2>1. k * m >= 1 * m
    BY <1>1
  <2> QED
    BY <2>1
<1>2. CASE k <= -1
  <2>1. k * m <= (-1) * m
    BY <1>2
  <2> QED
    BY <2>1
<1> QED
  BY <1>1, <1>2

\* Division with remainder, and its uniqueness.
LEMMA DivMod ==
    ASSUME NEW m \in Nat \ {0}, NEW a \in Int
    PROVE  /\ a \div m \in Int /\ a % m \in 0..m - 1
           /\ a = (a \div m) * m + (a % m)
OBVIOUS

LEMMA ModUnique ==
    ASSUME NEW m \in Nat \ {0}, NEW q \in Int, NEW r \in 0..m - 1
    PROVE  (q * m + r) % m = r
<1> DEFINE a == q * m + r
           d == a \div m
           e == a % m
<1>1. a \in Int
  OBVIOUS
<1>2. d \in Int /\ e \in 0..m - 1 /\ a = d * m + e
  BY <1>1, DivMod
<1> HIDE DEF d, e
<1>3. (d - q) * m = r - e
  BY <1>2
<1>4. d - q = 0
  BY <1>2, <1>3, SmallMultiple
<1> QED
  BY <1>2, <1>4 DEF e

\* The counter after d more ticks, fewer than a full turn.
LEMMA CounterAdvance ==
    ASSUME NEW m \in Nat \ {0}, NEW t \in Int, NEW d \in 0..m - 1
    PROVE  (t + d) % m = IF (t % m) + d < m THEN (t % m) + d ELSE (t % m) + d - m
<1> DEFINE q == t \div m
           r == t % m
<1>1. q \in Int /\ r \in 0..m - 1 /\ t = q * m + r
  BY DivMod
<1> HIDE DEF q, r
<1>2. CASE r + d < m
  <2>1. r + d \in 0..m - 1 /\ t + d = q * m + (r + d)
    BY <1>1, <1>2
  <2> QED
    BY <2>1, <1>1, <1>2, ModUnique DEF r
<1>3. CASE r + d >= m
  <2>1. (q + 1) * m = q * m + m
    BY <1>1
  <2>2. r + d - m \in 0..m - 1 /\ t + d = (q + 1) * m + (r + d - m) /\ q + 1 \in Int
    BY <2>1, <1>1, <1>3
  <2>3. ((q + 1) * m + (r + d - m)) % m = r + d - m
    BY <2>2, ModUnique
  <2> QED
    BY <2>2, <2>3, <1>1, <1>3 DEF r
<1> QED
  BY <1>1, <1>2, <1>3 DEF r

\* The wrapping difference of two readings is the true difference, wrapped.
LEMMA CounterDifference ==
    ASSUME NEW m \in Nat \ {0}, NEW a \in Int, NEW b \in Int
    PROVE  ((a % m) - (b % m)) % m = (a - b) % m
<1> DEFINE p == a \div m
           q == b \div m
           r == a % m
           s == b % m
<1>1. /\ p \in Int /\ r \in 0..m - 1 /\ a = p * m + r
      /\ q \in Int /\ s \in 0..m - 1 /\ b = q * m + s
  BY DivMod
<1> HIDE DEF p, q, r, s
<1>2. (p - q) * m = p * m - q * m /\ (p - q - 1) * m = p * m - q * m - m
  BY <1>1
<1>3. CASE r >= s
  <2>1. r - s \in 0..m - 1 /\ p - q \in Int /\ a - b = (p - q) * m + (r - s)
    BY <1>1, <1>2, <1>3
  <2>2. ((p - q) * m + (r - s)) % m = r - s
    BY <2>1, ModUnique
  <2>3. r - s = 0 * m + (r - s)
    BY <1>1
  <2>4. (0 * m + (r - s)) % m = r - s
    BY <2>1, ModUnique
  <2> QED
    BY <2>1, <2>2, <2>3, <2>4 DEF r, s
<1>4. CASE r < s
  <2>1. /\ r - s + m \in 0..m - 1 /\ p - q - 1 \in Int
        /\ a - b = (p - q - 1) * m + (r - s + m)
    BY <1>1, <1>2, <1>4
  <2>2. ((p - q - 1) * m + (r - s + m)) % m = r - s + m
    BY <2>1, ModUnique
  <2>3. r - s = (-1) * m + (r - s + m)
    BY <1>1
  <2>4. ((-1) * m + (r - s + m)) % m = r - s + m
    BY <2>1, ModUnique
  <2> QED
    BY <2>1, <2>2, <2>3, <2>4 DEF r, s
<1> QED
  BY <1>1, <1>3, <1>4

-----------------------------------------------------------------------------
(* The clock. *)

\* What the counters hold, in terms of the true times of their last update.
ClockInv ==
    /\ TypeOK
    /\ UptimeIsExact
    /\ uptime_low32 = updatedAt % Width
    /\ lastTriggerTimeMs = restartedAt % Width

\* The wrap is counted exactly when it has happened.
LEMMA UptimeStep ==
    ASSUME ClockInv, UpdateDeviceUptime
    PROVE  millis64' = now /\ uptime_high32' \in Nat
<1> DEFINE d == now - updatedAt
<1>1. /\ Width \in Nat \ {0} /\ d \in 0..Width - 1 /\ now = updatedAt + d
      /\ updatedAt \in Nat /\ uptime_low32 \in 0..Width - 1 /\ uptime_high32 \in Nat
      /\ updatedAt = uptime_high32 * Width + uptime_low32
      /\ uptime_low32 = updatedAt % Width
  BY ClockAssumption DEF ClockInv, TypeOK, UptimeIsExact, millis64
<1> HIDE DEF d
<1>2. millis = IF uptime_low32 + d < Width THEN uptime_low32 + d
                                           ELSE uptime_low32 + d - Width
  <2>1. (updatedAt + d) % Width =
           IF (updatedAt % Width) + d < Width THEN (updatedAt % Width) + d
                                              ELSE (updatedAt % Width) + d - Width
    <3>1. Width \in Nat \ {0} /\ updatedAt \in Int /\ d \in 0..Width - 1
      BY <1>1
    <3> QED
      BY ONLY <3>1, CounterAdvance, Zenon
  <2>2. millis = (updatedAt + d) % Width
    BY <1>1 DEF millis
  <2> QED
    BY <1>1, <2>1, <2>2
<1>3. (uptime_high32 + 1) * Width = uptime_high32 * Width + Width
  BY <1>1
<1>4. uptime_low32' = millis /\ uptime_high32' = IF millis < uptime_low32
                        THEN uptime_high32 + 1 ELSE uptime_high32
  BY DEF UpdateDeviceUptime
<1>5. CASE uptime_low32 + d < Width
  BY <1>1, <1>2, <1>4, <1>5 DEF millis64
<1>6. CASE uptime_low32 + d >= Width
  <2>1. millis = uptime_low32 + d - Width /\ millis < uptime_low32
    BY <1>1, <1>2, <1>6
  <2> QED
    BY <1>1, <1>3, <1>4, <2>1 DEF millis64
<1> QED
  BY <1>1, <1>5, <1>6

LEMMA ClockStepInv == ClockInv /\ [Next]_vars => ClockInv'
<1> SUFFICES ASSUME ClockInv, [Next]_vars PROVE ClockInv'
  OBVIOUS
<1> USE DEF ClockInv
<1>1. now \in Nat /\ Width \in Nat \ {0} /\ millis \in 0..Width - 1
      /\ MaxGap \in Nat
  BY ClockAssumption, DivMod DEF TypeOK, millis
<1>2. CASE Tick
  BY <1>1, <1>2 DEF Tick, TypeOK, UptimeIsExact, millis64, timerVars, uptimeVars
<1>3. CASE UpdateDeviceUptime
  <2>1. millis64' = now /\ uptime_high32' \in Nat
    BY <1>3, UptimeStep
  <2> QED
    BY <1>1, <1>3, <2>1
    DEF UpdateDeviceUptime, TypeOK, UptimeIsExact, millis, timerVars
<1>4. CASE Restart \/ Triggered
  BY <1>1, <1>4
  DEF Triggered, Restart, TypeOK, UptimeIsExact, millis64, millis, uptimeVars
<1>5. ASSUME NEW interval \in Intervals, SetInterval(interval) PROVE ClockInv'
  BY <1>1, <1>5
  DEF SetInterval, TypeOK, UptimeIsExact, millis64, millis, uptimeVars
<1>6. CASE UNCHANGED vars
  BY <1>6 DEF vars, TypeOK, UptimeIsExact, millis64
<1> QED
  BY <1>2, <1>3, <1>4, <1>5, <1>6 DEF Next

\* A timer's modular test against true time.
LEMMA ElapsedFacts ==
    ASSUME ClockInv
    PROVE  LET e == now - restartedAt IN
           /\ e \in Nat /\ e % Width <= e
           /\ e < Width => e % Width = e
           /\ HasTimePassed <=> intervalMs # 0 /\ e % Width > intervalMs
<1> DEFINE e == now - restartedAt
<1>1. Width \in Nat \ {0} /\ now \in Int /\ restartedAt \in Int /\ e \in Nat
  BY ClockAssumption DEF ClockInv, TypeOK
<1>2. (millis - lastTriggerTimeMs) % Width = e % Width
  BY <1>1, CounterDifference DEF ClockInv, millis
<1> HIDE DEF e
<1>3. e % Width <= e /\ (e < Width => e % Width = e)
  BY <1>1
<1> QED
  BY <1>1, <1>2, <1>3 DEF HasTimePassed, e

\* Without their 32 bits getting in the way, the clocks say what is true.
LEMMA ClockInvExact == ASSUME ClockInv PROVE ClockIsExact
<1>1. UptimeIsExact
  BY DEF ClockInv
<1>2. NeverEarly
  <2>1. /\ now - restartedAt \in Nat /\ intervalMs \in Nat
        /\ (now - restartedAt) % Width <= now - restartedAt
        /\ (now - restartedAt) % Width \in Int
    BY ElapsedFacts, ClockAssumption, DivMod DEF ClockInv, TypeOK
  <2> QED
    BY <2>1, ElapsedFacts DEF NeverEarly
<1>3. FiresWhenDue
  <2> SUFFICES ASSUME intervalMs # 0, now - restartedAt \in intervalMs + 1..Width - 1
               PROVE  HasTimePassed
    BY DEF FiresWhenDue
  <2>1. intervalMs \in Nat /\ Width \in Nat
    BY ClockAssumption DEF ClockInv, TypeOK
  <2>2. (now - restartedAt) % Width = now - restartedAt
    BY <2>1, ElapsedFacts
  <2> QED
    BY <2>1, <2>2, ElapsedFacts
<1> QED
  BY <1>1, <1>2, <1>3 DEF ClockIsExact

-----------------------------------------------------------------------------
(* The button. *)

\* On a button that was free when the application started, the stored reading is
\* that of the true time, and nobody holds it for a whole turn of the counter.
ButtonInv ==
    /\ ButtonTypeOK
    /\ ~live => heldSince = NotHeld
    /\ ~PressedAtInit /\ heldSince # NotHeld =>
          pressedTime = heldSince % Width /\ now - heldSince < Width

\* When the device restarts the clock is as it was at first.
LEMMA RestartInv == ClockRestarts => ClockInv'
<1> SUFFICES ASSUME ClockRestarts PROVE ClockInv'
  OBVIOUS
<1>1. Width \in Nat \ {0} /\ MaxGap \in Nat
  BY ClockAssumption
<1>2. 0 % Width = 0
  BY <1>1
<1> QED
  BY <1>1, <1>2 DEF ClockRestarts, ClockInv, TypeOK, UptimeIsExact, millis64

\* The difference of the readings is the time the button has been held for.
LEMMA DurationIsExact ==
    ASSUME ClockInv, ButtonInv, ~PressedAtInit, heldSince # NotHeld
    PROVE  Duration = now - heldSince
<1>1. /\ Width \in Nat \ {0} /\ now \in Int /\ heldSince \in Int
      /\ now - heldSince \in 0..Width - 1 /\ pressedTime = heldSince % Width
  BY ClockAssumption DEF ClockInv, TypeOK, ButtonInv, ButtonTypeOK, NotHeld
<1>2. (millis - pressedTime) % Width = (now - heldSince) % Width
  BY <1>1, CounterDifference DEF millis
<1>3. (now - heldSince) % Width = now - heldSince
  BY <1>1
<1> QED
  BY <1>2, <1>3 DEF Duration

LEMMA ButtonStepInv ==
    ASSUME ClockInv, ButtonInv, ButtonNext
    PROVE  ClockInv' /\ ButtonInv'
<1>1. /\ now \in Nat /\ Width \in Nat \ {0} /\ millis \in 0..Width - 1
      /\ 0 \in 0..Width - 1 /\ NotHeld = -1 /\ now # NotHeld
  <2>1. now \in Nat /\ Width \in Nat \ {0}
    BY ClockAssumption DEF ClockInv, TypeOK
  <2>2. now % Width \in 0..Width - 1
    BY <2>1, DivMod
  <2> QED
    BY <2>1, <2>2 DEF millis, NotHeld
<1>2. ASSUME UNCHANGED clockVars PROVE ClockInv' /\ now' = now
  <2>1. UNCHANGED vars
    BY <1>2 DEF clockVars, timerVars, uptimeVars, vars
  <2> QED
    BY <2>1, ClockStepInv DEF vars
<1>3. TypeOK /\ (ClockInv' => TypeOK')
  BY DEF ClockInv
<1> USE DEF ButtonInv, ButtonTypeOK
<1>4. CASE Start \/ SeePress
  <2>1. ClockInv' /\ now' = now
    BY <1>2, <1>4 DEF Start, SeePress
  <2>2. /\ pressed' \in BOOLEAN /\ live' = TRUE /\ lastPressed' \in BOOLEAN
        /\ config' \in {"kept", "erased"} /\ (lastPressed' <=> heldSince' # NotHeld)
    <3>1. CASE Start /\ pressed = TRUE
      BY <1>1, <3>1 DEF Start
    <3>2. CASE Start /\ pressed = FALSE
      BY <1>1, <3>2 DEF Start
    <3>3. CASE SeePress
      BY <1>1, <3>3 DEF SeePress
    <3> QED
      BY <1>4, <3>1, <3>2, <3>3
  <2>4. pressedTime' \in 0..Width - 1 /\ heldSince' \in {NotHeld} \cup 0..now'
    BY <1>1, <1>4, <2>1 DEF Start, SeePress
  <2>3. ~PressedAtInit /\ heldSince' # NotHeld =>
            pressedTime' = heldSince' % Width /\ now' - heldSince' < Width
    BY <1>1, <1>4, <2>1 DEF Start, SeePress, millis
  <2> QED
    BY <1>3, <2>1, <2>2, <2>3, <2>4
<1>5. CASE SeeBounce \/ SeeShortPress \/ Stop
  BY <1>2, <1>3, <1>5 DEF SeeBounce, SeeShortPress, Stop
<1>6. CASE SeeLongPress
  <2>1. ClockInv'
    BY <1>6, RestartInv DEF SeeLongPress
  <2> QED
    BY <1>1, <1>3, <1>6, <2>1 DEF SeeLongPress
<1>7. CASE PinChanges
  BY <1>2, <1>3, <1>7 DEF PinChanges
<1>8. CASE ClockStep
  <2>1. ClockInv' /\ UNCHANGED buttonVars
    BY <1>8, ClockStepInv DEF ClockStep
  <2>2. now' \in {now, now + 1}
    BY <1>8 DEF ClockStep, Next, Tick, UpdateDeviceUptime, Triggered, Restart,
                SetInterval
  <2>3. heldSince # NotHeld /\ now' # now => now - heldSince < Width - 1
    BY <1>8 DEF ClockStep
  <2>4. heldSince' \in {NotHeld} \cup 0..now'
    BY <1>1, <2>1, <2>2 DEF buttonVars
  <2>5. ~PressedAtInit /\ heldSince' # NotHeld =>
            pressedTime' = heldSince' % Width /\ now' - heldSince' < Width
    <3>1. heldSince' = heldSince /\ pressedTime' = pressedTime
      BY <2>1 DEF buttonVars
    <3>2. heldSince # NotHeld => heldSince \in 0..now
      OBVIOUS
    <3>3. heldSince # NotHeld /\ now - heldSince < Width => now' - heldSince < Width
      <4>1. now \in Nat /\ Width \in Nat
        BY <1>1
      <4> QED
        BY ONLY <4>1, <2>2, <2>3, <3>2
    <3> QED
      BY <3>1, <3>3
  <2> QED
    BY <1>3, <2>1, <2>4, <2>5 DEF buttonVars
<1> QED
  BY <1>4, <1>5, <1>6, <1>7, <1>8 DEF ButtonNext, Look

LEMMA LookIsLive == Look => live
BY DEF Look, SeePress, SeeBounce, SeeShortPress, SeeLongPress

\* What a look at the button does, by the true length of the press.
LEMMA LookActs ==
    ASSUME ClockInv, ButtonInv, ~PressedAtInit, heldSince # NotHeld, Look
    PROVE  CASE now - heldSince <= ShortTrigger -> live' /\ UNCHANGED config
             [] now - heldSince > LongTrigger   -> ~live' /\ config' = "erased"
             [] OTHER                           -> ~live' /\ UNCHANGED config
<1>1. Duration = now - heldSince
  BY DurationIsExact
<1>2. ~SeePress /\ live
  BY DEF SeePress, ButtonInv, ButtonTypeOK, Look, SeeBounce, SeeShortPress, SeeLongPress
<1>3. /\ ShortTrigger \in Nat /\ LongTrigger \in Nat /\ LongTrigger > ShortTrigger
      /\ now - heldSince \in Int
  BY ButtonAssumption DEF ClockInv, TypeOK, ButtonInv, ButtonTypeOK, NotHeld
<1>4. CASE SeeBounce
  <2>1. now - heldSince <= ShortTrigger /\ live' /\ UNCHANGED config
    BY <1>1, <1>2, <1>4 DEF SeeBounce
  <2> QED
    BY <1>3, <2>1
<1>5. CASE SeeShortPress
  <2>1. /\ ~(now - heldSince <= ShortTrigger) /\ ~(now - heldSince > LongTrigger)
        /\ ~live' /\ UNCHANGED config
    BY <1>1, <1>3, <1>5 DEF SeeShortPress
  <2> QED
    BY <2>1
<1>6. CASE SeeLongPress
  <2>1. /\ now - heldSince > LongTrigger /\ ~(now - heldSince <= ShortTrigger)
        /\ ~live' /\ config' = "erased"
    BY <1>1, <1>3, <1>6 DEF SeeLongPress
  <2> QED
    BY <2>1
<1> QED
  BY <1>2, <1>4, <1>5, <1>6 DEF Look

-----------------------------------------------------------------------------
(* The LED. *)

\* What an undisturbed pattern has done so far, and how late its next toggle can
\* be at most.
PatternInv ==
    undisturbed =>
        /\ lastBlinkTimeMs = toggledAt % Width
        /\ BlinksAsAsked

LedInv == LedTypeOK /\ PatternInv /\ now - updatedAt <= LoopGap

LEMMA LedFacts ==
    ASSUME ClockInv
    PROVE  /\ Width \in Nat \ {0} /\ LoopGap \in Nat /\ LoopGap <= MaxGap
           /\ now \in Nat /\ updatedAt \in 0..now /\ millis \in 0..Width - 1
           /\ \A interval \in BlinkIntervals \cup {0} :
                 interval \in Nat /\ interval + LoopGap < Width
           /\ BlinkLoops \subseteq Nat /\ 0 \in BlinkLoops
<1>1. Width \in Nat \ {0} /\ MaxGap \in 1..Width - 1 /\ now \in Nat /\ updatedAt \in 0..now
  BY ClockAssumption DEF ClockInv, TypeOK
<1>2. millis \in 0..Width - 1
  BY <1>1, DivMod DEF millis
<1>3. LoopGap \in 1..MaxGap
  BY LedAssumption
<1>4. \A interval \in BlinkIntervals \cup {0} : interval \in Nat /\ interval + LoopGap < Width
  BY <1>1, <1>3, LedAssumption
<1> QED
  BY <1>1, <1>2, <1>3, <1>4, LedAssumption

\* What is put on the pin is what is read from it.
LEMMA LevelIsRead ==
    ASSUME activeLow \in BOOLEAN, activeLow' = activeLow,
           NEW enabled \in BOOLEAN, level' = LevelFor(enabled)
    PROVE  level' \in BOOLEAN /\ (isEnabled' <=> enabled)
BY DEF LevelFor, isEnabled

\* The test of the loop, in true times.
LEMMA DueIsExact ==
    ASSUME ClockInv, LedInv, undisturbed, blinkIntervalMs > 0
    PROVE  /\ Due <=> now - toggledAt > blinkIntervalMs
           /\ now - toggledAt \in Nat
<1>1. /\ Width \in Nat \ {0} /\ now \in Int /\ toggledAt \in 0..now /\ updatedAt \in 0..now
      /\ LoopGap \in Nat /\ blinkIntervalMs \in Nat /\ blinkIntervalMs + LoopGap < Width
      /\ now - updatedAt <= LoopGap
  BY LedFacts DEF LedInv, LedTypeOK
<1>2. updatedAt - toggledAt <= blinkIntervalMs /\ lastBlinkTimeMs = toggledAt % Width
  BY DEF LedInv, PatternInv, BlinksAsAsked
<1>3. now - toggledAt \in 0..Width - 1
  BY <1>1, <1>2
<1>4. (millis - lastBlinkTimeMs) % Width = (now - toggledAt) % Width
  <2>1. now \in Int /\ toggledAt \in Int /\ Width \in Nat \ {0}
    BY <1>1
  <2>2. ((now % Width) - (toggledAt % Width)) % Width = (now - toggledAt) % Width
    BY ONLY <2>1, CounterDifference, Zenon
  <2> QED
    BY <1>2, <2>2 DEF millis
<1>5. (now - toggledAt) % Width = now - toggledAt
  BY <1>1, <1>3
<1> QED
  BY <1>1, <1>3, <1>4, <1>5 DEF Due

LEMMA LedLoopInv == ASSUME ClockInv, LedInv, LedLoop PROVE LedInv'
<1>1. /\ UpdateDeviceUptime /\ now' = now /\ updatedAt' = now
      /\ Width \in Nat \ {0} /\ LoopGap \in Nat /\ now \in Nat /\ millis \in 0..Width - 1
  BY LedFacts DEF LedLoop, UpdateDeviceUptime
<1>2. now' - updatedAt' <= LoopGap /\ 0 \in BlinkIntervals \cup {0}
  BY <1>1
<1>3. /\ activeLow \in BOOLEAN /\ driveAsPushPull \in BOOLEAN /\ undisturbed \in BOOLEAN
      /\ blinkIntervalMs \in BlinkIntervals \cup {0} /\ blinkIntervalMs \in Nat
      /\ asked \in BlinkLoops /\ asked \in Nat /\ blinkLoops \in 0..asked
      /\ toggles \in Nat /\ toggledAt \in 0..now
  BY LedFacts DEF LedInv, LedTypeOK
<1>4. undisturbed /\ blinkIntervalMs > 0 =>
        /\ isEnabled <=> toggles % 2 = 0
        /\ asked > 0 => toggles + blinkLoops = asked /\ toggles < asked
  BY DEF LedInv, PatternInv, BlinksAsAsked
<1>5. CASE LoopEndsPattern \/ LoopToggles
  <2>1. /\ Due /\ blinkIntervalMs > 0
        /\ toggles' = toggles + 1 /\ toggledAt' = now /\ span' = now - toggledAt
        /\ lastBlinkTimeMs' = millis
        /\ UNCHANGED <<activeLow, driveAsPushPull, asked, undisturbed>>
    BY <1>5 DEF LoopEndsPattern, LoopToggles, Toggled, Due
  <2>2. undisturbed => span' > blinkIntervalMs
    BY <2>1, DueIsExact
  <2>3. span' \in Nat /\ lastBlinkTimeMs' = toggledAt' % Width
    BY <1>1, <1>3, <2>1 DEF millis
  <2>4. CASE LoopEndsPattern
    <3>1. /\ level' = LevelFor(FALSE) /\ blinkIntervalMs' = 0 /\ blinkLoops' = 0
          /\ blinkLoops = 1
      BY <2>4 DEF LoopEndsPattern, LastLoop
    <3>2. level' \in BOOLEAN /\ ~isEnabled'
      BY <1>3, <2>1, <3>1, LevelIsRead
    <3>3. undisturbed => toggles' = asked
      BY <1>3, <1>4, <2>1, <3>1
    <3>4. LedTypeOK'
      <4>1. /\ activeLow' \in BOOLEAN /\ driveAsPushPull' \in BOOLEAN
            /\ undisturbed' \in BOOLEAN /\ asked' \in BlinkLoops
        BY <1>3, <2>1
      <4>2. /\ blinkLoops' \in 0..asked' /\ lastBlinkTimeMs' \in 0..Width - 1
            /\ toggles' \in Nat /\ toggledAt' \in 0..now'
        BY <1>1, <1>3, <2>1, <3>1
      <4> QED
        BY <1>2, <2>3, <3>1, <3>2, <4>1, <4>2 DEF LedTypeOK
    <3>5. PatternInv'
      BY <2>1, <2>3, <3>1, <3>2, <3>3 DEF PatternInv, BlinksAsAsked
    <3> QED
      BY <1>2, <3>4, <3>5 DEF LedInv
  <2>5. CASE LoopToggles
    <3>1. /\ level' = LevelFor(~isEnabled) /\ blinkIntervalMs' = blinkIntervalMs
          /\ blinkLoops' = IF blinkLoops > 0 THEN blinkLoops - 1 ELSE 0
          /\ blinkLoops # 1
      BY <2>5 DEF LoopToggles, LastLoop
    <3>2. level' \in BOOLEAN /\ (isEnabled' <=> ~isEnabled)
      <4>1. (~isEnabled) \in BOOLEAN
        BY DEF isEnabled
      <4> QED
        BY <1>3, <2>1, <3>1, <4>1, LevelIsRead
    <3>3. blinkLoops' \in 0..asked
      BY <1>3, <3>1
    <3>4. undisturbed /\ asked > 0 => toggles' + blinkLoops' = asked /\ toggles' < asked
      BY <1>3, <1>4, <2>1, <3>1
    <3>5. toggles' % 2 = 0 <=> toggles % 2 # 0
      BY <1>3, <2>1
    <3>6. updatedAt' - toggledAt' <= blinkIntervalMs'
      BY <1>1, <1>3, <2>1, <3>1
    <3>7. LedTypeOK'
      BY <1>1, <1>3, <2>1, <2>3, <3>1, <3>2, <3>3 DEF LedTypeOK
    <3>8. undisturbed => (isEnabled' <=> toggles' % 2 = 0)
      BY <1>4, <2>1, <3>2, <3>5
    <3>9. PatternInv'
      BY <2>1, <2>2, <2>3, <3>1, <3>4, <3>6, <3>8 DEF PatternInv, BlinksAsAsked
    <3> QED
      BY <1>2, <3>7, <3>9 DEF LedInv
  <2> QED
    BY <1>5, <2>4, <2>5
<1>6. CASE LoopWaits
  <2>1. ~Due /\ UNCHANGED ledVars
    BY <1>6 DEF LoopWaits
  <2>2. undisturbed /\ blinkIntervalMs > 0 => updatedAt' - toggledAt' <= blinkIntervalMs'
    <3>1. toggledAt' = toggledAt /\ blinkIntervalMs' = blinkIntervalMs
      BY <2>1 DEF ledVars, patternVars, ledHistory
    <3>2. undisturbed /\ blinkIntervalMs > 0 => ~(now - toggledAt > blinkIntervalMs)
      BY <2>1, DueIsExact
    <3> QED
      BY <1>1, <1>3, <3>1, <3>2
  <2>3. LedTypeOK'
    BY <1>1, <2>1 DEF LedInv, LedTypeOK, ledVars, patternVars, ledHistory
  <2>4. PatternInv'
    BY <2>1, <2>2 DEF LedInv, PatternInv, BlinksAsAsked, isEnabled, ledVars, patternVars,
                      ledHistory
  <2> QED
    BY <1>2, <2>3, <2>4 DEF LedInv
<1> QED
  BY <1>5, <1>6 DEF LedLoop

LEMMA LedStepInv ==
    ASSUME ClockInv, LedInv, LedNext
    PROVE  ClockInv' /\ LedInv'
<1>1. /\ Width \in Nat \ {0} /\ LoopGap \in Nat /\ now \in Nat /\ updatedAt \in 0..now
      /\ millis \in 0..Width - 1
  BY LedFacts
<1>2. ASSUME UNCHANGED ledClock PROVE ClockInv' /\ now' = now /\ updatedAt' = updatedAt
  <2>1. UNCHANGED vars /\ now' = now /\ updatedAt' = updatedAt
    BY <1>2 DEF ledClock, timerVars, uptimeVars, vars
  <2> QED
    BY <2>1, ClockStepInv
<1>3. activeLow \in BOOLEAN /\ toggledAt \in 0..now /\ toggles \in Nat /\ span \in Nat
  BY DEF LedInv, LedTypeOK
<1>4. CASE LedLoop
  BY <1>4, LedLoopInv, ClockStepInv DEF LedLoop, Next
<1>5. CASE LedTick
  <2>1. /\ ClockInv' /\ now' = now + 1 /\ updatedAt' = updatedAt /\ UNCHANGED ledVars
        /\ now - updatedAt < LoopGap
    BY <1>5, ClockStepInv DEF LedTick, Tick, Next, uptimeVars
  <2>2. now' - updatedAt' <= LoopGap /\ toggledAt \in 0..now'
    BY <1>1, <1>3, <2>1
  <2>3. LedTypeOK'
    BY <2>1, <2>2 DEF LedInv, LedTypeOK, ledVars, patternVars, ledHistory
  <2>4. PatternInv'
    BY <2>1 DEF LedInv, PatternInv, BlinksAsAsked, isEnabled, ledVars, patternVars,
                ledHistory
  <2> QED
    BY <2>1, <2>2, <2>3, <2>4 DEF LedInv
<1>6. CASE SetDriveAsPushPull
  <2>1. /\ UNCHANGED <<activeLow, patternVars, ledHistory>> /\ level' = LevelFor(isEnabled)
        /\ driveAsPushPull' = ~driveAsPushPull
        /\ ClockInv' /\ now' = now /\ updatedAt' = updatedAt
    BY <1>2, <1>6 DEF SetDriveAsPushPull
  <2>2. level' \in BOOLEAN /\ (isEnabled' <=> isEnabled)
    <3>1. isEnabled \in BOOLEAN
      BY DEF isEnabled
    <3> QED
      BY <1>3, <2>1, <3>1, LevelIsRead
  <2>3. LedTypeOK'
    BY <2>1, <2>2 DEF LedInv, LedTypeOK, patternVars, ledHistory
  <2>4. PatternInv'
    BY <2>1, <2>2 DEF LedInv, PatternInv, BlinksAsAsked, patternVars, ledHistory
  <2> QED
    BY <2>1, <2>3, <2>4 DEF LedInv
<1>7. ASSUME NEW enabled \in BOOLEAN, SetEnabled(enabled)
      PROVE  ClockInv' /\ LedInv'
  <2>1. /\ UNCHANGED <<activeLow, driveAsPushPull, patternVars, asked, toggles, toggledAt,
                       span>>
        /\ level' = LevelFor(enabled) /\ undisturbed' = FALSE
        /\ ClockInv' /\ now' = now /\ updatedAt' = updatedAt
    BY <1>2, <1>7 DEF SetEnabled
  <2>2. level' \in BOOLEAN
    BY <1>3, <2>1, LevelIsRead
  <2>3. LedTypeOK' /\ PatternInv'
    BY <2>1, <2>2 DEF LedInv, LedTypeOK, PatternInv, patternVars
  <2> QED
    BY <2>1, <2>3 DEF LedInv
<1>8. ASSUME NEW interval \in BlinkIntervals \cup {0}, NEW loops \in BlinkLoops,
             SetBlinking(interval, loops)
      PROVE  ClockInv' /\ LedInv'
  <2>1. /\ UNCHANGED <<activeLow, driveAsPushPull>>
        /\ level' = LevelFor(interval > 0)
        /\ blinkIntervalMs' = interval /\ blinkLoops' = loops /\ lastBlinkTimeMs' = millis
        /\ asked' = loops /\ toggles' = 0 /\ toggledAt' = now /\ span' = 0
        /\ undisturbed' = (interval > 0)
        /\ ClockInv' /\ now' = now /\ updatedAt' = updatedAt
    BY <1>2, <1>8 DEF SetBlinking
  <2>2. interval \in Nat /\ loops \in Nat /\ (interval > 0) \in BOOLEAN
    BY LedFacts
  <2>3. level' \in BOOLEAN /\ (isEnabled' <=> (interval > 0))
    BY <1>3, <2>1, <2>2, LevelIsRead
  <2>4. LedTypeOK'
    BY <1>1, <1>3, <2>1, <2>2, <2>3 DEF LedInv, LedTypeOK
  <2>5. undisturbed' => updatedAt' - toggledAt' <= blinkIntervalMs'
    BY <1>1, <2>1, <2>2
  <2>6. PatternInv'
    <3>1. lastBlinkTimeMs' = toggledAt' % Width
      BY <2>1 DEF millis
    <3>2. 0 % 2 = 0
      OBVIOUS
    <3>3. undisturbed' => blinkIntervalMs' > 0 /\ isEnabled' /\ toggles' % 2 = 0
      BY <2>1, <2>3, <3>2
    <3>4. asked' > 0 => toggles' + blinkLoops' = asked' /\ toggles' < asked'
      BY <2>1, <2>2
    <3>5. ~(toggles' > 0)
      BY <2>1
    <3> QED
      BY <2>5, <3>1, <3>3, <3>4, <3>5 DEF PatternInv, BlinksAsAsked
  <2> QED
    BY <2>1, <2>4, <2>6 DEF LedInv
<1> QED
  BY <1>4, <1>5, <1>6, <1>7, <1>8, LedFacts DEF LedNext

-----------------------------------------------------------------------------
(* The device. *)

\* The component that is fitted keeps its invariant; the other does not move.
PanelInv ==
    /\ PanelTypeOK
    /\ ClockInv
    /\ fitted = "button" => ButtonInv /\ toggledAt = 0
    /\ fitted = "led" => LedInv /\ heldSince = NotHeld

LEMMA PanelStarts == PanelInit => PanelInv
<1> SUFFICES ASSUME PanelInit PROVE PanelInv
  OBVIOUS
<1>1. /\ Width \in Nat \ {0} /\ MaxGap \in Nat /\ LoopGap \in Nat
      /\ BlinkLoops \subseteq Nat
  BY ClockAssumption, LedAssumption
<1>2. 0 % Width = 0
  BY <1>1
<1>3. Init /\ now = 0 /\ updatedAt = 0
  BY DEF PanelInit, ButtonInit, Init
<1>4. ClockInv
  BY <1>1, <1>2, <1>3 DEF Init, ClockInv, TypeOK, UptimeIsExact, millis64
<1>5. ButtonTypeOK /\ ButtonInv
  <2>1. TypeOK /\ NotHeld = -1 /\ 0 \in 0..Width - 1
    BY <1>1, <1>4 DEF ClockInv, NotHeld
  <2> QED
    BY <2>1 DEF PanelInit, ButtonInit, ButtonTypeOK, ButtonInv
<1>6. LedTypeOK
  <2>1. level \in BOOLEAN /\ activeLow \in BOOLEAN /\ driveAsPushPull \in BOOLEAN
    BY DEF PanelInit, LedInit, LevelFor
  <2>2. /\ blinkLoops \in BlinkLoops /\ asked = blinkLoops /\ toggles = 0 /\ span = 0
        /\ toggledAt = 0 /\ lastBlinkTimeMs = 0 /\ undisturbed = FALSE
        /\ blinkIntervalMs \in BlinkIntervals \cup {0}
    BY DEF PanelInit, LedInit
  <2>3. blinkLoops \in 0..asked /\ toggledAt \in 0..now /\ lastBlinkTimeMs \in 0..Width - 1
    BY <1>1, <1>3, <2>2
  <2> QED
    BY <2>1, <2>2, <2>3 DEF LedTypeOK
<1>7. now - updatedAt <= LoopGap /\ ~undisturbed
  BY <1>1, <1>3 DEF PanelInit, LedInit
<1>8. LedInv
  BY <1>6, <1>7 DEF LedInv, PatternInv
<1>9. PanelTypeOK /\ toggledAt = 0 /\ heldSince = NotHeld
  BY <1>5, <1>6, <1>7 DEF PanelInit, ButtonInit, LedInit, PanelTypeOK
<1> QED
  BY <1>4, <1>5, <1>8, <1>9 DEF PanelInv

LEMMA PanelSteps == PanelInv /\ [PanelNext]_panelVars => PanelInv'
<1> SUFFICES ASSUME PanelInv, [PanelNext]_panelVars PROVE PanelInv'
  OBVIOUS
<1> USE DEF PanelInv
<1>1. CASE fitted = "button" /\ ButtonNext /\ UNCHANGED <<ledVars, fitted>>
  <2>1. ClockInv' /\ ButtonInv' /\ fitted' = "button"
    BY <1>1, ButtonStepInv
  <2>2. LedTypeOK' /\ toggledAt' = 0
    <3>1. LedTypeOK /\ toggledAt = 0 /\ 0 \in 0..now'
      BY <1>1, <2>1 DEF PanelTypeOK, ClockInv, TypeOK
    <3> QED
      BY <1>1, <3>1 DEF LedTypeOK, ledVars, patternVars, ledHistory
  <2> QED
    BY <1>1, <2>1, <2>2
    DEF PanelTypeOK, ButtonInv, ledVars, patternVars, ledHistory
<1>2. CASE fitted = "led" /\ LedNext /\ UNCHANGED <<buttonVars, fitted>>
  <2>1. ClockInv' /\ LedInv' /\ fitted' = "led"
    BY <1>2, LedStepInv
  <2>2. ButtonTypeOK'
    BY <1>2, <2>1 DEF PanelTypeOK, ButtonTypeOK, buttonVars, ClockInv, NotHeld
  <2> QED
    BY <1>2, <2>1, <2>2 DEF PanelTypeOK, LedInv, buttonVars, NotHeld
<1>3. CASE UNCHANGED panelVars
  <2>1. UNCHANGED vars /\ UNCHANGED <<buttonVars, ledVars, fitted>>
    BY <1>3 DEF panelVars, clockVars, timerVars, uptimeVars, vars
  <2>2. ClockInv'
    BY <2>1, ClockStepInv
  <2> QED
    BY <2>1, <2>2
    DEF PanelTypeOK, ButtonInv, ButtonTypeOK, LedInv, LedTypeOK, PatternInv, BlinksAsAsked,
        isEnabled, ClockInv, vars, buttonVars, ledVars, patternVars, ledHistory
<1> QED
  BY <1>1, <1>2, <1>3 DEF PanelNext

LEMMA PanelInvariance == PanelSpec => []PanelInv
BY PanelStarts, PanelSteps, PTL DEF PanelSpec

\* The types hold, and the component that is not fitted is left alone.
THEOREM PanelTypeCorrect == PanelSpec => []PanelTypeOK
<1>1. PanelInv => PanelTypeOK
  BY DEF PanelInv
<1> QED
  BY <1>1, PanelInvariance, PTL

\* On a device with a button or a LED, and for every width of the counter, the
\* uptime is exact and timers fire neither early nor late.
THEOREM PanelClockExact == PanelSpec => []ClockIsExact
<1>1. ASSUME PanelInv PROVE ClockIsExact
  BY <1>1, ClockInvExact DEF PanelInv
<1> QED
  BY <1>1, PanelInvariance, PTL

\* A pattern of setBlinking is carried out, toggle by toggle and in time, for every
\* interval, every number of loops and every distance between two loops of the
\* application that a wrap of millis() leaves room for.
THEOREM LedBlinks == PanelSpec => []BlinksAsAsked
<1>1. ASSUME PanelInv PROVE BlinksAsAsked
  BY <1>1 DEF PanelInv, PanelTypeOK, LedInv, PatternInv, BlinksAsAsked
<1> QED
  BY <1>1, PanelInvariance, PTL

\* A press of any length does what the length asks for, provided no application
\* starts on a held button.
THEOREM PressesByLength ==
    ASSUME ~PressedAtInit
    PROVE  PanelSpec => PressActsByLength
<1> DEFINE Acts ==
      Look /\ heldSince # NotHeld =>
          CASE now - heldSince <= ShortTrigger -> live' /\ UNCHANGED config
            [] now - heldSince > LongTrigger   -> ~live' /\ config' = "erased"
            [] OTHER                           -> ~live' /\ UNCHANGED config
<1>1. ASSUME PanelInv, [PanelNext]_panelVars PROVE [Acts]_<<clockVars, buttonVars>>
  <2> SUFFICES ASSUME Look, heldSince # NotHeld PROVE Acts
    OBVIOUS
  <2>1. fitted = "button"
    <3>1. live
      BY <1>1, LookIsLive DEF PanelInv, PanelTypeOK
    <3> QED
      BY <1>1, <3>1 DEF PanelInv, PanelTypeOK
  <2> QED
    BY <1>1, <2>1, LookActs DEF PanelInv
<1>2. PanelSpec => [][Acts]_<<clockVars, buttonVars>>
  BY <1>1, PanelInvariance, PTL DEF PanelSpec
<1> QED
  BY <1>2 DEF PressActsByLength
=============================================================================
