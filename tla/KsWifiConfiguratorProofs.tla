---------------------- MODULE KsWifiConfiguratorProofs ----------------------
(***************************************************************************)
(* The configurator stays while somebody is attached, and what the portal  *)
(* keeps for a client expires exactly when it should, for every width of   *)
(* the counter and all intervals that fit it, and however late loops are   *)
(* by less than that.                                                      *)
(***************************************************************************)
EXTENDS KsWifiConfigurator, TLAPS

\* Time since the last loop of the configurator, at most: the lag is that of the
\* portal's loop, which starts again in the middle of a pass.
LoopGap == IF pc = "configurator" THEN MaxGap + lag ELSE lag

\* A timer that is restarted in time never gets as far as a turn of the counter.
TimerInv ==
    /\ Since(checkedAt) <= CheckInterval + LoopGap
    /\ Since(configAt) <= ConfigTimeout + LoopGap

\* Who was attached at the last check has restarted the time-out with it.
AttendanceInv ==
    /\ attachedFor \in 0..CheckInterval + 1
    /\ ~attached => attachedFor = 0
    /\ attachedFor > Since(checkedAt) => Since(configAt) <= Since(checkedAt)

\* A stamp is as old as it says, or a tick older, if it was taken at 0; during
\* that tick it seems to have expired.
StampInv(stamp, age, timeout) ==
    stamp # 0 =>
        /\ age \in 0..timeout + 1 + lag
        /\ \/ Since(stamp) = age
           \/ stamp = 1 /\ Since(stamp) = age - 1
           \/ stamp = 1 /\ age = 0 /\ millis = 0

ConfiguratorInv ==
    /\ TypeOK
    /\ scanStamp # 0 <=> stationMode
    /\ pc # "stopped" =>
          /\ TimerInv /\ AttendanceInv
          /\ StampInv(scanStamp, scanAge, ScanTimeout)
          /\ StampInv(logStamp, logAge, KeepAlive)

-----------------------------------------------------------------------------
(* The counter. *)

LEMMA SmallMultiple ==
    ASSUME NEW m \in Nat \ {0}, NEW k \in Int, k * m < m, -m < k * m
    PROVE  k = 0
<1>1. CASE k >= 1
  <2>1. k * m >= 1 * m
    BY <1>1
  <2> QED
    BY <2>1
<1>2. CASE k <= -1
  <2>1. k * m <= (-1) * m
    BY <1>2
  <2> QED
    BY <2>1
<1> QED
  BY <1>1, <1>2

LEMMA RemainderOf ==
    ASSUME NEW m \in Nat \ {0}, NEW q \in Int, NEW r \in 0..m - 1
    PROVE  (q * m + r) % m = r
<1> DEFINE a == q * m + r
           d == a \div m
           e == a % m
<1>1. a \in Int
  OBVIOUS
<1>2. d \in Int /\ e \in 0..m - 1 /\ a = d * m + e
  BY <1>1
<1> HIDE DEF d, e
<1>3. (d - q) * m = r - e
  BY <1>2
<1>4. d - q = 0
  BY <1>2, <1>3, SmallMultiple
<1> QED
  BY <1>2, <1>4 DEF e

\* The distance of two readings, the later of which may lie behind a wrap.
LEMMA Distance ==
    ASSUME NEW m \in Nat \ {0}, NEW a \in 0..m - 1, NEW b \in 0..m - 1
    PROVE  (a - b) % m = IF a >= b THEN a - b ELSE a - b + m
<1>1. CASE a >= b
  <2>1. a - b \in 0..m - 1 /\ a - b = 0 * m + (a - b) /\ 0 \in Int
    BY <1>1
  <2> QED
    BY <1>1, <2>1, RemainderOf
<1>2. CASE a < b
  <2>1. a - b + m \in 0..m - 1 /\ a - b = (-1) * m + (a - b + m) /\ -1 \in Int
    BY <1>2
  <2>2. ((-1) * m + (a - b + m)) % m = a - b + m
    BY <2>1, RemainderOf
  <2> QED
    BY <1>2, <2>1, <2>2
<1> QED
  BY <1>1, <1>2

LEMMA Increment ==
    ASSUME NEW m \in Nat \ {0}, NEW a \in 0..m - 1
    PROVE  (a + 1) % m = IF a + 1 = m THEN 0 ELSE a + 1
<1>1. CASE a + 1 = m
  <2>1. 0 \in 0..m - 1 /\ a + 1 = 1 * m + 0 /\ 1 \in Int
    BY <1>1
  <2> QED
    BY <1>1, <2>1, RemainderOf
<1>2. CASE a + 1 # m
  <2>1. a + 1 \in 0..m - 1 /\ a + 1 = 0 * m + (a + 1) /\ 0 \in Int
    BY <1>2
  <2> QED
    BY <1>2, <2>1, RemainderOf
<1> QED
  BY <1>1, <1>2

LEMMA SinceFacts ==
    ASSUME TypeOK, NEW s \in 0..Width - 1
    PROVE  /\ Since(s) \in 0..Width - 1
           /\ Since(s) = IF millis >= s THEN millis - s ELSE millis - s + Width
<1>1. Width \in Nat \ {0} /\ millis \in 0..Width - 1
  BY ConfiguratorAssumption DEF TypeOK
<1> QED
  BY <1>1, Distance DEF Since

\* In one tick a distance grows by one, until it is a whole turn.
LEMMA SinceAfterTick ==
    ASSUME TypeOK, Tick, NEW s \in 0..Width - 1
    PROVE  /\ millis' \in 0..Width - 1
           /\ Since(s) + 1 < Width => (millis' - s) % Width = Since(s) + 1
           /\ (millis = 0 /\ s = 1) => (millis' - s) % Width = 0
<1>1. Width \in Nat \ {0} /\ Width > 3 /\ millis \in 0..Width - 1
  BY ConfiguratorAssumption DEF TypeOK
<1>2. millis' = IF millis + 1 = Width THEN 0 ELSE millis + 1
  <2>1. millis' = (millis + 1) % Width
    BY DEF Tick
  <2> QED
    BY <1>1, <2>1, Increment
<1>3. millis' \in 0..Width - 1
  BY <1>1, <1>2
<1>4. (millis' - s) % Width = IF millis' >= s THEN millis' - s ELSE millis' - s + Width
  BY <1>1, <1>3, Distance
<1>5. Since(s) = IF millis >= s THEN millis - s ELSE millis - s + Width
  BY SinceFacts
<1> QED
  BY <1>1, <1>2, <1>3, <1>4, <1>5

-----------------------------------------------------------------------------
(* Stamps. *)

LEMMA StampIsNow ==
    ASSUME TypeOK, NEW timeout \in Nat
    PROVE  Stamp \in 1..Width - 1 /\ StampInv(Stamp, 0, timeout)
<1>1. Width \in Nat /\ Width > 3 /\ millis \in 0..Width - 1 /\ lag \in Nat
  BY ConfiguratorAssumption DEF TypeOK
<1>2. Stamp \in 1..Width - 1
  BY <1>1 DEF Stamp
<1>3. 0 \in 0..timeout + 1 + lag
  BY <1>1
<1>4. CASE millis = 0
  <2>1. Stamp = 1
    BY <1>4 DEF Stamp
  <2>2. StampInv(1, 0, timeout)
    BY <1>3, <1>4 DEF StampInv
  <2> QED
    BY <1>2, <2>1, <2>2
<1>5. CASE millis # 0
  <2>1. Since(millis) = 0
    BY <1>1, SinceFacts
  <2>2. Stamp = millis
    BY <1>5 DEF Stamp
  <2>3. StampInv(millis, 0, timeout)
    BY <1>3, <2>1 DEF StampInv
  <2> QED
    BY <1>2, <2>2, <2>3
<1> QED
  BY <1>4, <1>5

LEMMA StampAfterTick ==
    ASSUME TypeOK, Tick, pc # "stopped", NEW stamp \in 0..Width - 1, stamp # 0, NEW age,
           NEW timeout \in Nat, timeout + MaxGap + 1 < Width, StampInv(stamp, age, timeout)
    PROVE  /\ Older(age, timeout + MaxGap + 1) \in 0..timeout + 1 + lag'
           /\ \/ (millis' - stamp) % Width = Older(age, timeout + MaxGap + 1)
              \/ stamp = 1 /\ (millis' - stamp) % Width = Older(age, timeout + MaxGap + 1) - 1
<1>1. /\ lag' = lag + 1 /\ lag < MaxGap /\ lag \in Nat /\ MaxGap \in Nat
      /\ Width \in Nat /\ Width > 3
  BY ConfiguratorAssumption DEF Tick, TypeOK
<1>2. /\ age \in 0..timeout + 1 + lag
      /\ \/ Since(stamp) = age
         \/ stamp = 1 /\ Since(stamp) = age - 1
         \/ stamp = 1 /\ age = 0 /\ millis = 0
  BY DEF StampInv
<1>3. Older(age, timeout + MaxGap + 1) = age + 1
  BY <1>1, <1>2 DEF Older
<1>4. /\ Since(stamp) \in 0..Width - 1
      /\ Since(stamp) + 1 < Width => (millis' - stamp) % Width = Since(stamp) + 1
      /\ millis = 0 /\ stamp = 1 => (millis' - stamp) % Width = 0
  BY SinceFacts, SinceAfterTick
<1> QED
  BY <1>1, <1>2, <1>3, <1>4

\* What is found expired is old enough, but for the stamp that is not yet due.
LEMMA ExpiredIsOld ==
    ASSUME NEW stamp, NEW age, NEW timeout \in Nat, lag \in Nat,
           StampInv(stamp, age, timeout), Expired(stamp, timeout)
    PROVE  age > timeout \/ (millis = 0 /\ stamp = 1)
<1>1. /\ stamp # 0 /\ Since(stamp) > timeout /\ age \in 0..timeout + 1 + lag
      /\ \/ Since(stamp) = age
         \/ stamp = 1 /\ Since(stamp) = age - 1
         \/ stamp = 1 /\ age = 0 /\ millis = 0
  BY DEF StampInv, Expired
<1> QED
  BY <1>1

\* What is not found expired is young enough to wait for the next loop.
LEMMA UnexpiredIsYoung ==
    ASSUME TypeOK, NEW stamp \in 0..Width - 1, NEW age, NEW timeout \in Nat,
           timeout + MaxGap + 1 < Width, StampInv(stamp, age, timeout),
           ~Expired(stamp, timeout), stamp # 0
    PROVE  age \in 0..timeout + 1
<1>1. /\ ~(Since(stamp) > timeout) /\ age \in 0..timeout + 1 + lag
      /\ \/ Since(stamp) = age
         \/ stamp = 1 /\ Since(stamp) = age - 1
         \/ stamp = 1 /\ age = 0 /\ millis = 0
  BY DEF StampInv, Expired
<1>2. Since(stamp) \in 0..Width - 1
  BY SinceFacts
<1> QED
  BY <1>1, <1>2, ConfiguratorAssumption DEF TypeOK

-----------------------------------------------------------------------------
(* Types. *)

LEMMA TypeStep == TypeOK /\ [Next]_vars => TypeOK'
<1> SUFFICES ASSUME TypeOK, [Next]_vars PROVE TypeOK'
  OBVIOUS
<1> USE DEF TypeOK
<1>1. 0 \in 0..Width - 1 /\ 0 \in 0..MaxGap
  BY ConfiguratorAssumption
<1>2. Stamp \in 0..Width - 1 /\ Stamp # 0
  BY StampIsNow, ConfiguratorAssumption
<1>3. CASE Start
  BY <1>1, <1>3 DEF Start
<1>4. CASE TakeScanResult
  BY <1>1, <1>4 DEF TakeScanResult, timerVars, historyVars
<1>5. CASE StartScan
  BY <1>2, <1>5 DEF StartScan, timerVars
<1>6. CASE LogKeepAlive
  BY <1>2, <1>6 DEF LogKeepAlive, timerVars
<1>7. CASE RequestsDone
  BY <1>7 DEF RequestsDone, timerVars, stampVars, historyVars
<1>8. CASE CleanUp
  BY <1>1, <1>8 DEF CleanUp, timerVars, historyVars
<1>9. CASE ConfiguratorLoop
  BY <1>9 DEF ConfiguratorLoop, stampVars, historyVars
<1>10. CASE Tick
  <2>1. lag' \in 0..MaxGap
    BY <1>10, ConfiguratorAssumption DEF Tick
  <2>2. millis' \in 0..Width - 1
    BY <1>1, <1>10, SinceAfterTick
  <2> QED
    BY <1>10, <2>1, <2>2 DEF Tick, timerVars, stampVars
<1>11. CASE StationAttaches \/ StationLeaves
  <2>1. /\ attached' \in BOOLEAN
        /\ UNCHANGED <<millis, pc, lag, timerVars, stampVars, scan, stationMode>>
    BY <1>11 DEF StationAttaches, StationLeaves
  <2> QED
    BY <2>1 DEF timerVars, stampVars
<1>12. CASE ScanEnds
  BY <1>12 DEF ScanEnds, timerVars, stampVars, historyVars
<1>13. CASE UNCHANGED vars
  BY <1>13 DEF vars, timerVars, stampVars, historyVars
<1> QED
  BY <1>3, <1>4, <1>5, <1>6, <1>7, <1>8, <1>9, <1>10, <1>11, <1>12, <1>13 DEF Next, Loop

-----------------------------------------------------------------------------
(* Steps. *)

LEMMA InitInv == Init => ConfiguratorInv
<1>1. 0 \in 0..Width - 1 /\ 0 \in 0..MaxGap
  BY ConfiguratorAssumption
<1> QED
  BY <1>1 DEF Init, ConfiguratorInv, TypeOK

LEMMA StartInv == ASSUME ConfiguratorInv, Start PROVE ConfiguratorInv'
<1>1. TypeOK /\ TypeOK'
  BY TypeStep DEF ConfiguratorInv, Next
<1>2. /\ millis' = millis /\ configAt' = millis /\ checkedAt' = millis /\ lag' = 0
      /\ pc' = "portal" /\ scanStamp' = 0 /\ logStamp' = 0 /\ attached' = FALSE
      /\ attachedFor' = 0 /\ stationMode' = FALSE
  BY DEF Start
<1>3. (millis - millis) % Width = 0
  BY <1>1, SinceFacts DEF Since, TypeOK
<1>4. TimerInv' /\ AttendanceInv'
  <2>1. Since(checkedAt)' = 0 /\ Since(configAt)' = 0 /\ LoopGap' = 0
    BY <1>2, <1>3 DEF Since, LoopGap
  <2> QED
    BY <1>2, <2>1, ConfiguratorAssumption DEF TimerInv, AttendanceInv
<1> QED
  BY <1>1, <1>2, <1>4 DEF ConfiguratorInv, StampInv

\* What happens between the loops' looking at their timers.
LEMMA RequestInv ==
    ASSUME ConfiguratorInv,
           TakeScanResult \/ StartScan \/ LogKeepAlive \/ RequestsDone
           \/ StationAttaches \/ StationLeaves \/ ScanEnds
    PROVE  ConfiguratorInv'
<1>1. TypeOK /\ TypeOK'
  BY TypeStep DEF ConfiguratorInv, Next, Loop
<1>2. /\ millis' = millis /\ lag' = lag /\ configAt' = configAt /\ checkedAt' = checkedAt
      /\ pc' # "stopped" => pc # "stopped" /\ (pc' = "configurator" <=> pc = "configurator")
      /\ attachedFor' = 0 \/ (attachedFor' = attachedFor /\ attached' = attached)
      /\ \/ scanStamp' = scanStamp /\ scanAge' = scanAge /\ stationMode' = stationMode
         \/ scanStamp' = 0 /\ stationMode' = FALSE
         \/ scanStamp' = Stamp /\ scanAge' = 0 /\ stationMode' = TRUE
      /\ \/ logStamp' = logStamp /\ logAge' = logAge
         \/ logStamp' = Stamp /\ logAge' = 0
  BY DEF TakeScanResult, StartScan, LogKeepAlive, RequestsDone, StationAttaches,
         StationLeaves, ScanEnds, timerVars, stampVars, historyVars
<1>3. /\ scanStamp \in 0..Width - 1 /\ (scanStamp # 0 <=> stationMode)
      /\ Stamp # 0
  BY <1>1, StampIsNow, ConfiguratorAssumption DEF ConfiguratorInv, TypeOK
<1>4. scanStamp' # 0 <=> stationMode'
  BY <1>2, <1>3
<1>5. ASSUME pc' # "stopped" PROVE TimerInv' /\ AttendanceInv'
  <2>1. TimerInv /\ AttendanceInv
    BY <1>2, <1>5 DEF ConfiguratorInv
  <2>2. /\ LoopGap' = LoopGap /\ Since(checkedAt)' = Since(checkedAt)
        /\ Since(configAt)' = Since(configAt)
    BY <1>2, <1>5 DEF LoopGap, Since
  <2>3. TimerInv'
    BY <2>1, <2>2 DEF TimerInv
  <2>4. Since(checkedAt) \in Nat
    BY <1>1, SinceFacts DEF TypeOK
  <2>5. AttendanceInv'
    BY <1>2, <2>1, <2>2, <2>4, ConfiguratorAssumption DEF AttendanceInv
  <2> QED
    BY <2>3, <2>5
<1>6. ASSUME pc' # "stopped"
      PROVE  StampInv(scanStamp, scanAge, ScanTimeout)' /\ StampInv(logStamp, logAge, KeepAlive)'
  <2>1. /\ StampInv(scanStamp, scanAge, ScanTimeout) /\ StampInv(logStamp, logAge, KeepAlive)
        /\ StampInv(Stamp, 0, ScanTimeout) /\ StampInv(Stamp, 0, KeepAlive)
    BY <1>1, <1>2, <1>6, StampIsNow, ConfiguratorAssumption DEF ConfiguratorInv
  <2>2. ASSUME NEW s, NEW a, NEW t, StampInv(s, a, t)
        PROVE  s # 0 => /\ a \in 0..t + 1 + lag'
                        /\ \/ (millis' - s) % Width = a
                           \/ s = 1 /\ (millis' - s) % Width = a - 1
                           \/ s = 1 /\ a = 0 /\ millis' = 0
    BY <1>2, <2>2 DEF StampInv, Since
  <2>3. StampInv(scanStamp, scanAge, ScanTimeout)'
    <3>1. CASE scanStamp' = 0
      BY <3>1 DEF StampInv
    <3>2. CASE scanStamp' = scanStamp /\ scanAge' = scanAge
      BY <2>1, <2>2, <3>2 DEF StampInv, Since
    <3>3. CASE scanStamp' = Stamp /\ scanAge' = 0
      BY <2>1, <2>2, <3>3 DEF StampInv, Since
    <3> QED
      BY <1>2, <3>1, <3>2, <3>3
  <2>4. StampInv(logStamp, logAge, KeepAlive)'
    <3>1. CASE logStamp' = logStamp /\ logAge' = logAge
      BY <2>1, <2>2, <3>1 DEF StampInv, Since
    <3>2. CASE logStamp' = Stamp /\ logAge' = 0
      BY <2>1, <2>2, <3>2 DEF StampInv, Since
    <3> QED
      BY <1>2, <3>1, <3>2
  <2> QED
    BY <2>3, <2>4
<1> QED
  BY <1>1, <1>4, <1>5, <1>6 DEF ConfiguratorInv

\* The portal's clean-up leaves nothing behind that is due.
LEMMA CleanUpInv == ASSUME ConfiguratorInv, CleanUp PROVE ConfiguratorInv'
<1>1. TypeOK /\ TypeOK'
  BY TypeStep DEF ConfiguratorInv, Next, Loop
<1>2. /\ pc = "cleanup" /\ pc' = "configurator" /\ lag' = 0 /\ lag \in 0..MaxGap
      /\ millis' = millis /\ configAt' = configAt /\ checkedAt' = checkedAt
      /\ attached' = attached /\ attachedFor' = attachedFor
      /\ scanAge' = scanAge /\ logAge' = logAge
      /\ \/ Expired(scanStamp, ScanTimeout) /\ scanStamp' = 0 /\ stationMode' = FALSE
         \/ ~Expired(scanStamp, ScanTimeout) /\ UNCHANGED <<scanStamp, stationMode>>
      /\ \/ logStamp' = 0
         \/ ~Expired(logStamp, KeepAlive) /\ logStamp' = logStamp
  BY <1>1 DEF CleanUp, timerVars, historyVars, TypeOK
<1>3. /\ TimerInv /\ AttendanceInv /\ StampInv(scanStamp, scanAge, ScanTimeout)
      /\ StampInv(logStamp, logAge, KeepAlive) /\ (scanStamp # 0 <=> stationMode)
  BY <1>2 DEF ConfiguratorInv
<1>4. scanStamp' # 0 <=> stationMode'
  BY <1>2, <1>3
<1>5. /\ Since(checkedAt)' = Since(checkedAt) /\ Since(configAt)' = Since(configAt)
      /\ Since(checkedAt) \in Nat /\ Since(configAt) \in Nat
  BY <1>1, <1>2, SinceFacts DEF Since, TypeOK
<1>6. TimerInv'
  <2>1. LoopGap = lag /\ LoopGap' = MaxGap + 0
    BY <1>2 DEF LoopGap
  <2> QED
    BY <1>2, <1>3, <1>5, <2>1, ConfiguratorAssumption DEF TimerInv
<1>7. AttendanceInv'
  BY <1>2, <1>3, <1>5 DEF AttendanceInv
<1>8. ASSUME NEW s \in 0..Width - 1, NEW a, NEW t \in Nat, t + MaxGap + 1 < Width,
             StampInv(s, a, t), ~Expired(s, t)
      PROVE  s # 0 => /\ a \in 0..t + 1 + lag'
                      /\ \/ (millis' - s) % Width = a
                         \/ s = 1 /\ (millis' - s) % Width = a - 1
                         \/ s = 1 /\ a = 0 /\ millis' = 0
  <2> SUFFICES ASSUME s # 0
               PROVE  /\ a \in 0..t + 1
                      /\ \/ Since(s) = a
                         \/ s = 1 /\ Since(s) = a - 1
                         \/ s = 1 /\ a = 0 /\ millis = 0
    BY <1>2 DEF Since
  <2>1. a \in 0..t + 1
    BY <1>1, <1>8, UnexpiredIsYoung
  <2> QED
    BY <1>8, <2>1 DEF StampInv
<1>9. /\ ScanTimeout \in Nat /\ ScanTimeout + MaxGap + 1 < Width
      /\ KeepAlive \in Nat /\ KeepAlive + MaxGap + 1 < Width
      /\ scanStamp \in 0..Width - 1 /\ logStamp \in 0..Width - 1
  BY <1>1, ConfiguratorAssumption DEF TypeOK
<1>10. StampInv(scanStamp, scanAge, ScanTimeout)'
  BY <1>2, <1>3, <1>8, <1>9 DEF StampInv, Since
<1>11. StampInv(logStamp, logAge, KeepAlive)'
  BY <1>2, <1>3, <1>8, <1>9 DEF StampInv, Since
<1> QED
  BY <1>1, <1>4, <1>6, <1>7, <1>10, <1>11 DEF ConfiguratorInv

\* The loop of the configurator restarts its timers, or stops.
LEMMA LoopInv == ASSUME ConfiguratorInv, ConfiguratorLoop PROVE ConfiguratorInv'
<1>1. TypeOK /\ TypeOK'
  BY TypeStep DEF ConfiguratorInv, Next, Loop
<1>2. /\ pc = "configurator"
      /\ checkedAt' = IF CheckIsDue THEN millis ELSE checkedAt
      /\ configAt' = IF SeesStation \/ TimesOut THEN millis ELSE configAt
      /\ pc' = IF TimesOut THEN "stopped" ELSE "portal"
      /\ UNCHANGED <<millis, lag, scanStamp, logStamp, attached, stationMode,
                     attachedFor, scanAge, logAge>>
  BY DEF ConfiguratorLoop, stampVars, historyVars
<1>3. /\ TimerInv /\ AttendanceInv /\ StampInv(scanStamp, scanAge, ScanTimeout)
      /\ StampInv(logStamp, logAge, KeepAlive) /\ (scanStamp # 0 <=> stationMode)
  BY <1>2 DEF ConfiguratorInv
<1>4. /\ Since(checkedAt) \in Nat /\ Since(configAt) \in Nat /\ Since(millis) = 0
      /\ lag \in Nat
  BY <1>1, SinceFacts, ConfiguratorAssumption DEF TypeOK
<1>5. ASSUME ~TimesOut PROVE TimerInv' /\ AttendanceInv'
  <2>1. /\ Since(checkedAt)' = IF CheckIsDue THEN 0 ELSE Since(checkedAt)
        /\ Since(configAt)' = IF SeesStation THEN 0 ELSE Since(configAt)
        /\ LoopGap' = lag
    BY <1>2, <1>4, <1>5 DEF Since, LoopGap
  <2>2. ~CheckIsDue => Since(checkedAt) <= CheckInterval
    BY <1>4, ConfiguratorAssumption DEF CheckIsDue
  <2>3. ~SeesStation => Since(configAt) <= ConfigTimeout
    BY <1>4, <1>5, ConfiguratorAssumption DEF TimesOut
  <2>4. TimerInv'
    BY <1>4, <2>1, <2>2, <2>3, ConfiguratorAssumption DEF TimerInv
  <2>5. AttendanceInv'
    BY <1>2, <1>3, <1>4, <2>1 DEF AttendanceInv, SeesStation
  <2> QED
    BY <2>4, <2>5
<1>6. StampInv(scanStamp, scanAge, ScanTimeout)' /\ StampInv(logStamp, logAge, KeepAlive)'
  BY <1>2, <1>3 DEF StampInv, Since
<1> QED
  BY <1>1, <1>2, <1>3, <1>5, <1>6 DEF ConfiguratorInv

\* Between two loops nothing gets as far as a turn of the counter.
LEMMA TickInv == ASSUME ConfiguratorInv, Tick PROVE ConfiguratorInv'
<1>1. TypeOK /\ TypeOK'
  BY TypeStep DEF ConfiguratorInv, Next
<1>2. /\ pc' = pc /\ (scanStamp # 0 <=> stationMode)
      /\ UNCHANGED <<configAt, checkedAt, scanStamp, logStamp, attached, stationMode>>
      /\ attachedFor' = IF attached THEN Older(attachedFor, CheckInterval) ELSE 0
      /\ stationMode => scanAge' = Older(scanAge, ScanTimeout + MaxGap + 1)
      /\ logStamp # 0 => logAge' = Older(logAge, KeepAlive + MaxGap + 1)
      /\ pc # "stopped" => lag' = lag + 1 /\ lag < MaxGap
  BY DEF ConfiguratorInv, Tick, timerVars, stampVars
<1>3. /\ configAt \in 0..Width - 1 /\ checkedAt \in 0..Width - 1 /\ lag \in Nat
      /\ scanStamp \in 0..Width - 1 /\ logStamp \in 0..Width - 1
      /\ Since(configAt) \in Nat /\ Since(checkedAt) \in Nat
  BY <1>1, SinceFacts, ConfiguratorAssumption DEF TypeOK
<1>4. ASSUME pc # "stopped" PROVE TimerInv' /\ AttendanceInv'
  <2>1. TimerInv /\ AttendanceInv
    BY <1>4 DEF ConfiguratorInv
  <2>2. LoopGap' = LoopGap + 1 /\ LoopGap \in Nat /\ LoopGap + 1 <= 2 * MaxGap
    BY <1>2, <1>3, <1>4, ConfiguratorAssumption DEF LoopGap
  <2>3. Since(configAt) + 1 < Width /\ Since(checkedAt) + 1 < Width
    BY <1>3, <2>1, <2>2, ConfiguratorAssumption DEF TimerInv
  <2>4. /\ Since(configAt)' = Since(configAt) + 1
        /\ Since(checkedAt)' = Since(checkedAt) + 1
    <3>1. /\ (millis' - configAt) % Width = Since(configAt) + 1
          /\ (millis' - checkedAt) % Width = Since(checkedAt) + 1
      BY <1>1, <1>3, <2>3, SinceAfterTick
    <3> QED
      BY <1>2, <3>1 DEF Since
  <2>5. TimerInv'
    BY <1>3, <2>1, <2>2, <2>4, ConfiguratorAssumption DEF TimerInv
  <2>6. AttendanceInv'
    BY <1>2, <1>3, <2>1, <2>4, ConfiguratorAssumption DEF AttendanceInv, Older
  <2> QED
    BY <2>5, <2>6
<1>5. ASSUME pc # "stopped", NEW s \in 0..Width - 1, s # 0, NEW a, NEW t \in Nat,
             t + MaxGap + 1 < Width, StampInv(s, a, t)
      PROVE  /\ Older(a, t + MaxGap + 1) \in 0..t + 1 + lag'
             /\ \/ (millis' - s) % Width = Older(a, t + MaxGap + 1)
                \/ s = 1 /\ (millis' - s) % Width = Older(a, t + MaxGap + 1) - 1
  BY <1>1, <1>5, StampAfterTick
<1>6. /\ ScanTimeout \in Nat /\ ScanTimeout + MaxGap + 1 < Width
      /\ KeepAlive \in Nat /\ KeepAlive + MaxGap + 1 < Width
  BY ConfiguratorAssumption
<1>7. ASSUME pc # "stopped" PROVE StampInv(scanStamp, scanAge, ScanTimeout)'
  <2>1. StampInv(scanStamp, scanAge, ScanTimeout)
    BY <1>7 DEF ConfiguratorInv
  <2> QED
    BY <1>2, <1>3, <1>5, <1>6, <1>7, <2>1 DEF StampInv, Since
<1>8. ASSUME pc # "stopped" PROVE StampInv(logStamp, logAge, KeepAlive)'
  <2>1. StampInv(logStamp, logAge, KeepAlive)
    BY <1>8 DEF ConfiguratorInv
  <2> QED
    BY <1>2, <1>3, <1>5, <1>6, <1>8, <2>1 DEF StampInv, Since
<1> QED
  BY <1>1, <1>2, <1>4, <1>7, <1>8 DEF ConfiguratorInv

LEMMA NextInv == ConfiguratorInv /\ [Next]_vars => ConfiguratorInv'
<1> SUFFICES ASSUME ConfiguratorInv, [Next]_vars PROVE ConfiguratorInv'
  OBVIOUS
<1>1. CASE UNCHANGED vars
  BY <1>1 DEF vars, timerVars, stampVars, historyVars, ConfiguratorInv, TypeOK, TimerInv,
              AttendanceInv, StampInv, LoopGap, Since
<1> QED
  BY <1>1, StartInv, RequestInv, CleanUpInv, LoopInv, TickInv DEF Next, Loop

-----------------------------------------------------------------------------
(* Theorems. *)

\* For every width of the counter and every choice of the intervals, the types, and
\* that the station interface is only on with a stamp to switch it off
\* (ksDevicePortal::loop).
THEOREM ConfiguratorTypeCorrect == Spec => []TypeOK
<1>1. Init => TypeOK
  BY InitInv DEF ConfiguratorInv
<1> QED
  BY <1>1, TypeStep, PTL DEF Spec

THEOREM Invariance == Spec => []ConfiguratorInv
BY InitInv, NextInv, PTL DEF Spec

\* ksWifiConfigurator::loop never times out on a station that has been attached for
\* longer than the check's interval: the check that has seen it has restarted the
\* time-out, which is longer.
THEOREM AttendedIsNeverDropped == Spec => AttendedIsKept
<1>1. ConfiguratorInv /\ [Next]_vars
      => [pc = "configurator" /\ pc' = "stopped" => attachedFor <= CheckInterval]_vars
  <2> SUFFICES ASSUME ConfiguratorInv, Next, pc = "configurator", pc' = "stopped"
               PROVE  attachedFor <= CheckInterval
    OBVIOUS
  <2>1. ConfiguratorLoop /\ TimesOut
    BY DEF Next, Loop, Start, TakeScanResult, StartScan, LogKeepAlive, RequestsDone,
           CleanUp, ConfiguratorLoop, Tick, StationAttaches, StationLeaves, ScanEnds
  <2>2. AttendanceInv /\ TypeOK
    BY DEF ConfiguratorInv
  <2>3. Since(checkedAt) \in Nat /\ Since(configAt) \in Nat
    BY <2>2, SinceFacts DEF TypeOK
  <2>4. Since(configAt) > ConfigTimeout /\ (attached => ~CheckIsDue)
    BY <2>1 DEF TimesOut, SeesStation
  <2> QED
    BY <2>2, <2>3, <2>4, ConfiguratorAssumption DEF AttendanceInv, CheckIsDue
<1> QED
  BY <1>1, Invariance, PTL DEF Spec, AttendedIsKept

\* What the portal keeps for a client, the result of a scan and the log, is kept for
\* as long as its time-out says and no longer, across wraps of millis() (the end of
\* ksDevicePortal::loop).
THEOREM ExpiryExact == Spec => ExpiryIsExact
<1>1. ConfiguratorInv => NothingOutlivesItsTimeout
  BY ConfiguratorAssumption
  DEF ConfiguratorInv, StampInv, NothingOutlivesItsTimeout, TypeOK
<1>2. ConfiguratorInv /\ [Next]_vars
      => [pc = "cleanup" =>
             /\ scanStamp # scanStamp' =>
                   scanAge > ScanTimeout \/ (millis = 0 /\ scanStamp = 1)
             /\ logStamp # logStamp' =>
                   logAge > KeepAlive \/ (millis = 0 /\ logStamp = 1)]_vars
  <2> SUFFICES ASSUME ConfiguratorInv, Next, pc = "cleanup"
               PROVE  /\ scanStamp # scanStamp' =>
                            scanAge > ScanTimeout \/ (millis = 0 /\ scanStamp = 1)
                      /\ logStamp # logStamp' =>
                            logAge > KeepAlive \/ (millis = 0 /\ logStamp = 1)
    OBVIOUS
  <2>1. /\ scanStamp # scanStamp' => Expired(scanStamp, ScanTimeout)
        /\ logStamp # logStamp' => Expired(logStamp, KeepAlive)
    BY DEF Next, Loop, Start, TakeScanResult, StartScan, LogKeepAlive, RequestsDone,
           CleanUp, ConfiguratorLoop, Tick, StationAttaches, StationLeaves, ScanEnds,
           stampVars
  <2>2. /\ StampInv(scanStamp, scanAge, ScanTimeout) /\ StampInv(logStamp, logAge, KeepAlive)
        /\ lag \in Nat /\ ScanTimeout \in Nat /\ KeepAlive \in Nat
    BY ConfiguratorAssumption DEF ConfiguratorInv, TypeOK
  <2>3. Expired(scanStamp, ScanTimeout) =>
           scanAge > ScanTimeout \/ (millis = 0 /\ scanStamp = 1)
    BY <2>2, ExpiredIsOld
  <2>4. Expired(logStamp, KeepAlive) => logAge > KeepAlive \/ (millis = 0 /\ logStamp = 1)
    BY <2>2, ExpiredIsOld
  <2> QED
    BY <2>1, <2>3, <2>4
<1> QED
  BY <1>1, <1>2, Invariance, PTL DEF Spec, ExpiryIsExact, NothingExpiresEarly

=============================================================================
