------------------------- MODULE KsWifiConfigurator -------------------------
(***************************************************************************)
(* The application in which a device is configured: ksWifiConfigurator     *)
(* with the time-out it has when no station is attached to its access      *)
(* point, and of the portal it adds the two things that expire, the scan   *)
(* for networks and the log.  All of it hangs on a millis() that wraps.    *)
(***************************************************************************)
EXTENDS Integers

CONSTANTS
    Width,            \* number of values of a uint32_t: 2^32
    CheckInterval,    \* periodicTasksTimeout
    ConfigTimeout,    \* configTimeout
    ScanTimeout,      \* WIFI_SCAN_TIMEOUT
    KeepAlive,        \* LOG_KEEPALIVE_INTERVAL
    MaxGap            \* longest time between two loops of the portal

ASSUME ConfiguratorAssumption ==
    /\ Width \in Nat \ {0} /\ MaxGap \in Nat \ {0}
    /\ CheckInterval \in Nat \ {0} /\ ConfigTimeout \in Nat \ {0}
    /\ ScanTimeout \in Nat \ {0} /\ KeepAlive \in Nat \ {0}
    /\ CheckInterval < ConfigTimeout
    /\ ConfigTimeout + 2 * MaxGap < Width
    /\ ScanTimeout + MaxGap + 1 < Width /\ KeepAlive + MaxGap + 1 < Width

VARIABLES
    millis,          \* the Arduino clock
    pc,              \* what the application does next, "stopped" if there is none
    lag,             \* time since the portal's last loop
    configAt,        \* configTimeout: millis() of its last restart
    checkedAt,       \* periodicTasksTimeout: millis() of its last restart
    scanStamp,       \* scanNetworkTimestamp, 0 for none
    logStamp,        \* logKeepAliveTimestamp, 0 for none
    attached,        \* whether a station is attached to the access point
    scan,            \* the driver's scan, as scanComplete reports it
    stationMode,     \* whether the station interface is on, for a scan
    attachedFor,     \* history: time for which a station has been attached
    scanAge,         \* history: time since a scan was last started
    logAge           \* history: time since a logKeepAlive was last received

timerVars   == <<configAt, checkedAt>>
stampVars   == <<scanStamp, logStamp>>
historyVars == <<attachedFor, scanAge, logAge>>
vars == <<millis, pc, lag, timerVars, stampVars, attached, scan, stationMode,
          historyVars>>

-----------------------------------------------------------------------------
\* A difference of two readings, computed on uint32_t.
Since(reading) == (millis - reading) % Width

\* Mutant of Stamp: the reading as it is.
PlainStamp == millis

\* max(1UL, millis()): 0 stands for none.
Stamp == IF millis = 0 THEN 1 ELSE millis

\* Mutant of Expired: comparing absolute times, on uint32_t.
PastDeadline(stamp, timeout) == stamp # 0 /\ millis > (stamp + timeout) % Width

Expired(stamp, timeout) == stamp # 0 /\ Since(stamp) > timeout

\* The histories are told apart up to the bounds of the properties.
Older(age, limit) == IF age > limit THEN age ELSE age + 1

Init ==
    /\ millis \in 0..Width - 1
    /\ pc = "stopped" /\ lag = 0
    /\ configAt = 0 /\ checkedAt = 0 /\ scanStamp = 0 /\ logStamp = 0
    /\ attached = FALSE /\ scan = "none" /\ stationMode = FALSE
    /\ attachedFor = 0 /\ scanAge = 0 /\ logAge = 0

\* The rotator spawns the application: access point, timers and portal are new.
\* A scan that an earlier one has left to the driver is still there.
Start ==
    /\ pc = "stopped" /\ pc' = "portal"
    /\ configAt' = millis /\ checkedAt' = millis
    /\ scanStamp' = 0 /\ logStamp' = 0 /\ lag' = 0
    /\ attached' = FALSE /\ attachedFor' = 0 /\ stationMode' = FALSE
    /\ scanAge' = 0 /\ logAge' = 0
    /\ UNCHANGED <<millis, scan>>

-----------------------------------------------------------------------------
(* The portal's loop: requests first, then what has expired. *)

\* handle_scanNetworks with a result: it is handed over and dropped.
TakeScanResult ==
    /\ pc = "portal" /\ scan = "found"
    /\ scan' = "none" /\ stationMode' = FALSE /\ scanStamp' = 0
    /\ UNCHANGED <<millis, pc, lag, timerVars, logStamp, attached, historyVars>>

\* handle_scanNetworks without a scan: one is started, which may fail.  With a
\* scan that is running, or has found nothing, the request changes nothing.
StartScan ==
    /\ pc = "portal" /\ scan = "none"
    /\ scan' \in {"running", "none"}
    /\ stationMode' = TRUE /\ scanStamp' = Stamp /\ scanAge' = 0
    /\ UNCHANGED <<millis, pc, lag, timerVars, logStamp, attached, attachedFor,
                   logAge>>

LogKeepAlive ==
    /\ pc = "portal"
    /\ logStamp' = Stamp /\ logAge' = 0
    /\ UNCHANGED <<millis, pc, lag, timerVars, scanStamp, attached, scan,
                   stationMode, attachedFor, scanAge>>

RequestsDone ==
    /\ pc = "portal" /\ pc' = "cleanup"
    /\ UNCHANGED <<millis, lag, timerVars, stampVars, attached, scan, stationMode,
                   historyVars>>

\* The rest of the loop.  The driver cannot drop a scan that is running.
CleanUp ==
    /\ pc = "cleanup" /\ pc' = "configurator"
    /\ lag' = 0
    /\ IF Expired(scanStamp, ScanTimeout)
       THEN /\ scanStamp' = 0 /\ stationMode' = FALSE
            /\ scan' \in (IF scan = "running" THEN {"running", "none"} ELSE {"none"})
       ELSE UNCHANGED <<scanStamp, stationMode, scan>>
    /\ logStamp' = IF Expired(logStamp, KeepAlive) THEN 0 ELSE logStamp
    /\ UNCHANGED <<millis, timerVars, attached, historyVars>>

-----------------------------------------------------------------------------
(* ksWifiConfigurator::loop. *)

CheckIsDue == Since(checkedAt) > CheckInterval

\* Mutant of SeesStation: it need not be time to look.
SeesStationAnyway == CheckIsDue

\* handlePeriodicTasks is called and finds a station.
SeesStation == CheckIsDue /\ attached

\* Mutant of TimesOut: the time-out is looked at before the stations.
TimesOutFirst == Since(configAt) > ConfigTimeout

\* configTimeout.triggered, after the station has restarted it.
TimesOut == ~SeesStation /\ Since(configAt) > ConfigTimeout

ConfiguratorLoop ==
    /\ pc = "configurator"
    /\ checkedAt' = IF CheckIsDue THEN millis ELSE checkedAt
    /\ configAt'  = IF SeesStation \/ TimesOut THEN millis ELSE configAt
    /\ pc'        = IF TimesOut THEN "stopped" ELSE "portal"
    /\ UNCHANGED <<millis, lag, stampVars, attached, scan, stationMode,
                   historyVars>>

-----------------------------------------------------------------------------
(* The world outside. *)

Tick ==
    /\ pc # "stopped" => lag < MaxGap
    /\ millis' = (millis + 1) % Width
    /\ lag' = IF pc = "stopped" THEN lag ELSE lag + 1
    /\ attachedFor' = IF attached THEN Older(attachedFor, CheckInterval) ELSE 0
    /\ scanAge' = IF stationMode THEN Older(scanAge, ScanTimeout + MaxGap + 1) ELSE 0
    /\ logAge' = IF logStamp # 0 THEN Older(logAge, KeepAlive + MaxGap + 1) ELSE 0
    /\ UNCHANGED <<pc, timerVars, stampVars, attached, scan, stationMode>>

StationAttaches ==
    /\ pc # "stopped" /\ ~attached
    /\ attached' = TRUE /\ attachedFor' = 0
    /\ UNCHANGED <<millis, pc, lag, timerVars, stampVars, scan, stationMode,
                   scanAge, logAge>>

StationLeaves ==
    /\ attached /\ attached' = FALSE /\ attachedFor' = 0
    /\ UNCHANGED <<millis, pc, lag, timerVars, stampVars, scan, stationMode,
                   scanAge, logAge>>

\* With networks, without any, or not at all.
ScanEnds ==
    /\ scan = "running"
    /\ scan' \in {"found", "empty", "none"}
    /\ UNCHANGED <<millis, pc, lag, timerVars, stampVars, attached, stationMode,
                   historyVars>>

Loop == RequestsDone \/ CleanUp \/ ConfiguratorLoop

Next ==
    \/ Start
    \/ TakeScanResult \/ StartScan \/ LogKeepAlive
    \/ Loop
    \/ Tick
    \/ StationAttaches \/ StationLeaves \/ ScanEnds

Spec == Init /\ [][Next]_vars

\* The application is looped for ever and time goes on.
FairSpec == Spec /\ WF_vars(Loop) /\ WF_vars(Tick)

-----------------------------------------------------------------------------
(* Properties. *)

TypeOK ==
    /\ millis \in 0..Width - 1 /\ lag \in 0..MaxGap
    /\ pc \in {"stopped", "portal", "cleanup", "configurator"}
    /\ configAt \in 0..Width - 1 /\ checkedAt \in 0..Width - 1
    /\ scanStamp \in 0..Width - 1 /\ logStamp \in 0..Width - 1
    /\ attached \in BOOLEAN /\ stationMode \in BOOLEAN
    /\ scan \in {"none", "running", "found", "empty"}
    /\ stationMode => scanStamp # 0

\* The application never times out while somebody has been attached for longer
\* than it takes to be noticed, however late its loops are
\* (ksWifiConfigurator::loop).
AttendedIsKept ==
    [][pc = "configurator" /\ pc' = "stopped" => attachedFor <= CheckInterval]_vars

\* When nobody is attached any more the application ends, and the rotator turns
\* to the main one, whatever is asked of the portal (configTimeout).
UnattendedEnds == pc # "stopped" ~> attached \/ pc = "stopped"

\* The result of a scan is kept for the client, and the log for who has asked to
\* keep it alive, as long as the time-outs say, across wraps of millis(): but
\* for a stamp taken while the counter is at 0, which is stored as 1 and lies in
\* the future for the rest of that millisecond (ksDevicePortal::loop).
NothingExpiresEarly ==
    [][pc = "cleanup" =>
          /\ scanStamp # scanStamp' =>
                scanAge > ScanTimeout \/ (millis = 0 /\ scanStamp = 1)
          /\ logStamp # logStamp' =>
                logAge > KeepAlive \/ (millis = 0 /\ logStamp = 1)]_vars

\* Nor does either outlive its time-out, taking clients away without a word:
\* the station interface is on, and log messages are sent, no longer than that
\* (ksDevicePortal::loop, "Cleanup scan results if not received by the client").
NothingOutlivesItsTimeout ==
    pc # "stopped" =>
        /\ stationMode  => scanAge <= ScanTimeout + MaxGap + 1
        /\ logStamp # 0 => logAge <= KeepAlive + MaxGap + 1

\* Both: what the portal keeps for a client is kept exactly as long as it says.
ExpiryIsExact == NothingExpiresEarly /\ []NothingOutlivesItsTimeout
=============================================================================
