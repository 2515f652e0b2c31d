-------------------------- MODULE KsWifiConnector --------------------------
(***************************************************************************)
(* ksWifiConnector::loop: it reports when the station comes online and     *)
(* goes offline, asks for a new association now and then, and ends the     *)
(* application after a long time offline.  The station itself, and the     *)
(* access point, are the environment; automatic reconnection is switched   *)
(* off by initializeFramework, so an association is only ever attempted    *)
(* when this component asks for it.                                        *)
(***************************************************************************)
EXTENDS Integers

CONSTANTS
    IpCheckInterval,    \* wifiIpCheckTimer's interval, in ticks
    ReconnectTime,      \* KSF_WIFI_RECONNECT_TIME_MS, in ticks
    WifiTimeout,        \* KSF_WIFI_TIMEOUT_MS, in ticks
    MaxGap              \* longest time between two loops, in ticks

ASSUME WifiAssumption ==
    /\ IpCheckInterval \in Nat \ {0} /\ MaxGap \in Nat \ {0}
    /\ ReconnectTime \in Nat /\ ReconnectTime > IpCheckInterval
    /\ WifiTimeout \in Nat /\ WifiTimeout > ReconnectTime
    /\ WifiTimeout > MaxGap

VARIABLES
    running,          \* loop has not returned false yet
    wasConnected,     \* bitflags.wasConnected
    gotIpAddress,     \* bitflags.gotIpAddress, the cached address check
    timeoutAge,       \* ticks since each of the three timers was restarted
    reconnectAge,
    ipCheckAge,
    link,             \* WiFi.isConnected()
    address,          \* WiFi.localIP() is not 0.0.0.0
    associating,      \* an association has been asked for and is under way
    sinceLoop,        \* ticks since the last loop
    lastEvent,        \* history: the last event broadcast
    addressSeen,      \* history: a check saw an address in this association
    steadyFor         \* history: ticks for which link /\ address has not changed

component == <<running, wasConnected, gotIpAddress, timeoutAge, reconnectAge,
               ipCheckAge, lastEvent, addressSeen>>
station   == <<link, address, associating>>
vars == <<running, wasConnected, gotIpAddress, timeoutAge, reconnectAge,
          ipCheckAge, link, address, associating, sinceLoop, lastEvent,
          addressSeen, steadyFor>>

Online == link /\ address

\* Ages are told apart up to the interval they are compared with.
Later(age, interval) == IF age <= interval THEN age + 1 ELSE age

\* The types; the flag is what the users of the events have last been told, also
\* when the application ends; and an address needs an association.
WifiTypeOK ==
    /\ running \in BOOLEAN /\ wasConnected \in BOOLEAN /\ gotIpAddress \in BOOLEAN
    /\ timeoutAge \in 0..WifiTimeout + 1
    /\ reconnectAge \in 0..ReconnectTime + 1
    /\ ipCheckAge \in 0..IpCheckInterval + 1
    /\ link \in BOOLEAN /\ address \in BOOLEAN /\ associating \in BOOLEAN
    /\ sinceLoop \in 0..MaxGap
    /\ lastEvent \in {"none", "connected", "disconnected"}
    /\ addressSeen \in BOOLEAN /\ steadyFor \in 0..IpCheckInterval + 1
    /\ address => link
    /\ lastEvent = "connected" <=> wasConnected
    /\ ~running => ~wasConnected

-----------------------------------------------------------------------------
\* The constructor has started the timers and init the first association.
Init ==
    /\ running = TRUE /\ wasConnected = FALSE /\ gotIpAddress = FALSE
    /\ timeoutAge = 0 /\ reconnectAge = 0 /\ ipCheckAge = 0
    /\ link = FALSE /\ address = FALSE /\ associating = TRUE
    /\ sinceLoop = 0
    /\ lastEvent = "none" /\ addressSeen = FALSE /\ steadyFor = 0

\* Mutant of GotIpNow: the flag is only ever set by the check.
GotIpSticky == gotIpAddress \/ (ipCheckAge > IpCheckInterval /\ address)

\* wifiIpCheckTimer.triggered() refreshes the cached flag at the top of a loop.
GotIpNow == IF ipCheckAge > IpCheckInterval THEN address ELSE gotIpAddress

\* isConnected(), as this loop sees it.
ConnectedNow == link /\ GotIpNow

CheckAddress ==
    /\ gotIpAddress' = GotIpNow
    /\ ipCheckAge' = IF ipCheckAge > IpCheckInterval THEN 0 ELSE ipCheckAge
    /\ sinceLoop' = 0

\* What the history of the station keeps from a step of the station.
Observe ==
    /\ addressSeen' = (link' /\ (addressSeen \/ (GotIpNow /\ ipCheckAge > IpCheckInterval)))
    /\ steadyFor' = IF (link' /\ address') = Online THEN steadyFor ELSE 0

\* Connected: both timers start again, and a new connection is reported.
LoopOnline ==
    /\ running /\ ConnectedNow
    /\ CheckAddress
    /\ timeoutAge' = 0 /\ reconnectAge' = 0
    /\ wasConnected' = TRUE /\ lastEvent' = "connected"
    /\ UNCHANGED <<running, station>>
    /\ Observe

\* Offline for too long: the loop returns false, before anything else.
LoopTimesOut ==
    /\ running /\ ~ConnectedNow /\ timeoutAge > WifiTimeout
    /\ CheckAddress
    /\ running' = FALSE /\ timeoutAge' = 0
    /\ UNCHANGED <<wasConnected, reconnectAge, lastEvent, station>>
    /\ Observe

\* Mutant of LoopOffline: a lost connection is torn down without being reported.
LoopOfflineSilently ==
    /\ running /\ ~ConnectedNow /\ timeoutAge <= WifiTimeout
    /\ CheckAddress
    /\ wasConnected' = FALSE
    /\ link' = (link /\ ~wasConnected) /\ address' = (address /\ ~wasConnected)
    /\ IF reconnectAge > ReconnectTime
       THEN associating' = ~link' /\ reconnectAge' = 0
       ELSE /\ associating' = (associating /\ ~wasConnected)
            /\ UNCHANGED reconnectAge
    /\ UNCHANGED <<running, timeoutAge, lastEvent>>
    /\ Observe

\* Mutant of LoopOffline: an attempt also restarts the long timeout.
LoopOfflineForever ==
    /\ running /\ ~ConnectedNow /\ timeoutAge <= WifiTimeout
    /\ CheckAddress
    /\ wasConnected' = FALSE
    /\ lastEvent' = IF wasConnected THEN "disconnected" ELSE lastEvent
    /\ link' = (link /\ ~wasConnected) /\ address' = (address /\ ~wasConnected)
    /\ IF reconnectAge > ReconnectTime
       THEN associating' = ~link' /\ reconnectAge' = 0 /\ timeoutAge' = 0
       ELSE /\ associating' = (associating /\ ~wasConnected)
            /\ UNCHANGED <<reconnectAge, timeoutAge>>
    /\ UNCHANGED running
    /\ Observe

\* Offline: a lost connection is torn down and reported, and a new association
\* is asked for when the reconnect timer has passed.
LoopOffline ==
    /\ running /\ ~ConnectedNow /\ timeoutAge <= WifiTimeout
    /\ CheckAddress
    /\ wasConnected' = FALSE
    /\ lastEvent' = IF wasConnected THEN "disconnected" ELSE lastEvent
    /\ link' = (link /\ ~wasConnected) /\ address' = (address /\ ~wasConnected)
    /\ IF reconnectAge > ReconnectTime
       THEN associating' = ~link' /\ reconnectAge' = 0
       ELSE /\ associating' = (associating /\ ~wasConnected)
            /\ UNCHANGED reconnectAge
    /\ UNCHANGED <<running, timeoutAge>>
    /\ Observe

-----------------------------------------------------------------------------
(* The station and time. *)

StationStep(l, a, s) ==
    /\ link' = l /\ address' = a /\ associating' = s
    /\ addressSeen' = (addressSeen /\ l)
    /\ steadyFor' = IF (l /\ a) = Online THEN steadyFor ELSE 0
    /\ UNCHANGED <<running, wasConnected, gotIpAddress, timeoutAge,
                   reconnectAge, ipCheckAge, sinceLoop, lastEvent>>

AssociationEnds == associating /\ \E up \in BOOLEAN : StationStep(up, FALSE, FALSE)
AddressAssigned == link /\ ~address /\ StationStep(TRUE, TRUE, associating)
AddressLost     == address /\ StationStep(TRUE, FALSE, associating)
LinkDrops       == link /\ StationStep(FALSE, FALSE, FALSE)

Tick ==
    /\ running /\ sinceLoop < MaxGap
    /\ sinceLoop' = sinceLoop + 1
    /\ timeoutAge' = Later(timeoutAge, WifiTimeout)
    /\ reconnectAge' = Later(reconnectAge, ReconnectTime)
    /\ ipCheckAge' = Later(ipCheckAge, IpCheckInterval)
    /\ steadyFor' = Later(steadyFor, IpCheckInterval)
    /\ UNCHANGED <<running, wasConnected, gotIpAddress, station, lastEvent,
                   addressSeen>>

-----------------------------------------------------------------------------
Loop == LoopOnline \/ LoopTimesOut \/ LoopOffline
Station == AssociationEnds \/ AddressAssigned \/ AddressLost \/ LinkDrops

Next == Loop \/ Station \/ Tick

Spec == Init /\ [][Next]_vars

\* The component is looped and time passes for ever; nothing is asked of the
\* station.
FairSpec == Spec /\ WF_vars(Loop) /\ WF_vars(Tick)

-----------------------------------------------------------------------------
(* Properties. *)

\* The cached address check delays what a loop sees by at most its interval: a
\* station that has been steadily online for longer is found connected, and the
\* application is not ended over it; one that has been offline for longer is
\* not found connected (ksWifiConnector::loop and isConnected).
LoopSeesStation ==
    [][Loop /\ steadyFor > IpCheckInterval =>
          IF Online THEN running' /\ wasConnected' ELSE ~(running' /\ wasConnected')]_vars

\* onConnected is only broadcast when an address has been seen in the very
\* association that is up: the flag left over from an earlier one is never
\* taken for it, because the next association is asked for late enough.
ConnectedMeansAddress == [][~wasConnected /\ wasConnected' => addressSeen']_vars

\* The device never stays offline silently: it gets online or the application
\* ends, so that the rotator can move on.
OnlineOrExit == running /\ ~wasConnected ~> wasConnected \/ ~running
=============================================================================
