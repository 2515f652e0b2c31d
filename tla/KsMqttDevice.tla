--------------------------- MODULE KsMqttDevice ----------------------------
(***************************************************************************)
(* The example device examples/mqtt-led: under the rotator MqttLedApp, of  *)
(* a Wi-Fi connector and an MQTT connector (by what KsMqttSession promises *)
(* of it), takes turns with ConfigApp, in which somebody may save or erase *)
(* the configuration.  A statistics reporter is added to it.  An           *)
(* application that ends takes its components with it, at whatever point   *)
(* its session is.                                                         *)
(***************************************************************************)
EXTENDS KsWifiConnector, KsMqttMessages

VARIABLES
    app,            \* the application the rotator is running
    configured      \* the files both connectors need in their init are there

rotatorVars == <<app, configured>>
deviceVars  == <<vars, sessionVars, messageVars, rotatorVars>>

\* A session needs the station; the device's components are there and idle when
\* their application is not.
DeviceTypeOK ==
    /\ WifiTypeOK /\ MessagesTypeOK
    /\ app \in {"main", "config"} /\ configured \in BOOLEAN
    /\ app = "main" => configured
    /\ app = "config" => session = "lost" /\ ~running

DeviceInit ==
    /\ Init /\ MessagesInit
    /\ app = "main" /\ configured = TRUE

-----------------------------------------------------------------------------
\* The Wi-Fi connector, and its station, which the rest only sees.
WifiLoop ==
    /\ app = "main" /\ Loop
    /\ UNCHANGED <<sessionVars, messageVars, rotatorVars>>

WifiStation ==
    /\ app = "main" /\ Station
    /\ UNCHANGED <<sessionVars, messageVars, rotatorVars>>

DeviceTick ==
    /\ app = "main" /\ Tick
    /\ reportAge' = Aged(reportAge) /\ sinceReport' = Aged(sinceReport)
    /\ UNCHANGED <<sessionVars, settings, sent, brokerVars, rotatorVars>>

\* A step of the MQTT connector.  The connection to the broker needs the station,
\* and an attempt wifiConnSp->isConnected().
MqttStep ==
    /\ app = "main" /\ running
    /\ \/ StartToOpen /\ link /\ gotIpAddress
       \/ (OpenSession \/ OpenUnanswered) /\ Online
       \/ FailToOpen \/ ReportLoss
    /\ UNCHANGED <<vars, rotatorVars>>

\* The device takes the connection for lost.
SessionEnds ==
    /\ app = "main" /\ running /\ LoseSession
    /\ UNCHANGED <<vars, rotatorVars>>

ReporterStep ==
    /\ app = "main" /\ running /\ ReporterLoop
    /\ UNCHANGED <<vars, rotatorVars>>

PacketArrives ==
    /\ BrokerReceives
    /\ UNCHANGED <<vars, rotatorVars>>

\* The broker takes the connection for lost.
BrokerGivesUp ==
    /\ BrokerCloses
    /\ UNCHANGED <<vars, rotatorVars>>

-----------------------------------------------------------------------------
(* The rotator. *)

\* The Wi-Fi connector's loop has returned false: the application is destroyed,
\* and with it the connection, without a DISCONNECT; the packets that have been
\* sent are still under way.
MainEnds ==
    /\ app = "main" /\ ~running
    /\ app' = "config"
    /\ session' = "lost" /\ told' = "none"
    /\ UNCHANGED <<vars, settings, sent, reporterVars, brokerVars, configured>>

\* The configurator has ended: the connectors find their files in init, or the
\* main application ends in its first pass and the configurator is back.
\* Everything is constructed anew.
MainStarts ==
    /\ app = "config" /\ configured
    /\ app' = "main"
    /\ running' = TRUE /\ wasConnected' = FALSE /\ gotIpAddress' = FALSE
    /\ timeoutAge' = 0 /\ reconnectAge' = 0 /\ ipCheckAge' = 0
    /\ link' = FALSE /\ address' = FALSE /\ associating' = TRUE
    /\ sinceLoop' = 0 /\ lastEvent' = "none" /\ addressSeen' = FALSE
    /\ steadyFor' = 0 /\ reportAge' = 0 /\ sinceReport' = 0
    /\ UNCHANGED <<sessionVars, settings, sent, brokerVars, configured>>

\* Somebody saves the configuration in the portal, or erases it.
Configure ==
    /\ app = "config"
    /\ configured' \in BOOLEAN
    /\ UNCHANGED <<vars, sessionVars, messageVars, app>>

Rotate == MainEnds \/ MainStarts

DeviceNext ==
    \/ WifiLoop \/ WifiStation \/ DeviceTick \/ MqttStep \/ SessionEnds
    \/ ReporterStep \/ PacketArrives \/ BrokerGivesUp \/ Rotate \/ Configure

\* The applications are looped and time passes; packets arrive, and each side
\* finds out in the end that the other one's session is gone.
DeviceSpec ==
    /\ DeviceInit /\ [][DeviceNext]_deviceVars
    /\ WF_deviceVars(WifiLoop) /\ WF_deviceVars(DeviceTick)
    /\ WF_deviceVars(Rotate) /\ WF_deviceVars(PacketArrives)
    /\ WF_deviceVars(BrokerGivesUp /\ session # "online")
    /\ WF_deviceVars(SessionEnds /\ brokerSession = "none")
-----------------------------------------------------------------------------
(* Properties. *)

\* Whatever gets lost and in whatever order the two sides notice it: the retained
\* status only says that the device is connected while the broker holds a session
\* whose will takes it back (connectToBroker, willTopic).
StatusIsTrue == status = "1" => brokerSession = "willed"

\* The status ends up right: "1" when a session with a will stays, and no longer
\* "1" when the device has gone for good.
StatusSettles ==
    /\ <>[](session = "online" /\ brokerSession = "willed") => <>[](status = "1")
    /\ <>[](session # "online") => <>[](status # "1")

\* Users subscribe in onConnected: once what has been sent in a session has
\* arrived, the broker holds the subscription, after any number of sessions that
\* broke anywhere.
SubscribedWhileOnline ==
    session = "online" /\ brokerSession # "none" /\ sent = <<>> =>
        subscribed

\* What the broker knows of the device is right in both respects.
BrokerKnowsDevice == StatusIsTrue /\ SubscribedWhileOnline

\* The address is only looked at now and then, and that is often enough: neither
\* the connection nor its loss is missed, and no address of an earlier
\* association is taken for one of this (ksWifiConnector's wifiIpCheckTimer).
CachedCheckSuffices == LoopSeesStation /\ ConnectedMeansAddress

\* Two reports, and a connection and the first report in it, are more than the
\* interval apart, however often the connection is lost in between
\* (ksDevStatMqttReporter::onConnected, "to match the intervals between individual
\* reports").
ReportsAreSpaced ==
    [][ReporterStep /\ session = "online" => sinceReport > ReportInterval]_deviceVars

\* A device that is offline gets online or offers its configuration, and the
\* configurator gives way to a main application that can start.
OfflineOrConfigured ==
    app = "main" /\ ~wasConnected ~> wasConnected \/ app = "config"
=============================================================================
