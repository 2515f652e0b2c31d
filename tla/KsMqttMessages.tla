-------------------------- MODULE KsMqttMessages ---------------------------
(***************************************************************************)
(* What goes over the sessions of KsMqttSession: the retained topic that   *)
(* tells others whether the device is connected, kept true by a will; the  *)
(* subscriptions, which users make in onConnected; and the periodic        *)
(* reports of ksDevStatMqttReporter.  The device and the broker notice the *)
(* loss of a connection each for itself.                                   *)
(***************************************************************************)
EXTENDS KsMqttSession, Integers, Sequences

CONSTANT
    ReportInterval      \* reporterTimer's interval, in ticks

ASSUME MessagesAssumption == ReportInterval \in Nat \ {0}

VARIABLES
    sendsStatus,        \* bitflags.sendConnectionStatus
    persistent,         \* bitflags.usePersistentSession
    sent,               \* packets of the device under way to the broker
    reportAge,          \* ticks since reporterTimer was restarted
    brokerSession,      \* what the broker has open for the device's client id
    subscribed,         \* whether its client id is subscribed to the device's topic
    status,             \* the retained message of the topic prefix + "connected"
    sinceReport         \* history: ticks since the last report or connection

settings     == <<sendsStatus, persistent>>
brokerVars   == <<brokerSession, subscribed, status>>
reporterVars == <<reportAge, sinceReport>>
messageVars  == <<settings, sent, reporterVars, brokerVars>>

\* The retained status, and the subscription of the device's topic.
Packet == {"status", "subscribe"}

Aged(age) == IF age <= ReportInterval THEN age + 1 ELSE age

MessagesTypeOK ==
    /\ SessionTypeOK
    /\ sendsStatus \in BOOLEAN /\ persistent \in BOOLEAN
    /\ sent \in Seq(Packet) /\ Len(sent) <= 2
    /\ reportAge \in 0..ReportInterval + 1 /\ sinceReport \in 0..ReportInterval + 1
    /\ brokerSession \in {"none", "plain", "willed"}
    /\ subscribed \in BOOLEAN /\ status \in {"none", "0", "1"}

MessagesInit ==
    /\ SessionInit
    /\ sendsStatus \in BOOLEAN /\ persistent \in BOOLEAN
    /\ sent = <<>>
    /\ reportAge = 0 /\ sinceReport = 0
    /\ brokerSession = "none" /\ subscribed = FALSE /\ status = "none"

-----------------------------------------------------------------------------
(* The broker ends one session of the device and may begin another. *)

\* Mutant of WillFires: the will is registered without the retain flag.
WillUnretained == status

\* The will is "0" and retained: connect(..., willTopic, 0, true, "0", ...).
WillFires == IF brokerSession = "willed" THEN "0" ELSE status

\* A CONNECT takes the place of whatever session the client id still has.
BrokerAccepts(kind) ==
    /\ status' = WillFires
    /\ brokerSession' = kind
    /\ subscribed' = (persistent /\ subscribed)

\* The broker takes the connection for lost: the device has gone, or its network.
BrokerCloses ==
    /\ brokerSession # "none"
    /\ BrokerAccepts("none")
    /\ sent' = <<>>
    /\ UNCHANGED <<sessionVars, settings, reporterVars>>

\* The kinds of session connectToBroker asks for: with the will, and, when that
\* is refused, without; only without when no status is to be sent.
SessionKinds == {"plain"} \cup (IF sendsStatus THEN {"willed"} ELSE {})

-----------------------------------------------------------------------------
(* The connector. *)

\* Mutant of FirstPackets: the status is not published.
FirstPacketsSilent(kind) == <<"subscribe">>

\* connectToBroker publishes the status after connecting with the will, and
\* mqttConnectedInternal calls the users, who subscribe.
FirstPackets(kind) ==
    IF kind = "willed" THEN <<"status", "subscribe">> ELSE <<"subscribe">>

\* Mutant of ReporterRestarts: the timer goes on through a reconnection.
ReporterGoesOn == reportAge' = reportAge /\ sinceReport' = 0

\* ksDevStatMqttReporter::onConnected.
ReporterRestarts == reportAge' = 0 /\ sinceReport' = 0

\* The broker answers in time, and both sides have the session.
OpenSession ==
    \E kind \in SessionKinds :
        /\ SessionOpened
        /\ BrokerAccepts(kind)
        /\ sent' = FirstPackets(kind)
        /\ ReporterRestarts
        /\ UNCHANGED settings

\* The answer is lost or late: the broker has a session, the device has not.
OpenUnanswered ==
    \E kind \in SessionKinds :
        /\ AttemptFailed
        /\ BrokerAccepts(kind)
        /\ sent' = <<>>
        /\ UNCHANGED <<settings, reporterVars>>

FailToOpen   == AttemptFailed /\ UNCHANGED messageVars
StartToOpen  == BeginAttempt /\ UNCHANGED messageVars
LoseSession  == SessionLost /\ UNCHANGED messageVars
ReportLoss   == NoticeLoss /\ UNCHANGED messageVars

-----------------------------------------------------------------------------
(* The reporter. *)

\* The timer has triggered, which restarts it; reportDevStats publishes if there
\* is a session.
ReporterLoop ==
    /\ reportAge > ReportInterval
    /\ reportAge' = 0
    /\ sinceReport' = IF session = "online" THEN 0 ELSE sinceReport
    /\ UNCHANGED <<sessionVars, settings, sent, brokerVars>>

-----------------------------------------------------------------------------
(* The broker. *)

\* Packets arrive in the order they were sent in, also after the device has lost
\* the session, as long as the broker has not.
BrokerReceives ==
    /\ brokerSession # "none" /\ sent # <<>>
    /\ status' = IF Head(sent) = "status" THEN "1" ELSE status
    /\ subscribed' = (subscribed \/ Head(sent) = "subscribe")
    /\ sent' = Tail(sent)
    /\ UNCHANGED <<sessionVars, settings, reporterVars, brokerSession>>

-----------------------------------------------------------------------------
Connector == OpenSession \/ OpenUnanswered \/ FailToOpen \/ StartToOpen
             \/ LoseSession \/ ReportLoss
BrokerSteps == BrokerReceives \/ BrokerCloses
MessagesNext == Connector \/ ReporterLoop \/ BrokerSteps
=============================================================================
