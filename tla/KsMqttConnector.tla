-------------------------- MODULE KsMqttConnector --------------------------
(***************************************************************************)
(* ksMqttConnector::loop with its domain resolver, its reconnect timer and *)
(* the connection attempt, which blocks for seconds while the network goes *)
(* on changing.                                                            *)
(***************************************************************************)
EXTENDS KsDomainQuery

CONSTANTS
    ReconnectDelay,     \* KSF_MQTT_RECONNECT_DELAY_MS, in ticks
    ConnectTimeout      \* longest a blocking attempt takes, in ticks

ASSUME MqttAssumption ==
    ReconnectDelay \in Nat \ {0} /\ ConnectTimeout \in Nat \ {0}

VARIABLES
    pc,              \* where the connector's loop is
    wasConnected,    \* bitflags.wasConnected
    alive,           \* the MQTT session is up: what mqttClientUq->loop() finds
    sinceRestart,    \* ticks since reconnectTimer was restarted
    sendsWill,       \* bitflags.sendConnectionStatus
    wifi,            \* wifiConnSp->isConnected()
    broker,          \* the broker answers at its address and accepts the device
    trusted,         \* the broker's certificate has the fingerprint, if any is
                     \* configured
    blockedFor,      \* ticks the current attempt has taken
    looped,          \* a loop has come to its end since the last tick
    lastEvent,       \* history: the last event broadcast
    sinceEnd,        \* history: ticks since the last attempt or session ended
    addressUsed      \* history: the address last resolved is the one of an
                     \* attempt that failed or of a session that was lost

mqttVars == <<pc, wasConnected, alive, sinceRestart, lastEvent, sinceEnd,
              addressUsed>>
fixedVars == <<sendsWill, trusted>>
environmentVars == <<wifi, broker, fixedVars>>
vars == <<queryVars, pc, wasConnected, alive, sinceRestart, sendsWill, wifi,
          broker, trusted, blockedFor, looped, lastEvent, sinceEnd, addressUsed>>

\* Between two loops, about to try, opening the TCP connection, sending the
\* MQTT CONNECT with the will, and sending it without.
Pc == {"idle", "attempt", "tcp", "connect", "connectNoWill"}
Event == {"none", "connected", "disconnected"}

\* Times up to the delay are told apart, and those beyond it are not.
Later(t) == IF t <= ReconnectDelay THEN t + 1 ELSE t

MqttTypeOK ==
    /\ QueryTypeOK
    /\ pc \in Pc /\ lastEvent \in Event
    /\ wasConnected \in BOOLEAN /\ alive \in BOOLEAN
    /\ wifi \in BOOLEAN /\ broker \in BOOLEAN
    /\ sendsWill \in BOOLEAN /\ trusted \in BOOLEAN /\ addressUsed \in BOOLEAN
    /\ sinceRestart \in 0..ReconnectDelay + 1
    /\ sinceEnd \in 0..ReconnectDelay + 1
    /\ blockedFor \in 0..ConnectTimeout /\ looped \in BOOLEAN
    /\ alive => wasConnected

-----------------------------------------------------------------------------
\* setupConnection has created the client.  The flag starts out set.
MqttInit ==
    /\ QueryInit
    /\ pc = "idle"
    /\ wasConnected = TRUE /\ alive = FALSE
    /\ sinceRestart = 0 /\ blockedFor = 0 /\ looped = FALSE
    /\ wifi \in BOOLEAN /\ broker \in BOOLEAN
    /\ sendsWill \in BOOLEAN /\ trusted \in BOOLEAN
    /\ lastEvent = "none" /\ sinceEnd = 0 /\ addressUsed = FALSE

\* mqttClientUq->loop() returns true: messages are served, nothing else.
LoopConnected ==
    /\ pc = "idle" /\ alive
    /\ looped' = TRUE
    /\ UNCHANGED <<queryVars, mqttVars, blockedFor, environmentVars>>

\* Mutant of LoopLost: the event is forgotten.
LoopLostSilently ==
    /\ pc = "idle" /\ ~alive /\ wasConnected
    /\ wasConnected' = FALSE /\ looped' = TRUE
    /\ sinceRestart' = 0 /\ sinceEnd' = 0 /\ addressUsed' = TRUE
    /\ Invalidate
    /\ UNCHANGED <<pc, alive, blockedFor, lastEvent, environmentVars>>

\* The session is found lost: the first loop after that only notes it.
LoopLost ==
    /\ pc = "idle" /\ ~alive /\ wasConnected
    /\ wasConnected' = FALSE /\ looped' = TRUE
    /\ sinceRestart' = 0 /\ sinceEnd' = 0 /\ addressUsed' = TRUE
    /\ lastEvent' = "disconnected"
    /\ Invalidate
    /\ UNCHANGED <<pc, alive, blockedFor, environmentVars>>

\* The resolver is processed, and an attempt is due once the timer has passed.
LoopResolve ==
    /\ pc = "idle" /\ ~alive /\ ~wasConnected
    /\ Process
    /\ pc' = IF sinceRestart > ReconnectDelay THEN "attempt" ELSE "idle"
    /\ looped' = TRUE
    /\ addressUsed' = (addressUsed /\ ~(resolvedIP = "none" /\ resolvedIP' # "none"))
    /\ UNCHANGED <<wasConnected, alive, sinceRestart, blockedFor, lastEvent,
                   sinceEnd, environmentVars>>

\* Mutant of EndAttempt: the timer is not restarted after the attempt.
EndAttemptOnly ==
    /\ pc' = "idle"
    /\ sinceRestart' = sinceRestart
    /\ sinceEnd' = 0 /\ blockedFor' = 0 /\ looped' = TRUE
    /\ UNCHANGED environmentVars

\* reconnectTimer.restart(), after an attempt that may have blocked.
EndAttempt ==
    /\ pc' = "idle"
    /\ sinceRestart' = 0
    /\ sinceEnd' = 0 /\ blockedFor' = 0 /\ looped' = TRUE
    /\ UNCHANGED environmentVars

\* Mutant of AttemptFails: the resolver is not invalidated.
AttemptFailsKeeping ==
    /\ addressUsed' = TRUE
    /\ EndAttempt
    /\ UNCHANGED <<queryVars, wasConnected, alive, lastEvent>>

\* Every failure throws the resolved address away and restarts the timer.
AttemptFails ==
    /\ Invalidate
    /\ addressUsed' = TRUE
    /\ EndAttempt
    /\ UNCHANGED <<wasConnected, alive, lastEvent>>

\* Mutant of AttemptSucceeds: the flag is not set.
AttemptSucceedsUnmarked ==
    /\ alive' = TRUE /\ lastEvent' = "connected"
    /\ EndAttempt
    /\ UNCHANGED <<queryVars, wasConnected, addressUsed>>

AttemptSucceeds ==
    /\ wasConnected' = TRUE /\ alive' = TRUE
    /\ lastEvent' = "connected"
    /\ EndAttempt
    /\ UNCHANGED <<queryVars, addressUsed>>

Goto(label) ==
    /\ pc' = label
    /\ UNCHANGED <<queryVars, wasConnected, alive, sinceRestart, blockedFor,
                   looped, lastEvent, sinceEnd, addressUsed, environmentVars>>

\* The attempt needs Wi-Fi and a resolved address, and fails at once without.
StartAttempt ==
    /\ pc = "attempt" /\ wifi /\ resolvedIP # "none"
    /\ Goto("tcp")

CannotStartAttempt ==
    /\ pc = "attempt" /\ (~wifi \/ resolvedIP = "none")
    /\ AttemptFails

\* The TCP connection opens, and the fingerprint of the server, if it is to be
\* checked, is right.
TcpConnects ==
    /\ pc = "tcp" /\ wifi /\ broker /\ trusted
    /\ Goto(IF sendsWill THEN "connect" ELSE "connectNoWill")

TcpFails ==
    /\ pc = "tcp" /\ (~wifi \/ ~broker)
    /\ AttemptFails

FingerprintFails ==
    /\ pc = "tcp" /\ wifi /\ broker /\ ~trusted
    /\ AttemptFails

\* MQTT CONNECT with the will message; a refusal is retried without the will.
SessionOpens ==
    /\ pc \in {"connect", "connectNoWill"} /\ wifi /\ broker
    /\ AttemptSucceeds

WillRefused ==
    /\ pc = "connect"
    /\ Goto("connectNoWill")

SessionRefused ==
    /\ pc = "connectNoWill" /\ (~wifi \/ ~broker)
    /\ AttemptFails

-----------------------------------------------------------------------------
(* The environment. *)

\* Time passes; a blocking call returns within its timeout.
TimePasses ==
    /\ pc # "idle" => blockedFor < ConnectTimeout
    /\ looped' = FALSE
    /\ QueryTick
    /\ sinceRestart' = Later(sinceRestart)
    /\ sinceEnd' = Later(sinceEnd)
    /\ blockedFor' = IF pc = "idle" THEN 0 ELSE blockedFor + 1
    /\ UNCHANGED <<domain, resolvedIP, transactionID, answers, sendFailed, pc,
                   wasConnected, alive, lastEvent, addressUsed, environmentVars>>

\* The Wi-Fi connection or the broker comes or goes.
NetworkChanges ==
    /\ wifi' \in BOOLEAN /\ broker' \in BOOLEAN
    /\ UNCHANGED <<queryVars, mqttVars, blockedFor, looped, fixedVars>>

\* The session breaks, for any reason.
SessionBreaks ==
    /\ alive
    /\ alive' = FALSE
    /\ UNCHANGED <<queryVars, pc, wasConnected, sinceRestart, blockedFor,
                   looped, lastEvent, sinceEnd, addressUsed, environmentVars>>

AnswerLost ==
    /\ Lose
    /\ UNCHANGED <<mqttVars, blockedFor, looped, environmentVars>>

-----------------------------------------------------------------------------
MqttLoop ==
    \/ LoopConnected \/ LoopLost \/ LoopResolve
    \/ StartAttempt \/ CannotStartAttempt
    \/ TcpConnects \/ TcpFails \/ FingerprintFails
    \/ SessionOpens \/ WillRefused \/ SessionRefused

Environment == TimePasses \/ NetworkChanges \/ SessionBreaks \/ AnswerLost

MqttNext == MqttLoop \/ Environment

MqttSpec == MqttInit /\ [][MqttNext]_vars

\* The component is looped and time passes for ever; the network answers a
\* query in time again and again.
MqttFairSpec ==
    /\ MqttSpec
    /\ WF_vars(MqttLoop) /\ WF_vars(TimePasses)
    /\ SF_vars(LoopResolve /\ AnswerInTime)

-----------------------------------------------------------------------------
(* Properties. *)

\* The broker is not hammered: an attempt only starts when the delay has passed
\* since the last attempt ended or the last session was lost, even though the
\* attempt itself blocks (ksMqttConnector::loop, "must be done after
\* connectToBroker, because connect can block for few seconds").
AttemptsAreSpaced == pc = "attempt" => sinceEnd > ReconnectDelay

\* A connection is only tried to an address that has been asked for since the
\* last failure or loss ("always invalidate domain resolver in case we are not
\* connected after retry"), never to the one that has just failed.
AttemptsUseFreshAddress ==
    pc \in {"tcp", "connect", "connectNoWill"} =>
        /\ resolvedIP = "fresh" \/ (resolvedIP = "stale" /\ sendFailed)
        /\ ~addressUsed

\* The two together: what the resolver hands out is fresh, and what the
\* connector uses of it is, too.
AddressesAreFresh == FreshUnlessSendFailed /\ AttemptsUseFreshAddress

\* Seen through its events and isConnected, the connector is the abstract one:
\* only attempts open sessions, a lost session is reported to the users of
\* onDisconnected before the next attempt is made, however quickly it could be,
\* and neither an unnoticed loss nor an attempt lasts for ever.
Abstract == INSTANCE KsMqttSession WITH
    session <- IF alive THEN "online"
               ELSE IF wasConnected THEN "lost"
               ELSE IF pc = "idle" THEN "offline" ELSE "attempting",
    told <- lastEvent

ImplementsSession == Abstract!SessionSpec

\* When Wi-Fi and a broker that the device trusts stay up, queries can be sent,
\* and the application is looped at least once per tick, the connector is
\* connected again and again, whatever has happened before.
ConnectsInTheEnd ==
    /\ <>[](wifi /\ broker /\ trusted /\ ~sendFailed)
    /\ domain \in {"name", "literal"}
    /\ <>[][TimePasses /\ pc = "idle" => looped]_vars
    => []<>(wasConnected /\ alive)
=============================================================================
