--------------------------- MODULE KsMqttSession ---------------------------
(***************************************************************************)
(* What ksMqttConnector promises the users of its events and of            *)
(* isConnected, whatever the network does: sessions are opened by attempts *)
(* only, one attempt at a time, and a session that is lost is noticed, and *)
(* onDisconnected broadcast, before the next attempt.  KsMqttConnector     *)
(* implements it, and KsMqttDevice builds on it.                           *)
(***************************************************************************)

VARIABLES
    session,    \* isConnected() is true exactly when it is "online"
    told        \* the event that was broadcast last

sessionVars == <<session, told>>

\* A session that is lost has not been reported yet.
Session == {"lost", "offline", "attempting", "online"}

SessionTypeOK ==
    session \in Session /\ told \in {"none", "connected", "disconnected"}

\* bitflags.wasConnected starts out set: the first loop reports a loss.
SessionInit == session = "lost" /\ told = "none"

\* loop clears the flag, restarts the timer and broadcasts onDisconnected.
NoticeLoss ==
    session = "lost" /\ session' = "offline" /\ told' = "disconnected"

\* The reconnect timer has passed, and connectToBroker is called.
BeginAttempt == session = "offline" /\ session' = "attempting" /\ UNCHANGED told

AttemptFailed == session = "attempting" /\ session' = "offline" /\ UNCHANGED told

\* connectToBroker returns true: mqttConnectedInternal broadcasts onConnected.
SessionOpened ==
    session = "attempting" /\ session' = "online" /\ told' = "connected"

\* mqttClientUq->loop() will return false, whatever the reason.
SessionLost == session = "online" /\ session' = "lost" /\ UNCHANGED told

SessionNext ==
    NoticeLoss \/ BeginAttempt \/ AttemptFailed \/ SessionOpened \/ SessionLost

SessionSafety == SessionInit /\ [][SessionNext]_sessionVars

\* A loss is noticed in the end, and an attempt ends one way or the other; that
\* the timer passes and Wi-Fi comes up is not promised.
SessionSpec ==
    /\ SessionSafety
    /\ WF_sessionVars(NoticeLoss) /\ WF_sessionVars(AttemptFailed \/ SessionOpened)
=============================================================================
