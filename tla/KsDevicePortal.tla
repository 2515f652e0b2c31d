--------------------------- MODULE KsDevicePortal ---------------------------
(***************************************************************************)
(* Configuring a device: the portal's commands, the configuration          *)
(* providers, the files they write, and the two applications of a device,  *)
(* the main one, which needs the files, and the configurator, between      *)
(* which the rotator alternates.  Resets may fall anywhere.                *)
(***************************************************************************)
EXTENDS KsOtaUpdate

CONSTANTS
    Provider,          \* the configuration providers of the configurator, each
                       \* given by the parameters of its file
    Text,              \* what a parameter may hold besides the empty text
    PortText,          \* the texts from_chars makes a port of
    FingerprintText,   \* the texts ksCertFingerprintHolder::setup accepts
    Request            \* the requests a client sends with saveConfig

Empty   == ""
Missing == "missing"             \* a parameter that is not in its file
NotSent == "not sent"            \* a parameter the request does not contain
Cleared == "cleared"             \* a parameter list in RAM that has been emptied

Credentials   == {"credentials"} \* the file ksf.wificred; its texts as one
MqttParameter == {"broker", "port", "SSLFingerprint"}
DefaultPort   == "1883"

File      == Provider \cup {Credentials}
Listed    == UNION Provider      \* the parameters of the providers
Parameter == UNION File
Content   == Text \cup {Empty, Missing}
NoRequest == [id \in Parameter |-> NotSent]

\* Files share no parameters.  The other parameters of MQTT are taken as they are.
ASSUME PortalAssumption ==
    /\ MqttParameter \in Provider /\ Credentials \notin Provider
    /\ \A f, g \in File : f # g => f \cap g = {}
    /\ PortText \subseteq Text /\ FingerprintText \subseteq Text
    /\ {Empty, Missing, NotSent, Cleared} \cap Text = {}
    /\ Request \subseteq [Parameter -> Text \cup {Empty, NotSent}]

VARIABLES
    stored,      \* what the files hold of every parameter
    params,      \* the parameter lists of the providers, in RAM
    app,         \* the running application: "main", "config" or "none"
    nextApp,     \* the rotator's next class
    active,      \* configuration the main application has been set up with
    breakApp,    \* bitflags.breakApp
    body,        \* parameters of the saveConfig being handled
    todo         \* providers that saveConfig has still to save

configVars  == <<stored, params, body, todo>>
appVars     == <<app, nextApp, active, breakApp>>
portalVars  == <<configVars, appVars>>
vars        == <<otaVars, portalVars>>

\* The part of the OTA state that no configuration command touches.
otaRest == <<otaIndicator, otaBootType, resetReason, update, finishing, history>>

Nothing  == [id \in Parameter |-> Missing]
NoParams == [id \in Listed |-> Cleared]

\* The default stands in for a parameter that is missing, not for an empty one.
getParam(id, default) == IF stored[id] = Missing THEN default ELSE stored[id]

Init ==
    /\ OtaInit
    /\ stored = Nothing
    /\ params = NoParams /\ body = NoRequest /\ todo = {}
    /\ app = "none" /\ nextApp = "main" /\ breakApp = FALSE
    /\ active = Nothing

-----------------------------------------------------------------------------
(* The rotator and the two applications. *)

\* ksWifiConnector::init.
WifiStarts == getParam("credentials", Empty) # Empty

\* setupConnection: without a fingerprint the connection is a plain one.
setupConnection == getParam("SSLFingerprint", Empty) \in FingerprintText \cup {Empty}

\* ksMqttConnector::init: there is a client if the broker is set, the port can be
\* parsed and a fingerprint, where there is one, is valid.
setupMqttConnector ==
    /\ getParam("broker", Empty) # Empty
    /\ getParam("port", DefaultPort) \in PortText
    /\ setupConnection

\* An application is thrown away when one of its components fails in init.
SpawnMain ==
    /\ activity = "idle" /\ app = "none" /\ nextApp = "main"
    /\ nextApp' = "config"
    /\ IF WifiStarts /\ setupMqttConnector
       THEN app' = "main" /\ active' = stored
       ELSE UNCHANGED <<app, active>>
    /\ UNCHANGED <<otaVars, configVars, breakApp>>

SpawnConfig ==
    /\ activity = "idle" /\ app = "none" /\ nextApp = "config"
    /\ nextApp' = "main" /\ app' = "config"
    /\ UNCHANGED <<otaVars, configVars, active, breakApp>>

\* The application is destroyed, because the portal has been asked to break or
\* because another component has failed or timed out.
EndApplication ==
    /\ activity = "idle" /\ app # "none"
    /\ app' = "none" /\ breakApp' = FALSE
    /\ params' = NoParams
    /\ active' = Nothing
    /\ UNCHANGED <<otaVars, stored, body, todo, nextApp>>

\* Mutant of PortalLoop: the request is not looked at.
PortalLoopAlways ==
    /\ app # "none"
    /\ EnterLoop
    /\ UNCHANGED portalVars

\* The portal's loop returns false at its top when a break has been requested.
PortalLoop ==
    /\ app # "none" /\ ~breakApp
    /\ EnterLoop
    /\ UNCHANGED portalVars

PortalLoopReturns == LeaveLoop /\ UNCHANGED portalVars

-----------------------------------------------------------------------------
(* Commands.  One loop of the WebSocket server may handle several, from     *)
(* different clients.                                                       *)

\* readParams and addNewParamWithConfigDefault, whose default is the empty text.
Loaded == [id \in Listed |-> getParam(id, Empty)]

\* Only the configurator's access point is shown the parameters, read anew.
GetDeviceParams ==
    /\ activity = "serving" /\ app = "config"
    /\ params' = Loaded
    /\ UNCHANGED <<otaVars, stored, body, todo, appVars>>

\* Opening a file for writing may fail, which goes unnoticed.  LittleFS commits
\* a file as a whole when it is closed.
Write(f, content) ==
    \/ stored' = [id \in Parameter |-> IF id \in f THEN content[id] ELSE stored[id]]
    \/ UNCHANGED stored

\* saveConfig up to saveCredentials; credentials that are not sent are stored
\* as empty.  Only the configurator has providers.
SaveConfig(sent) ==
    /\ Proceed("serving", "saving")
    /\ body' = sent
    /\ Write(Credentials, [id \in Credentials |->
                             IF sent[id] = NotSent THEN Empty ELSE sent[id]])
    /\ todo' = IF app = "config" THEN Provider ELSE {}
    /\ UNCHANGED <<otaRest, params, appVars>>

\* What the loop over the parameter lists makes of them.
Merged == [id \in Listed |-> IF body[id] # NotSent THEN body[id] ELSE params[id]]

\* Mutant of SaveParams: the list is not cleared after its values have been
\* moved out of it.
SaveParamsKeepingList(p) ==
    /\ activity = "saving" /\ p \in todo
    /\ todo' = todo \ {p}
    /\ Write({id \in p : params[id] # Cleared}, Merged)
    /\ params' = [id \in Listed |->
                    IF id \in p /\ params[id] # Cleared THEN Empty ELSE params[id]]
    /\ UNCHANGED <<activity, otaRest, body, appVars>>

\* The loop of saveConfig for one provider, saveParams included: what has been
\* sent replaces what is in the list, and the list is stored and cleared.
SaveParams(p) ==
    /\ activity = "saving" /\ p \in todo
    /\ todo' = todo \ {p}
    /\ Write({id \in p : params[id] # Cleared}, Merged)
    /\ params' = [id \in Listed |-> IF id \in p THEN Cleared ELSE params[id]]
    /\ UNCHANGED <<activity, otaRest, body, appVars>>

\* Mutant of SaveConfigEnds: the application is not asked to end.
SaveConfigEndsQuietly ==
    /\ activity = "saving" /\ todo = {}
    /\ activity' = "serving" /\ body' = NoRequest
    /\ UNCHANGED <<otaRest, stored, params, todo, appVars>>

SaveConfigEnds ==
    /\ activity = "saving" /\ todo = {}
    /\ activity' = "serving" /\ body' = NoRequest
    /\ breakApp' = TRUE
    /\ UNCHANGED <<otaRest, stored, params, todo, app, nextApp, active>>

GoToConfigMode ==
    /\ activity = "serving"
    /\ breakApp' = TRUE
    /\ UNCHANGED <<otaVars, configVars, app, nextApp, active>>

RebootCommand ==
    /\ Proceed("serving", "restarting")
    /\ UNCHANGED <<otaRest, portalVars>>

\* factoryReset, erase-config and erase-all-data: the files go one after the
\* other, and the device restarts, also when one could not be removed.
FactoryReset ==
    /\ Proceed("serving", "erasing")
    /\ UNCHANGED <<otaRest, portalVars>>

EraseFile(f) ==
    /\ activity = "erasing" /\ \E id \in f : stored[id] # Missing
    /\ stored' = [id \in Parameter |-> IF id \in f THEN Missing ELSE stored[id]]
    /\ UNCHANGED <<otaVars, params, body, todo, appVars>>

EraseEnds ==
    /\ Proceed("erasing", "restarting")
    /\ UNCHANGED <<otaRest, portalVars>>

-----------------------------------------------------------------------------
\* A reset ends the application with everything it has in RAM.
LoseRam ==
    /\ app' = "none" /\ nextApp' = "main" /\ breakApp' = FALSE
    /\ active' = Nothing
    /\ params' = NoParams /\ body' = NoRequest /\ todo' = {}
    /\ UNCHANGED stored

Resets == (Restart \/ UnexpectedReset) /\ LoseRam

Rotate == SpawnMain \/ SpawnConfig

Save == (\E p \in Provider : SaveParams(p)) \/ SaveConfigEnds

Command ==
    \/ GetDeviceParams \/ GoToConfigMode \/ RebootCommand \/ FactoryReset
    \/ \E sent \in Request : SaveConfig(sent)
    \/ \E f \in File : EraseFile(f)

Next ==
    \/ Boot /\ UNCHANGED portalVars
    \/ Rotate
    \/ PortalLoop
    \/ PortalLoopReturns
    \/ EndApplication
    \/ Command
    \/ Save
    \/ EraseEnds
    \/ Upload /\ UNCHANGED portalVars
    \/ Resets

\* The processor goes on with whatever it is doing; requests come or do not, an
\* upload ends or is given up, and one loop of the portal handles no more than
\* one request of every client before it returns.
Fairness ==
    /\ WF_vars(Boot /\ UNCHANGED portalVars)
    /\ WF_vars(Rotate)
    /\ SF_vars(PortalLoopReturns)
    /\ WF_vars(EndUpload /\ UNCHANGED portalVars)
    /\ WF_vars(breakApp /\ EndApplication)
    /\ WF_vars(Save)
    /\ WF_vars(EraseEnds)
    /\ WF_vars(Restart /\ LoseRam)

Spec == Init /\ [][Next]_vars
FairSpec == Spec /\ Fairness

-----------------------------------------------------------------------------
(* Properties. *)

TypeOK ==
    /\ OtaTypeOK
    /\ stored \in [Parameter -> Content] /\ active \in [Parameter -> Content]
    /\ params \in [Listed -> Text \cup {Empty, Cleared}]
    /\ body \in [Parameter -> Text \cup {Empty, NotSent}]
    /\ todo \subseteq Provider /\ (todo # {} => activity = "saving" /\ app = "config")
    /\ app \in {"none", "main", "config"} /\ nextApp \in {"main", "config"}
    /\ breakApp \in BOOLEAN

\* The device is on its way to a restart.
Ending == activity \in {"erasing", "restarting"}

\* A parameter list in RAM never differs from the file it was read from, so that
\* what a save stores of the parameters a client has left out is what the file
\* holds, however many clients read and save (handle_getDeviceParams,
\* ksMqttConfigProvider::saveParams).
LoadedMatchesStored ==
    ~Ending => \A id \in Listed : params[id] \in {Cleared, getParam(id, Empty)}

\* A parameter of a provider only changes to what a client has sent for it, from
\* missing to empty when others of its file are saved, or is erased by a factory
\* reset (saveConfig, saveParams).
OnlySentValuesAreStored ==
    [][\A id \in Listed :
          stored'[id] # stored[id] =>
              \/ activity = "saving" /\ stored'[id] = body[id]
              \/ activity = "saving" /\ stored[id] = Missing /\ stored'[id] = Empty
              \/ activity = "erasing" /\ stored'[id] = Missing]_vars

\* A main application never goes on with a configuration that is not the stored
\* one: it runs with the files as they are or is about to end.
RunsWithStored ==
    app = "main" => active = stored \/ breakApp \/ Ending \/ activity = "saving"

\* So no copy of the configuration in RAM is ever out of date unnoticed.
CopiesMatchStored == LoadedMatchesStored /\ RunsWithStored

\* Files that no component of the main application objects to in its init.
Configured == WifiStarts /\ setupMqttConnector

\* mqtt-led README, "Save Configuration: Click save - the device will reboot and
\* connect": once a save has ended, the main application comes to run with the
\* files as they are then, also when power fails on the way.  That needs files its
\* components can be initialised with; with others the device comes back to the
\* configurator, where they can be corrected.  A port left empty is among these
\* others, although the README has it default to 1883 (getParam).
SaveTakesEffect ==
    (breakApp /\ app = "config") ~>
        \/ app = "main" /\ active = stored
        \/ app = "config" /\ ~breakApp /\ ~Configured
=============================================================================
