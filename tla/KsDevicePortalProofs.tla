------------------------ MODULE KsDevicePortalProofs ------------------------
(***************************************************************************)
(* The configuration of a device and the report of its updates, for any    *)
(* providers, values and number of resets.                                 *)
(***************************************************************************)
EXTENDS KsDevicePortal, TLAPS

\* What the indicator, or what has been read of it, says of a life that ended
\* with a restart.
Noted(indicator) == IF indicator = "none" THEN "NO_OTA" ELSE indicator

\* The indicator file exists from the end of an update to the next start, unless
\* it could not be removed, and what is left of it after any other reset is not
\* reported.
OtaInv ==
    /\ OtaTypeOK
    /\ ReportIsTrue
    /\ resetReason = "other" => endedBy = "NO_OTA"
    /\ activity = "starting" =>
          /\ otaBootType = "NO_OTA" /\ ~misled
          /\ resetReason = "software" /\ ~leftover => endedBy = Noted(otaIndicator)
    /\ activity = "clearing" =>
          /\ misled = leftover
          /\ resetReason = "software" /\ ~misled => otaBootType = endedBy
    /\ (Up /\ activity # "restarting") => otaIndicator = "none" \/ leftover
    /\ (activity = "restarting" /\ ~leftover) => finishing = Noted(otaIndicator)
    /\ activity \notin {"noting", "restarting"} => finishing = "NO_OTA"
    /\ activity = "noting" => finishing # "NO_OTA"

\* What there is of configuration in RAM agrees with the files.
ConfigInv ==
    /\ stored \in [Parameter -> Content] /\ active \in [Parameter -> Content]
    /\ params \in [Listed -> Text \cup {Empty, Cleared}]
    /\ body \in [Parameter -> Text \cup {Empty, NotSent}]
    /\ todo \subseteq Provider /\ (todo # {} => activity = "saving" /\ app = "config")
    /\ app \in {"none", "main", "config"} /\ nextApp \in {"main", "config"}
    /\ breakApp \in BOOLEAN
    /\ LoadedMatchesStored
    /\ RunsWithStored

DeviceInv == OtaInv /\ ConfigInv

\* The actions of the configuration: what they do to the update's state.
ConfigStep ==
    \/ Rotate \/ PortalLoop \/ PortalLoopReturns \/ EndApplication
    \/ Command \/ Save \/ EraseEnds

\* The credentials are in a file of their own.
LEMMA ListedParameters ==
    /\ Parameter = Listed \cup Credentials
    /\ Listed \cap Credentials = {}
  BY PortalAssumption DEF Parameter, Listed, File

LEMMA InitInv == Init => DeviceInv
<1> SUFFICES ASSUME Init
             PROVE  DeviceInv
  OBVIOUS
<1>1. OtaInv
  <2>1. OtaTypeOK
    <3>1. resets \in 0..MaxResets
      BY ResetAssumption DEF Init, OtaInit
    <3>2. leftover \in BOOLEAN /\ misled \in BOOLEAN
      BY DEF Init, OtaInit
    <3> QED
      BY <3>1, <3>2 DEF Init, OtaInit, OtaTypeOK, Activity, OTAType
  <2>2. ~leftover /\ ~misled
    BY DEF Init, OtaInit
  <2>3. /\ activity = "starting" /\ otaBootType = "NO_OTA" /\ resetReason = "other"
        /\ endedBy = "NO_OTA" /\ finishing = "NO_OTA"
    BY DEF Init, OtaInit
  <2> QED
    BY <2>1, <2>2, <2>3 DEF OtaInv, ReportIsTrue, Up
<1>2. ConfigInv
  <2>1. /\ stored \in [Parameter -> Content] /\ active \in [Parameter -> Content]
        /\ params \in [Listed -> Text \cup {Empty, Cleared}]
        /\ body \in [Parameter -> Text \cup {Empty, NotSent}]
    BY DEF Init, NoParams, NoRequest, Nothing, Content
  <2>2. LoadedMatchesStored
    BY DEF Init, NoParams, LoadedMatchesStored
  <2> QED
    BY <2>1, <2>2 DEF Init, ConfigInv, RunsWithStored
<1> QED
  BY <1>1, <1>2 DEF DeviceInv

\* No command touches the update's state; those that move the processor only do
\* so within a life.
LEMMA ConfigStepActivity ==
    ASSUME ConfigStep
    PROVE  /\ UNCHANGED otaRest
           /\ \/ activity' = activity
              \/ /\ activity \in {"idle", "serving", "saving", "erasing"}
                 /\ activity' \in {"idle", "serving", "saving", "erasing"}
              \/ /\ activity \in {"serving", "erasing"}
                 /\ activity' = "restarting"
<1> USE DEF otaRest, history
<1>1. CASE Rotate
  BY <1>1 DEF Rotate, SpawnMain, SpawnConfig, otaVars
<1>2. CASE PortalLoop \/ PortalLoopReturns \/ EndApplication
  BY <1>2 DEF PortalLoop, PortalLoopReturns, EndApplication, EnterLoop, LeaveLoop,
              Proceed, otaVars
<1>3. CASE Command
  BY <1>3 DEF Command, GetDeviceParams, GoToConfigMode, RebootCommand, FactoryReset,
              SaveConfig, EraseFile, Proceed, otaVars
<1>4. CASE Save \/ EraseEnds
  BY <1>4 DEF Save, SaveParams, SaveConfigEnds, EraseEnds, Proceed
<1> QED
  BY <1>1, <1>2, <1>3, <1>4 DEF ConfigStep

LEMMA ConfigStepKeepsOta ==
    ASSUME OtaInv, ConfigStep
    PROVE  OtaInv'
  BY ConfigStepActivity
  DEF OtaInv, OtaTypeOK, ReportIsTrue, ReportedUpdate, Up, Activity, OTAType, Noted,
      otaRest, history

LEMMA OtaStepKeepsOta ==
    ASSUME OtaInv, Boot \/ Upload \/ Restart \/ UnexpectedReset
    PROVE  OtaInv'
<1> USE DEF OtaInv, OtaTypeOK, ReportIsTrue, ReportedUpdate, Up, Activity, OTAType,
            Noted, Proceed, history
<1>1. CASE Boot
  BY <1>1 DEF Boot, ReadIndicator, ClearIndicator
<1>2. CASE BeginUpload \/ WriteFails \/ PostWithoutFile
  BY <1>2 DEF BeginUpload, WriteFails, PostWithoutFile
<1>3. CASE ArduinoOtaEnds \/ ArduinoOtaFails
  BY <1>3 DEF ArduinoOtaEnds, ArduinoOtaFails
<1>4. CASE CompleteUpload \/ AbortUpload \/ OtaFinish
  BY <1>4 DEF CompleteUpload, AbortUpload, OtaFinish
<1>5. CASE SaveOtaBootIndicator
  BY <1>5 DEF SaveOtaBootIndicator
<1>6. CASE Restart
  BY <1>6 DEF Restart, Reset
<1>7. CASE UnexpectedReset
  <2>1. OtaTypeOK'
    <3>1. resets' \in 0..MaxResets
      BY <1>7, ResetAssumption DEF UnexpectedReset
    <3>2. leftover' \in BOOLEAN /\ misled' \in BOOLEAN
      BY <1>7 DEF UnexpectedReset, Reset
    <3>3. otaIndicator' \in {otaIndicator, "empty"}
      BY <1>7 DEF UnexpectedReset
    <3> QED
      BY <1>7, <3>1, <3>2, <3>3 DEF UnexpectedReset, Reset
  <2>2. activity' = "starting" /\ otaBootType' = "NO_OTA" /\ finishing' = "NO_OTA"
    BY <1>7 DEF UnexpectedReset, Reset
  <2>3. resetReason' = "other" /\ endedBy' = "NO_OTA" /\ ~misled'
    BY <1>7 DEF UnexpectedReset, Reset
  <2> QED
    BY <2>1, <2>2, <2>3
<1> QED
  BY <1>1, <1>2, <1>3, <1>4, <1>5, <1>6, <1>7 DEF Upload, EndUpload

LEMMA OtaStepKeepsConfig ==
    ASSUME ConfigInv,
           (Boot \/ Upload) /\ UNCHANGED portalVars
    PROVE  ConfigInv'
<1>1. activity # "saving" /\ activity' # "saving" /\ ~Ending /\ (activity' = "restarting" => activity = "noting")
  BY DEF Boot, Upload, EndUpload, ReadIndicator, ClearIndicator, BeginUpload, WriteFails,
         PostWithoutFile, ArduinoOtaEnds, ArduinoOtaFails, CompleteUpload, AbortUpload,
         OtaFinish, SaveOtaBootIndicator, Proceed, Ending
<1> QED
  BY <1>1 DEF ConfigInv, LoadedMatchesStored, RunsWithStored, Ending, portalVars,
              configVars, appVars, getParam

LEMMA ResetKeepsConfig ==
    ASSUME ConfigInv, LoseRam, activity' = "starting"
    PROVE  ConfigInv'
  BY DEF LoseRam, ConfigInv, LoadedMatchesStored, RunsWithStored, Ending, NoParams,
         NoRequest, Nothing, Content

\* Writing a file changes its parameters to the content and no others.
LEMMA WriteFile ==
    ASSUME NEW f, NEW content, Write(f, content),
           stored \in [Parameter -> Content],
           \A id \in Parameter \cap f : content[id] \in Content
    PROVE  /\ stored' \in [Parameter -> Content]
           /\ \A id \in Parameter : stored'[id] # stored[id] =>
                 id \in f /\ stored'[id] = content[id]
  BY DEF Write

\* What saveCredentials writes.
LEMMA SavedCredentials ==
    ASSUME ConfigInv, NEW sent \in Request, SaveConfig(sent)
    PROVE  /\ stored' \in [Parameter -> Content]
           /\ \A id \in Parameter : stored'[id] # stored[id] => id \in Credentials
<1> DEFINE content == [id \in Credentials |-> IF sent[id] = NotSent THEN Empty ELSE sent[id]]
<1>1. Write(Credentials, content)
  BY DEF SaveConfig
<1>2. \A id \in Parameter \cap Credentials : content[id] \in Content
  BY PortalAssumption DEF Content
<1>3. stored \in [Parameter -> Content]
  BY DEF ConfigInv
<1> HIDE DEF content
<1> QED
  BY <1>1, <1>2, <1>3, WriteFile

\* What saveParams writes: what has been sent and, of what has not, the list,
\* which is what the file holds.
LEMMA SavedParams ==
    ASSUME ConfigInv, NEW p \in Provider, SaveParams(p)
    PROVE  /\ stored' \in [Parameter -> Content]
           /\ \A id \in Parameter : stored'[id] # stored[id] =>
                 /\ id \in p
                 /\ \/ stored'[id] = body[id]
                    \/ stored[id] = Missing /\ stored'[id] = Empty
<1> DEFINE list == {id \in p : params[id] # Cleared}
<1>1. Write(list, Merged) /\ activity = "saving"
  BY DEF SaveParams
<1>2. ASSUME NEW id \in list
      PROVE  /\ id \in p
             /\ Merged[id] \in Content
             /\ Merged[id] \in {body[id], getParam(id, Empty)}
  <2>1. id \in p /\ id \in Listed /\ id \in Parameter /\ params[id] # Cleared
    BY ListedParameters DEF Listed
  <2>2. params[id] = getParam(id, Empty)
    BY <1>1, <2>1 DEF ConfigInv, LoadedMatchesStored, Ending
  <2>3. Merged[id] = IF body[id] # NotSent THEN body[id] ELSE params[id]
    BY <2>1 DEF Merged
  <2>4. body[id] \in Text \cup {Empty, NotSent} /\ params[id] \in Text \cup {Empty}
    BY <2>1 DEF ConfigInv
  <2> QED
    BY <2>1, <2>2, <2>3, <2>4 DEF Content
<1>3. stored \in [Parameter -> Content]
  BY DEF ConfigInv
<1> HIDE DEF list
<1>4. /\ stored' \in [Parameter -> Content]
      /\ \A id \in Parameter : stored'[id] # stored[id] => id \in list /\ stored'[id] = Merged[id]
  BY <1>1, <1>2, <1>3, WriteFile
<1>5. ASSUME NEW id \in Parameter, stored'[id] # stored[id]
      PROVE  /\ id \in p
             /\ \/ stored'[id] = body[id]
                \/ stored[id] = Missing /\ stored'[id] = Empty
  <2>1. id \in list /\ stored'[id] = Merged[id]
    BY <1>4, <1>5
  <2>2. id \in p /\ stored'[id] \in {body[id], getParam(id, Empty)}
    BY <1>2, <2>1
  <2> QED
    BY <2>2, <1>5 DEF getParam
<1> QED
  BY <1>4, <1>5

LEMMA SaveKeepsConfig ==
    ASSUME ConfigInv, Save
    PROVE  ConfigInv'
<1> USE DEF ConfigInv
<1>1. ASSUME NEW p \in Provider, SaveParams(p)
      PROVE  ConfigInv'
  <2>1. /\ activity = "saving" /\ activity' = "saving" /\ p \in todo
        /\ todo' = todo \ {p}
        /\ params' = [id \in Listed |-> IF id \in p THEN Cleared ELSE params[id]]
        /\ UNCHANGED <<body, app, nextApp, active, breakApp>>
    BY <1>1 DEF SaveParams, appVars
  <2>2. /\ stored' \in [Parameter -> Content]
        /\ \A id \in Parameter : stored'[id] # stored[id] => id \in p
    BY <1>1, SavedParams
  <2>3. params' \in [Listed -> Text \cup {Empty, Cleared}]
    BY <2>1
  <2>4. LoadedMatchesStored'
    <3>1. ASSUME NEW id \in Listed, id \notin p
          PROVE  stored'[id] = stored[id] /\ params'[id] = params[id]
      BY <2>1, <2>2, <3>1, ListedParameters
    <3>2. ASSUME NEW id \in Listed, id \in p
          PROVE  params'[id] = Cleared
      BY <2>1, <3>2
    <3> QED
      BY <2>1, <3>1, <3>2 DEF LoadedMatchesStored, Ending, getParam
  <2>5. RunsWithStored'
    BY <2>1 DEF RunsWithStored
  <2> QED
    BY <2>1, <2>2, <2>3, <2>4, <2>5
<1>2. CASE SaveConfigEnds
  BY <1>2
  DEF SaveConfigEnds, LoadedMatchesStored, RunsWithStored, Ending, NoRequest, getParam
<1> QED
  BY <1>1, <1>2 DEF Save

LEMMA CommandKeepsConfig ==
    ASSUME ConfigInv, Command
    PROVE  ConfigInv'
<1> USE DEF ConfigInv, LoadedMatchesStored, RunsWithStored, Ending, getParam
<1>1. CASE GetDeviceParams
  <2>1. /\ params' = [id \in Listed |-> getParam(id, Empty)]
        /\ UNCHANGED <<stored, body, todo, activity, app, nextApp, active, breakApp>>
    BY <1>1 DEF GetDeviceParams, Loaded, otaVars, appVars
  <2>2. \A id \in Listed : getParam(id, Empty) \in Text \cup {Empty}
    BY ListedParameters DEF Content
  <2>3. params' \in [Listed -> Text \cup {Empty, Cleared}]
    BY <2>1, <2>2
  <2>4. LoadedMatchesStored'
    BY <2>1
  <2> QED
    BY <2>1, <2>3, <2>4
<1>2. CASE GoToConfigMode \/ RebootCommand \/ FactoryReset
  BY <1>2 DEF GoToConfigMode, RebootCommand, FactoryReset, Proceed, otaVars, portalVars,
              configVars, appVars
<1>3. ASSUME NEW sent \in Request, SaveConfig(sent)
      PROVE  ConfigInv'
  <2>1. /\ activity = "serving" /\ activity' = "saving" /\ body' = sent
        /\ todo' = (IF app = "config" THEN Provider ELSE {})
        /\ UNCHANGED <<params, app, nextApp, active, breakApp>>
    BY <1>3 DEF SaveConfig, Proceed, appVars
  <2>2. /\ stored' \in [Parameter -> Content]
        /\ \A id \in Parameter : stored'[id] # stored[id] => id \in Credentials
    BY <1>3, SavedCredentials
  <2>3. body' \in [Parameter -> Text \cup {Empty, NotSent}]
    BY <2>1, PortalAssumption
  <2>4. LoadedMatchesStored'
    BY <2>1, <2>2, ListedParameters
  <2> QED
    BY <2>1, <2>2, <2>3, <2>4
<1>4. ASSUME NEW f \in File, EraseFile(f)
      PROVE  ConfigInv'
  BY <1>4 DEF EraseFile, otaVars, appVars, Content
<1> QED
  BY <1>1, <1>2, <1>3, <1>4 DEF Command

LEMMA ConfigStepKeepsConfig ==
    ASSUME ConfigInv, ConfigStep
    PROVE  ConfigInv'
<1> USE DEF ConfigInv, LoadedMatchesStored, RunsWithStored, Ending, getParam
<1>1. CASE Rotate
  BY <1>1 DEF Rotate, SpawnMain, SpawnConfig, otaVars, configVars
<1>2. CASE PortalLoop \/ PortalLoopReturns
  BY <1>2 DEF PortalLoop, PortalLoopReturns, EnterLoop, LeaveLoop, Proceed, portalVars,
              configVars, appVars
<1>3. CASE EndApplication
  BY <1>3 DEF EndApplication, otaVars, NoParams, Nothing, Content
<1>4. CASE EraseEnds
  BY <1>4 DEF EraseEnds, Proceed, portalVars, configVars, appVars
<1> QED
  BY <1>1, <1>2, <1>3, <1>4, CommandKeepsConfig, SaveKeepsConfig DEF ConfigStep

LEMMA StepInv == DeviceInv /\ [Next]_vars => DeviceInv'
<1> SUFFICES ASSUME DeviceInv, [Next]_vars PROVE DeviceInv'
  OBVIOUS
<1> USE DEF DeviceInv
<1>1. CASE (Boot \/ Upload) /\ UNCHANGED portalVars
  BY <1>1, OtaStepKeepsOta, OtaStepKeepsConfig
<1>2. CASE ConfigStep
  BY <1>2, ConfigStepKeepsOta, ConfigStepKeepsConfig
<1>3. CASE Resets
  <2>1. activity' = "starting" /\ LoseRam /\ (Restart \/ UnexpectedReset)
    BY <1>3 DEF Resets, Restart, UnexpectedReset, Reset
  <2> QED
    BY <2>1, OtaStepKeepsOta, ResetKeepsConfig
<1>4. CASE UNCHANGED vars
  BY <1>4 DEF vars, otaVars, portalVars, configVars, appVars, OtaInv, OtaTypeOK,
              ReportIsTrue, ReportedUpdate, Up, ConfigInv, LoadedMatchesStored,
              RunsWithStored, Ending, getParam
<1> QED
  BY <1>1, <1>2, <1>3, <1>4 DEF Next, ConfigStep

\* The inductive invariant of the device: the state of an update and the
\* configuration in RAM agree with the files at every point.
THEOREM Invariance == Spec => []DeviceInv
  BY InitInv, StepInv, PTL DEF Spec

\* Every variable of the device has its type.
THEOREM DeviceTypeCorrect == Spec => []TypeOK
<1>1. DeviceInv => TypeOK
  BY DEF DeviceInv, OtaInv, ConfigInv, TypeOK
<1> QED
  BY <1>1, Invariance, PTL

\* A boot reports an update exactly when the life before it ended with the
\* restart after that update (getResetReason).
THEOREM ReportsAreTrue == Spec => []ReportIsTrue
<1>1. DeviceInv => ReportIsTrue
  BY DEF DeviceInv, OtaInv
<1> QED
  BY <1>1, Invariance, PTL

\* Parameter lists in RAM are never out of date (handle_getDeviceParams,
\* saveParams), and a main application runs with the stored configuration or is
\* about to end.
THEOREM CopiesNeverStale == Spec => []CopiesMatchStored
<1>1. DeviceInv => CopiesMatchStored
  BY DEF DeviceInv, ConfigInv, CopiesMatchStored
<1> QED
  BY <1>1, Invariance, PTL

\* A parameter of a provider only changes to what a client has sent for it, from
\* missing to empty along with others of its file, or is erased (saveConfig,
\* saveParams, triggerFactoryReset).
THEOREM StoredOnlyFromClients == Spec => OnlySentValuesAreStored
<1> DEFINE Changed(id) == \/ activity = "saving" /\ stored'[id] = body[id]
                          \/ activity = "saving" /\ stored[id] = Missing /\ stored'[id] = Empty
                          \/ activity = "erasing" /\ stored'[id] = Missing
           Allowed == \A id \in Listed : stored'[id] # stored[id] => Changed(id)
<1>1. DeviceInv /\ [Next]_vars => [Allowed]_vars
  <2> SUFFICES ASSUME DeviceInv, Next, NEW id \in Listed, stored'[id] # stored[id]
               PROVE  Changed(id)
    OBVIOUS
  <2> USE DEF DeviceInv
  <2>1. CASE Rotate \/ PortalLoop \/ PortalLoopReturns \/ EndApplication \/ EraseEnds
    BY <2>1 DEF Rotate, SpawnMain, SpawnConfig, PortalLoop, PortalLoopReturns,
                EndApplication, EraseEnds, portalVars, configVars
  <2>2. CASE (Boot \/ Upload) /\ UNCHANGED portalVars
    BY <2>2 DEF portalVars, configVars
  <2>3. CASE Resets
    BY <2>3 DEF Resets, LoseRam
  <2>4. CASE Save
    <3>1. PICK p \in Provider : SaveParams(p)
      BY <2>4 DEF Save, SaveConfigEnds
    <3>2. activity = "saving"
      BY <3>1 DEF SaveParams
    <3> QED
      BY <3>1, <3>2, SavedParams, ListedParameters
  <2>5. CASE Command
    <3>1. CASE GetDeviceParams \/ GoToConfigMode \/ RebootCommand \/ FactoryReset
      BY <3>1 DEF GetDeviceParams, GoToConfigMode, RebootCommand, FactoryReset,
                  portalVars, configVars
    <3>2. ASSUME NEW sent \in Request, SaveConfig(sent)
          PROVE  FALSE
      BY <3>2, SavedCredentials, ListedParameters
    <3>3. ASSUME NEW f \in File, EraseFile(f)
          PROVE  Changed(id)
      BY <3>3, ListedParameters DEF EraseFile
    <3> QED
      BY <2>5, <3>1, <3>2, <3>3 DEF Command
  <2> QED
    BY <2>1, <2>2, <2>3, <2>4, <2>5 DEF Next
<1> QED
  BY <1>1, Invariance, PTL DEF Spec, OnlySentValuesAreStored
=============================================================================
