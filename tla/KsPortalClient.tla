--------------------------- MODULE KsPortalClient ---------------------------
(***************************************************************************)
(* The portal's web page and the device behind it: browser tabs load the   *)
(* page, open a WebSocket session that the device admits by a cookie, send *)
(* commands over it and show the configuration they are answered with.     *)
(* Either side notices the loss of a session late, the page opens the next *)
(* one itself, and the device may end its application, restart or come     *)
(* back with a new firmware at any time.  What a saved configuration is    *)
(* made of is KsDevicePortal's; here it is the credentials and one value   *)
(* for all the parameters of the providers.                                *)
(***************************************************************************)
EXTENDS Naturals, Sequences

CONSTANTS
    Tab,            \* browser tabs, of one browser
    MaxFirmware,    \* firmwares, numbered, each with its page and its auth token
    Value,          \* what users enter into the form
    Usable,         \* values of which the main application's components can be
                    \* made
    None,           \* no answer, no tab
    NotConfigMode,  \* the answer of a device that is not in configuration mode
    IdWidth,        \* request ids that are told apart
    MaxUnhandled,   \* bound: messages left to handle on a tab's closed sessions
    MaxDisturbances \* bound: things that users, networks and devices do

\* The files, and what a form shows: credentials and parameters.
Configuration == [credentials : Value \cup {""}, params : Value \cup {""}]
Unconfigured  == [credentials |-> "", params |-> ""]

\* What getDeviceParams is answered with.
Answer == Configuration \cup {NotConfigMode}

ASSUME ClientAssumption ==
    /\ MaxFirmware \in Nat \ {0}
    /\ IdWidth \in Nat /\ IdWidth > 1 /\ MaxUnhandled \in Nat \ {0}
    /\ MaxDisturbances \in Nat

ASSUME ConfigurationAssumption ==
    /\ Usable \subseteq Value /\ "" \notin Value
    /\ NotConfigMode \notin Configuration /\ None \notin Answer \cup Tab

VARIABLES
    (* The browser. *)
    cookie,         \* whose token the WSA cookie holds
    cookieBy,       \* history: the tab whose page load has set it
    page,           \* the firmware whose page the tab shows
    state,          \* of its WSClient: "online" while offlineMode is null, and
                    \* "loading" while there is no page
    lastRequestId,
    pending,        \* requestPromises: ids and what has been asked for
    shown,          \* deviceParams
    (* Sessions. *)
    session,        \* the device has the session the tab has opened last
    toDevice,       \* messages on it to the device
    toTab,          \* messages on it to the tab
    late,           \* messages on sessions that the tab has closed before
    (* The device. *)
    up,             \* an application with a portal is running
    firmware,
    app,            \* "main" or "config"
    breakApp,       \* the portal has been asked to end the application
    stored,         \* the configuration in the files
    paramsRead,     \* the providers' parameter lists hold what was read
    disturbances    \* how many there have been

tabVars     == <<page, state, lastRequestId, pending, shown>>
browserVars == <<cookie, cookieBy, tabVars>>
sessionVars == <<session, toDevice, toTab, late>>
deviceVars  == <<up, firmware, app, breakApp, stored, paramsRead>>
vars        == <<browserVars, sessionVars, deviceVars, disturbances>>

Params == IF app = "config" THEN stored ELSE NotConfigMode

Loading == "loading"
Offline == "offline"
Online  == "online"
Asked   == {"getIdentity", "getDeviceParams"}
Request == [id : 0..IdWidth - 1, command : Asked \cup {"goToConfigMode"}]
Command == Request \cup [command : {"saveConfig"}, value : Value]
                   \cup [command : {"factoryReset"}]
Reply   == [id : 0..IdWidth - 1, answers : Asked, to : Tab, params : Answer \cup {None}]

\* The types; a tab that is online has its WebSocket open, and neither side keeps
\* messages of a session that it does not have.
ClientTypeOK ==
    /\ cookie \in 0..MaxFirmware /\ cookieBy \in Tab \cup {None}
    /\ page \in [Tab -> 0..MaxFirmware] /\ state \in [Tab -> {Loading, Offline, Online}]
    /\ lastRequestId \in [Tab -> 0..IdWidth - 1]
    /\ pending \in [Tab -> SUBSET Request] /\ shown \in [Tab -> Answer \cup {None}]
    /\ session \in [Tab -> BOOLEAN]
    /\ \A t \in Tab :
         /\ \A i \in DOMAIN toDevice[t] : toDevice[t][i] \in Command
         /\ \A i \in DOMAIN late[t] : late[t][i] \in Command
         /\ \A i \in DOMAIN toTab[t] : toTab[t][i] \in Reply
         /\ state[t] # Online => ~session[t] /\ toTab[t] = <<>> /\ pending[t] = {}
         /\ ~session[t] => toDevice[t] = <<>>
    /\ up \in BOOLEAN /\ firmware \in 1..MaxFirmware /\ app \in {"main", "config"}
    /\ breakApp \in BOOLEAN /\ paramsRead \in BOOLEAN /\ stored \in Configuration
    /\ disturbances \in 0..MaxDisturbances
    /\ ~up => \A t \in Tab : ~session[t] /\ late[t] = <<>>

Init ==
    /\ cookie = 0 /\ cookieBy = None
    /\ page = [t \in Tab |-> 0] /\ state = [t \in Tab |-> Loading]
    /\ lastRequestId = [t \in Tab |-> 0]
    /\ pending = [t \in Tab |-> {}] /\ shown = [t \in Tab |-> None]
    /\ session = [t \in Tab |-> FALSE] /\ toDevice = [t \in Tab |-> <<>>]
    /\ toTab = [t \in Tab |-> <<>>] /\ late = [t \in Tab |-> <<>>]
    /\ up = TRUE /\ firmware = 1 /\ app = "config"
    /\ breakApp = FALSE /\ stored = Unconfigured /\ paramsRead = FALSE
    /\ disturbances = 0

-----------------------------------------------------------------------------
(* The tab's session. *)

NextId(id) == (id + 1) % IdWidth

\* Mutant of TabCloses: the promises are kept for the next session.
TabClosesKeeping(t) ==
    /\ state' = [state EXCEPT ![t] = Offline]
    /\ toTab' = [toTab EXCEPT ![t] = <<>>]
    /\ UNCHANGED pending

\* The tab has no open WebSocket any more, and no promises.
TabCloses(t) ==
    /\ state' = [state EXCEPT ![t] = Offline]
    /\ pending' = [pending EXCEPT ![t] = {}]
    /\ toTab' = [toTab EXCEPT ![t] = <<>>]

\* What has an effect that outlasts the session it is sent on: all but getIdentity,
\* which a session begins with.
Lasting(sent) ==
    IF sent # <<>> /\ Head(sent).command = "getIdentity" THEN Tail(sent) ELSE sent

\* The device handles what has been sent before the close, or it never arrives.
SessionCloses(t, sent) ==
    /\ session' = [session EXCEPT ![t] = FALSE]
    /\ toDevice' = [toDevice EXCEPT ![t] = <<>>]
    /\ late' \in {[late EXCEPT ![t] = @ \o Lasting(sent)], late}
    /\ Len(late'[t]) <= MaxUnhandled

\* Mutant of CookieFor: the cookie is not sent with the answer 304.
CookieWithPage(t) == IF page[t] = firmware THEN cookie ELSE firmware

\* onRequest_index sends the cookie whether or not the cached page is still good.
CookieFor(t) == firmware

\* The page is loaded, or loaded again; if the firmware's page has the MD5 of the
\* cached one, it comes from the cache.  It starts out offline.
LoadPage(t) ==
    /\ state[t] = Loading /\ up
    /\ cookie' = CookieFor(t) /\ cookieBy' = t
    /\ page' = [page EXCEPT ![t] = firmware]
    /\ state' = [state EXCEPT ![t] = Offline]
    /\ lastRequestId' = [lastRequestId EXCEPT ![t] = 0]
    /\ shown' = [shown EXCEPT ![t] = None]
    /\ UNCHANGED <<pending, sessionVars, deviceVars>>

Connecting(t) == state[t] = Offline /\ up

\* Mutant of Admitted: the token does not depend on the page.
AdmittedByPassword == cookie # 0

\* onValidateHttpHeader: the cookie holds requiredAuthToken, made of the password
\* and the MD5 of the page.
Admitted == cookie = firmware

\* Mutant of BecomeOnline: the configuration is only read when the page is new.
BecomeOnlineQuietly(t) ==
    LET id == NextId(lastRequestId[t])
        requests == IF shown[t] = None
                    THEN <<[id |-> id, command |-> "getIdentity"],
                           [id |-> NextId(id), command |-> "getDeviceParams"]>>
                    ELSE <<[id |-> id, command |-> "getIdentity"]>>
    IN  /\ lastRequestId' = [lastRequestId EXCEPT ![t] = NextId(id)]
        /\ pending' = [pending EXCEPT ![t] = {requests[i] : i \in DOMAIN requests}]
        /\ toDevice' = [toDevice EXCEPT ![t] = requests]

\* The views ask for what they show when becomeOnline is emitted.
BecomeOnline(t) ==
    LET id == NextId(lastRequestId[t])
        requests == <<[id |-> id, command |-> "getIdentity"],
                      [id |-> NextId(id), command |-> "getDeviceParams"]>>
    IN  /\ lastRequestId' = [lastRequestId EXCEPT ![t] = NextId(id)]
        /\ pending' = [pending EXCEPT ![t] = {requests[1], requests[2]}]
        /\ toDevice' = [toDevice EXCEPT ![t] = requests]

\* onOpen: a tab is offline when it opens a session.
Open(t) ==
    /\ Connecting(t) /\ Admitted
    /\ state' = [state EXCEPT ![t] = Online]
    /\ session' = [session EXCEPT ![t] = TRUE]
    /\ BecomeOnline(t)
    /\ UNCHANGED <<cookie, cookieBy, page, shown, toTab, late, deviceVars>>

\* Closed with 1008 after the handshake: the page reloads itself.
Refused(t) ==
    /\ Connecting(t) /\ ~Admitted
    /\ state' = [state EXCEPT ![t] = Loading]
    /\ UNCHANGED <<cookie, cookieBy, page, lastRequestId, pending, shown,
                   sessionVars, deviceVars>>

\* onMessage: a promise is resolved by the reply with its id.
Receive(t) ==
    /\ toTab[t] # <<>>
    /\ LET reply == Head(toTab[t])
           asked == {r \in pending[t] : r.id = reply.id}
       IN  /\ pending' = [pending EXCEPT ![t] = @ \ asked]
           /\ shown' = IF \E r \in asked : r.command = "getDeviceParams"
                       THEN [shown EXCEPT ![t] = reply.params] ELSE shown
    /\ toTab' = [toTab EXCEPT ![t] = Tail(@)]
    /\ UNCHANGED <<cookie, cookieBy, page, state, lastRequestId, session, toDevice,
                   late, deviceVars>>

\* onClose, of a session that the device has given up.
NoticeClose(t) ==
    /\ state[t] = Online /\ ~session[t]
    /\ TabCloses(t)
    /\ UNCHANGED <<cookie, cookieBy, page, lastRequestId, shown, session, toDevice,
                   late, deviceVars>>

\* The tab takes the session for lost when the device does not yet.
TabDrops(t) ==
    /\ state[t] = Online /\ session[t]
    /\ TabCloses(t)
    /\ SessionCloses(t, toDevice[t])
    /\ UNCHANGED <<cookie, cookieBy, page, lastRequestId, shown, deviceVars>>

\* webSocket's heartbeat has not been answered, or the network has failed.
DeviceDrops(t) ==
    /\ session[t]
    /\ session' = [session EXCEPT ![t] = FALSE]
    /\ toDevice' = [toDevice EXCEPT ![t] = <<>>]
    /\ UNCHANGED <<browserVars, toTab, late, deviceVars>>

-----------------------------------------------------------------------------
(* The user. *)

\* A command that ends the application: it is sent without waiting, and
\* setOfflineMode closes the session and asks for the next one, at once.
SendAndGoOffline(t, command) ==
    /\ state[t] = Online
    /\ TabCloses(t)
    /\ SessionCloses(t, IF session[t] THEN Append(toDevice[t], command) ELSE <<>>)
    /\ lastRequestId' = [lastRequestId EXCEPT ![t] = NextId(@)]
    /\ UNCHANGED <<cookie, cookieBy, page, shown, deviceVars>>

\* The form is only there in configuration mode, and the button that leads to it
\* only in the main application.
SaveAndReboot(t) ==
    /\ shown[t] \in Configuration
    /\ \E v \in Value :
         SendAndGoOffline(t, [command |-> "saveConfig", value |-> v])

FactoryReset(t) ==
    /\ shown[t] # None
    /\ SendAndGoOffline(t, [command |-> "factoryReset"])

GoToConfigMode(t) ==
    /\ shown[t] = NotConfigMode
    /\ SendAndGoOffline(t, [id |-> NextId(lastRequestId[t]),
                            command |-> "goToConfigMode"])

\* The user closes the browser, and opens the tabs again.
BrowserRestarts ==
    /\ cookie' = 0 /\ cookieBy' = None
    /\ state' = [t \in Tab |-> Loading] /\ pending' = [t \in Tab |-> {}]
    /\ session' = [t \in Tab |-> FALSE] /\ toDevice' = [t \in Tab |-> <<>>]
    /\ toTab' = [t \in Tab |-> <<>>]
    /\ UNCHANGED <<page, lastRequestId, shown, late, deviceVars>>

-----------------------------------------------------------------------------
(* The device. *)

\* All sessions end with the application; so does what they still had to handle.
DeviceStops ==
    /\ up' = FALSE /\ breakApp' = FALSE /\ paramsRead' = FALSE
    /\ session' = [t \in Tab |-> FALSE]
    /\ toDevice' = [t \in Tab |-> <<>>] /\ late' = [t \in Tab |-> <<>>]
    /\ UNCHANGED <<browserVars, toTab>>

\* Mutant of ReplyTo: the reply is broadcast.
ReplyToAll(t, reply) ==
    [c \in Tab |-> IF session[c] THEN Append(toTab[c], reply) ELSE toTab[c]]

\* sendTXT(clientNum, ...).
ReplyTo(t, reply) == [toTab EXCEPT ![t] = Append(@, reply)]

\* A request that is answered in the loop that finds it.
HandleRequest(t) ==
    /\ toDevice[t] # <<>> /\ Head(toDevice[t]).command \in Asked
    /\ LET r == Head(toDevice[t])
       IN  /\ toTab' = ReplyTo(t,
                 [id |-> r.id, answers |-> r.command, to |-> t,
                  params |-> IF r.command = "getDeviceParams" THEN Params ELSE None])
           /\ paramsRead' = (paramsRead \/ (r.command = "getDeviceParams" /\ app = "config"))
    /\ toDevice' = [toDevice EXCEPT ![t] = Tail(@)]
    /\ UNCHANGED <<browserVars, session, late, up, firmware, app, breakApp, stored>>

\* saveConfig and goToConfigMode end in requestAppBreak.  The credentials are
\* always stored, parameters only into a list that has been read, which leaves it
\* empty; the main application has no providers, and so no such list.
Commanded(m) ==
    /\ breakApp' = (breakApp \/ m.command \in {"saveConfig", "goToConfigMode"})
    /\ IF m.command = "saveConfig"
       THEN /\ stored' = [credentials |-> m.value,
                          params |-> IF paramsRead THEN m.value ELSE stored.params]
            /\ paramsRead' = FALSE
       ELSE /\ paramsRead' = (paramsRead \/ (m.command = "getDeviceParams" /\ app = "config"))
            /\ UNCHANGED stored

\* What a session that its tab has closed still holds is handled in its order;
\* its replies are lost.
HandleLate(t) ==
    /\ late[t] # <<>> /\ Head(late[t]).command # "factoryReset"
    /\ Commanded(Head(late[t]))
    /\ late' = [late EXCEPT ![t] = Tail(@)]
    /\ UNCHANGED <<browserVars, session, toDevice, toTab, up, firmware, app>>

\* triggerFactoryReset erases the configuration and restarts the device.
HandleFactoryReset(t) ==
    /\ late[t] # <<>> /\ Head(late[t]).command = "factoryReset"
    /\ stored' = Unconfigured /\ app' = "main"
    /\ DeviceStops
    /\ UNCHANGED firmware

\* The portal's loop returns false, and the rotator goes to the next application.
AppEnds ==
    /\ up /\ breakApp
    /\ app' = IF app = "main" THEN "config" ELSE "main"
    /\ DeviceStops
    /\ UNCHANGED <<firmware, stored>>

\* The device restarts for any reason, a command or an update among them.
DeviceRestarts ==
    /\ up
    /\ firmware' \in firmware..MaxFirmware
    /\ app' = "main"
    /\ DeviceStops
    /\ UNCHANGED stored

\* The main application needs a configuration its components start with, and has
\* no portal without one.
AppStarts ==
    /\ ~up
    /\ up' = TRUE
    /\ app' = IF stored.credentials # "" /\ stored.params \in Usable THEN app ELSE "config"
    /\ UNCHANGED <<browserVars, sessionVars, firmware, breakApp, stored, paramsRead>>

-----------------------------------------------------------------------------
TabStep(t)  == LoadPage(t) \/ Open(t) \/ Refused(t) \/ Receive(t) \/ NoticeClose(t)
HandleStep(t) == HandleRequest(t) \/ HandleLate(t) \/ HandleFactoryReset(t)

\* What users, the network and the device do of themselves.
Disturb ==
    \/ BrowserRestarts \/ DeviceRestarts
    \/ \E t \in Tab : TabDrops(t) \/ DeviceDrops(t) \/ SaveAndReboot(t)
                      \/ FactoryReset(t) \/ GoToConfigMode(t)

Disturbance ==
    /\ disturbances < MaxDisturbances
    /\ disturbances' = disturbances + 1
    /\ Disturb

\* What goes on by itself.
Progress ==
    /\ AppEnds \/ AppStarts \/ \E t \in Tab : TabStep(t) \/ HandleStep(t)
    /\ UNCHANGED disturbances

Next == Progress \/ Disturbance

\* The page's timers and callbacks run, and so do the portal and the rotator.
Spec ==
    /\ Init /\ [][Next]_vars
    /\ \A t \in Tab : WF_vars(TabStep(t) /\ UNCHANGED disturbances)
                      /\ WF_vars(HandleStep(t) /\ UNCHANGED disturbances)
    /\ WF_vars((AppEnds \/ AppStarts) /\ UNCHANGED disturbances)

-----------------------------------------------------------------------------
(* Properties. *)

\* A promise is resolved by the reply to its own request, never by one to an
\* earlier request or to the other tab, though ids are used again after each
\* reload (onMessage; sendTXT to clientNum).
ReplyAnswersRequest ==
    \A t \in Tab : \A i \in DOMAIN toTab[t] : \A r \in pending[t] :
        r.id = toTab[t][i].id =>
            toTab[t][i].to = t /\ toTab[t][i].answers = r.command

\* A tab talks to the firmware its page is of: an old page is refused after an
\* update, and reloads (ksWSServer.cpp, WEBSOCKET_VALIDATION_FAIL), unless
\* another tab of the browser has meanwhile loaded the new one.
PageIsCurrent ==
    \A t \in Tab : session[t] => page[t] = firmware \/ cookieBy # t

\* A tab that is online, and waits for no answer, shows the configuration the
\* device has, whoever has changed it and however often the session was lost;
\* but for the time an application that has been asked to end still runs.
ShownIsStored ==
    \A t \in Tab :
        session[t] /\ ~breakApp /\ pending[t] = {} => shown[t] = Params

\* When nothing is disturbed any more, every tab gets online with the device's
\* configuration: no reload, no refused session and no restart goes on for ever.
TabsSettle == <>[](\A t \in Tab : session[t] /\ shown[t] = Params)
=============================================================================
