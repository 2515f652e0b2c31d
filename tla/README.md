# ksIotFrameworkLib in TLA+

ksIotFrameworkLib is a C++ framework for ESP32 and ESP8266 devices. A sketch lists
application classes; `ksAppRotator` runs one of them at a time; an application is a list
of components, and everything the device does, Wi-Fi, MQTT, a reset button, the
configuration portal, is a component that the application's `loop` calls again and again
from a single thread. This directory holds TLA+ models of that system, written from the
C++ sources (`src/src/ksf`), configurations that model-check them with TLC, and proofs
checked with TLAPS.

1. [The system](#1-the-system)
2. [The modules](#2-the-modules)
3. [What each run checks](#3-what-each-run-checks)
4. [Fairness](#4-fairness)
5. [What is proved](#5-what-is-proved)
6. [What is only model-checked](#6-what-is-only-model-checked)
7. [What the code does and its documentation does not say](#7-findings)
8. [What is not modelled](#8-what-is-not-modelled)
9. [Plan](#9-plan)

## 1. The system

### Components of the framework

| Part | State it keeps | Operations |
| --- | --- | --- |
| `ksAppRotator` | spawner array, 8-bit `appIndex`, `currentApplication` | `loop` / `loopNoDelay` |
| `ksApplication`, `ksComponent` | list of owned components, the state of each (`NotInitialized`, `Initialized`, `Active`, `ToRemove`) | `addComponent`, `findComponent(s)`, `init`, `loop` |
| `ksEvent`, `ksEventHandle` | vector of callbacks with UIDs, UID counter; a handle holds a weak pointer and a UID | `registerEvent`, `unbind`, `broadcast`, the handle's destructor |
| `ksSimpleTimer` | interval, `millis()` of the last restart | `restart`, `setInterval`, `hasTimePassed`, `triggered` |
| 64-bit uptime (`ksConstants.cpp`) | low and high word | `updateDeviceUptime`, `millis64` |
| `ksDomainQuery` | domain, resolved address, 16-bit transaction id, time of the last query, a UDP socket | `setDomain`, `process`, `invalidate`, `getResolvedIP` |
| `ksMqttConnector` | `wasConnected`, reconnect timer, the domain query, the PubSubClient session | `init`, `setupConnection`, `loop`, `publish`, `subscribe`, three events |
| `ksWifiConnector` | `wasConnected`, cached `gotIpAddress`, three timers | `init`, `loop`, `isConnected`, two events |
| `ksResetButton` | last pin level, time of the press | `init`, `loop` |
| `ksLed` | blink interval, loops left, time of the last toggle; its state is on the pin | `setBlinking`, `setEnabled`, `setDriveAsPushPull`, `loop` |
| `ksDevStatMqttReporter` | a timer, a bound event | `postInit`, `loop` |
| `ksConfig`, `ksConfigProvider`, `ksMqttConfigProvider` | a file of key/value lines; the parameters being edited | `load`, `save`; `setup`, `read`, `save` |
| `ksDevicePortal` | an HTTP server, OTA progress, scan and log time stamps, a break request | text commands, uploads, `loop` |
| `ksWSServer` | WebSocket sessions, the token they need in their cookie | admission, messages, replies |
| the portal's page (`otaWebpage.h`) | in the browser: a session, an id counter, unanswered requests, the configuration form | connects, asks, shows, saves |
| `ksCertFingerprint` | the bytes of a fingerprint | `setup`, `verify` |
| `ksWifiConfigurator` | a time-out timer, a periodic task timer | `init`, `loop` |
| framework start (`ksConstants.cpp`) | boot indicator file, credential files | `initializeFramework`, `saveOtaBootIndicator`, `eraseConfigData` |

### How they interact

* The Arduino core calls `ksAppRotator::loop`. It creates the next application and calls
  its `init`, which adds components; then it calls `ksApplication::loop`. A component whose
  `init`, `postInit` or `loop` returns false ends the application, and the rotator destroys
  it with all its components and turns to the next class.
* `ksApplication::loop` walks the component list once per pass and drives every
  component through `init`, `postInit`, `loop` and, when it is marked, removal. All four
  may call back into the application: components add components to the very list that is
  being walked (always at its front), and mark themselves for removal.
* Components find each other in `postInit`, keep weak pointers, and communicate by
  direct calls and by events. Callbacks run inside `broadcast`, that is inside the loop of
  the component that publishes.
* `ksMqttConnector` asks `ksWifiConnector::isConnected`, owns a `ksDomainQuery`
  and processes it in its own loop.
* The portal serves a page to browsers. Each tab keeps a WebSocket session, sends commands with
  ids and waits for the replies; the device ends all sessions whenever an application ends.
* Clients change the configuration through `ksDevicePortal` and its providers, and the
  connectors of the next application read it in their `init`.
* The world outside moves by itself: `millis()` wraps, Wi-Fi stations and brokers come
  and go in the middle of a blocking call, datagrams are lost and reordered, pins bounce.

### What is hard in it

There is one thread and no locks, and the hard behaviours are not races of threads. They
are re-entrance (user code changes the list or the vector that a caller is walking), flags
cached over several loops while the thing they describe changes, counters that wrap
(8, 16 and 32 bits), calls that block while time goes on, late and repeated datagrams,
resets between two files that are written, and failure of one step in the middle of several. `PROJECT.json` lists them one by
one under `hazards`, each at its line and with the properties that cover it.

### What makes each part correct

* *Application*: a pass deals with every component exactly once; stages advance in
  list order; a `postInit` finds initialised what it may look up; a mark for removal is
  acted on; nobody starves.
* *Rotator*: a round robin over all classes; nothing of an application outlives it.
* *Timers, uptime*: exact across wraps.
* *Resolver*: an address is never taken from an answer to an outdated question.
* *MQTT connector*: attempts are spaced, go to fresh addresses, losses are reported, and
  a connection is made in the end.
* *MQTT messages*: the retained status is true in spite of losses that device and broker
  notice at different times; who subscribes in `onConnected` stays subscribed; reports keep
  their distance.
* *Wi-Fi connector*: what it reports is what the station does, up to the delay of its
  cached check; it never stays offline for good.
* *Reset button*: only a long press erases the configuration.
* *LED*: a pattern has as many toggles as asked for, in time, and ends dark.
* *Events*: callbacks are bound exactly as long as their handles live; a broadcast
  reaches all of them.
* *Configuration files*: what was set is read back, in the next life of the device, and what
  was typed into the form is what the page shows afterwards.
* *Portal*: what is stored is what a client has sent; a save takes effect; a boot
  reports an update exactly when it follows one.
* *Page*: a reply reaches the request it answers; a page of an old firmware does not control a
  new one; every tab comes back after whatever happened, with the device's configuration.
* *Configurator*: it stays while somebody is attached and ends when nobody is; nothing it
  grants a client outlives its time-out.

## 2. The modules

One step of a model is the code between two points at which something else can happen:
the program is single-threaded, so that is a whole function unless it calls user code or
blocks. Data is abstracted to what the control flow tells apart. Variables that the
program does not have, only needed to say what happened before, are marked *history* in
the modules and are never read by a guard.

| Module | Of | Builds on |
| --- | --- | --- |
| `KsApplication` | `ksApplication`, `ksComponent` | |
| `KsAppRotator` | the rotator, abstractly | |
| `KsFramework` | rotator and application | `KsApplication`, implements `KsAppRotator` |
| `KsClock` | `millis()`, timers, uptime | |
| `KsResetButton`, `KsLed` | the components | `KsClock` |
| `KsFrontPanel` | a device with one or the other | both |
| `KsDomainQuery` | `ksDomainQuery` | |
| `KsMqttSession` | what `ksMqttConnector` promises | |
| `KsMqttConnector` | `ksMqttConnector` | `KsDomainQuery`, implements `KsMqttSession` |
| `KsWifiConnector` | `ksWifiConnector` | |
| `KsMqttMessages` | status, will, subscriptions, statistics | `KsMqttSession` |
| `KsMqttDevice` | the example `mqtt-led` | `KsMqttMessages`, `KsWifiConnector` |
| `KsEvent` | `ksEvent`, `ksEventHandle` | |
| `KsConfigFile` | `ksConfig` | |
| `KsConfigForm` | form, message, file, JSON, fingerprint | `KsConfigFile` |
| `KsOtaUpdate` | framework start, updates | |
| `KsDevicePortal` | the portal's commands, the providers | `KsOtaUpdate` |
| `KsWifiConfigurator` | the configurator and the portal's time-outs | |
| `KsPortalClient` | browser tabs, sessions, the device behind them | |

### KsApplication

`components` and `componentState` are the `std::list` and the field of every component.
User code runs in every call the loop makes, so a call is split into its dispatch
(`CallMethod`) and its return (`MethodSucceeds`, `MethodFails`), and while it is open the
actions `AddComponent` and `MarkToRemove` may happen. The list iterator is counted
from the end (`it`): `push_front` does not invalidate or move a `std::list` iterator, and in
this coordinate the variable does not change either. `MethodSucceeds` writes the next
state over whatever is there, as the code does; `Erase` is `erase` followed by `continue`.
`MethodFails` leaves the pass where it is, and the application is at an end.

### KsAppRotator, KsFramework

`KsAppRotator` is the abstract specification: one action per call of `loopNoDelay`, with
a running application or none. `KsFramework` extends `KsApplication` with the rotator's
variables: constructing an application and calling its `init` (`SpawnApplication`), the
rest of that call (`FinishInit`), the component life cycle in between, and the destruction
of the application (`DestroyApplication`). The refinement mapping takes the
abstract `currentApplication` to be the class of the application between the return of
its `init` and the pass that fails. `NextIndex` increments on the width of the counter
before it compares, as `++appIndex >= size` does.

### KsClock

`now` is the true time, which no code reads; `millis` is `now` on the counter's width.
Differences are taken modulo the width, as on `uint32_t`. `Triggered` is `triggered()`
returning true. `UpdateDeviceUptime` is called in every pass of the application's loop,
which gives the bound `MaxGap` between two calls.

### KsDomainQuery, KsMqttConnector

`KsDomainQuery` keeps the answers under way as a function from their transaction id to
`fresh` or `stale`: an answer is stale when its query was made before the last
`invalidate`. An answer stays in that set after it has been read, because it may be
repeated, until `Lose` drops it. The id is 16 bits wide; the model takes it that a
datagram does not outlive a whole turn of that counter (65536 queries, 18 hours at one a
second). `QueryCannotStart` is a failing `beginPacket`: the code then returns before it takes
a new id, and the time of the query is recorded all the same.

`KsMqttConnector` extends it. `pc` splits a loop where `connectToBroker` blocks: opening
the TCP connection, sending CONNECT with the will, and once more without it. In
between the network may change and time passes, up to `ConnectTimeout`. The flag
`wasConnected` is the code's; `alive` is the session, which breaks at any time and which the
loop only notices when it calls the client. Whether a will is sent and whether the
broker has the configured fingerprint is chosen initially and fixed.

### KsMqttSession, KsMqttMessages, KsMqttDevice

`KsMqttSession` is what the users of the connector can rely on: attempts one at a time, a
session only out of an attempt, and a loss that is noticed and broadcast before the next
attempt. It begins with a loss to be noticed, as `bitflags.wasConnected` starts out set.
`KsMqttConnector` implements it (`ImplementsSession`), so that the device below is built on the
promise and need not carry the resolver's state.

`KsMqttMessages` adds what goes over the sessions. The broker's side is separate from the
device's: it may hold a session that the device has lost (`OpenUnanswered`, `BrokerCloses`), and
a CONNECT takes the place of the old session and fires its will. Packets that were sent
arrive in order as long as the broker has the session. `SessionKinds` is the attempt with
a will and the one without it that follows a refusal. `ReporterLoop` is the statistics reporter.

`KsMqttDevice` composes that with `KsWifiConnector` and a rotator between the main
application and the configurator: an application that ends takes connection and components
with it, at whatever point they are, and is later built anew (`MainEnds`, `MainStarts`).
An attempt needs `ksWifiConnector::isConnected()`, that is the cached flag.

### KsWifiConnector

The three timers are ages, told apart up to the interval they are compared with.
`link`, `address` and `associating` are the station. Automatic reconnection is off
(`initializeFramework`), so an association is only under way when the component has asked
for one. `GotIpNow` is the cached flag after the check at the top of the loop, which
both branches of the loop read. `LoopOffline` calls `disconnect` when a connection
has been lost and asks for a new association when the reconnect timer has passed;
`LoopTimesOut` returns before either, as the code does.

### KsResetButton, KsLed, KsFrontPanel

`KsResetButton` extends `KsClock`: the button measures a press with the clock that the timers and the uptime
of the same device hang on, and erasing the configuration restarts all of it
(`ClockRestarts`). The pin changes at any time, and the component only sees it in its loops
(`SeePress`, `SeeBounce`, `SeeShortPress`, `SeeLongPress`). The component is built anew with
each life of its application (`Start`, `Stop`), as the rotator comes back to it.

`KsLed` extends `KsClock`, too: `LedLoop` is a pass of the application, which updates the
uptime before it loops the LED. The pin is the LED's only memory of being on (`isEnabled`
reads it), and may be inverted or pulled. `LoopEndsPattern` is `--blinkLoops == 0`, which calls
`setBlinking(0)` after the toggle. `KsFrontPanel` puts both on one clock; a device of the
model has one of them, since neither reads anything of the other and the product of the two
would only multiply states.

### KsEvent

A broadcast is a frame on a stack with the positions a range-based `for` has still to
visit, since a callback may broadcast again. Callbacks may register, destroy handles and
broadcast. What C++ leaves undefined is shown by `undefined`: the vector may move
when it grows under the loop, and the loop may run past the end of one that has become
shorter. The state with `undefined` has no successors. An event is only destroyed
while nothing is broadcast: that is done when the application erases the component that
owns it, after that component's loop has returned.

### KsConfigFile, KsConfigForm

The text of a file is a sequence of character codes. `Construct` reads it as the
constructor does: `ReadEnd` and `Rest` are `readBytesUntil`, which consumes a line feed only
when it meets one before the buffer is full; `Line` drops one trailing carriage return;
`Load` pairs the lines into a map. `Save` is the destructor, which writes the map in the order
of `std::map`; `EndUnsaved` is the destructor with nothing to save or a file that cannot be
opened, or a reset.

`KsConfigForm` extends it with the rest of the way: the page's `Message`, the portal's `Body` and
`ParamMap` (a line is split at its first equals sign, the last line of a key counts),
`Submit`, which stores what was sent and keeps what was not, and back through `json_escape` and
the page's `JsonParse`. Characters that any of these conversions treats specially are among the
values. A fingerprint is read by `FingerprintToBytes` and printed for the comparison by
`FingerprintText`. `MCKsConfigForm` holds the strings of the run. What the code does in a loop
over a text (`Lines`, `BodyLines`, `JsonParse`) is a recursive function of the text.

### KsOtaUpdate, KsDevicePortal

`KsOtaUpdate` is a firmware update up to the next boot: the upload handlers over the state
of the `Update` library (`update`), `saveOtaBootIndicator`, the restart, and the reading and
removal of the indicator file when the framework starts. `activity` is what the processor is
doing; an unexpected reset may fall between any two steps. LittleFS puts a file in place as a
whole when it is closed, so a reset leaves the old content or the new; but a file that is
newly created may remain, empty. The removal of the indicator may fail, which nobody looks at
(`ClearIndicator`): `leftover` and `misled` are history and tell such a file, and a boot that has
read one, from the others.

`KsDevicePortal` extends it with the commands of the WebSocket server, the configuration
providers and the rotator between a main application, which needs its files, and the
configurator, as all the examples have it. A file is given by the set of its parameters; `stored`
says what each holds, or that it is missing, and `params` is the lists of the providers in RAM. A
file is replaced as a whole: that a map whose lines fit survives the way through its text is what
`KsConfigForm`'s run and theorems show. Whether the main application starts (`SpawnMain`) is what the
`init` of its components make of the files: credentials (`WifiStarts`), a broker, a port that can be
parsed (`setupMqttConnector`), and a fingerprint that is valid or not there (`setupConnection`).
`getParam` puts its default in the place of a parameter that is missing, not of an empty one.
`PortText` and `FingerprintText` are the texts that the two parsers accept; `MCKsDevicePortal` has the
requests of the runs. A single
`saveConfig` is split (`SaveConfig`, `SaveParams` for each provider, `SaveConfigEnds`), because
a reset may fall between two files; other clients cannot interleave there. `Write` may fail
to open its file, which the code does not notice. One loop of the portal
(`PortalLoop` ... `PortalLoopReturns`) may handle commands of several clients.

### KsWifiConfigurator

The four time-outs of a device that is being configured: the configurator's own, the interval at
which it looks for stations, and the portal's for a scan and for the log. `millis`
wraps; the order of a pass is the code's (requests, `CleanUp`, `ConfiguratorLoop`), and time may
pass anywhere in it. A time stamp of 0 stands for none, so `Stamp` is `max(1, millis())`. The
driver's scan and the stations are the environment; a scan left over in the driver survives
the application that started it.

### KsPortalClient

Two programs that talk: the script of the page in every tab of a browser, and the device.
The script is part of the repository in compressed form, as the bytes of `otaWebpage.h`; the
model is written from what they inflate to (`WSClient`, with its requests, its
offline mode and its reload on a refused session, and the configuration view), and `map` names the
lines its bytes are in. On the device's side it has `onRequest_index` (the cookie, the
cached page), `ksWSServer`'s admission of a session, the command handlers as far as a client can
tell, and the rotator. The cookie is shared by the tabs: `cookieBy` remembers whose
page load has set it.

A session is lost on the two sides at different times: `TabDrops` and `DeviceDrops` are one side
each, and what a tab has sent on a session it has closed may still be handled (`late`), or
not. A configuration has two parts here, the credentials, which every save stores, and the
parameters, which are only stored into a list that has been read; they are `Usable` or not
for the main application. `SendAndGoOffline` is what the page does after a command that ends the application: it
does not wait for anything. Steps that users, networks and devices take of themselves are
counted (`Disturbance`), so that the rest (`Progress`) can be asked to come to an end.

## 3. What each run checks

`pass` runs finish without an error; `violation` runs show a disagreement between the
code and its documentation (section 7).

| Run | Configuration | Outcome | What it shows |
| --- | --- | --- | --- |
| framework | `KsFramework.cfg` | pass | the walk over the list, rotation, and that it implements `KsAppRotator` |
| domain_query_stale | `KsDomainQuery_stale.cfg` | violation | an outdated answer is taken |
| reset_button_held | `KsResetButton_held.cfg` | violation | a short press erases the configuration |
| event_reentrant | `KsEvent_reentrant.cfg` | violation | a callback is skipped |
| mqtt_connector | `KsMqttConnector.cfg` | pass | the connector and its resolver, and that they implement `KsMqttSession` |
| mqtt_device | `KsMqttDevice.cfg` | pass | Wi-Fi, sessions, status and reports under the rotator, against a broker with its own view |
| front_panel | `KsFrontPanel.cfg` | pass | uptime, timers, presses and blink patterns, across wraps and restarts |
| event | `KsEvent.cfg` | pass | bindings and re-entrant broadcasts |
| device_portal | `KsDevicePortal.cfg` (module `MCKsDevicePortal`) | pass | configuration and updates, with resets anywhere |
| wifi_configurator | `KsWifiConfigurator.cfg` | pass | the four time-outs over a clock that wraps |
| config_form | `KsConfigForm.cfg` (module `MCKsConfigForm`) | pass | what is typed is stored, read and shown unchanged |
| portal_client | `KsPortalClient.cfg` | pass | two tabs through lost sessions, restarts and updates |

### Properties

* `InitialisedInOrder`: components are initialised in list order, and a `postInit` never meets an
  uninitialised component of its pass.
* `PassCoversList`: what a pass has dealt with lies behind the iterator and what it has
  not lies ahead, whatever is added or erased.
* `MarkRemoves`: a mark is not overwritten, but for one made in the component's own `init` or
  `postInit` (section 7), and a pass does not end with anything that was marked when it began.
* `BecomesActive`: no component is starved.
* `ImplementsRotator`: the framework is the abstract rotator, in which every class gets its turn.
  That nothing of an application outlives it is part of `FrameworkTypeOK`.
* `AttemptsAreSpaced`, `AddressesAreFresh`, `ImplementsSession`, `ConnectsInTheEnd`: the MQTT
  connector and its resolver.
* `BrokerKnowsDevice`: the retained status says "connected" only while a will guards it, and a
  session that is settled is subscribed. `StatusSettles`: both sides' losses in any order, the
  status is right in the end.
* `CachedCheckSuffices`: looking at the address once a second neither misses a steady station nor
  takes an earlier association's address for this one's.
* `ReportsAreSpaced`: reports keep their distance from each other and from a connection.
* `OfflineOrConfigured`: a device that is offline gets online or offers its configuration.
* `ClockIsExact`: the uptime is the true time of its last update, no timer is early, and a due
  one fires. `BlinksAsAsked`: the LED. `PressActsByLength`: the button; `EraseNeedsLongPress`
  is its strictest part, which a button held while the application starts violates.
* `HandlesAreTrue`, `ReachesAllBound`: events. The second is about broadcasts from whose list nothing is
  unbound and whose vector no registration moves meanwhile; the latter is undefined.
* `ReportIsTrue`: an update is reported exactly by the boot after it; a boot that has read an
  indicator which an earlier one could not remove is left out. `CopiesMatchStored`,
  `OnlySentValuesAreStored`, `SaveTakesEffect`: what clients send is what is stored, and what
  the device then runs with. They let a save that was cut short leave old and new files together;
  what they say is that each parameter is the old one or the one sent, and that no copy of it in
  RAM is another. `SaveTakesEffect` tells files that the components of the main application can be
  initialised with (`Configured`) from others, which bring the device back to its configurator.
* `AttendedIsKept`, `UnattendedEnds`, `ExpiryIsExact`: the time-outs of the configurator and its
  portal; what is kept for a client is kept neither shorter nor longer than said.
* `SavedIsReadBack`, `FormIsKept`: the file alone, and the whole way from form to page. That no
  line overruns the buffer is part of `ConfigTypeOK`.
* `ReplyAnswersRequest`, `PageIsCurrent`, `ShownIsStored`, `TabsSettle`: the page.

Each module has one type invariant, which also holds what ties its variables together
(the iterator inside the list, `alive => wasConnected`, `address => link` ...). Every property
has a mutant of the model in `PROJECT.json`, a change of one definition that a plausible bug
in the code would be, under which its run fails.

### Bounds

* *Framework*: three components; a pass then has one before, at and behind the iterator, and
  one can be added while another is erased. An erased object may be created again, so
  that passes and additions go on for ever and only the number of objects alive is bounded.
  Three classes with a counter of three values, so that the counter wraps by
  itself as the real one does with 256 classes. The proofs cover all other sizes.
* *Front panel*: triggers and blink intervals of a few ticks; the counter has `Width` = 8 values
  and wraps twice before `MaxTime`, and again after every restart; timer intervals are 0
  (disabled), short, and the widest the counter can hold; patterns are endless, of one toggle and
  of two; a pass of the application is late by up to `LoopGap`, that is by more than the
  shorter of the intervals.
* *Resolver and connector*: three ids, so that answers to the last query, to the one
  before and to none are told apart; the interval and the delay are a few ticks and the
  longest attempt is shorter than the delay but longer than a query. All four kinds of
  domain.
* *MQTT device*: the intervals keep the order of the real ones (address check < reconnect and
  report < time-out), and a loop may come `MaxGap` late. Applications end and start without end;
  so do sessions, of which device and broker may each have one of its own.
* *Events*: two events, three handle variables, three registrations per event
  (`MaxUID`), two nested broadcasts (`MaxDepth`).
* *Configuration form*: a buffer of six; strings that are empty, end in a carriage return, hold an
  equals sign, a quote, a backslash or a control character, are the longest that fit, one
  longer and longer than the buffer, one that is a fingerprint, and one value that is also
  a name. Files whose shifted lines would grow beyond `MaxEntries` and `MaxLength` can only be
  erased: these two bounds stand in guards, and no proof uses them. The proofs have neither bound: they hold for every buffer, text and set of names.
* *Portal*: two providers, that of MQTT with its broker, port and fingerprint, and one of a user.
  Nine requests (`MCRequest`): complete ones, plain and secure, the form with its port left as it
  is, a port and a fingerprint that are none, one that clears, and ones that leave parameters
  out. One unexpected reset (`MaxResets`), in any state, besides any number of restarts; writes and removals may fail. The proofs hold for any
  providers, texts, requests and number of resets.
* *Configurator*: the intervals keep the order of the real ones (check < keep-alive < scan <
  time-out, all shorter than a turn of the counter), and a loop may be late by more than the
  check's interval (`MaxGap`). `millis` starts anywhere and wraps without end.
* *Page*: two values, one of which the main application's components accept; two tabs, so that one can change what the other shows, and shares its cookie; two
  firmwares; two ids (`IdWidth`), so that every id is used again while a late reply may carry it;
  one message that outlives its session per tab (`MaxUnhandled`); three disturbances, which is
  enough for a save in one tab, a lost session in the other and an update between them.

`CHECK_DEADLOCK FALSE` is used where the model really stops: at the bound of the clock, at
undefined behaviour in a broadcast, and when all tabs have settled and no disturbance is left.

## 4. Fairness

* The Arduino core calls the rotator for ever and nothing in the framework blocks for ever,
  so `KsAppRotator` and `KsFramework` have weak fairness of the loop's steps
  and of the return of user code. Nothing is assumed of user code beyond that it
  returns: it may add, mark and fail as it likes.
* `KsMqttConnector` has weak fairness of its loop and of time. `ConnectsInTheEnd` states its own
  premises: Wi-Fi and a trusted broker stay up, queries can be sent, and the application
  is looped at least once per tick. The network gets one strong fairness condition, that an
  answer arrives before the query is repeated again and again if that is possible again
  and again: without it all answers may be late for ever.
* `KsMqttSession` promises no more than weak fairness of noticing a loss and of the end of an
  attempt, and the connector's run checks that it keeps this promise.
* `KsMqttDevice` has weak fairness of the Wi-Fi connector's loop, of time, of the rotator, of
  packets under way, and of what TCP's time-outs and MQTT's keep-alive give both sides: a
  session that the other side has not is given up in the end. Nothing is assumed of
  the station, of attempts, or of the person who configures.
* `KsDevicePortal` has weak fairness of what the processor goes on with by itself: starting,
  rotating, ending an upload one way or the other, saving, erasing, restarting, and ending
  an application whose portal has been asked to break. Requests come or do not. One
  fairness condition is strong, that a loop of the portal returns: it may be busy with uploads
  and saves again and again, but one loop handles at most one message of every client.
* `KsWifiConfigurator` has weak fairness of its loop and of time, and of nothing a station or a
  client does.
* `KsPortalClient` has weak fairness of every tab's own steps (the page's timers and callbacks,
  a reload), of the device handling what has arrived, and of the rotator; never of a
  disturbance.

## 5. What is proved

TLAPS checks these theorems for every value of the constants that meets the assumption
named in the module.

* `KsFrameworkProofs`, its first part: the safety properties of `KsApplication`, for any set of
  components. None of them is inductive alone: that a pass is exact needs the iterator's
  position to separate `visited` from the rest, which needs the list to hold each object
  once; the stage order across the iterator needs both. The invariant is the conjunction
  of named parts, and the proof of each step goes part by part. The lemmas about
  `Cons`, `RemoveAt` and positions counted from the end come first.
  Its second part: every step of the composed system is a rotator step or a stutter. The
  invariant relates `phase` to `currentApplication` and `appIndex`. The round robin itself is proved
  of the abstract rotator (`RoundRobin`, from a lemma on the wrapping counter) and carried over
  through the refinement: `FrameworkRotatesInTurn`. The life cycle's invariant holds in every
  application, and not only in the first: a destroyed application leaves all of its state blank,
  which is how the next one starts, so the lemmas of the first part apply again.
* `KsFrontPanelProofs`: uptime, timers, button and LED, for every width and every interval. They
  rest on the same arithmetic, which comes first: a reading is the true time modulo the
  width (`ClockInv`), so a difference of two readings is the true time between them as long
  as that is less than a turn (`CounterDifference`). `ButtonInv` adds that `pressedTime` is the
  reading of the press, `LedInv` that `lastBlinkTimeMs` is the reading of the last toggle and that
  the toggles made and the loops left add up. Each component's steps are shown to be
  steps or stutters of the clock, so the clock's invariant is carried over and not proved again.
* `KsMqttConnectorProofs`: first the resolver, `ResolvedIsFresh`, for every number of ids above one. It
  becomes inductive with: once a query has been started since the last invalidate, an answer that
  carries the current id is fresh. That two consecutive ids differ is the lemma it rests on. Then
  the connector's safety properties, and the refinement of `KsMqttSession` (its safety
  part). To the resolver every step of the connector is one of its own or a stutter
  (`QuerySimulated`), so `FreshInv` is taken over and not proved again; `AttemptInv` says what
  holds at each point where an attempt blocks.
* `KsMqttDeviceProofs`: the safety properties of the device. `CacheInv` is why the cached address is
  good enough: it is right whenever the station has been steady for longer than the last
  check is ago, and it is only ever set by a loop that is online, which restarts the
  reconnect timer, so that it is refreshed before another association is asked for. That needs
  the check's interval to be shorter than the reconnect time, which is the module's assumption
  and holds for the constants in the code. `PacketInv` says what may be under way to
  the broker; without it, a status that arrives late could outlive the will that takes it back.
* `KsDevicePortalProofs`: `ReportIsTrue`, `CopiesMatchStored` and `OnlySentValuesAreStored`, for any
  providers and values and any number of resets. The invariant
  has two parts that steps of the other part leave alone. `OtaInv` says when an
  indicator file can exist at all (from the end of an update to the end of the next start) and
  what it holds in each activity, other than one that could not be removed; without it `ReportIsTrue` cannot be carried over a
  reset. It also ties an indicator that is `leftover` to a removal that failed, so that what
  the boots that are not `misled` read is what the last life wrote. `ConfigInv` says that what there is of configuration in RAM agrees with the files, and
  that a save is only under way in the configurator.
* `KsWifiConfiguratorProofs`: its safety properties, for every width of the counter and all
  intervals that fit it. `TimerInv` bounds the two timers by the lateness of loops, so that their
  wrapping differences are true times; `AttendanceInv` says that whoever was attached at the last
  check has restarted the time-out with it; `StampInv` that a stamp is as old as it says, or
  one tick younger when it was taken at 0, and that no stamp is older than a clean-up leaves it.
* `KsPortalClientProofs`: the safety of page and device, for any number of tabs, firmwares
  and ids above one. `SessionInv` says that neither side keeps anything of a session it has
  closed, `RequestInv` that within one session an id stands for one request, which is why it
  does no harm that ids come again after a reload; `CookieInv` that sessions exist only while the
  cookie is the firmware's, and an update ends them; `AnswerInv` that an answer under
  way says what is stored for as long as the application has not been asked to end, since a
  configuration only changes together with that. The effects of steps on a tab come first
  (`SameTab`, `ClosedTab`, `EndedTab`), so that an action's proof need only say which tab it
  disturbs.

* `KsSequenceProofs`: what holds of lists and texts of every length. The code goes through them in
  loops and the model by recursion, so induction comes first, stated for sets and functions:
  a set of numbers with 0 and all successors is `Nat` (`SetInduction`), and a recursion whose
  arguments get smaller has exactly one solution (`RecursionUnique`, `RecursionExists`), which is
  what gives `Without`, `Lines`, `BodyLines` and `JsonParse` their values.
  * *Events*: `HandlesAreTrue` and `ReachesAllBound`, for any events and handles, any number of
    registrations and any depth of nesting. Neither is inductive. `HandlesDistinct` and `ListsInv` add
    that a list holds every id once and none above the last one given out, so that removing by
    value takes away exactly one handle's callback; `FrameInv` says of every frame on the stack that
    what has been called is a beginning of what was bound when the broadcast began, and that the list
    still begins with that as long as it has not shrunk.
  * *Configuration files*: `ConfigTypeOK` and `SavedIsReadBack`, for every buffer size and
    any names and values. `Parses(f, S, x, u)` says that `f` takes `u` off the front of a text that
    begins with `x`, whatever follows; it holds of single lines (`LineParsed`), is closed under
    concatenation (`ParsesAll`), and so holds of whole files. That the map comes back needs the
    order of the names to be a strict total order on strings (`LessTotal`, `LessTransitive`),
    so that `Ordered` exists and lists every name once (`OrderedFacts`); `LoadOfText` puts
    these together.
  * *The form*: `FormIsKept`. `TypedInv` adds to the property what makes it inductive: as long as
    the history variable stands, the file is the text of the form. It rests on the message
    being taken apart into the lines it was made of, at their first equals signs (`ParamMapFacts`),
    on `LoadOfText`, and on every character being read back from what it is escaped to,
    whatever follows it (`EscapedFacts`, `EscapedIsRead`); the fingerprint on arithmetic of
    hexadecimal digits (`HexFacts`). `FormAssumption`, that names have no equals sign and fit a line,
    is about the parameter names in the code.

With these, every safety property of a passing run is a theorem.

`PressesByLength` has one premise besides the assumptions, that no application starts while the
button is held; the run `reset_button_held` shows why.

## 6. What is only model-checked

* Everything about liveness (`BecomesActive`, `ConnectsInTheEnd`, `StatusSettles`,
  `OfflineOrConfigured`, `SaveTakesEffect`, `UnattendedEnds`, `TabsSettle`, and the fairness parts of
  `ImplementsRotator` and `ImplementsSession`), since TLAPS does not handle fairness.

## 7. Findings

* **A stale address** (`domain_query_stale`). When `beginPacket` fails, `sendQuery` returns
  before it takes a new id but the query counts as sent, so after an `invalidate` a late
  answer to the query from before it is accepted. Without such a failure it cannot happen,
  which is `FreshUnlessSendFailed`.
* **A held button** (`reset_button_held`). `init` records that the button is down but not
  since when: the press is measured from the time 0. Once the device has run for five
  seconds, letting go erases the configuration.
* **A skipped callback** (`event_reentrant`). `unbind` shortens the vector that `broadcast`
  walks. When nothing is unbound from that list meanwhile, everything bound is called
  (`ReachesAllBound`).

The models also show behaviour that no comment rules out, and that properties allow for:

* A component that sets `ToRemove` in its own `init` or `postInit` and returns true has its mark
  overwritten by the next state (`MethodSucceeds`); the README's "deleted in the next cycle"
  holds for marks made anywhere else, which is `MarkRemoves`.
* `wasConnected` of the MQTT connector starts as true, so the first loop of a fresh connector
  broadcasts `onDisconnected`, and waits for the reconnect delay, before anything was
  connected (`SessionInit`). Between two connections the event is right (`ImplementsSession`).
* A stamp taken while `millis()` is 0 is stored as 1, and the wrapping difference makes it expire
  at once: the exception in `ExpiryIsExact`.
* A port that is left empty is not the default port, against the documentation. The mqtt-led README
  says "MQTT Port: MQTT broker port (default: 1883)" (line 57) and "Click save - the device will reboot
  and connect" (line 61). The form of a new device offers an empty port
  (`addNewParamWithConfigDefault`) and sends it as it is, and `saveParams` stores it. `getParam` with
  its default of 1883 finds it and returns the empty text (`ksConfig.cpp:107`), which is no port
  (`ksMqttConfigProvider.cpp:70`): `ksMqttConnector::init` fails, and the device is back in its
  configurator, without a word to the user. A port or a fingerprint that is none has the same effect.
  A save stores all parameters of a file, so the default could only take effect for a file that the
  portal does not write. `MCRequest` has such requests, and the second case of `SaveTakesEffect` is
  what comes of them: the configuration is offered again and can be corrected.
* The result of removing the OTA indicator is not looked at. When it fails, the next restart is
  reported as an update as well (`ClearIndicator`, the exception in `ReportIsTrue`).
* `onRequest_otaFinish` asks for the library's error only, so a request without a file, or
  after an upload that was broken off, is answered as a success, restarts the device and is
  reported as an update (`PostWithoutFile`, `AbortUpload`).
* `saveParams` stores what is in the provider's list and clears it. When two clients that have
  both been shown the parameters save in the same loop of the WebSocket server, the
  credentials of the second are stored and its parameters are not: the exception behind
  `SaveTakesEffect`, which speaks of the files as they are after the save. Saves in different
  loops do not meet, because the first ends the application.
* Nothing keeps a value that does not fit the line buffer from being saved (the length of
  a parameter is only known to the page); 254 characters are enough to shift every later
  pair of the file, which is the premise of `SavedIsReadBack`.
* A tab with the page of an old firmware is admitted when another tab of the same browser has
  reloaded since the update: they share the cookie. `PageIsCurrent` allows for it.
* A pattern of an even number of toggles ends by toggling the LED on and switching it off in the
  same loop: its last flash is not seen (`LoopEndsPattern`).
* The page looks at the status of the upload's answer only, and a failed update is answered
  with 200 and the text "FAIL".

Comments that the code does not bear out, met on the way:

* The names of `QosLevel` are one off from the levels they are sent as: `QOS_AT_LEAST_ONCE` is 0 and
  `QOS_EXACTLY_ONCE` is 1 (`ksMqttConnector.h:115`, `ksMqttConnector.cpp:142`).
* `examples/mqtt-led/src/main.cpp` says that the configurator is tried when the "WiFi/MQTT connection"
  fails. `ksMqttConnector::loop` never returns false: a broker that cannot be reached does not
  end the application; only Wi-Fi does (`LoopTimesOut`).
* `KSF_WIFI_TIMEOUT_MS` is said to trigger a restart of the device; it ends the application, and the
  rotator goes to the next one.

## 8. What is not modelled

* `ksRtti`: compile-time type identity, no state.
* The application log: only in builds with a debug flag.
* Formatting of identifiers and of numbers; the labels, types and lengths of parameters. MQTT's user
  name, password and prefix are not told apart in `KsDevicePortal`: any text will do for them.
* A `println` that writes less than its line because the file system is full (`KsConfigFile`, `Save`).
  The file would keep a beginning of its text; all that `SavedIsReadBack` says is about
  files that were written completely.
* The topics of MQTT: the prefix that `publish` and `subscribe` add and `mqttMessageInternal`
  strips depend on nothing but the message and the settings.
* The portal's password dialogue over HTTP, its captive DNS, the values of `getIdentity`, and
  the commands a user adds.
* The handshake and frames of WebSockets, the TLS comparison of a certificate, the MQTT client's
  buffers, LittleFS and the Update library inside: libraries, modelled by how this code uses them.
* The page's upload and log views, its templates and the libraries packed into it.

About half of the repository's lines, 5,310 of 10,897, are the bytes of `otaWebpage.h`: a compressed
page most of which is a rendering library, templates and styles. The model covers the part of its
script that talks to the device; the rest has no behaviour of this system. A large share
of the remaining lines is declarations with their comments, licence headers, tables of constants
and platform conditionals. What is left of executable code and not covered is listed above.

## 9. Plan

In order of importance:

1. The routing of messages in `mqttMessageInternal`, with a callback that publishes while
   PubSubClient's only buffer holds the message it is being given.
2. The application log with its callback, which a portal leaves behind when its application ends.
3. `KsConfigForm`'s file inside `KsDevicePortal` by refinement, so that the two agree by a check
   and not only by their mapping.
