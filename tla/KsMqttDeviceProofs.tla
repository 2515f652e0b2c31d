------------------------- MODULE KsMqttDeviceProofs -------------------------
(***************************************************************************)
(* The safety of the MQTT device, for every interval and timeout: what the *)
(* cached address check of its Wi-Fi connector is worth, what the broker   *)
(* knows of it, and how far its reports are apart.                         *)
(***************************************************************************)
EXTENDS KsMqttDevice, TLAPS

\* The timeout is restarted by every loop that is online.  The cached flag is
\* right while the station has been steady for longer than the last check is ago;
\* it is only ever set by a loop that is online, which restarts the reconnect
\* timer, so that it is refreshed before a new association is asked for.
CacheInv ==
    /\ wasConnected => timeoutAge <= sinceLoop
    /\ steadyFor > ipCheckAge => (gotIpAddress <=> address)
    /\ gotIpAddress /\ ipCheckAge <= IpCheckInterval => reconnectAge <= ipCheckAge
    /\ associating => ~link /\ ~gotIpAddress
    /\ link /\ gotIpAddress => addressSeen

WifiInv == WifiTypeOK /\ CacheInv

\* The packets on their way are the last ones of those an opened session begins
\* with, and only a session with a will sends a status; the reporter's timer is
\* restarted by whatever restarts the history it is compared with.
PacketInv ==
    /\ sent \in {<<>>, <<"subscribe">>, <<"status", "subscribe">>}
    /\ sent = <<"status", "subscribe">> => brokerSession = "willed"
    /\ status = "1" => brokerSession = "willed"
    /\ session = "online" /\ brokerSession # "none" => sent # <<>> \/ subscribed
    /\ reportAge <= sinceReport

RotatorInv ==
    /\ app \in {"main", "config"} /\ configured \in BOOLEAN
    /\ app = "main" => configured
    /\ app = "config" => session = "lost" /\ ~running

DeviceInv == WifiInv /\ MessagesTypeOK /\ PacketInv /\ RotatorInv

-----------------------------------------------------------------------------
(* The Wi-Fi connector. *)

LEMMA Intervals ==
    /\ IpCheckInterval \in Nat /\ ReconnectTime \in Nat /\ WifiTimeout \in Nat
    /\ MaxGap \in Nat
    /\ IpCheckInterval < ReconnectTime /\ MaxGap < WifiTimeout
BY WifiAssumption

LEMMA LaterFacts ==
    ASSUME NEW interval \in Nat, NEW age \in 0..interval + 1
    PROVE  /\ Later(age, interval) \in 0..interval + 1
           /\ Later(age, interval) = IF age <= interval THEN age + 1 ELSE age
BY DEF Later

LEMMA WifiInitInv == Init => WifiInv
<1>1. /\ 0 \in 0..WifiTimeout + 1 /\ 0 \in 0..ReconnectTime + 1
      /\ 0 \in 0..IpCheckInterval + 1 /\ 0 \in 0..MaxGap
  BY Intervals
<1> QED
  BY <1>1 DEF Init, WifiInv, WifiTypeOK, CacheInv

\* What a loop does before it looks at the connection.  Found set, the flag means
\* that the last loop which was online is no longer ago than the last check.
LEMMA LoopBegins ==
    ASSUME WifiInv, Loop
    PROVE  /\ GotIpNow \in BOOLEAN /\ gotIpAddress' = GotIpNow
           /\ ipCheckAge' \in 0..IpCheckInterval + 1 /\ sinceLoop' = 0
           /\ ipCheckAge > IpCheckInterval => ipCheckAge' = 0 /\ GotIpNow = address
           /\ ~(ipCheckAge > IpCheckInterval) =>
                 ipCheckAge' = ipCheckAge /\ GotIpNow = gotIpAddress
           /\ steadyFor > IpCheckInterval => (GotIpNow <=> address)
           /\ running /\ CheckAddress /\ Observe
<1>1. CheckAddress /\ Observe /\ running
  BY DEF Loop, LoopOnline, LoopTimesOut, LoopOffline
<1>2. /\ ipCheckAge \in 0..IpCheckInterval + 1 /\ steadyFor \in 0..IpCheckInterval + 1
      /\ gotIpAddress \in BOOLEAN /\ address \in BOOLEAN
  BY DEF WifiInv, WifiTypeOK
<1>3. GotIpNow \in BOOLEAN /\ gotIpAddress' = GotIpNow /\ sinceLoop' = 0
  BY <1>1, <1>2 DEF CheckAddress, GotIpNow
<1>4. ipCheckAge > IpCheckInterval => ipCheckAge' = 0 /\ GotIpNow = address
  BY <1>1 DEF CheckAddress, GotIpNow
<1>5. ~(ipCheckAge > IpCheckInterval) => ipCheckAge' = ipCheckAge /\ GotIpNow = gotIpAddress
  BY <1>1 DEF CheckAddress, GotIpNow
<1>6. ipCheckAge' \in 0..IpCheckInterval + 1
  BY <1>2, <1>4, <1>5, Intervals
<1>7. steadyFor > IpCheckInterval /\ ~(ipCheckAge > IpCheckInterval) => steadyFor > ipCheckAge
  BY <1>2, Intervals
<1>8. steadyFor > IpCheckInterval => (GotIpNow <=> address)
  BY <1>4, <1>5, <1>7 DEF WifiInv, CacheInv
<1> QED
  BY <1>1, <1>3, <1>4, <1>5, <1>6, <1>8

\* A loop keeps the flag right: what has changed at the station is not steady.
LEMMA LoopKeepsCache ==
    ASSUME WifiInv, Loop, link' \in BOOLEAN, address' \in BOOLEAN,
           address' => link', address' => address
    PROVE  /\ steadyFor' \in 0..IpCheckInterval + 1
           /\ steadyFor' > ipCheckAge' => (gotIpAddress' <=> address')
           /\ addressSeen' \in BOOLEAN
<1>1. /\ ipCheckAge \in 0..IpCheckInterval + 1 /\ steadyFor \in 0..IpCheckInterval + 1
      /\ address \in BOOLEAN /\ link \in BOOLEAN /\ (address => link)
      /\ addressSeen \in BOOLEAN
  BY DEF WifiInv, WifiTypeOK
<1>2. steadyFor' = IF (link' /\ address') = (link /\ address) THEN steadyFor ELSE 0
  BY LoopBegins DEF Observe, Online
<1>3. steadyFor' \in 0..IpCheckInterval + 1
  BY <1>1, <1>2, Intervals
<1>4. addressSeen' \in BOOLEAN
  BY LoopBegins DEF Observe
<1>5. ASSUME steadyFor' > ipCheckAge' PROVE gotIpAddress' <=> address'
  <2>1. steadyFor' # 0
    BY <1>5, LoopBegins
  <2>2. steadyFor' = steadyFor /\ (address' <=> address)
    BY <2>1, <1>1, <1>2
  <2>3. CASE ipCheckAge > IpCheckInterval
    BY <2>2, <2>3, LoopBegins
  <2>4. CASE ~(ipCheckAge > IpCheckInterval)
    <3>1. steadyFor > ipCheckAge
      BY <1>5, <2>2, <2>4, LoopBegins
    <3> QED
      BY <3>1, <2>2, <2>4, LoopBegins DEF WifiInv, CacheInv
  <2> QED
    BY <2>3, <2>4
<1> QED
  BY <1>3, <1>4, <1>5

LEMMA LoopOnlineInv == ASSUME WifiInv, LoopOnline PROVE WifiInv'
<1>1. Loop
  BY DEF Loop
<1>2. /\ UNCHANGED <<running, link, address, associating>>
      /\ timeoutAge' = 0 /\ reconnectAge' = 0
      /\ wasConnected' = TRUE /\ lastEvent' = "connected"
      /\ running /\ link /\ GotIpNow
  BY DEF LoopOnline, station, ConnectedNow
<1>3. /\ 0 \in 0..WifiTimeout + 1 /\ 0 \in 0..ReconnectTime + 1 /\ 0 \in 0..MaxGap
      /\ ipCheckAge' \in Nat
  BY <1>1, LoopBegins, Intervals
<1>4. /\ steadyFor' \in 0..IpCheckInterval + 1 /\ addressSeen' \in BOOLEAN
      /\ steadyFor' > ipCheckAge' => (gotIpAddress' <=> address')
  BY <1>1, <1>2, LoopKeepsCache DEF WifiInv, WifiTypeOK
<1>5. WifiTypeOK'
  BY <1>1, <1>2, <1>3, <1>4, LoopBegins DEF WifiInv, WifiTypeOK
<1>6. addressSeen'
  <2>1. CASE ipCheckAge > IpCheckInterval
    BY <2>1, <1>1, <1>2, LoopBegins DEF Observe
  <2>2. CASE ~(ipCheckAge > IpCheckInterval)
    BY <2>2, <1>1, <1>2, LoopBegins DEF Observe, WifiInv, CacheInv
  <2> QED
    BY <2>1, <2>2
<1>7. timeoutAge' <= sinceLoop' /\ reconnectAge' <= ipCheckAge'
  BY <1>1, <1>2, <1>3, LoopBegins
<1>8. CacheInv'
  BY <1>2, <1>4, <1>6, <1>7 DEF CacheInv, WifiInv
<1> QED
  BY <1>5, <1>8 DEF WifiInv

\* A loop that is not online leaves no flag behind but in an association that
\* has just ended.
LEMMA LoopTimesOutInv == ASSUME WifiInv, LoopTimesOut PROVE WifiInv'
<1>1. Loop
  BY DEF Loop
<1>2. /\ UNCHANGED <<wasConnected, reconnectAge, lastEvent, link, address, associating>>
      /\ timeoutAge' = 0 /\ running' = FALSE /\ timeoutAge > WifiTimeout
      /\ ~(link /\ GotIpNow)
  BY DEF LoopTimesOut, station, ConnectedNow
<1>3. 0 \in 0..WifiTimeout + 1 /\ 0 \in 0..MaxGap
  BY Intervals
<1>4. /\ steadyFor' \in 0..IpCheckInterval + 1 /\ addressSeen' \in BOOLEAN
      /\ steadyFor' > ipCheckAge' => (gotIpAddress' <=> address')
  BY <1>1, <1>2, LoopKeepsCache DEF WifiInv, WifiTypeOK
<1>5. ~wasConnected
  <2>1. sinceLoop \in 0..MaxGap /\ timeoutAge \in 0..WifiTimeout + 1
    BY DEF WifiInv, WifiTypeOK
  <2>2. ~(timeoutAge <= sinceLoop)
    BY <2>1, <1>2, Intervals
  <2> QED
    BY <2>2 DEF WifiInv, CacheInv
<1>6. WifiTypeOK'
  BY <1>1, <1>2, <1>3, <1>4, <1>5, LoopBegins DEF WifiInv, WifiTypeOK
<1>7. gotIpAddress' => ~link' /\ ~associating'
  BY <1>1, <1>2, LoopBegins DEF WifiInv, WifiTypeOK, CacheInv
<1>8. gotIpAddress' /\ ipCheckAge' <= IpCheckInterval => reconnectAge' <= ipCheckAge'
  <2>1. ASSUME gotIpAddress' PROVE ~(ipCheckAge > IpCheckInterval)
    BY <2>1, <1>1, <1>2, LoopBegins DEF WifiInv, WifiTypeOK
  <2> QED
    BY <2>1, <1>1, <1>2, LoopBegins DEF WifiInv, CacheInv
<1>9. CacheInv'
  BY <1>2, <1>4, <1>5, <1>7, <1>8 DEF CacheInv, WifiInv
<1> QED
  BY <1>6, <1>9 DEF WifiInv

LEMMA LoopOfflineInv == ASSUME WifiInv, LoopOffline PROVE WifiInv'
<1>1. Loop
  BY DEF Loop
<1>2. /\ UNCHANGED <<running, timeoutAge>> /\ running
      /\ wasConnected' = FALSE
      /\ lastEvent' = IF wasConnected THEN "disconnected" ELSE lastEvent
      /\ link' = (link /\ ~wasConnected) /\ address' = (address /\ ~wasConnected)
      /\ ~(link /\ GotIpNow)
      /\ \/ reconnectAge > ReconnectTime /\ associating' = ~link' /\ reconnectAge' = 0
         \/ /\ associating' = (associating /\ ~wasConnected)
            /\ reconnectAge' = reconnectAge
  BY DEF LoopOffline, ConnectedNow
<1>3. /\ 0 \in 0..ReconnectTime + 1 /\ 0 \in 0..MaxGap /\ ipCheckAge' \in Nat
  BY <1>1, LoopBegins, Intervals
<1>4. /\ link' \in BOOLEAN /\ address' \in BOOLEAN /\ (address' => link')
      /\ (address' => address)
  BY <1>2 DEF WifiInv, WifiTypeOK
<1>5. /\ steadyFor' \in 0..IpCheckInterval + 1 /\ addressSeen' \in BOOLEAN
      /\ steadyFor' > ipCheckAge' => (gotIpAddress' <=> address')
  BY <1>1, <1>4, LoopKeepsCache
<1>6. WifiTypeOK'
  <2>1. associating' \in BOOLEAN /\ reconnectAge' \in 0..ReconnectTime + 1
    BY <1>2, <1>3, <1>4 DEF WifiInv, WifiTypeOK
  <2>2. lastEvent' \in {"none", "disconnected"}
    BY <1>2 DEF WifiInv, WifiTypeOK
  <2> QED
    BY <1>1, <1>2, <1>3, <1>4, <1>5, <2>1, <2>2, LoopBegins DEF WifiInv, WifiTypeOK
<1>7. gotIpAddress' => /\ ~link' /\ ~(ipCheckAge > IpCheckInterval) /\ gotIpAddress
                       /\ ipCheckAge' = ipCheckAge
  BY <1>1, <1>2, LoopBegins DEF WifiInv, WifiTypeOK
\* By the time a new association is asked for, the check has seen the loss.
<1>8. gotIpAddress' => reconnectAge <= ipCheckAge /\ ~(reconnectAge > ReconnectTime)
  <2>1. ipCheckAge \in 0..IpCheckInterval + 1 /\ reconnectAge \in 0..ReconnectTime + 1
    BY DEF WifiInv, WifiTypeOK
  <2>2. gotIpAddress' => ipCheckAge <= IpCheckInterval /\ gotIpAddress
    BY <1>7, <2>1, Intervals
  <2>3. gotIpAddress' => reconnectAge <= ipCheckAge
    BY <2>2 DEF WifiInv, CacheInv
  <2> QED
    BY <2>1, <2>2, <2>3, Intervals
<1>9. associating' => ~link' /\ ~gotIpAddress'
  BY <1>2, <1>4, <1>7, <1>8 DEF WifiInv, CacheInv, WifiTypeOK
<1>10. gotIpAddress' => reconnectAge' <= ipCheckAge'
  BY <1>2, <1>7, <1>8
<1>11. CacheInv'
  BY <1>2, <1>5, <1>7, <1>9, <1>10 DEF CacheInv
<1> QED
  BY <1>6, <1>11 DEF WifiInv

\* Steps of the station leave everything to the cached flag, and time brings it
\* no nearer to the station.
LEMMA StationInv == ASSUME WifiInv, Station PROVE WifiInv'
<1>1. /\ UNCHANGED <<running, wasConnected, gotIpAddress, timeoutAge, reconnectAge,
                     ipCheckAge, sinceLoop, lastEvent>>
      /\ addressSeen' = (addressSeen /\ link')
      /\ steadyFor' = IF (link' /\ address') = (link /\ address) THEN steadyFor ELSE 0
  BY DEF Station, AssociationEnds, AddressAssigned, AddressLost, LinkDrops, StationStep,
         Online
<1>2. /\ link' \in BOOLEAN /\ address' \in BOOLEAN /\ (address' => link')
      /\ associating' \in BOOLEAN /\ (associating' => associating)
      /\ (associating' => ~link')
      /\ link' /\ ~link => associating
  <2> USE DEF StationStep, WifiInv, WifiTypeOK, CacheInv
  <2>1. CASE AssociationEnds
    BY <2>1 DEF AssociationEnds
  <2>2. CASE AddressAssigned \/ AddressLost
    <3>1. link /\ link' = TRUE /\ associating' = associating /\ address' \in {TRUE, FALSE}
      BY <2>2 DEF AddressAssigned, AddressLost
    <3>2. ~associating /\ associating \in BOOLEAN
      BY <3>1
    <3> QED
      BY <3>1, <3>2
  <2>3. CASE LinkDrops
    BY <2>3 DEF LinkDrops
  <2> QED
    BY <2>1, <2>2, <2>3 DEF Station
<1>3. 0 \in 0..IpCheckInterval + 1 /\ ipCheckAge \in Nat
  BY Intervals DEF WifiInv, WifiTypeOK
<1>4. WifiTypeOK'
  BY <1>1, <1>2, <1>3 DEF WifiInv, WifiTypeOK
<1>5. steadyFor' > ipCheckAge' => (gotIpAddress' <=> address')
  <2>1. ASSUME steadyFor' > ipCheckAge' PROVE steadyFor' = steadyFor /\ (address' <=> address)
    <3>1. steadyFor' # 0
      BY <2>1, <1>1, <1>3
    <3>2. (link' /\ address') = (link /\ address)
      BY <3>1, <1>1
    <3> QED
      BY <3>1, <3>2, <1>1, <1>2 DEF WifiInv, WifiTypeOK
  <2> QED
    BY <2>1, <1>1 DEF WifiInv, CacheInv
<1>6. link' /\ gotIpAddress' => addressSeen'
  BY <1>1, <1>2 DEF WifiInv, CacheInv
<1>7. CacheInv'
  BY <1>1, <1>2, <1>5, <1>6 DEF WifiInv, CacheInv
<1> QED
  BY <1>4, <1>7 DEF WifiInv

LEMMA TickInv == ASSUME WifiInv, Tick PROVE WifiInv'
<1>1. /\ UNCHANGED <<running, wasConnected, gotIpAddress, link, address, associating,
                     lastEvent, addressSeen>>
      /\ sinceLoop < MaxGap /\ sinceLoop' = sinceLoop + 1
      /\ timeoutAge' = Later(timeoutAge, WifiTimeout)
      /\ reconnectAge' = Later(reconnectAge, ReconnectTime)
      /\ ipCheckAge' = Later(ipCheckAge, IpCheckInterval)
      /\ steadyFor' = Later(steadyFor, IpCheckInterval)
  BY DEF Tick, station
<1>2. /\ sinceLoop \in 0..MaxGap /\ timeoutAge \in 0..WifiTimeout + 1
      /\ reconnectAge \in 0..ReconnectTime + 1
      /\ ipCheckAge \in 0..IpCheckInterval + 1 /\ steadyFor \in 0..IpCheckInterval + 1
  BY DEF WifiInv, WifiTypeOK
<1>3. /\ timeoutAge' \in 0..WifiTimeout + 1 /\ reconnectAge' \in 0..ReconnectTime + 1
      /\ ipCheckAge' \in 0..IpCheckInterval + 1 /\ steadyFor' \in 0..IpCheckInterval + 1
      /\ sinceLoop' \in 0..MaxGap
  BY <1>1, <1>2, Intervals, LaterFacts
<1>4. WifiTypeOK'
  BY <1>1, <1>3 DEF WifiInv, WifiTypeOK
<1>5. timeoutAge <= sinceLoop => timeoutAge' <= sinceLoop'
  BY <1>1, <1>2, Intervals DEF Later
<1>6. steadyFor' > ipCheckAge' => steadyFor > ipCheckAge
  BY <1>1, <1>2, Intervals DEF Later
<1>7. ipCheckAge' <= IpCheckInterval =>
        /\ ipCheckAge <= IpCheckInterval
        /\ reconnectAge <= ipCheckAge => reconnectAge' <= ipCheckAge'
  BY <1>1, <1>2, Intervals DEF Later
<1>8. CacheInv'
  BY <1>1, <1>5, <1>6, <1>7 DEF WifiInv, CacheInv
<1> QED
  BY <1>4, <1>8 DEF WifiInv

LEMMA WifiStepInv == WifiInv /\ [Next]_vars => WifiInv'
<1>1. ASSUME WifiInv, UNCHANGED vars PROVE WifiInv'
  BY <1>1 DEF vars, WifiInv, WifiTypeOK, CacheInv
<1> QED
  BY <1>1, LoopOnlineInv, LoopTimesOutInv, LoopOfflineInv, StationInv, TickInv
  DEF Next, Loop

\* What a loop finds, and what it tells.
LEMMA WifiStepSees ==
    ASSUME WifiInv, Loop
    PROVE  /\ steadyFor > IpCheckInterval =>
                IF Online THEN running' /\ wasConnected' ELSE ~(running' /\ wasConnected')
           /\ ~wasConnected /\ wasConnected' => addressSeen'
<1>1. CASE LoopOnline
  <2>1. running' /\ wasConnected' /\ link /\ GotIpNow /\ link'
    BY <1>1 DEF LoopOnline, ConnectedNow, station
  <2>2. steadyFor > IpCheckInterval => Online
    BY <2>1, LoopBegins DEF Online
  <2>3. addressSeen'
    BY <2>1, <1>1, LoopOnlineInv, LoopBegins DEF WifiInv, CacheInv
  <2> QED
    BY <2>1, <2>2, <2>3
<1>2. CASE LoopTimesOut \/ LoopOffline
  <2>1. ~(running' /\ wasConnected') /\ ~(link /\ GotIpNow)
    BY <1>2 DEF LoopTimesOut, LoopOffline, ConnectedNow
  <2>2. wasConnected' => wasConnected
    BY <1>2 DEF LoopTimesOut, LoopOffline
  <2>3. steadyFor > IpCheckInterval => ~Online
    BY <2>1, LoopBegins DEF Online
  <2> QED
    BY <2>1, <2>2, <2>3
<1> QED
  BY <1>1, <1>2 DEF Loop

-----------------------------------------------------------------------------
(* The broker's side. *)

LEMMA PacketFacts ==
    /\ FirstPackets("willed") = <<"status", "subscribe">>
    /\ FirstPackets("plain") = <<"subscribe">>
    /\ Head(<<"status", "subscribe">>) = "status"
    /\ Tail(<<"status", "subscribe">>) = <<"subscribe">>
    /\ Head(<<"subscribe">>) = "subscribe"
    /\ Tail(<<"subscribe">>) = <<>>
    /\ <<>> # <<"subscribe">> /\ <<>> # <<"status", "subscribe">>
<1>1. FirstPackets("willed") = <<"status", "subscribe">>
  BY DEF FirstPackets
<1>2. FirstPackets("plain") = <<"subscribe">>
  BY DEF FirstPackets
<1>3. Tail(<<"status", "subscribe">>) = <<"subscribe">>
  OBVIOUS
<1>4. Tail(<<"subscribe">>) = <<>>
  OBVIOUS
<1>5. Head(<<"status", "subscribe">>) = "status" /\ Head(<<"subscribe">>) = "subscribe"
  OBVIOUS
<1>6. <<>> # <<"subscribe">> /\ <<>> # <<"status", "subscribe">>
  OBVIOUS
<1> QED
  BY <1>1, <1>2, <1>3, <1>4, <1>5, <1>6

LEMMA SentIsTyped ==
    ASSUME NEW s \in {<<>>, <<"subscribe">>, <<"status", "subscribe">>}
    PROVE  s \in Seq(Packet) /\ Len(s) <= 2
<1>1. <<>> \in Seq(Packet) /\ Len(<<>>) <= 2
  OBVIOUS
<1>2. <<"subscribe">> \in Seq(Packet) /\ Len(<<"subscribe">>) <= 2
  BY DEF Packet
<1>3. <<"status", "subscribe">> \in Seq(Packet) /\ Len(<<"status", "subscribe">>) <= 2
  BY DEF Packet
<1> QED
  BY <1>1, <1>2, <1>3

\* The part of the state that the sessions, the packets and the reporter make up.
MessagesInv == MessagesTypeOK /\ PacketInv

LEMMA AcceptedInv ==
    ASSUME MessagesInv, NEW kind \in {"none", "plain", "willed"}, BrokerAccepts(kind)
    PROVE  /\ status' \in {"none", "0", "1"} /\ subscribed' \in BOOLEAN
           /\ brokerSession' = kind
           /\ ~(status' = "1" /\ brokerSession = "willed")
           /\ status' # "1"
BY DEF BrokerAccepts, WillFires, MessagesInv, MessagesTypeOK, PacketInv

\* Whatever session there was, its status is taken back before a new one begins.
LEMMA ConnectorInv ==
    ASSUME MessagesInv,
           OpenSession \/ OpenUnanswered \/ FailToOpen \/ StartToOpen \/ LoseSession
             \/ ReportLoss
    PROVE  MessagesInv' /\ settings' = settings
<1> USE DEF MessagesInv, MessagesTypeOK, SessionTypeOK, Session, PacketInv
<1>1. CASE OpenSession
  <2>1. PICK kind \in SessionKinds :
           /\ SessionOpened /\ BrokerAccepts(kind) /\ sent' = FirstPackets(kind)
           /\ ReporterRestarts /\ UNCHANGED settings
    BY <1>1 DEF OpenSession
  <2>2. kind \in {"plain", "willed"}
    BY DEF SessionKinds
  <2>3. /\ status' \in {"none", "0", "1"} /\ subscribed' \in BOOLEAN
        /\ brokerSession' = kind /\ status' # "1"
    BY <2>1, <2>2, AcceptedInv
  <2>4. /\ sent' \in {<<"subscribe">>, <<"status", "subscribe">>}
        /\ sent' = <<"status", "subscribe">> => kind = "willed"
        /\ sent' # <<>>
    <3>1. CASE kind = "plain"
      <4>1. sent' = <<"subscribe">>
        BY <2>1, <3>1, PacketFacts
      <4> QED
        BY <4>1
    <3>2. CASE kind = "willed"
      <4>1. sent' = <<"status", "subscribe">>
        BY <2>1, <3>2, PacketFacts
      <4> QED
        BY <4>1, <3>2
    <3> QED
      BY <3>1, <3>2, <2>2
  <2>5. session' = "online" /\ told' = "connected" /\ reportAge' = 0 /\ sinceReport' = 0
    BY <2>1 DEF SessionOpened, ReporterRestarts
  <2>6. 0 \in 0..ReportInterval + 1
    BY MessagesAssumption
  <2>7. sent' \in Seq(Packet) /\ Len(sent') <= 2
    BY <2>4, SentIsTyped
  <2> QED
    BY <2>1, <2>2, <2>3, <2>4, <2>5, <2>6, <2>7 DEF settings
<1>2. CASE OpenUnanswered
  <2>1. PICK kind \in SessionKinds :
           AttemptFailed /\ BrokerAccepts(kind) /\ sent' = <<>> /\ UNCHANGED <<settings, reporterVars>>
    BY <1>2 DEF OpenUnanswered
  <2>2. kind \in {"plain", "willed"}
    BY DEF SessionKinds
  <2>3. /\ status' \in {"none", "0", "1"} /\ subscribed' \in BOOLEAN
        /\ brokerSession' = kind /\ status' # "1"
    BY <2>1, <2>2, AcceptedInv
  <2>4. sent' \in Seq(Packet) /\ Len(sent') <= 2
    BY <2>1, SentIsTyped
  <2> QED
    BY <2>1, <2>2, <2>3, <2>4 DEF AttemptFailed, settings, reporterVars
<1>3. CASE FailToOpen \/ StartToOpen \/ LoseSession \/ ReportLoss
  <2>1. /\ UNCHANGED messageVars
        /\ session' \in {"lost", "offline", "attempting"} /\ told' \in {told, "disconnected"}
    BY <1>3 DEF FailToOpen, StartToOpen, LoseSession, ReportLoss, AttemptFailed,
                BeginAttempt, SessionLost, NoticeLoss
  <2> QED
    BY <2>1 DEF messageVars, settings, reporterVars, brokerVars
<1> QED
  BY <1>1, <1>2, <1>3

\* Packets arrive in their order: the subscription comes last.
LEMMA BrokerInv ==
    ASSUME MessagesInv, BrokerReceives \/ BrokerCloses
    PROVE  MessagesInv' /\ UNCHANGED sessionVars
<1> USE DEF MessagesInv, MessagesTypeOK, PacketInv, SessionTypeOK, Session, sessionVars,
            settings, reporterVars
<1>1. CASE BrokerReceives
  <2>1. /\ UNCHANGED <<sessionVars, settings, reporterVars, brokerSession>>
        /\ sent \in {<<"subscribe">>, <<"status", "subscribe">>}
        /\ sent' = Tail(sent)
        /\ status' = IF Head(sent) = "status" THEN "1" ELSE status
        /\ subscribed' = (subscribed \/ Head(sent) = "subscribe")
    BY <1>1 DEF BrokerReceives
  <2>2. CASE sent = <<"subscribe">>
    <3>1. sent' = <<>> /\ status' = status /\ subscribed' = TRUE
      BY <2>1, <2>2, PacketFacts
    <3>2. sent' \in Seq(Packet) /\ Len(sent') <= 2
      BY <3>1, SentIsTyped
    <3> QED
      BY <2>1, <3>1, <3>2
  <2>3. CASE sent = <<"status", "subscribe">>
    <3>1. sent' = <<"subscribe">> /\ status' = "1" /\ subscribed' = (subscribed \/ FALSE)
      BY <2>1, <2>3, PacketFacts
    <3>2. sent' \in Seq(Packet) /\ Len(sent') <= 2
      BY <3>1, SentIsTyped
    <3>3. brokerSession = "willed" /\ <<"subscribe">> # <<>>
          /\ <<"subscribe">> # <<"status", "subscribe">>
      BY <2>3
    <3>4. subscribed' \in BOOLEAN
      BY <3>1
    <3> QED
      BY <2>1, <3>1, <3>2, <3>3, <3>4
  <2> QED
    BY <2>1, <2>2, <2>3
<1>2. CASE BrokerCloses
  <2>1. BrokerAccepts("none") /\ sent' = <<>> /\ UNCHANGED <<sessionVars, settings, reporterVars>>
    BY <1>2 DEF BrokerCloses
  <2>2. /\ status' \in {"none", "0", "1"} /\ subscribed' \in BOOLEAN
        /\ brokerSession' = "none" /\ status' # "1"
    BY <2>1, AcceptedInv
  <2>3. sent' \in Seq(Packet) /\ Len(sent') <= 2
    BY <2>1, SentIsTyped
  <2> QED
    BY <2>1, <2>2, <2>3
<1> QED
  BY <1>1, <1>2

LEMMA AgedFacts ==
    ASSUME NEW age \in 0..ReportInterval + 1, NEW other \in 0..ReportInterval + 1,
           age <= other
    PROVE  /\ Aged(age) \in 0..ReportInterval + 1 /\ Aged(other) \in 0..ReportInterval + 1
           /\ Aged(age) <= Aged(other)
BY MessagesAssumption DEF Aged

LEMMA ReporterInv ==
    ASSUME MessagesInv,
           \/ ReporterLoop
           \/ /\ reportAge' = Aged(reportAge) /\ sinceReport' = Aged(sinceReport)
              /\ UNCHANGED <<sessionVars, settings, sent, brokerVars>>
    PROVE  MessagesInv'
<1> USE DEF MessagesInv, MessagesTypeOK, PacketInv, SessionTypeOK, Session, sessionVars,
            settings, brokerVars
<1>1. CASE ReporterLoop
  <2>1. /\ UNCHANGED <<sessionVars, settings, sent, brokerVars>>
        /\ reportAge' = 0 /\ sinceReport' \in {0, sinceReport}
    BY <1>1 DEF ReporterLoop
  <2>2. /\ reportAge' \in 0..ReportInterval + 1 /\ sinceReport' \in 0..ReportInterval + 1
        /\ reportAge' <= sinceReport'
    BY <2>1, MessagesAssumption
  <2> QED
    BY <2>1, <2>2
<1>2. CASE /\ reportAge' = Aged(reportAge) /\ sinceReport' = Aged(sinceReport)
           /\ UNCHANGED <<sessionVars, settings, sent, brokerVars>>
  <2>1. /\ reportAge' \in 0..ReportInterval + 1 /\ sinceReport' \in 0..ReportInterval + 1
        /\ reportAge' <= sinceReport'
    BY <1>2, AgedFacts
  <2> QED
    BY <1>2, <2>1
<1> QED
  BY <1>1, <1>2

-----------------------------------------------------------------------------
(* The device. *)

LEMMA DeviceInitInv == DeviceInit => DeviceInv
<1> SUFFICES ASSUME DeviceInit PROVE DeviceInv
  OBVIOUS
<1>1. WifiInv /\ RotatorInv
  BY WifiInitInv DEF DeviceInit, RotatorInv
<1>2. 0 \in 0..ReportInterval + 1 /\ sent = <<>>
  BY MessagesAssumption DEF DeviceInit, MessagesInit
<1>3. sent \in Seq(Packet) /\ Len(sent) <= 2
  BY <1>2, SentIsTyped
<1>4. MessagesTypeOK
  BY <1>2, <1>3 DEF DeviceInit, MessagesInit, SessionInit, MessagesTypeOK, SessionTypeOK,
                   Session
<1>5. PacketInv
  <2>1. reportAge <= sinceReport
    BY DEF DeviceInit, MessagesInit
  <2>2. brokerSession = "none" /\ status = "none" /\ session = "lost"
    BY DEF DeviceInit, MessagesInit, SessionInit
  <2> QED
    BY <1>2, <2>1, <2>2, PacketFacts DEF PacketInv
<1> QED
  BY <1>1, <1>4, <1>5 DEF DeviceInv

\* An application that starts finds its components as Init leaves them.
LEMMA StartsAfresh == MainStarts => WifiInv'
<1> SUFFICES ASSUME MainStarts PROVE WifiInv'
  OBVIOUS
<1>1. /\ 0 \in 0..WifiTimeout + 1 /\ 0 \in 0..ReconnectTime + 1
      /\ 0 \in 0..IpCheckInterval + 1 /\ 0 \in 0..MaxGap
  BY Intervals
<1> QED
  BY <1>1 DEF MainStarts, WifiInv, WifiTypeOK, CacheInv

LEMMA DeviceStepInv == DeviceInv /\ [DeviceNext]_deviceVars => DeviceInv'
<1> SUFFICES ASSUME DeviceInv, [DeviceNext]_deviceVars PROVE DeviceInv'
  OBVIOUS
<1>1. WifiInv /\ MessagesInv /\ RotatorInv
  BY DEF DeviceInv, MessagesInv
<1>2. SUFFICES WifiInv' /\ MessagesInv' /\ RotatorInv'
  BY DEF DeviceInv, MessagesInv
<1>3. ASSUME UNCHANGED vars PROVE WifiInv' /\ running' = running
  BY <1>1, <1>3, WifiStepInv DEF vars
<1>4. ASSUME UNCHANGED <<sessionVars, messageVars>> PROVE MessagesInv' /\ session' = session
  BY <1>1, <1>4 DEF sessionVars, messageVars, settings, reporterVars, brokerVars,
                    MessagesInv, MessagesTypeOK, SessionTypeOK, PacketInv
<1>5. CASE WifiLoop \/ WifiStation \/ DeviceTick
  <2>1. app = "main" /\ UNCHANGED rotatorVars /\ UNCHANGED session /\ [Next]_vars
    BY <1>5 DEF WifiLoop, WifiStation, DeviceTick, Next, sessionVars
  <2>2. MessagesInv'
    BY <1>1, <1>4, <1>5, ReporterInv DEF WifiLoop, WifiStation, DeviceTick
  <2>3. RotatorInv'
    BY <1>1, <2>1 DEF RotatorInv, rotatorVars
  <2> QED
    BY <1>1, <2>1, <2>2, <2>3, WifiStepInv
<1>6. CASE MqttStep \/ SessionEnds \/ ReporterStep
  <2>1. app = "main" /\ UNCHANGED <<vars, rotatorVars>>
    BY <1>6 DEF MqttStep, SessionEnds, ReporterStep
  <2>2. MessagesInv'
    BY <1>1, <1>6, ConnectorInv, ReporterInv DEF MqttStep, SessionEnds, ReporterStep
  <2>3. RotatorInv'
    BY <1>1, <2>1 DEF RotatorInv, rotatorVars
  <2> QED
    BY <1>3, <2>1, <2>2, <2>3
<1>7. CASE PacketArrives \/ BrokerGivesUp
  <2>1. UNCHANGED <<vars, rotatorVars, session>> /\ MessagesInv'
    BY <1>1, <1>7, BrokerInv DEF PacketArrives, BrokerGivesUp, sessionVars
  <2>2. RotatorInv'
    BY <1>1, <1>3, <2>1 DEF RotatorInv, rotatorVars
  <2> QED
    BY <1>3, <2>1, <2>2
\* The sent packets and the broker outlive the application.
<1>8. CASE MainEnds
  <2>1. MessagesInv'
    BY <1>1, <1>8 DEF MainEnds, settings, reporterVars, brokerVars, MessagesInv,
                      MessagesTypeOK, SessionTypeOK, Session, PacketInv
  <2>2. RotatorInv'
    BY <1>1, <1>3, <1>8 DEF MainEnds, RotatorInv
  <2> QED
    BY <1>3, <1>8, <2>1, <2>2 DEF MainEnds
<1>9. CASE MainStarts
  <2>1. /\ UNCHANGED <<sessionVars, settings, sent, brokerVars, configured>>
        /\ reportAge' = 0 /\ sinceReport' = 0 /\ app' = "main" /\ configured
    BY <1>9 DEF MainStarts
  <2>2. 0 \in 0..ReportInterval + 1
    BY MessagesAssumption
  <2>3. MessagesInv'
    BY <1>1, <2>1, <2>2 DEF sessionVars, settings, brokerVars, MessagesInv,
                      MessagesTypeOK, SessionTypeOK, PacketInv
  <2>4. RotatorInv'
    BY <1>1, <2>1 DEF RotatorInv
  <2> QED
    BY <1>9, <2>3, <2>4, StartsAfresh
<1>10. CASE Configure
  <2>1. RotatorInv'
    BY <1>1, <1>3, <1>10 DEF Configure, RotatorInv, sessionVars
  <2> QED
    BY <1>3, <1>4, <1>10, <2>1 DEF Configure
<1>11. CASE UNCHANGED deviceVars
  <2>1. RotatorInv'
    BY <1>1, <1>3, <1>11 DEF deviceVars, rotatorVars, RotatorInv, sessionVars
  <2> QED
    BY <1>3, <1>4, <1>11, <2>1 DEF deviceVars
<1> QED
  BY <1>5, <1>6, <1>7, <1>8, <1>9, <1>10, <1>11 DEF DeviceNext, Rotate

\* The safety part of the specification: the theorems need no fairness.
DeviceSafety == DeviceInit /\ [][DeviceNext]_deviceVars

LEMMA DeviceInvariance == DeviceSafety => []DeviceInv
BY DeviceInitInv, DeviceStepInv, PTL DEF DeviceSafety

LEMMA DeviceIsSafe == DeviceSpec => DeviceSafety
BY PTL DEF DeviceSpec, DeviceSafety

-----------------------------------------------------------------------------
\* Every variable has its type, and the components of an application that does
\* not run are idle.
THEOREM DeviceTypeCorrect == DeviceSpec => []DeviceTypeOK
<1>1. DeviceInv => DeviceTypeOK
  BY DEF DeviceInv, WifiInv, RotatorInv, DeviceTypeOK
<1> QED
  BY <1>1, DeviceInvariance, DeviceIsSafe, PTL

\* The retained status never claims a connection that no will takes back, and a
\* device that is online is subscribed once its packets have arrived.
THEOREM BrokerIsRight == DeviceSpec => []BrokerKnowsDevice
<1>1. DeviceInv => BrokerKnowsDevice
  BY DEF DeviceInv, PacketInv, BrokerKnowsDevice, StatusIsTrue, SubscribedWhileOnline
<1> QED
  BY <1>1, DeviceInvariance, DeviceIsSafe, PTL

\* No loop is wrong about a station that has been steady for the interval of the
\* check, and no connection is reported without an address.
THEOREM CachedCheckIsEnough == DeviceSpec => CachedCheckSuffices
<1>1. DeviceInv /\ [DeviceNext]_deviceVars =>
        [Loop /\ steadyFor > IpCheckInterval =>
           IF Online THEN running' /\ wasConnected' ELSE ~(running' /\ wasConnected')]_vars
  BY WifiStepSees DEF DeviceInv
<1>2. DeviceInv /\ [DeviceNext]_deviceVars => [~wasConnected /\ wasConnected' => addressSeen']_vars
  <2> SUFFICES ASSUME DeviceInv, DeviceNext, ~wasConnected, wasConnected',
                      ~UNCHANGED vars
               PROVE  addressSeen'
    BY DEF vars, deviceVars
  <2>1. CASE WifiLoop
    BY <2>1, WifiStepSees DEF WifiLoop, DeviceInv
  <2>2. CASE WifiStation \/ DeviceTick
    BY <2>2 DEF WifiStation, DeviceTick, Station, AssociationEnds, AddressAssigned,
                AddressLost, LinkDrops, StationStep, Tick
  <2>3. CASE MqttStep \/ SessionEnds \/ ReporterStep \/ PacketArrives \/ BrokerGivesUp
             \/ MainEnds \/ Configure
    BY <2>3 DEF MqttStep, SessionEnds, ReporterStep, PacketArrives, BrokerGivesUp,
                MainEnds, Configure
  <2>4. CASE MainStarts
    BY <2>4 DEF MainStarts
  <2> QED
    BY <2>1, <2>2, <2>3, <2>4 DEF DeviceNext, Rotate
<1> QED
  BY <1>1, <1>2, DeviceInvariance, DeviceIsSafe, PTL
  DEF CachedCheckSuffices, LoopSeesStation, ConnectedMeansAddress, DeviceSafety

\* Reports, and a connection and its first report, are more than the interval
\* apart.
THEOREM ReportsSpaced == DeviceSpec => ReportsAreSpaced
<1>1. ASSUME DeviceInv, ReporterStep PROVE sinceReport > ReportInterval
  <2>1. reportAge > ReportInterval /\ reportAge <= sinceReport
    BY <1>1 DEF ReporterStep, ReporterLoop, DeviceInv, PacketInv
  <2>2. /\ reportAge \in 0..ReportInterval + 1 /\ sinceReport \in 0..ReportInterval + 1
        /\ ReportInterval \in Nat
    BY <1>1, MessagesAssumption DEF DeviceInv, MessagesTypeOK
  <2> QED
    BY <2>1, <2>2
<1>2. DeviceInv /\ [DeviceNext]_deviceVars =>
        [ReporterStep /\ session = "online" => sinceReport > ReportInterval]_deviceVars
  BY <1>1
<1> QED
  BY <1>2, DeviceInvariance, DeviceIsSafe, PTL DEF ReportsAreSpaced, DeviceSafety
=============================================================================
