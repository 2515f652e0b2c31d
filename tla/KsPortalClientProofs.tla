------------------------ MODULE KsPortalClientProofs ------------------------
(***************************************************************************)
(* The safety of the page and its device, for any number of tabs, of       *)
(* firmwares and of configurations, and however soon request ids are used  *)
(* again.                                                                  *)
(***************************************************************************)
EXTENDS KsPortalClient, SequenceTheorems, TLAPS

\* What a session carries to the device are requests that are answered.
AskedRequest == [id : 0..IdWidth - 1, command : Asked]

TypesInv ==
    /\ cookie \in 0..MaxFirmware /\ cookieBy \in Tab \cup {None}
    /\ page \in [Tab -> 0..MaxFirmware] /\ state \in [Tab -> {Loading, Offline, Online}]
    /\ lastRequestId \in [Tab -> 0..IdWidth - 1]
    /\ pending \in [Tab -> SUBSET Request] /\ shown \in [Tab -> Answer \cup {None}]
    /\ session \in [Tab -> BOOLEAN] /\ toDevice \in [Tab -> Seq(AskedRequest)]
    /\ toTab \in [Tab -> Seq(Reply)] /\ late \in [Tab -> Seq(Command)]
    /\ up \in BOOLEAN /\ firmware \in 1..MaxFirmware /\ app \in {"main", "config"}
    /\ breakApp \in BOOLEAN /\ paramsRead \in BOOLEAN /\ stored \in Configuration

\* Nothing is left of a session on the side that has closed it.
SessionInv(t) ==
    /\ state[t] # Online => ~session[t] /\ toTab[t] = <<>> /\ pending[t] = {}
    /\ ~session[t] => toDevice[t] = <<>>
    /\ ~up => ~session[t] /\ late[t] = <<>>

\* The cookie of a tab's load belongs to the page it has loaded, and sessions
\* only exist while the cookie is the firmware's: an update ends them all.
CookieInv(t) ==
    /\ cookieBy = t /\ cookie # 0 => cookie = page[t]
    /\ session[t] => cookie = firmware

\* The ids of one session's requests are used once in it.
RequestInv(t) ==
    \A r \in pending[t] :
        /\ \A i \in 1..Len(toDevice[t]) :
              toDevice[t][i].id = r.id => toDevice[t][i].command = r.command
        /\ \A i \in 1..Len(toTab[t]) :
              toTab[t][i].id = r.id => toTab[t][i].answers = r.command

AddressInv(t) == \A i \in 1..Len(toTab[t]) : toTab[t][i].to = t

\* While an application runs that has not been asked to end, the configuration is
\* what any answer under way says it is, and a tab shows it or will be told.
AnswerInv(t) ==
    session[t] /\ ~breakApp =>
        /\ \A i \in 1..Len(toTab[t]) :
              toTab[t][i].answers = "getDeviceParams" => toTab[t][i].params = Params
        /\ shown[t] = Params \/ \E r \in pending[t] : r.command = "getDeviceParams"

TabInv(t) ==
    SessionInv(t) /\ CookieInv(t) /\ RequestInv(t) /\ AddressInv(t) /\ AnswerInv(t)

ClientInv == TypesInv /\ \A t \in Tab : TabInv(t)

-----------------------------------------------------------------------------
(* Sequences. *)

LEMMA TailFacts ==
    ASSUME NEW S, NEW s \in Seq(S), s # <<>>
    PROVE  /\ Head(s) \in S /\ Head(s) = s[1] /\ Len(s) \in Nat /\ Len(s) > 0
           /\ Tail(s) \in Seq(S) /\ Len(Tail(s)) = Len(s) - 1
           /\ \A i \in 1..Len(s) - 1 : Tail(s)[i] = s[i + 1]
BY HeadTailProperties, EmptySeq, LenProperties

LEMMA EmptyIsSeq == ASSUME NEW S PROVE <<>> \in Seq(S)
OBVIOUS

LEMMA AskedIsCommand == Seq(AskedRequest) \subseteq Seq(Command)
<1>1. AskedRequest \subseteq Command
  BY DEF AskedRequest, Command, Request
<1> QED
  BY <1>1, SeqMonotonic

LEMMA LastingIsTyped ==
    ASSUME NEW sent \in Seq(Command) PROVE Lasting(sent) \in Seq(Command)
BY TailFacts DEF Lasting

\* What a closing session leaves behind.
LEMMA ClosedLate ==
    ASSUME ClientInv, NEW t \in Tab, NEW sent \in Seq(Command), SessionCloses(t, sent)
    PROVE  /\ late' \in [Tab -> Seq(Command)]
           /\ \A u \in Tab : u # t => late'[u] = late[u]
           /\ sent = <<>> => late' = late
<1>1. late \in [Tab -> Seq(Command)]
  BY DEF ClientInv, TypesInv
<1>2. late[t] \o Lasting(sent) \in Seq(Command)
  BY <1>1, LastingIsTyped, ConcatProperties
<1>3. late' \in {[late EXCEPT ![t] = late[t] \o Lasting(sent)], late}
  BY DEF SessionCloses
<1>4. ASSUME sent = <<>> PROVE late[t] \o Lasting(sent) = late[t]
  <2>1. Lasting(sent) = <<>>
    BY <1>4 DEF Lasting
  <2> QED
    BY <1>1, <2>1, ConcatEmptySeq
<1> QED
  BY <1>1, <1>2, <1>3, <1>4

-----------------------------------------------------------------------------
(* What a step does to a tab. *)

\* A tab that a step leaves alone.
LEMMA SameTab ==
    ASSUME ClientInv, NEW u \in Tab,
           state'[u] = state[u], session'[u] = session[u], pending'[u] = pending[u],
           toDevice'[u] = toDevice[u], toTab'[u] = toTab[u], shown'[u] = shown[u],
           ~up' => ~session[u] /\ late'[u] = <<>>,
           session[u] /\ ~breakApp' => ~breakApp /\ Params' = Params
    PROVE  SessionInv(u)' /\ RequestInv(u)' /\ AddressInv(u)' /\ AnswerInv(u)'
<1>1. SessionInv(u) /\ RequestInv(u) /\ AddressInv(u) /\ AnswerInv(u)
  BY DEF ClientInv, TabInv
<1>2. SessionInv(u)'
  BY <1>1 DEF SessionInv
<1>3. RequestInv(u)' /\ AddressInv(u)'
  BY <1>1 DEF RequestInv, AddressInv
<1>4. AnswerInv(u)'
  BY <1>1 DEF AnswerInv
<1> QED
  BY <1>2, <1>3, <1>4

\* A tab that gives its session up, or has none.
LEMMA ClosedTab ==
    ASSUME NEW u \in Tab, ~session'[u], pending'[u] = {}, toDevice'[u] = <<>>,
           toTab'[u] = <<>>, ~up' => late'[u] = <<>>
    PROVE  SessionInv(u)' /\ RequestInv(u)' /\ AddressInv(u)' /\ AnswerInv(u)'
BY DEF SessionInv, RequestInv, AddressInv, AnswerInv

\* A tab whose session the device gives up.
LEMMA EndedTab ==
    ASSUME ClientInv, NEW u \in Tab, ~session'[u], toDevice'[u] = <<>>,
           state'[u] = state[u], pending'[u] = pending[u], toTab'[u] = toTab[u],
           ~up' => late'[u] = <<>>
    PROVE  SessionInv(u)' /\ RequestInv(u)' /\ AddressInv(u)' /\ AnswerInv(u)'
<1>1. SessionInv(u) /\ RequestInv(u) /\ AddressInv(u)
  BY DEF ClientInv, TabInv
<1>2. SessionInv(u)'
  BY <1>1 DEF SessionInv
<1>3. RequestInv(u)' /\ AddressInv(u)'
  BY <1>1 DEF RequestInv, AddressInv
<1>4. AnswerInv(u)'
  BY DEF AnswerInv
<1> QED
  BY <1>2, <1>3, <1>4

\* Its page and the browser's cookie.
LEMMA SameCookie ==
    ASSUME ClientInv, NEW u \in Tab, UNCHANGED <<cookie, cookieBy, page>>,
           session'[u] => session[u] /\ firmware' = firmware
    PROVE  CookieInv(u)'
BY DEF ClientInv, TabInv, CookieInv

LEMMA InTabs ==
    (TypesInv' /\ \A u \in Tab :
        CookieInv(u)' /\ SessionInv(u)' /\ RequestInv(u)' /\ AddressInv(u)' /\ AnswerInv(u)')
    => ClientInv'
BY DEF ClientInv, TabInv

-----------------------------------------------------------------------------
(* The tab. *)

LEMMA EmptyConfiguration == Unconfigured \in Configuration
BY DEF Unconfigured, Configuration

LEMMA InitInv == Init => ClientInv
<1> SUFFICES ASSUME Init PROVE ClientInv
  OBVIOUS
<1>1. 0 \in 0..MaxFirmware /\ 1 \in 1..MaxFirmware /\ 0 \in 0..IdWidth - 1
  BY ClientAssumption
<1>2. /\ <<>> \in Seq(AskedRequest) /\ <<>> \in Seq(Reply) /\ <<>> \in Seq(Command)
  BY EmptyIsSeq
<1>3. TypesInv
  BY <1>1, <1>2, EmptyConfiguration DEF Init, TypesInv
<1>4. ASSUME NEW u \in Tab PROVE TabInv(u)
  <2>1. /\ ~session[u] /\ pending[u] = {} /\ toDevice[u] = <<>> /\ toTab[u] = <<>>
        /\ up /\ cookie = 0
    BY DEF Init
  <2> QED
    BY <2>1 DEF TabInv, SessionInv, CookieInv, RequestInv, AddressInv, AnswerInv
<1> QED
  BY <1>3, <1>4 DEF ClientInv

LEMMA LoadPageInv == ASSUME ClientInv, NEW t \in Tab, LoadPage(t) PROVE ClientInv'
<1>1. firmware \in 0..MaxFirmware /\ 0 \in 0..IdWidth - 1
  <2>1. firmware \in 1..MaxFirmware
    BY DEF ClientInv, TypesInv
  <2> QED
    BY <2>1, ClientAssumption
<1>2. TypesInv'
  BY <1>1 DEF ClientInv, TypesInv, LoadPage, CookieFor, sessionVars, deviceVars
<1>3. ~session[t] /\ toTab[t] = <<>> /\ pending[t] = {} /\ toDevice[t] = <<>>
  BY DEF ClientInv, TabInv, SessionInv, LoadPage, Loading, Online
<1>4. ASSUME NEW u \in Tab
      PROVE  SessionInv(u)' /\ RequestInv(u)' /\ AddressInv(u)' /\ AnswerInv(u)'
  <2>1. CASE u = t
    BY <1>3, <2>1, ClosedTab DEF LoadPage, sessionVars, deviceVars
  <2>2. CASE u # t
    <3>1. /\ state'[u] = state[u] /\ shown'[u] = shown[u]
          /\ UNCHANGED <<session, pending, toDevice, toTab, late, up, breakApp, app, stored>>
      BY <2>2 DEF LoadPage, ClientInv, TypesInv, sessionVars, deviceVars
    <3> QED
      BY <3>1, SameTab DEF LoadPage, Params
  <2> QED
    BY <2>1, <2>2
<1>5. ASSUME NEW u \in Tab PROVE CookieInv(u)'
  BY DEF LoadPage, CookieFor, CookieInv, ClientInv, TypesInv, TabInv, sessionVars,
         deviceVars
<1> QED
  BY <1>2, <1>4, <1>5, InTabs

LEMMA RefusedInv == ASSUME ClientInv, NEW t \in Tab, Refused(t) PROVE ClientInv'
<1>1. TypesInv'
  BY DEF ClientInv, TypesInv, Refused, sessionVars, deviceVars
<1>2. ~session[t] /\ toTab[t] = <<>> /\ pending[t] = {} /\ toDevice[t] = <<>>
  BY DEF ClientInv, TabInv, SessionInv, Refused, Connecting, Offline, Online
<1>3. ASSUME NEW u \in Tab
      PROVE  SessionInv(u)' /\ RequestInv(u)' /\ AddressInv(u)' /\ AnswerInv(u)'
  <2>1. CASE u = t
    BY <1>2, <2>1, ClosedTab DEF Refused, Connecting, sessionVars, deviceVars
  <2>2. CASE u # t
    <3>1. state'[u] = state[u]
      BY <2>2 DEF Refused, ClientInv, TypesInv
    <3> QED
      BY <3>1, SameTab DEF Refused, Connecting, Params, sessionVars, deviceVars
  <2> QED
    BY <2>1, <2>2
<1>4. ASSUME NEW u \in Tab PROVE CookieInv(u)'
  BY SameCookie DEF Refused, sessionVars, deviceVars
<1> QED
  BY <1>1, <1>3, <1>4, InTabs

\* The two requests of a new session have different ids.
LEMMA NextIdFacts ==
    ASSUME NEW id \in 0..IdWidth - 1
    PROVE  /\ NextId(id) \in 0..IdWidth - 1 /\ NextId(NextId(id)) \in 0..IdWidth - 1
           /\ NextId(NextId(id)) # NextId(id)
<1>1. IdWidth \in Nat /\ IdWidth > 1
  BY ClientAssumption
<1>2. \A i \in 0..IdWidth - 1 : NextId(i) = IF i + 1 = IdWidth THEN 0 ELSE i + 1
  <2> SUFFICES ASSUME NEW i \in 0..IdWidth - 1
               PROVE  NextId(i) = IF i + 1 = IdWidth THEN 0 ELSE i + 1
    OBVIOUS
  <2>1. CASE i + 1 = IdWidth
    BY <1>1, <2>1 DEF NextId
  <2>2. CASE i + 1 < IdWidth
    BY <1>1, <2>2 DEF NextId
  <2> QED
    BY <1>1, <2>1, <2>2
<1> QED
  BY <1>1, <1>2

LEMMA OpenInv == ASSUME ClientInv, NEW t \in Tab, Open(t) PROVE ClientInv'
<1> DEFINE id  == NextId(lastRequestId[t])
           id2 == NextId(id)
           r1  == [id |-> id, command |-> "getIdentity"]
           r2  == [id |-> id2, command |-> "getDeviceParams"]
<1>1. lastRequestId[t] \in 0..IdWidth - 1
  BY DEF ClientInv, TypesInv
<1>2. id \in 0..IdWidth - 1 /\ id2 \in 0..IdWidth - 1 /\ id2 # id
  BY <1>1, NextIdFacts
<1>3. /\ r1 \in AskedRequest /\ r2 \in AskedRequest
      /\ r1 \in Request /\ r2 \in Request
  BY <1>2 DEF AskedRequest, Request, Asked
<1>4. /\ lastRequestId' = [lastRequestId EXCEPT ![t] = id2]
      /\ pending' = [pending EXCEPT ![t] = {r1, r2}]
      /\ toDevice' = [toDevice EXCEPT ![t] = <<r1, r2>>]
  BY DEF Open, BecomeOnline
<1>5. /\ r1.id = id /\ r2.id = id2
      /\ r1.command = "getIdentity" /\ r2.command = "getDeviceParams"
  OBVIOUS
<1> HIDE DEF id, id2, r1, r2
<1>6. <<r1, r2>> \in Seq(AskedRequest) /\ Len(<<r1, r2>>) = 2
      /\ <<r1, r2>>[1] = r1 /\ <<r1, r2>>[2] = r2
  BY <1>3
<1>7. /\ state[t] = Offline /\ up /\ cookie = firmware
      /\ state' = [state EXCEPT ![t] = Online]
      /\ session' = [session EXCEPT ![t] = TRUE]
      /\ UNCHANGED <<cookie, cookieBy, page, shown, toTab, late, up, firmware, app,
                     breakApp, stored, paramsRead>>
  BY DEF Open, Connecting, Admitted, deviceVars
<1>8. TypesInv'
  BY <1>2, <1>3, <1>4, <1>6, <1>7 DEF ClientInv, TypesInv
<1>9. ASSUME NEW u \in Tab
      PROVE  SessionInv(u)' /\ RequestInv(u)' /\ AddressInv(u)' /\ AnswerInv(u)'
  <2>1. CASE u = t
    <3>1. toTab[t] = <<>>
      BY <1>7 DEF ClientInv, TabInv, SessionInv, Offline, Online
    <3>2. /\ state'[t] = Online /\ session'[t] /\ toTab'[t] = <<>> /\ up'
          /\ pending'[t] = {r1, r2} /\ toDevice'[t] = <<r1, r2>>
      BY <3>1, <1>4, <1>7 DEF ClientInv, TypesInv
    <3>3. SessionInv(t)' /\ AddressInv(t)'
      BY <3>2 DEF SessionInv, AddressInv
    <3>4. RequestInv(t)'
      BY <1>2, <1>5, <1>6, <3>2 DEF RequestInv
    <3>5. AnswerInv(t)'
      BY <1>5, <3>2 DEF AnswerInv
    <3> QED
      BY <2>1, <3>3, <3>4, <3>5
  <2>2. CASE u # t
    <3>1. /\ state'[u] = state[u] /\ session'[u] = session[u]
          /\ pending'[u] = pending[u] /\ toDevice'[u] = toDevice[u]
      BY <1>4, <1>7, <2>2 DEF ClientInv, TypesInv
    <3> QED
      BY <1>7, <3>1, SameTab DEF Params
  <2> QED
    BY <2>1, <2>2
<1>10. ASSUME NEW u \in Tab PROVE CookieInv(u)'
  BY <1>7 DEF ClientInv, TypesInv, TabInv, CookieInv
<1> QED
  BY <1>8, <1>9, <1>10, InTabs

\* A reply that is received resolves its own request, and shows its parameters.
LEMMA ReceiveInv == ASSUME ClientInv, NEW t \in Tab, Receive(t) PROVE ClientInv'
<1> DEFINE reply == Head(toTab[t])
           asked == {r \in pending[t] : r.id = reply.id}
<1>1. /\ toTab[t] \in Seq(Reply) /\ toTab[t] # <<>>
      /\ pending' = [pending EXCEPT ![t] = pending[t] \ asked]
      /\ shown' = IF \E r \in asked : r.command = "getDeviceParams"
                  THEN [shown EXCEPT ![t] = reply.params] ELSE shown
      /\ toTab' = [toTab EXCEPT ![t] = Tail(toTab[t])]
      /\ UNCHANGED <<cookie, cookieBy, page, state, lastRequestId, session, toDevice,
                     late, up, firmware, app, breakApp, stored, paramsRead>>
  BY DEF Receive, ClientInv, TypesInv, deviceVars
<1>2. /\ reply \in Reply /\ reply = toTab[t][1] /\ Len(toTab[t]) \in Nat
      /\ Len(toTab[t]) > 0 /\ Tail(toTab[t]) \in Seq(Reply)
      /\ Len(Tail(toTab[t])) = Len(toTab[t]) - 1
      /\ \A i \in 1..Len(toTab[t]) - 1 : Tail(toTab[t])[i] = toTab[t][i + 1]
  BY <1>1, TailFacts
<1>3. reply.params \in Answer \cup {None}
  BY <1>2 DEF Reply
<1> HIDE DEF reply
<1>4. TypesInv'
  BY <1>1, <1>2, <1>3 DEF ClientInv, TypesInv
<1>5. ASSUME NEW u \in Tab
      PROVE  SessionInv(u)' /\ RequestInv(u)' /\ AddressInv(u)' /\ AnswerInv(u)'
  <2>1. CASE u = t
    <3>1. /\ state'[t] = state[t] /\ session'[t] = session[t]
          /\ toDevice'[t] = toDevice[t] /\ pending'[t] = pending[t] \ asked
          /\ toTab'[t] = Tail(toTab[t]) /\ up' = up /\ late'[t] = late[t]
      BY <1>1 DEF ClientInv, TypesInv
    <3>2. SessionInv(t) /\ RequestInv(t) /\ AddressInv(t) /\ AnswerInv(t)
      BY DEF ClientInv, TabInv
    <3>3. SessionInv(t)'
      BY <1>1, <3>1, <3>2 DEF SessionInv
    <3>4. AddressInv(t)'
      BY <1>2, <3>1, <3>2 DEF AddressInv
    <3>5. RequestInv(t)'
      <4> SUFFICES ASSUME NEW r \in pending[t] \ asked
                   PROVE  /\ \A i \in 1..Len(toDevice[t]) :
                               toDevice[t][i].id = r.id => toDevice[t][i].command = r.command
                          /\ \A i \in 1..Len(Tail(toTab[t])) :
                               Tail(toTab[t])[i].id = r.id
                               => Tail(toTab[t])[i].answers = r.command
        BY <3>1 DEF RequestInv
      <4>1. r \in pending[t]
        OBVIOUS
      <4>2. /\ \A i \in 1..Len(toDevice[t]) :
                 toDevice[t][i].id = r.id => toDevice[t][i].command = r.command
            /\ \A i \in 1..Len(toTab[t]) :
                 toTab[t][i].id = r.id => toTab[t][i].answers = r.command
        BY <3>2, <4>1 DEF RequestInv
      <4> QED
        BY <1>2, <4>2
    <3>6. AnswerInv(t)'
      <4> SUFFICES ASSUME session'[t], ~breakApp' PROVE
              /\ \A i \in 1..Len(toTab'[t]) :
                   toTab'[t][i].answers = "getDeviceParams" => toTab'[t][i].params = Params'
              /\ shown'[t] = Params' \/ \E r \in pending'[t] : r.command = "getDeviceParams"
        BY DEF AnswerInv
      <4>1. /\ Params' = Params
            /\ \A i \in 1..Len(toTab[t]) :
                 toTab[t][i].answers = "getDeviceParams" => toTab[t][i].params = Params
            /\ shown[t] = Params \/ \E r \in pending[t] : r.command = "getDeviceParams"
        BY <1>1, <3>1, <3>2 DEF AnswerInv, Params
      <4>2. \A i \in 1..Len(toTab'[t]) :
               toTab'[t][i].answers = "getDeviceParams" => toTab'[t][i].params = Params'
        <5> SUFFICES ASSUME NEW i \in 1..Len(Tail(toTab[t])),
                            Tail(toTab[t])[i].answers = "getDeviceParams"
                     PROVE  Tail(toTab[t])[i].params = Params
          BY <3>1, <4>1
        <5>1. i \in 1..Len(toTab[t]) - 1 /\ i + 1 \in 1..Len(toTab[t])
          BY <1>2
        <5>2. Tail(toTab[t])[i] = toTab[t][i + 1]
          BY <1>2, <5>1
        <5> QED
          BY <4>1, <5>1, <5>2
      <4>3. CASE \E r \in asked : r.command = "getDeviceParams"
        <5>1. reply.answers = "getDeviceParams"
          BY <1>2, <3>2, <4>3 DEF RequestInv
        <5>2. shown'[t] = reply.params
          BY <1>1, <4>3 DEF ClientInv, TypesInv
        <5> QED
          BY <1>2, <4>1, <4>2, <5>1, <5>2
      <4>4. CASE ~\E r \in asked : r.command = "getDeviceParams"
        BY <1>1, <3>1, <4>1, <4>2, <4>4
      <4> QED
        BY <4>3, <4>4
    <3> QED
      BY <2>1, <3>3, <3>4, <3>5, <3>6
  <2>2. CASE u # t
    <3>1. /\ pending'[u] = pending[u] /\ toTab'[u] = toTab[u] /\ shown'[u] = shown[u]
      BY <1>1, <2>2 DEF ClientInv, TypesInv
    <3>2. ~up => ~session[u] /\ late[u] = <<>>
      BY DEF ClientInv, TabInv, SessionInv
    <3> QED
      BY <1>1, <3>1, <3>2, SameTab DEF Params
  <2> QED
    BY <2>1, <2>2
<1>6. ASSUME NEW u \in Tab PROVE CookieInv(u)'
  BY <1>1, SameCookie
<1> QED
  BY <1>4, <1>5, <1>6, InTabs

\* A session that its tab closes, with or without the device's knowing of it.
LEMMA NoticeCloseInv == ASSUME ClientInv, NEW t \in Tab, NoticeClose(t) PROVE ClientInv'
<1>1. /\ state' = [state EXCEPT ![t] = Offline]
      /\ pending' = [pending EXCEPT ![t] = {}]
      /\ toTab' = [toTab EXCEPT ![t] = <<>>]
      /\ UNCHANGED <<cookie, cookieBy, page, lastRequestId, shown, session, toDevice,
                     late, up, firmware, app, breakApp, stored, paramsRead>>
      /\ ~session[t] /\ toDevice[t] = <<>>
  BY DEF NoticeClose, TabCloses, deviceVars, ClientInv, TabInv, SessionInv
<1>2. <<>> \in Seq(Reply)
  BY EmptyIsSeq
<1>3. TypesInv'
  BY <1>1, <1>2 DEF ClientInv, TypesInv
<1>4. ASSUME NEW u \in Tab
      PROVE  SessionInv(u)' /\ RequestInv(u)' /\ AddressInv(u)' /\ AnswerInv(u)'
  <2>1. ~up' => ~session[u] /\ late'[u] = <<>>
    BY <1>1 DEF ClientInv, TabInv, SessionInv
  <2>2. CASE u = t
    <3>1. pending'[t] = {} /\ toTab'[t] = <<>>
      BY <1>1 DEF ClientInv, TypesInv
    <3> QED
      BY <1>1, <2>1, <2>2, <3>1, ClosedTab
  <2>3. CASE u # t
    <3>1. state'[u] = state[u] /\ pending'[u] = pending[u] /\ toTab'[u] = toTab[u]
      BY <1>1, <2>3 DEF ClientInv, TypesInv
    <3> QED
      BY <1>1, <2>1, <3>1, SameTab DEF Params
  <2> QED
    BY <2>2, <2>3
<1>5. ASSUME NEW u \in Tab PROVE CookieInv(u)'
  BY <1>1, SameCookie
<1> QED
  BY <1>3, <1>4, <1>5, InTabs

LEMMA ClosingInv ==
    ASSUME ClientInv, NEW t \in Tab, NEW sent \in Seq(Command), sent # <<>> => up,
           TabCloses(t), SessionCloses(t, sent),
           lastRequestId' \in [Tab -> 0..IdWidth - 1],
           UNCHANGED <<cookie, cookieBy, page, shown, deviceVars>>
    PROVE  ClientInv'
<1>1. /\ state' = [state EXCEPT ![t] = Offline]
      /\ pending' = [pending EXCEPT ![t] = {}]
      /\ toTab' = [toTab EXCEPT ![t] = <<>>]
      /\ session' = [session EXCEPT ![t] = FALSE]
      /\ toDevice' = [toDevice EXCEPT ![t] = <<>>]
      /\ UNCHANGED <<up, firmware, app, breakApp, stored, paramsRead>>
  BY DEF TabCloses, SessionCloses, deviceVars
<1>2. /\ late' \in [Tab -> Seq(Command)]
      /\ \A u \in Tab : u # t => late'[u] = late[u]
      /\ sent = <<>> => late' = late
  BY ClosedLate
<1>3. <<>> \in Seq(Reply) /\ <<>> \in Seq(AskedRequest)
  BY EmptyIsSeq
<1>4. TypesInv'
  BY <1>1, <1>2, <1>3 DEF ClientInv, TypesInv
<1>5. ASSUME NEW u \in Tab
      PROVE  SessionInv(u)' /\ RequestInv(u)' /\ AddressInv(u)' /\ AnswerInv(u)'
  <2>1. ~up' => ~session[u] /\ late[u] = <<>>
    BY <1>1 DEF ClientInv, TabInv, SessionInv
  <2>2. CASE u = t
    <3>1. /\ pending'[t] = {} /\ toTab'[t] = <<>> /\ ~session'[t] /\ toDevice'[t] = <<>>
      BY <1>1 DEF ClientInv, TypesInv
    <3> QED
      BY <1>1, <1>2, <2>1, <2>2, <3>1, ClosedTab
  <2>3. CASE u # t
    <3>1. /\ state'[u] = state[u] /\ pending'[u] = pending[u] /\ toTab'[u] = toTab[u]
          /\ session'[u] = session[u] /\ toDevice'[u] = toDevice[u] /\ late'[u] = late[u]
          /\ shown' = shown
      BY <1>1, <1>2, <2>3 DEF ClientInv, TypesInv
    <3> QED
      BY <1>1, <2>1, <3>1, SameTab DEF Params
  <2> QED
    BY <2>2, <2>3
<1>6. ASSUME NEW u \in Tab PROVE CookieInv(u)'
  <2>1. session'[u] => session[u]
    BY <1>1 DEF ClientInv, TypesInv
  <2> QED
    BY <1>1, <2>1, SameCookie
<1> QED
  BY <1>4, <1>5, <1>6, InTabs

LEMMA SentIsTyped ==
    ASSUME ClientInv, NEW t \in Tab
    PROVE  toDevice[t] \in Seq(Command) /\ (session[t] => up)
BY AskedIsCommand DEF ClientInv, TypesInv, TabInv, SessionInv

LEMMA TabDropsInv == ASSUME ClientInv, NEW t \in Tab, TabDrops(t) PROVE ClientInv'
<1>1. /\ session[t] /\ TabCloses(t) /\ SessionCloses(t, toDevice[t])
      /\ UNCHANGED <<cookie, cookieBy, page, lastRequestId, shown, deviceVars>>
  BY DEF TabDrops
<1>2. lastRequestId' \in [Tab -> 0..IdWidth - 1]
  BY <1>1 DEF ClientInv, TypesInv
<1> QED
  BY <1>1, <1>2, SentIsTyped, ClosingInv

LEMMA SendInv ==
    ASSUME ClientInv, NEW t \in Tab, NEW command \in Command,
           SendAndGoOffline(t, command)
    PROVE  ClientInv'
<1> DEFINE sent == IF session[t] THEN Append(toDevice[t], command) ELSE <<>>
<1>1. /\ TabCloses(t) /\ SessionCloses(t, sent)
      /\ lastRequestId' = [lastRequestId EXCEPT ![t] = NextId(lastRequestId[t])]
      /\ UNCHANGED <<cookie, cookieBy, page, shown, deviceVars>>
  BY DEF SendAndGoOffline
<1>2. NextId(lastRequestId[t]) \in 0..IdWidth - 1
  BY NextIdFacts DEF ClientInv, TypesInv
<1>3. lastRequestId' \in [Tab -> 0..IdWidth - 1]
  BY <1>1, <1>2 DEF ClientInv, TypesInv
<1>4. sent \in Seq(Command) /\ (sent # <<>> => up)
  BY SentIsTyped, AppendProperties
<1> HIDE DEF sent
<1> QED
  BY <1>1, <1>3, <1>4, ClosingInv

LEMMA UserInv ==
    ASSUME ClientInv, NEW t \in Tab, SaveAndReboot(t) \/ FactoryReset(t) \/ GoToConfigMode(t)
    PROVE  ClientInv'
<1>1. CASE SaveAndReboot(t)
  <2>1. PICK v \in Value :
           SendAndGoOffline(t, [command |-> "saveConfig", value |-> v])
    BY <1>1 DEF SaveAndReboot
  <2>2. [command |-> "saveConfig", value |-> v] \in Command
    BY DEF Command
  <2> QED
    BY <2>1, <2>2, SendInv
<1>2. CASE FactoryReset(t)
  <2>1. [command |-> "factoryReset"] \in Command
    BY DEF Command
  <2> QED
    BY <1>2, <2>1, SendInv DEF FactoryReset
<1>3. CASE GoToConfigMode(t)
  <2>1. NextId(lastRequestId[t]) \in 0..IdWidth - 1
    BY NextIdFacts DEF ClientInv, TypesInv
  <2>2. [id |-> NextId(lastRequestId[t]), command |-> "goToConfigMode"] \in Command
    BY <2>1 DEF Command, Request
  <2> QED
    BY <1>3, <2>2, SendInv DEF GoToConfigMode
<1> QED
  BY <1>1, <1>2, <1>3

LEMMA DeviceDropsInv == ASSUME ClientInv, NEW t \in Tab, DeviceDrops(t) PROVE ClientInv'
<1>1. /\ session[t] /\ up
      /\ session' = [session EXCEPT ![t] = FALSE]
      /\ toDevice' = [toDevice EXCEPT ![t] = <<>>]
      /\ UNCHANGED <<cookie, cookieBy, page, state, lastRequestId, pending, shown, toTab,
                     late, up, firmware, app, breakApp, stored, paramsRead>>
  BY SentIsTyped DEF DeviceDrops, browserVars, tabVars, deviceVars
<1>2. <<>> \in Seq(AskedRequest)
  BY EmptyIsSeq
<1>3. TypesInv'
  BY <1>1, <1>2 DEF ClientInv, TypesInv
<1>4. ASSUME NEW u \in Tab
      PROVE  SessionInv(u)' /\ RequestInv(u)' /\ AddressInv(u)' /\ AnswerInv(u)'
  <2>1. CASE u = t
    <3>1. ~session'[u] /\ toDevice'[u] = <<>>
      BY <1>1, <2>1 DEF ClientInv, TypesInv
    <3> QED
      BY <1>1, <3>1, EndedTab
  <2>2. CASE u # t
    <3>1. session'[u] = session[u] /\ toDevice'[u] = toDevice[u]
      BY <1>1, <2>2 DEF ClientInv, TypesInv
    <3> QED
      BY <1>1, <3>1, SameTab DEF Params
  <2> QED
    BY <2>1, <2>2
<1>5. ASSUME NEW u \in Tab PROVE CookieInv(u)'
  <2>1. session'[u] => session[u]
    BY <1>1 DEF ClientInv, TypesInv
  <2> QED
    BY <1>1, <2>1, SameCookie
<1> QED
  BY <1>3, <1>4, <1>5, InTabs

LEMMA BrowserRestartsInv == ASSUME ClientInv, BrowserRestarts PROVE ClientInv'
<1>1. /\ cookie' = 0 /\ cookieBy' = None
      /\ state' = [t \in Tab |-> Loading] /\ pending' = [t \in Tab |-> {}]
      /\ session' = [t \in Tab |-> FALSE] /\ toDevice' = [t \in Tab |-> <<>>]
      /\ toTab' = [t \in Tab |-> <<>>]
      /\ UNCHANGED <<page, lastRequestId, shown, late, up, firmware, app, breakApp,
                     stored, paramsRead>>
  BY DEF BrowserRestarts, deviceVars
<1>2. <<>> \in Seq(AskedRequest) /\ <<>> \in Seq(Reply) /\ 0 \in 0..MaxFirmware
  BY ClientAssumption, EmptyIsSeq
<1>3. TypesInv'
  BY <1>1, <1>2 DEF ClientInv, TypesInv
<1>4. ASSUME NEW u \in Tab
      PROVE  SessionInv(u)' /\ RequestInv(u)' /\ AddressInv(u)' /\ AnswerInv(u)'
  <2>1. ~up' => late'[u] = <<>>
    BY <1>1 DEF ClientInv, TabInv, SessionInv
  <2>2. /\ ~session'[u] /\ pending'[u] = {} /\ toDevice'[u] = <<>> /\ toTab'[u] = <<>>
    BY <1>1
  <2> QED
    BY <2>1, <2>2, ClosedTab
<1>5. ASSUME NEW u \in Tab PROVE CookieInv(u)'
  BY <1>1 DEF CookieInv
<1> QED
  BY <1>3, <1>4, <1>5, InTabs

-----------------------------------------------------------------------------
(* The device. *)

\* A reply goes to the tab that has asked, with the id and the parameters of what it
\* has asked for.
LEMMA HandleRequestInv ==
    ASSUME ClientInv, NEW t \in Tab, HandleRequest(t) PROVE ClientInv'
<1> DEFINE request == Head(toDevice[t])
           reply == [id |-> request.id, answers |-> request.command, to |-> t,
                     params |-> IF request.command = "getDeviceParams"
                                THEN Params ELSE None]
<1>1. /\ toDevice[t] \in Seq(AskedRequest) /\ toDevice[t] # <<>>
      /\ toTab' = [toTab EXCEPT ![t] = Append(toTab[t], reply)]
      /\ toDevice' = [toDevice EXCEPT ![t] = Tail(toDevice[t])]
      /\ paramsRead' \in BOOLEAN
      /\ UNCHANGED <<cookie, cookieBy, page, state, lastRequestId, pending, shown,
                     session, late, up, firmware, app, breakApp, stored>>
  BY DEF HandleRequest, ReplyTo, ClientInv, TypesInv, browserVars, tabVars
<1>2. /\ request \in AskedRequest /\ request = toDevice[t][1]
      /\ Len(toDevice[t]) \in Nat /\ Len(toDevice[t]) > 0
      /\ Tail(toDevice[t]) \in Seq(AskedRequest)
      /\ Len(Tail(toDevice[t])) = Len(toDevice[t]) - 1
      /\ \A i \in 1..Len(toDevice[t]) - 1 : Tail(toDevice[t])[i] = toDevice[t][i + 1]
  BY <1>1, TailFacts
<1>3. Params \in Answer
  BY DEF Params, Answer, ClientInv, TypesInv
<1>4. reply \in Reply
  BY <1>2, <1>3 DEF AskedRequest, Reply
<1>5. /\ reply.id = request.id /\ reply.answers = request.command /\ reply.to = t
      /\ reply.answers = "getDeviceParams" => reply.params = Params
  OBVIOUS
<1> HIDE DEF request, reply
<1>6. /\ Len(toTab[t]) \in Nat
      /\ Append(toTab[t], reply) \in Seq(Reply)
      /\ Len(Append(toTab[t], reply)) = Len(toTab[t]) + 1
      /\ \A i \in 1..Len(toTab[t]) : Append(toTab[t], reply)[i] = toTab[t][i]
      /\ Append(toTab[t], reply)[Len(toTab[t]) + 1] = reply
  <2>1. toTab[t] \in Seq(Reply)
    BY DEF ClientInv, TypesInv
  <2> QED
    BY <1>4, <2>1, AppendProperties, LenProperties
<1>7. TypesInv'
  BY <1>1, <1>2, <1>6 DEF ClientInv, TypesInv
<1>8. ASSUME NEW u \in Tab
      PROVE  SessionInv(u)' /\ RequestInv(u)' /\ AddressInv(u)' /\ AnswerInv(u)'
  <2>1. CASE u = t
    <3>1. SessionInv(t) /\ RequestInv(t) /\ AddressInv(t) /\ AnswerInv(t)
      BY DEF ClientInv, TabInv
    <3>2. /\ toTab'[t] = Append(toTab[t], reply) /\ toDevice'[t] = Tail(toDevice[t])
          /\ session[t] /\ Params' = Params
      BY <1>1, <3>1 DEF ClientInv, TypesInv, SessionInv, Params
    <3>3. SessionInv(t)'
      BY <1>1, <3>1, <3>2 DEF SessionInv
    <3>4. AddressInv(t)'
      <4> SUFFICES ASSUME NEW i \in 1..Len(toTab[t]) + 1
                   PROVE  Append(toTab[t], reply)[i].to = t
        BY <1>6, <3>2 DEF AddressInv
      <4>1. CASE i = Len(toTab[t]) + 1
        BY <1>5, <1>6, <4>1
      <4>2. CASE i \in 1..Len(toTab[t])
        BY <1>6, <3>1, <4>2 DEF AddressInv
      <4> QED
        BY <1>6, <4>1, <4>2
    <3>5. RequestInv(t)'
      <4> SUFFICES ASSUME NEW r \in pending[t]
                   PROVE  /\ \A i \in 1..Len(Tail(toDevice[t])) :
                               Tail(toDevice[t])[i].id = r.id
                               => Tail(toDevice[t])[i].command = r.command
                          /\ \A i \in 1..Len(toTab[t]) + 1 :
                               Append(toTab[t], reply)[i].id = r.id
                               => Append(toTab[t], reply)[i].answers = r.command
        <5>1. /\ Len(Append(toTab[t], reply)) = Len(toTab[t]) + 1
              /\ pending' = pending
          BY <1>1, <1>6
        <5> QED
          BY <3>2, <5>1 DEF RequestInv
      <4>1. /\ \A i \in 1..Len(toDevice[t]) :
                 toDevice[t][i].id = r.id => toDevice[t][i].command = r.command
            /\ \A i \in 1..Len(toTab[t]) :
                 toTab[t][i].id = r.id => toTab[t][i].answers = r.command
        BY <3>1 DEF RequestInv
      <4>2. \A i \in 1..Len(Tail(toDevice[t])) :
                Tail(toDevice[t])[i].id = r.id => Tail(toDevice[t])[i].command = r.command
        BY <1>2, <4>1
      <4>3. reply.id = r.id => reply.answers = r.command
        <5>1. 1 \in 1..Len(toDevice[t])
          BY <1>2
        <5> QED
          BY <1>2, <1>5, <4>1, <5>1
      <4>4. \A i \in 1..Len(toTab[t]) + 1 :
                i \in 1..Len(toTab[t]) \/ i = Len(toTab[t]) + 1
        BY <1>6
      <4> QED
        BY <1>6, <4>1, <4>2, <4>3, <4>4
    <3>6. AnswerInv(t)'
      <4> SUFFICES ASSUME session[t], ~breakApp
                   PROVE  /\ \A i \in 1..Len(toTab[t]) + 1 :
                               Append(toTab[t], reply)[i].answers = "getDeviceParams"
                               => Append(toTab[t], reply)[i].params = Params
                          /\ shown[t] = Params
                             \/ \E r \in pending[t] : r.command = "getDeviceParams"
        BY <1>1, <1>6, <3>2 DEF AnswerInv
      <4>1. \A i \in 1..Len(toTab[t]) + 1 :
                i \in 1..Len(toTab[t]) \/ i = Len(toTab[t]) + 1
        BY <1>6
      <4>2. /\ \A i \in 1..Len(toTab[t]) :
                 toTab[t][i].answers = "getDeviceParams" => toTab[t][i].params = Params
            /\ shown[t] = Params \/ \E r \in pending[t] : r.command = "getDeviceParams"
        BY <3>1 DEF AnswerInv
      <4> QED
        BY <1>5, <1>6, <4>1, <4>2
    <3> QED
      BY <2>1, <3>3, <3>4, <3>5, <3>6
  <2>2. CASE u # t
    <3>1. toTab'[u] = toTab[u] /\ toDevice'[u] = toDevice[u]
      BY <1>1, <2>2 DEF ClientInv, TypesInv
    <3>2. ~up => ~session[u] /\ late[u] = <<>>
      BY DEF ClientInv, TabInv, SessionInv
    <3> QED
      BY <1>1, <3>1, <3>2, SameTab DEF Params
  <2> QED
    BY <2>1, <2>2
<1>9. ASSUME NEW u \in Tab PROVE CookieInv(u)'
  BY <1>1, SameCookie
<1> QED
  BY <1>7, <1>8, <1>9, InTabs

\* What is handled late changes the configuration only with the end of the
\* application.
LEMMA CommandedFacts ==
    ASSUME ClientInv, NEW m \in Command, Commanded(m)
    PROVE  /\ breakApp' \in BOOLEAN /\ paramsRead' \in BOOLEAN /\ stored' \in Configuration
           /\ ~breakApp' => ~breakApp /\ stored' = stored
<1>1. m.command = "saveConfig" => m.value \in Value
  BY DEF Command, Request, Asked
<1>2. \A v, w \in Value \cup {""} : [credentials |-> v, params |-> w] \in Configuration
  BY DEF Configuration
<1>3. stored \in Configuration /\ stored.params \in Value \cup {""}
  BY DEF ClientInv, TypesInv, Configuration
<1>4. stored' \in Configuration
  <2>1. CASE m.command = "saveConfig"
    <3>1. stored' = [credentials |-> m.value,
                     params |-> IF paramsRead THEN m.value ELSE stored.params]
      BY <2>1 DEF Commanded
    <3>2. (IF paramsRead THEN m.value ELSE stored.params) \in Value \cup {""}
      BY <1>1, <1>3, <2>1
    <3> QED
      BY <1>1, <1>2, <2>1, <3>1, <3>2
  <2>2. CASE m.command # "saveConfig"
    BY <1>3, <2>2 DEF Commanded
  <2> QED
    BY <2>1, <2>2
<1>5. breakApp' \in BOOLEAN /\ paramsRead' \in BOOLEAN
  <2>1. CASE m.command = "saveConfig"
    BY <2>1 DEF Commanded, ClientInv, TypesInv
  <2>2. CASE m.command # "saveConfig"
    BY <2>2 DEF Commanded, ClientInv, TypesInv
  <2> QED
    BY <2>1, <2>2
<1>6. ~breakApp' => ~breakApp /\ stored' = stored
  BY DEF Commanded
<1> QED
  BY <1>4, <1>5, <1>6

LEMMA HandleLateInv == ASSUME ClientInv, NEW t \in Tab, HandleLate(t) PROVE ClientInv'
<1>1. /\ late[t] \in Seq(Command) /\ late[t] # <<>>
      /\ Commanded(Head(late[t]))
      /\ late' = [late EXCEPT ![t] = Tail(late[t])]
      /\ UNCHANGED <<cookie, cookieBy, page, state, lastRequestId, pending, shown,
                     session, toDevice, toTab, up, firmware, app>>
  BY DEF HandleLate, ClientInv, TypesInv, browserVars, tabVars
<1>2. Head(late[t]) \in Command /\ Tail(late[t]) \in Seq(Command)
  BY <1>1, TailFacts
<1>3. /\ breakApp' \in BOOLEAN /\ paramsRead' \in BOOLEAN /\ stored' \in Configuration
      /\ ~breakApp' => ~breakApp /\ stored' = stored
  BY <1>1, <1>2, CommandedFacts
<1>4. TypesInv'
  BY <1>1, <1>2, <1>3 DEF ClientInv, TypesInv
<1>5. up
  BY <1>1 DEF ClientInv, TabInv, SessionInv
<1>6. ASSUME NEW u \in Tab
      PROVE  SessionInv(u)' /\ RequestInv(u)' /\ AddressInv(u)' /\ AnswerInv(u)'
  BY <1>1, <1>3, <1>5, SameTab DEF Params
<1>7. ASSUME NEW u \in Tab PROVE CookieInv(u)'
  BY <1>1, SameCookie
<1> QED
  BY <1>4, <1>6, <1>7, InTabs

\* Whatever ends the application ends the sessions.
LEMMA StopsInv ==
    ASSUME ClientInv, DeviceStops, firmware' \in 1..MaxFirmware,
           app' \in {"main", "config"}, stored' \in Configuration
    PROVE  ClientInv'
<1>1. /\ up' = FALSE /\ breakApp' = FALSE /\ paramsRead' = FALSE
      /\ session' = [t \in Tab |-> FALSE] /\ toDevice' = [t \in Tab |-> <<>>]
      /\ late' = [t \in Tab |-> <<>>]
      /\ UNCHANGED <<cookie, cookieBy, page, state, lastRequestId, pending, shown, toTab>>
  BY DEF DeviceStops, browserVars, tabVars
<1>2. <<>> \in Seq(AskedRequest) /\ <<>> \in Seq(Command)
  BY EmptyIsSeq
<1>3. TypesInv'
  BY <1>1, <1>2 DEF ClientInv, TypesInv
<1>4. ASSUME NEW u \in Tab
      PROVE  SessionInv(u)' /\ RequestInv(u)' /\ AddressInv(u)' /\ AnswerInv(u)'
  <2>1. ~session'[u] /\ toDevice'[u] = <<>> /\ late'[u] = <<>>
    BY <1>1
  <2> QED
    BY <1>1, <2>1, EndedTab
<1>5. ASSUME NEW u \in Tab PROVE CookieInv(u)'
  <2>1. ~session'[u]
    BY <1>1
  <2> QED
    BY <1>1, <2>1, SameCookie
<1> QED
  BY <1>3, <1>4, <1>5, InTabs

LEMMA LaterFirmware ==
    ASSUME NEW f \in 1..MaxFirmware, NEW g \in f..MaxFirmware PROVE g \in 1..MaxFirmware
BY ClientAssumption

LEMMA EndsInv ==
    ASSUME ClientInv,
           AppEnds \/ DeviceRestarts \/ \E t \in Tab : HandleFactoryReset(t)
    PROVE  ClientInv'
<1>1. /\ firmware \in 1..MaxFirmware /\ app \in {"main", "config"}
      /\ stored \in Configuration
  BY DEF ClientInv, TypesInv
<1>2. CASE AppEnds
  BY <1>1, <1>2, StopsInv DEF AppEnds
<1>3. CASE DeviceRestarts
  <2>1. firmware' \in firmware..MaxFirmware
    BY <1>3 DEF DeviceRestarts
  <2>2. firmware' \in 1..MaxFirmware
    BY <1>1, <2>1, LaterFirmware
  <2> QED
    BY <1>1, <1>3, <2>2, StopsInv DEF DeviceRestarts
<1>4. CASE \E t \in Tab : HandleFactoryReset(t)
  BY <1>1, <1>4, StopsInv, EmptyConfiguration DEF HandleFactoryReset
<1> QED
  BY <1>2, <1>3, <1>4

LEMMA AppStartsInv == ASSUME ClientInv, AppStarts PROVE ClientInv'
<1>1. /\ ~up /\ up' /\ up' \in BOOLEAN
      /\ app' \in {"main", "config"}
      /\ UNCHANGED <<cookie, cookieBy, page, state, lastRequestId, pending, shown,
                     session, toDevice, toTab, late, firmware, breakApp, stored, paramsRead>>
  BY DEF AppStarts, ClientInv, TypesInv, browserVars, tabVars, sessionVars
<1>2. TypesInv'
  BY <1>1 DEF ClientInv, TypesInv
<1>3. ASSUME NEW u \in Tab
      PROVE  SessionInv(u)' /\ RequestInv(u)' /\ AddressInv(u)' /\ AnswerInv(u)'
  <2>1. ~session[u]
    BY <1>1 DEF ClientInv, TabInv, SessionInv
  <2> QED
    BY <1>1, <2>1, SameTab
<1>4. ASSUME NEW u \in Tab PROVE CookieInv(u)'
  BY <1>1, SameCookie
<1> QED
  BY <1>2, <1>3, <1>4, InTabs

LEMMA UnchangedInv == ASSUME ClientInv, UNCHANGED vars PROVE ClientInv'
<1>1. UNCHANGED <<cookie, cookieBy, page, state, lastRequestId, pending, shown, session,
                  toDevice, toTab, late, up, firmware, app, breakApp, stored, paramsRead>>
  BY DEF vars, browserVars, tabVars, sessionVars, deviceVars
<1>2. TypesInv'
  BY <1>1 DEF ClientInv, TypesInv
<1>3. ASSUME NEW u \in Tab
      PROVE  SessionInv(u)' /\ RequestInv(u)' /\ AddressInv(u)' /\ AnswerInv(u)'
  <2>1. ~up => ~session[u] /\ late[u] = <<>>
    BY DEF ClientInv, TabInv, SessionInv
  <2> QED
    BY <1>1, <2>1, SameTab DEF Params
<1>4. ASSUME NEW u \in Tab PROVE CookieInv(u)'
  BY <1>1, SameCookie
<1> QED
  BY <1>2, <1>3, <1>4, InTabs

-----------------------------------------------------------------------------
(* The whole. *)

LEMMA NextInv == ClientInv /\ [Next]_vars => ClientInv'
<1> SUFFICES ASSUME ClientInv, [Next]_vars PROVE ClientInv'
  OBVIOUS
<1>1. CASE Progress
  <2>1. ASSUME NEW t \in Tab, TabStep(t) PROVE ClientInv'
    BY <2>1, LoadPageInv, OpenInv, RefusedInv, ReceiveInv, NoticeCloseInv DEF TabStep
  <2>2. ASSUME NEW t \in Tab, HandleStep(t) PROVE ClientInv'
    BY <2>2, HandleRequestInv, HandleLateInv, EndsInv DEF HandleStep
  <2> QED
    BY <1>1, <2>1, <2>2, EndsInv, AppStartsInv DEF Progress
<1>2. CASE Disturbance
  BY <1>2, BrowserRestartsInv, EndsInv, TabDropsInv, DeviceDropsInv, UserInv
  DEF Disturbance, Disturb
<1>3. CASE UNCHANGED vars
  BY <1>3, UnchangedInv
<1> QED
  BY <1>1, <1>2, <1>3 DEF Next

\* Fairness aside, a behaviour of the page and its device.
LEMMA SpecIsSafe == Spec => Init /\ [][Next]_vars
BY PTL DEF Spec

LEMMA ClientInvariance == Spec => []ClientInv
BY SpecIsSafe, InitInv, NextInv, PTL

LEMMA FewDisturbances == Spec => [](disturbances \in 0..MaxDisturbances)
<1>1. Init => disturbances \in 0..MaxDisturbances
  <2>1. Init => disturbances = 0
    BY DEF Init
  <2> QED
    BY <2>1, ClientAssumption
<1>2. disturbances \in 0..MaxDisturbances /\ [Next]_vars
      => (disturbances \in 0..MaxDisturbances)'
  <2>1. Next => \/ disturbances' = disturbances
                \/ (disturbances < MaxDisturbances /\ disturbances' = disturbances + 1)
    <3>1. Progress => disturbances' = disturbances
      BY DEF Progress
    <3>2. Disturbance => disturbances < MaxDisturbances /\ disturbances' = disturbances + 1
      BY DEF Disturbance
    <3> QED
      BY <3>1, <3>2 DEF Next
  <2>2. UNCHANGED vars => disturbances' = disturbances
    BY DEF vars
  <2> QED
    BY <2>1, <2>2, ClientAssumption
<1> QED
  BY <1>1, <1>2, SpecIsSafe, PTL

\* Every variable keeps its type, a tab that is online has its WebSocket, and no
\* message outlives the session that it was sent on at either end (WSClient's
\* onClose; webSocket's disconnection).
THEOREM ClientTypeCorrect == Spec => []ClientTypeOK
<1>1. ClientInv /\ disturbances \in 0..MaxDisturbances => ClientTypeOK
  <2> SUFFICES ASSUME ClientInv, disturbances \in 0..MaxDisturbances,
                      NEW t \in Tab
               PROVE  /\ \A i \in DOMAIN toDevice[t] : toDevice[t][i] \in Command
                      /\ \A i \in DOMAIN late[t] : late[t][i] \in Command
                      /\ \A i \in DOMAIN toTab[t] : toTab[t][i] \in Reply
    BY DEF ClientTypeOK, ClientInv, TypesInv, TabInv, SessionInv
  <2>1. toDevice[t] \in Seq(Command) /\ late[t] \in Seq(Command) /\ toTab[t] \in Seq(Reply)
    BY AskedIsCommand DEF ClientInv, TypesInv
  <2> QED
    BY <2>1, ElementOfSeq, LenProperties
<1> QED
  BY <1>1, ClientInvariance, FewDisturbances, PTL

\* A promise is resolved by the reply to its own request, however few the request
\* ids are and however often the tab has reloaded (onMessage; sendTXT to clientNum):
\* a reply is for the session it is sent on, and a session uses an id once.
THEOREM RepliesAnswerRequests == Spec => []ReplyAnswersRequest
<1>1. ClientInv => ReplyAnswersRequest
  <2> SUFFICES ASSUME ClientInv, NEW t \in Tab, NEW i \in DOMAIN toTab[t],
                      NEW r \in pending[t], r.id = toTab[t][i].id
               PROVE  toTab[t][i].to = t /\ toTab[t][i].answers = r.command
    BY DEF ReplyAnswersRequest
  <2>1. i \in 1..Len(toTab[t])
    BY LenProperties DEF ClientInv, TypesInv
  <2> QED
    BY <2>1 DEF ClientInv, TabInv, RequestInv, AddressInv
<1> QED
  BY <1>1, ClientInvariance, PTL

\* A session is only ever between a device and the page of its firmware, unless
\* another tab of the browser has set the cookie (onValidateHttpHeader).
THEOREM PagesAreCurrent == Spec => []PageIsCurrent
<1>1. ClientInv => PageIsCurrent
  <2>1. ClientInv => firmware \in 1..MaxFirmware
    BY DEF ClientInv, TypesInv
  <2>2. ClientInv => firmware # 0
    BY <2>1, ClientAssumption
  <2> QED
    BY <2>2 DEF ClientInv, TabInv, CookieInv, PageIsCurrent
<1> QED
  BY <1>1, ClientInvariance, PTL

\* A tab that waits for no answer shows what the device has stored, for as long as
\* the application has not been asked to end: whatever changes the configuration
\* asks for that (saveConfig; becomeOnline).
THEOREM ShownIsWhatIsStored == Spec => []ShownIsStored
<1>1. ClientInv => ShownIsStored
  BY DEF ClientInv, TabInv, AnswerInv, ShownIsStored
<1> QED
  BY <1>1, ClientInvariance, PTL

=============================================================================
