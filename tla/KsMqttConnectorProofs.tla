----------------------- MODULE KsMqttConnectorProofs -----------------------
(***************************************************************************)
(* The MQTT connector, for every delay, timeout, number of transaction ids *)
(* and kind of domain, and whatever Wi-Fi, broker and network do: it keeps *)
(* its distance from the broker, uses only fresh addresses, and implements *)
(* KsMqttSession.                                                          *)
(***************************************************************************)
EXTENDS KsMqttConnector, TLAPS

-----------------------------------------------------------------------------
(* The resolver. *)

\* Once a query has been sent after an invalidate, an answer that carries the
\* current id is one to it: older answers carry older ids.
FreshInv ==
    /\ FreshUnlessSendFailed
    /\ domain \in Domains /\ transactionID \in Id
    /\ domain # "name" => DOMAIN answers = {}
    /\ (sinceQuery # NotSent /\ ~sendFailed /\ transactionID \in DOMAIN answers)
          => answers[transactionID] = "fresh"

\* Consecutive queries have different ids.
LEMMA NextIdDiffers ==
    ASSUME transactionID \in Id
    PROVE  NextId \in Id /\ NextId # transactionID
<1>1. IdMod \in Nat /\ IdMod > 1 /\ transactionID \in Nat /\ transactionID < IdMod
  BY QueryAssumption DEF Id
<1>2. CASE transactionID + 1 < IdMod
  <2>1. NextId = transactionID + 1
    BY <1>1, <1>2 DEF NextId
  <2> QED
    BY <1>1, <1>2, <2>1 DEF Id
<1>3. CASE transactionID + 1 = IdMod
  <2>1. NextId = 0
    BY <1>1, <1>3 DEF NextId
  <2> QED
    BY <1>1, <1>3, <2>1 DEF Id
<1> QED
  BY <1>1, <1>2, <1>3

LEMMA ProcessKeepsFresh ==
    ASSUME FreshInv, Process
    PROVE  FreshInv'
<1> USE DEF FreshInv, FreshUnlessSendFailed
<1>1. NextId \in Id /\ NextId # transactionID
  BY NextIdDiffers
<1>2. CASE ResolveLiteral
  BY <1>2 DEF ResolveLiteral
<1>3. CASE ProcessIdle
  BY <1>3 DEF ProcessIdle, queryVars
<1>4. CASE ProcessAndReceive \/ ProcessWithoutAnswer
  <2>1. /\ domain' = domain /\ resolvedIP = "none" /\ SendOrWait
        /\ \/ resolvedIP' = "none"
           \/ \E i \in DOMAIN answers : Receive(i)
    BY <1>4 DEF ProcessAndReceive, ProcessWithoutAnswer, ReceiveNothing
  <2>2. CASE QueryIsDue
    <3>1. QueryLeaves \/ QueryIsMalformed \/ QueryCannotStart
      BY <2>1, <2>2 DEF SendOrWait, SendQuery
    <3>2. transactionID' = NextId => resolvedIP' = "none"
      BY <2>1, <1>1 DEF Receive
    <3>3. CASE QueryCannotStart
      BY <2>1, <3>3 DEF QueryCannotStart
    <3>4. CASE QueryLeaves
      <4>1. NextId \in DOMAIN answers' /\ answers'[NextId] = "fresh"
        BY <3>4 DEF QueryLeaves
      <4> QED
        BY <2>1, <3>2, <3>4, <4>1, <1>1 DEF QueryLeaves
    <3>5. CASE QueryIsMalformed
      BY <2>1, <3>2, <3>5, <1>1 DEF QueryIsMalformed
    <3> QED
      BY <3>1, <3>3, <3>4, <3>5
  <2>3. CASE ~QueryIsDue
    <3>1. UNCHANGED <<transactionID, sinceQuery, answers, sendFailed>>
      BY <2>1, <2>3 DEF SendOrWait
    <3>2. sinceQuery # NotSent
      BY <2>3 DEF QueryIsDue
    <3>3. resolvedIP' = "stale" => sendFailed
      BY <2>1, <3>1, <3>2 DEF Receive
    <3> QED
      BY <2>1, <3>1, <3>3
  <2> QED
    BY <2>2, <2>3
<1> QED
  BY <1>2, <1>3, <1>4 DEF Process

\* No step of the resolver, of the network or of time disturbs it.
LEMMA StepKeepsFresh == FreshInv /\ [Next]_queryVars => FreshInv'
<1> SUFFICES ASSUME FreshInv, [Next]_queryVars PROVE FreshInv'
  OBVIOUS
<1> USE DEF FreshInv, FreshUnlessSendFailed
<1>1. CASE Process
  BY <1>1, ProcessKeepsFresh
<1>2. CASE Invalidate
  BY <1>2 DEF Invalidate
<1>3. CASE Lose
  BY <1>3 DEF Lose
<1>4. CASE Tick
  <2>1. sinceQuery = NotSent => sinceQuery' = NotSent
    BY <1>4 DEF Tick, QueryTick, NotSent
  <2> QED
    BY <1>4, <2>1 DEF Tick
<1>5. CASE UNCHANGED queryVars
  BY <1>5 DEF queryVars
<1> QED
  BY <1>1, <1>2, <1>3, <1>4, <1>5 DEF Next

LEMMA InitIsFresh == QueryInit => FreshInv
BY QueryAssumption DEF QueryInit, Id, FreshInv, FreshUnlessSendFailed

\* An address is never taken from an answer to a query made before the last
\* invalidate, whatever the network does with the datagrams, unless the query
\* that the invalidate called for could not be started.
THEOREM ResolvedIsFresh == Spec => []FreshUnlessSendFailed
<1>1. FreshInv => FreshUnlessSendFailed
  BY DEF FreshInv
<1> QED
  BY <1>1, InitIsFresh, StepKeepsFresh, PTL DEF Spec

\* The variables of the resolver keep their types.
LEMMA StepKeepsTypes == QueryTypeOK /\ [Next]_queryVars => QueryTypeOK'
<1> SUFFICES ASSUME QueryTypeOK, [Next]_queryVars PROVE QueryTypeOK'
  OBVIOUS
<1> USE DEF QueryTypeOK, Freshness
<1>1. /\ NextId \in Id /\ QueryInterval \in Nat
      /\ {0, NotSent} \subseteq NotSent..QueryInterval + 1
  BY NextIdDiffers, QueryAssumption DEF NotSent
<1>2. CASE Process
  <2>1. CASE ResolveLiteral
    BY <2>1 DEF ResolveLiteral
  <2>2. CASE ProcessIdle
    BY <2>2 DEF ProcessIdle, queryVars
  <2>3. CASE ProcessAndReceive \/ ProcessWithoutAnswer
    <3>1. /\ domain' = domain /\ SendOrWait
          /\ resolvedIP' \in {"none"} \cup Freshness
      BY <2>3 DEF ProcessAndReceive, ProcessWithoutAnswer, Receive, ReceiveNothing
    <3>2. CASE ~QueryIsDue
      BY <3>1, <3>2 DEF SendOrWait
    <3>3. CASE QueryIsDue
      <4>1. sinceQuery' = 0 /\ (QueryLeaves \/ QueryIsMalformed \/ QueryCannotStart)
        BY <3>1, <3>3 DEF SendOrWait, SendQuery
      <4>2. /\ transactionID' \in Id /\ sendFailed' \in BOOLEAN
            /\ DOMAIN answers' \subseteq Id
            /\ \A i \in DOMAIN answers' : answers'[i] \in Freshness
        BY <4>1, <1>1 DEF QueryLeaves, QueryIsMalformed, QueryCannotStart
      <4> QED
        BY <3>1, <4>1, <4>2, <1>1
    <3> QED
      BY <3>2, <3>3
  <2> QED
    BY <1>2, <2>1, <2>2, <2>3 DEF Process
<1>3. CASE Invalidate
  <2>1. DOMAIN answers' = DOMAIN answers /\ \A i \in DOMAIN answers : answers'[i] = "stale"
    BY <1>3 DEF Invalidate
  <2> QED
    BY <1>3, <1>1, <2>1 DEF Invalidate
<1>4. CASE Lose
  BY <1>4 DEF Lose
<1>5. CASE Tick
  <2>1. sinceQuery' \in NotSent..QueryInterval + 1
    BY <1>5, <1>1 DEF Tick, QueryTick, NotSent
  <2> QED
    BY <1>5, <2>1 DEF Tick
<1>6. CASE UNCHANGED queryVars
  BY <1>6 DEF queryVars
<1> QED
  BY <1>2, <1>3, <1>4, <1>5, <1>6 DEF Next

LEMMA InitHasTypes == QueryInit => QueryTypeOK
<1>1. 0 \in Id /\ NotSent \in NotSent..QueryInterval + 1
  BY QueryAssumption DEF Id, NotSent
<1>2. QueryInit => DOMAIN answers = {}
  BY DEF QueryInit
<1> QED
  BY <1>1, <1>2 DEF QueryInit, QueryTypeOK

-----------------------------------------------------------------------------
(* The connector. *)

\* The timer and the history it is compared with are restarted together.  During
\* an attempt there is no session, the delay has passed when it begins, and what
\* it connects to has been resolved.
AttemptInv ==
    /\ sinceEnd = sinceRestart
    /\ pc = "attempt" => sinceEnd > ReconnectDelay
    /\ pc # "idle" => ~alive /\ ~wasConnected
    /\ pc \in {"tcp", "connect", "connectNoWill"} => resolvedIP # "none"
    /\ resolvedIP # "none" => ~addressUsed

MqttInv == MqttTypeOK /\ FreshInv /\ AttemptInv

-----------------------------------------------------------------------------
\* To the resolver, every step of the connector is one of its own or none.
LEMMA QuerySimulated == [MqttNext]_vars => [Next]_queryVars
<1> SUFFICES ASSUME [MqttNext]_vars PROVE [Next]_queryVars
  OBVIOUS
<1>1. CASE LoopConnected \/ SessionBreaks \/ NetworkChanges
  BY <1>1 DEF LoopConnected, SessionBreaks, NetworkChanges
<1>2. CASE LoopLost
  BY <1>2 DEF LoopLost, Next
<1>3. CASE LoopResolve
  BY <1>3 DEF LoopResolve, Next
<1>4. CASE StartAttempt \/ TcpConnects \/ WillRefused
  BY <1>4 DEF StartAttempt, TcpConnects, WillRefused, Goto
<1>5. CASE CannotStartAttempt \/ TcpFails \/ FingerprintFails \/ SessionRefused
  BY <1>5 DEF CannotStartAttempt, TcpFails, FingerprintFails, SessionRefused,
              AttemptFails, Next
<1>6. CASE SessionOpens
  BY <1>6 DEF SessionOpens, AttemptSucceeds
<1>7. CASE TimePasses
  BY <1>7 DEF TimePasses, Next, Tick
<1>8. CASE AnswerLost
  BY <1>8 DEF AnswerLost, Next
<1>9. CASE UNCHANGED vars
  BY <1>9 DEF vars, queryVars
<1> QED
  BY <1>1, <1>2, <1>3, <1>4, <1>5, <1>6, <1>7, <1>8, <1>9
  DEF MqttNext, MqttLoop, Environment

\* A resolved address stays until it is invalidated.
LEMMA ProcessKeepsAddress ==
    ASSUME Process, resolvedIP # "none" PROVE resolvedIP' = resolvedIP
BY DEF Process, ResolveLiteral, ProcessAndReceive, ProcessWithoutAnswer,
       ProcessIdle, queryVars

LEMMA LaterIsBounded ==
    ASSUME NEW t \in 0..ReconnectDelay + 1
    PROVE  /\ Later(t) \in 0..ReconnectDelay + 1
           /\ t > ReconnectDelay => Later(t) > ReconnectDelay
BY MqttAssumption DEF Later

LEMMA MqttInitInv == MqttInit => MqttInv
<1> SUFFICES ASSUME MqttInit PROVE MqttInv
  OBVIOUS
<1>1. QueryTypeOK /\ FreshInv
  BY InitHasTypes, InitIsFresh DEF MqttInit
<1>2. resolvedIP = "none"
  BY DEF MqttInit, QueryInit
<1>3. 0 \in 0..ReconnectDelay + 1 /\ 0 \in 0..ConnectTimeout
  BY MqttAssumption
<1> QED
  BY <1>1, <1>2, <1>3 DEF MqttInit, MqttInv, MqttTypeOK, AttemptInv, Pc, Event

\* The types, and what AttemptInv says, step by step.  That the resolver's part
\* is kept follows from QuerySimulated.
LEMMA MqttStepInv == MqttInv /\ [MqttNext]_vars => MqttInv'
<1> SUFFICES ASSUME MqttInv, [MqttNext]_vars PROVE MqttInv'
  OBVIOUS
<1>0. QueryTypeOK' /\ FreshInv'
  BY QuerySimulated, StepKeepsTypes, StepKeepsFresh DEF MqttInv, MqttTypeOK
<1> DEFINE Rest == /\ pc' \in Pc /\ lastEvent' \in Event
                   /\ wasConnected' \in BOOLEAN /\ alive' \in BOOLEAN
                   /\ wifi' \in BOOLEAN /\ broker' \in BOOLEAN
                   /\ sendsWill' \in BOOLEAN /\ trusted' \in BOOLEAN
                   /\ addressUsed' \in BOOLEAN
                   /\ sinceRestart' \in 0..ReconnectDelay + 1
                   /\ sinceEnd' \in 0..ReconnectDelay + 1
                   /\ blockedFor' \in 0..ConnectTimeout /\ looped' \in BOOLEAN
                   /\ alive' => wasConnected'
<1>1. SUFFICES Rest /\ AttemptInv'
  BY <1>0 DEF MqttInv, MqttTypeOK
<1>2. 0 \in 0..ReconnectDelay + 1 /\ 0 \in 0..ConnectTimeout
  BY MqttAssumption
<1> USE DEF MqttInv, MqttTypeOK, AttemptInv, Pc, Event
<1>3. CASE LoopConnected
  BY <1>3 DEF LoopConnected, queryVars, mqttVars, environmentVars, fixedVars
<1>4. CASE LoopLost
  BY <1>4, <1>2 DEF LoopLost, Invalidate, environmentVars, fixedVars
<1>5. CASE LoopResolve
  <2>1. resolvedIP # "none" => resolvedIP' # "none"
    BY <1>5, ProcessKeepsAddress DEF LoopResolve
  <2> QED
    BY <1>5, <2>1 DEF LoopResolve, environmentVars, fixedVars
<1>6. CASE StartAttempt \/ TcpConnects \/ WillRefused
  BY <1>6 DEF StartAttempt, TcpConnects, WillRefused, Goto, queryVars,
              environmentVars, fixedVars
<1>7. CASE CannotStartAttempt \/ TcpFails \/ FingerprintFails \/ SessionRefused
  <2>1. AttemptFails /\ pc # "idle"
    BY <1>7 DEF CannotStartAttempt, TcpFails, FingerprintFails, SessionRefused
  <2> QED
    BY <2>1, <1>2 DEF AttemptFails, EndAttempt, Invalidate, environmentVars, fixedVars
<1>8. CASE SessionOpens
  BY <1>8, <1>2 DEF SessionOpens, AttemptSucceeds, EndAttempt, queryVars,
                    environmentVars, fixedVars
<1>9. CASE TimePasses
  <2>1. /\ sinceRestart' \in 0..ReconnectDelay + 1 /\ sinceEnd' = sinceRestart'
        /\ sinceEnd > ReconnectDelay => sinceEnd' > ReconnectDelay
    BY <1>9, LaterIsBounded DEF TimePasses
  <2>2. blockedFor' \in 0..ConnectTimeout
    <3>1. blockedFor \in 0..ConnectTimeout /\ ConnectTimeout \in Nat
      BY MqttAssumption
    <3>2. blockedFor' = 0 \/ (blockedFor' = blockedFor + 1 /\ blockedFor < ConnectTimeout)
      BY <1>9 DEF TimePasses
    <3> HIDE DEF MqttInv, MqttTypeOK, AttemptInv
    <3> QED
      BY <3>1, <3>2
  <2>3. looped' = FALSE
        /\ UNCHANGED <<pc, wasConnected, alive, lastEvent, addressUsed, resolvedIP,
                       wifi, broker, sendsWill, trusted>>
    BY <1>9 DEF TimePasses, environmentVars, fixedVars
  <2>4. Rest
    BY <2>1, <2>2, <2>3
  <2>5. AttemptInv'
    BY <2>1, <2>3
  <2> QED
    BY <2>4, <2>5
<1>10. CASE NetworkChanges
  BY <1>10 DEF NetworkChanges, queryVars, mqttVars, fixedVars
<1>11. CASE SessionBreaks
  BY <1>11 DEF SessionBreaks, queryVars, environmentVars, fixedVars
<1>12. CASE AnswerLost
  BY <1>12 DEF AnswerLost, Lose, mqttVars, environmentVars, fixedVars
<1>13. CASE UNCHANGED vars
  BY <1>13 DEF vars, queryVars
<1> QED
  BY <1>3, <1>4, <1>5, <1>6, <1>7, <1>8, <1>9, <1>10, <1>11, <1>12, <1>13
  DEF MqttNext, MqttLoop, Environment

\* The inductive invariant holds.
LEMMA MqttInvariance == MqttSpec => []MqttInv
BY MqttInitInv, MqttStepInv, PTL DEF MqttSpec

-----------------------------------------------------------------------------
\* Every variable of the connector has its type, and a session is never up
\* unmarked.
THEOREM MqttTypeCorrect == MqttSpec => []MqttTypeOK
<1>1. MqttInv => MqttTypeOK
  BY DEF MqttInv
<1> QED
  BY <1>1, MqttInvariance, PTL

\* An attempt only starts when the delay has passed since the last attempt ended
\* or the last session was lost (ksMqttConnector::loop).
THEOREM BrokerIsSpared == MqttSpec => []AttemptsAreSpaced
<1>1. MqttInv => AttemptsAreSpaced
  BY DEF MqttInv, AttemptInv, AttemptsAreSpaced
<1> QED
  BY <1>1, MqttInvariance, PTL

\* The resolver hands out, and the connector connects to, only addresses asked
\* for since the last failure or loss.
THEOREM FreshAddressesOnly == MqttSpec => []AddressesAreFresh
<1>1. ASSUME MqttInv PROVE AddressesAreFresh
  <2>1. FreshUnlessSendFailed
    BY <1>1 DEF MqttInv, FreshInv
  <2>2. resolvedIP \in {"none", "fresh", "stale"}
    BY <1>1 DEF MqttInv, MqttTypeOK, QueryTypeOK, Freshness
  <2>3. ASSUME pc \in {"tcp", "connect", "connectNoWill"}
        PROVE  (resolvedIP = "fresh" \/ (resolvedIP = "stale" /\ sendFailed)) /\ ~addressUsed
    BY <1>1, <2>1, <2>2, <2>3 DEF MqttInv, AttemptInv, FreshUnlessSendFailed
  <2> QED
    BY <2>1, <2>3 DEF AddressesAreFresh, AttemptsUseFreshAddress
<1> QED
  BY <1>1, MqttInvariance, PTL

-----------------------------------------------------------------------------
\* The step of the abstract connector that each step stands for.
LEMMA SessionSimulated ==
    MqttInv /\ [MqttNext]_vars => [Abstract!SessionNext]_(Abstract!sessionVars)
<1> SUFFICES ASSUME MqttInv, [MqttNext]_vars
             PROVE  [Abstract!SessionNext]_(Abstract!sessionVars)
  OBVIOUS
<1> USE DEF MqttInv, MqttTypeOK, AttemptInv, Abstract!sessionVars
<1>1. CASE LoopConnected \/ NetworkChanges \/ AnswerLost
  BY <1>1 DEF LoopConnected, NetworkChanges, AnswerLost, mqttVars
<1>2. CASE LoopLost
  <2>1. Abstract!NoticeLoss
    BY <1>2 DEF LoopLost, Abstract!NoticeLoss
  <2> QED
    BY <2>1 DEF Abstract!SessionNext
<1>3. CASE LoopResolve
  <2>1. Abstract!BeginAttempt \/ UNCHANGED Abstract!sessionVars
    BY <1>3 DEF LoopResolve, Abstract!BeginAttempt
  <2> QED
    BY <2>1 DEF Abstract!SessionNext
\* Within an attempt the position does not show.
<1>4. CASE StartAttempt \/ TcpConnects \/ WillRefused
  BY <1>4 DEF StartAttempt, TcpConnects, WillRefused, Goto
<1>5. CASE CannotStartAttempt \/ TcpFails \/ FingerprintFails \/ SessionRefused
  <2>1. AttemptFails /\ pc # "idle"
    BY <1>5 DEF CannotStartAttempt, TcpFails, FingerprintFails, SessionRefused
  <2>2. Abstract!AttemptFailed
    BY <2>1 DEF AttemptFails, EndAttempt, Abstract!AttemptFailed
  <2> QED
    BY <2>2 DEF Abstract!SessionNext
<1>6. CASE SessionOpens
  <2>1. Abstract!SessionOpened
    BY <1>6 DEF SessionOpens, AttemptSucceeds, EndAttempt, Abstract!SessionOpened
  <2> QED
    BY <2>1 DEF Abstract!SessionNext
<1>7. CASE TimePasses
  BY <1>7 DEF TimePasses
<1>8. CASE SessionBreaks
  <2>1. Abstract!SessionLost
    BY <1>8 DEF SessionBreaks, Abstract!SessionLost
  <2> QED
    BY <2>1 DEF Abstract!SessionNext
<1>9. CASE UNCHANGED vars
  BY <1>9 DEF vars
<1> QED
  BY <1>1, <1>2, <1>3, <1>4, <1>5, <1>6, <1>7, <1>8, <1>9
  DEF MqttNext, MqttLoop, Environment

\* The connector implements the abstract one, up to its liveness: sessions come
\* from attempts, and a loss is reported before the next attempt.
THEOREM ConnectorImplementsSession == MqttSpec => Abstract!SessionSafety
<1>1. MqttInit => Abstract!SessionInit
  BY DEF MqttInit, Abstract!SessionInit
<1> QED
  BY <1>1, MqttInvariance, SessionSimulated, PTL DEF MqttSpec, Abstract!SessionSafety
=============================================================================
