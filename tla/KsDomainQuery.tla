--------------------------- MODULE KsDomainQuery ---------------------------
(***************************************************************************)
(* ksDomainQuery, the framework's own DNS resolver, and the network that   *)
(* carries its datagrams: answers may be lost, duplicated, delayed across  *)
(* any number of queries, and overtake each other.                         *)
(***************************************************************************)
EXTENDS Integers

CONSTANTS
    IdMod,            \* number of transaction ids: 65536
    QueryInterval,    \* KSF_DOMAIN_QUERY_INTERVAL_MS, in ticks
    Domains           \* kinds of domain configured, among DomainKind

\* A name to look up, a name with an empty or too long label, an address
\* written out, and no name at all.
DomainKind == {"name", "malformed", "literal", "empty"}

ASSUME QueryAssumption ==
    /\ IdMod \in Nat /\ IdMod > 1
    /\ QueryInterval \in Nat \ {0}
    /\ Domains \subseteq DomainKind

VARIABLES
    domain,           \* the kind of the configured domain
    resolvedIP,       \* "none", or the answer taken: "fresh" when its query
                      \* was made after the last invalidate, "stale" otherwise
    transactionID,    \* id of the last query
    sinceQuery,       \* ticks since lastQuerySendTimeMs, NotSent when it is 0
    answers,          \* answers on their way or waiting in the socket: a
                      \* function from their ids to "fresh" or "stale"
    sendFailed        \* history: the last query could not even be started, and
                      \* there has been no invalidate since

queryVars == <<domain, resolvedIP, transactionID, sinceQuery, answers,
               sendFailed>>

NotSent   == -1
Id        == 0..IdMod - 1
Freshness == {"fresh", "stale"}

QueryTypeOK ==
    /\ domain \in Domains
    /\ resolvedIP \in {"none"} \cup Freshness
    /\ transactionID \in Id
    /\ sinceQuery \in NotSent..QueryInterval + 1
    /\ DOMAIN answers \subseteq Id
    /\ \A i \in DOMAIN answers : answers[i] \in Freshness
    /\ sendFailed \in BOOLEAN

-----------------------------------------------------------------------------
QueryInit ==
    /\ domain \in Domains
    /\ resolvedIP = "none"
    /\ transactionID = 0
    /\ sinceQuery = NotSent
    /\ answers = <<>>
    /\ sendFailed = FALSE

\* invalidate().  What has been asked so far no longer counts as fresh.
Invalidate ==
    /\ resolvedIP' = "none"
    /\ sinceQuery' = NotSent
    /\ answers' = [i \in DOMAIN answers |-> "stale"]
    /\ sendFailed' = FALSE
    /\ UNCHANGED <<domain, transactionID>>

\* lastQuerySendTimeMs == 0 || millis() - lastQuerySendTimeMs > interval
QueryIsDue == sinceQuery = NotSent \/ sinceQuery > QueryInterval

NextId == (transactionID + 1) % IdMod

\* sendQuery().  A query that leaves will be answered; the datagrams that still
\* carry its id from a whole turn of the counter ago are gone by then.
QueryLeaves ==
    /\ domain = "name"
    /\ transactionID' = NextId
    /\ answers' = [i \in DOMAIN answers \cup {NextId} |->
                      IF i = NextId THEN "fresh" ELSE answers[i]]
    /\ sendFailed' = FALSE

\* A bad label is noticed after the id has been taken.
QueryIsMalformed ==
    /\ domain = "malformed"
    /\ transactionID' = NextId
    /\ sendFailed' = FALSE
    /\ UNCHANGED answers

\* beginPacket fails before the id is taken.
QueryCannotStart ==
    /\ domain \in {"name", "malformed"}
    /\ sendFailed' = TRUE
    /\ UNCHANGED <<transactionID, answers>>

SendQuery ==
    /\ QueryLeaves \/ QueryIsMalformed \/ QueryCannotStart
    /\ sinceQuery' = 0

\* Mutant of SendOrWait: the time of the query is not recorded.
SendAlways ==
    \/ /\ QueryIsDue
       /\ QueryLeaves \/ QueryIsMalformed \/ QueryCannotStart
       /\ UNCHANGED sinceQuery
    \/ /\ ~QueryIsDue
       /\ UNCHANGED <<transactionID, sinceQuery, answers, sendFailed>>

SendOrWait ==
    \/ QueryIsDue /\ SendQuery
    \/ ~QueryIsDue /\ UNCHANGED <<transactionID, sinceQuery, answers, sendFailed>>

\* receiveResponse(): a datagram that was there before the call is read, and
\* taken if it carries the id of the last query.  None can carry an id that
\* this very call has taken.  Nothing is read when no datagram has arrived, or
\* when it has no usable address.
Receive(i) ==
    resolvedIP' = IF i = transactionID /\ transactionID' = transactionID
                  THEN answers[i] ELSE "none"

ReceiveNothing == UNCHANGED resolvedIP

\* process() for an address written out: no query is made.
ResolveLiteral ==
    /\ resolvedIP = "none" /\ domain = "literal" /\ QueryIsDue
    /\ resolvedIP' = "fresh"
    /\ UNCHANGED <<domain, transactionID, sinceQuery, answers, sendFailed>>

\* process() for a name.
ProcessAndReceive ==
    /\ resolvedIP = "none" /\ domain \in {"name", "malformed"}
    /\ SendOrWait
    /\ \E i \in DOMAIN answers : Receive(i)
    /\ UNCHANGED domain

ProcessWithoutAnswer ==
    /\ resolvedIP = "none" /\ domain \in {"name", "malformed"}
    /\ SendOrWait
    /\ ReceiveNothing
    /\ UNCHANGED domain

\* process() that has nothing to do.
ProcessIdle ==
    /\ resolvedIP # "none" \/ domain = "empty"
    /\ UNCHANGED queryVars

Process ==
    \/ ResolveLiteral \/ ProcessAndReceive
    \/ ProcessWithoutAnswer \/ ProcessIdle

\* An answer is lost, or has been read and was the only copy.
Lose ==
    /\ \E i \in DOMAIN answers :
          answers' = [j \in DOMAIN answers \ {i} |-> answers[j]]
    /\ UNCHANGED <<domain, resolvedIP, transactionID, sinceQuery, sendFailed>>

\* Time passes.  Times beyond the interval are not told apart.
QueryTick ==
    sinceQuery' = IF sinceQuery \in 0..QueryInterval THEN sinceQuery + 1
                                                     ELSE sinceQuery

Tick ==
    /\ QueryTick
    /\ UNCHANGED <<domain, resolvedIP, transactionID, answers, sendFailed>>

-----------------------------------------------------------------------------
Next == Process \/ Invalidate \/ Lose \/ Tick

Spec == QueryInit /\ [][Next]_queryVars

\* An answer to the last query arrives before that query is repeated.
AnswerInTime == ~QueryIsDue /\ ProcessAndReceive /\ resolvedIP' # "none"

-----------------------------------------------------------------------------
(* Properties. *)

\* An address is never taken from an answer to a query made before the last
\* invalidate, in whatever order late and repeated answers come in, as long as
\* the query that an invalidate calls for could be started
\* (ksDomainQuery::receiveResponse).
FreshUnlessSendFailed == resolvedIP = "stale" => sendFailed

\* ksDomainQuery.h, invalidate: it will cause a new query to be sent.  So what
\* is taken after it is never the answer to an older one.
AnswerIsFresh == resolvedIP # "stale"
=============================================================================
