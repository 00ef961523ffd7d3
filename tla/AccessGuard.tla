---------------------------- MODULE AccessGuard ----------------------------
(****************************************************************************)
(* The guard in front of the wallet controller                              *)
(* (wallet/src/controllers/rest/common/auth.guard.ts), the messaging service *)
(* it asks (wallet/src/messaging), and the user-management process that is  *)
(* to answer (module UserManagement), with RabbitMQ between them.           *)
(*                                                                          *)
(* Every guarded request declares a queue of its own, binds it under the    *)
(* routing key that it then publishes under, and waits for a message with   *)
(* its correlationId or for the timer.  The broker copies what is published *)
(* to every queue bound at that moment.                                     *)
(****************************************************************************)
EXTENDS UserManagement

CONSTANTS
  Request,    \* guarded requests; also names the queue and the uuid of each
  Server,     \* the authorization queue of user-management
  Word        \* the words an authorization header is made of

\* The correlationId of a message that has none.
NoId == "none"

ASSUME AccessAssumption == Server \notin Request /\ NoId \notin Request

VARIABLES
  stage,       \* what each request is waiting for, or how it was judged
  channel,     \* ChannelManager's one channel: "open", "closed", or "ended"
               \* with the process
  bound,       \* the queues bound under the authorization routing key
  consuming,   \* the queues that have a consumer
  inbox        \* the messages waiting in each queue

client == <<stage, channel>>
broker == <<bound, consuming, inbox>>
vars == <<client, broker, userManagement>>

Queue == Request \cup {Server}

\* is_authorized is FALSE in a content that does not have it.
Message ==
  [token : Word, correlationId : Request \cup {NoId}, isAuthorized : BOOLEAN]

\* "setup" awaits the channel, exchange and queue up to the binding; "publish"
\* is the moment after it; "answer" awaits the pending response.
Pending == {"setup", "publish", "answer"}

\* canActivate returns true when "admitted", and false when is_authorized was
\* not true ("forbidden"), the timer rejected or anything threw.
Judged == {"admitted", "forbidden", "timedOut", "failed"}

Init ==
  /\ stage = [r \in Request |-> "idle"]
  /\ channel = "open"
  /\ bound = {}
  /\ consuming = {}
  /\ inbox = [q \in Queue |-> {}]
  /\ UserInit

------------------------------------------------------------------------------
(* The guard and the messaging service of the wallet process.               *)

GoTo(r, next) == stage' = [stage EXCEPT ![r] = next]

\* A header of one or two words.
Header == {<<v>> : v \in Word} \cup {<<v, w>> : v, w \in Word}

\* Mutant: the words are not told apart.
TokenOfUnsplit(header) == header

\* headers['authorization'].split(' ')?.[0]
TokenOf(header) == header[1]

\* Mutant: the request carries the correlationId.
AskCorrelated(r, header) ==
  [token |-> TokenOf(header), correlationId |-> r, isAuthorized |-> FALSE]

\* What publish sends: the token, without any message properties.
Ask(r, header) ==
  [token |-> TokenOf(header), correlationId |-> NoId, isAuthorized |-> FALSE]

Arrive(r) ==
  /\ stage[r] = "idle"
  /\ channel # "ended"
  /\ GoTo(r, "setup")
  /\ UNCHANGED <<channel, broker, userManagement>>

\* assertExchange, assertQueue and bindQueue have been answered.
Bind(r) ==
  /\ stage[r] = "setup"
  /\ channel = "open"
  /\ bound' = bound \cup {r}
  /\ GoTo(r, "publish")
  /\ UNCHANGED <<channel, consuming, inbox, userManagement>>

\* consume, the timer and publish, in one go.
Publish(r) ==
  /\ stage[r] = "publish"
  /\ channel = "open"
  /\ consuming' = consuming \cup {r}
  /\ \E header \in Header :
       inbox' = [q \in Queue |->
                   IF q \in bound THEN inbox[q] \cup {Ask(r, header)} ELSE inbox[q]]
  /\ GoTo(r, "answer")
  /\ UNCHANGED <<channel, bound, userManagement>>

\* The consumer of r's queue, and what authorize and canActivate make of it.
Receive(r, m) ==
  IF stage[r] = "answer" /\ m.correlationId = r
    THEN GoTo(r, IF m.isAuthorized THEN "admitted" ELSE "forbidden")
    ELSE UNCHANGED stage

\* Mutant: the timer is only watched while the channel is open.
ExpireWhileOpen(r) ==
  /\ stage[r] = "answer"
  /\ channel = "open"
  /\ GoTo(r, "timedOut")
  /\ UNCHANGED <<channel, broker, userManagement>>

\* setTimeout(reject, 3000)
Expire(r) ==
  /\ stage[r] = "answer"
  /\ GoTo(r, "timedOut")
  /\ UNCHANGED <<channel, broker, userManagement>>

\* The header is missing, a declaration is refused, or the channel has been
\* closed, after which each of its calls throws.
Fail(r) ==
  /\ stage[r] = "setup" \/ (stage[r] = "publish" /\ channel # "open")
  /\ GoTo(r, "failed")
  /\ UNCHANGED <<channel, broker, userManagement>>

\* The exclusive queues go with the connection.
DropQueues ==
  /\ bound' = bound \ Request
  /\ consuming' = consuming \ Request
  /\ inbox' = [q \in Queue |-> IF q \in Request THEN {} ELSE inbox[q]]

\* The broker shuts the connection down, or has been down since the start;
\* ChannelManager never opens another channel.
ChannelCloses ==
  /\ channel = "open"
  /\ channel' = "closed"
  /\ DropQueues
  /\ UNCHANGED <<stage, userManagement>>

\* The process ends, and what it had not judged is lost.  An error event of the
\* connection, which has no listener, does it, and so does a rejected consume,
\* which nobody awaits.
WalletEnds ==
  /\ channel # "ended"
  /\ channel' = "ended"
  /\ stage' = [r \in Request |-> IF stage[r] \in Pending THEN "lost" ELSE stage[r]]
  /\ DropQueues
  /\ UNCHANGED userManagement

------------------------------------------------------------------------------
(* The user-management process.                                             *)

\* MessagingService.on_ready binds and consumes a queue for each registered
\* handler; the routing key of notifications is another one.
StartUpAtBroker ==
  /\ StartUp
  /\ IF Startup[started + 1] = "listen" /\ "authorization" \in handlers
       THEN bound' = bound \cup {Server} /\ consuming' = consuming \cup {Server}
       ELSE UNCHANGED <<bound, consuming>>
  /\ UNCHANGED <<client, inbox>>

UserStep ==
  /\ StartUpFails \/ \E r \in Registration : AccountStep(r)
  /\ UNCHANGED <<client, broker>>

\* authorize calls get_user_pk, which no class defines: the exception leaves
\* start_consuming and ends the process.
Authorize ==
  /\ server' = "dead"
  /\ consuming' = consuming \ {Server}
  /\ bound' = bound \ {Server}
  /\ UNCHANGED stage

\* The broker hands a message to the consumer of its queue; the callback of
\* user-management would answer with what authorize returns.
Deliver(q) ==
  /\ q \in consuming
  /\ \E m \in inbox[q] :
       /\ inbox' = [inbox EXCEPT ![q] = @ \ {m}]
       /\ IF q = Server
            THEN Authorize
            ELSE Receive(q, m) /\ UNCHANGED <<bound, consuming, server>>
  /\ UNCHANGED <<channel, started, handlers, accounts, attempt>>

Next ==
  \/ \E r \in Request :
       Arrive(r) \/ Bind(r) \/ Publish(r) \/ Expire(r) \/ Fail(r)
  \/ \E q \in Queue : Deliver(q)
  \/ ChannelCloses
  \/ WalletEnds
  \/ StartUpAtBroker
  \/ UserStep

\* The broker answers, or the closed channel makes the call throw; the event
\* loop runs the timer; the import goes on with its next line.
Fairness ==
  /\ \A r \in Request :
       WF_vars(Bind(r) \/ Publish(r) \/ Fail(r)) /\ WF_vars(Expire(r))
  /\ WF_vars(StartUpAtBroker)

Safety == Init /\ [][Next]_vars

Spec == Safety /\ Fairness

------------------------------------------------------------------------------

\* The types of the variables.
AccessTypeOK ==
  /\ stage \in [Request -> {"idle", "lost"} \cup Pending \cup Judged]
  /\ channel \in {"open", "closed", "ended"}
  /\ bound \subseteq Queue
  /\ consuming \subseteq Queue
  /\ inbox \in [Queue -> SUBSET Message]
  /\ UserTypeOK

\* No message ever judges a request.  Its queue receives its own request and
\* those of others, and each must be told from an answer; an answer there is
\* none, so the guard rejects every request, by the timer or by an exception
\* (messaging.service.ts, publishWithDirectResponse).
NoMessageJudges ==
  \A r \in Request : stage[r] \notin {"admitted", "forbidden"}

\* No request ends the user-management process: its authorize would throw,
\* but the process starts consuming before it has a handler
\* (services.py; authorization_service.py, authorize).
ServerSurvives == server # "dead"

\* Every guarded request is judged, also when the channel is lost while it
\* waits, unless the process ends (messaging.service.ts, the timer;
\* auth.guard.ts, the catch).
EveryRequestIsJudged ==
  \A r \in Request : stage[r] \in Pending ~> stage[r] \in Judged \cup {"lost"}
==============================================================================
