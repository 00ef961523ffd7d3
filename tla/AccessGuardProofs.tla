-------------------------- MODULE AccessGuardProofs --------------------------
(****************************************************************************)
(* Proofs about AccessGuard, for any number of requests.  Mute carries      *)
(* NoMessageJudges and ServerSurvives: what is queued names no request, and *)
(* user-management has no queue.                                            *)
(****************************************************************************)
EXTENDS AccessGuard, TLAPS

LEMMA AskIsTyped ==
  ASSUME NEW r \in Request, NEW header \in Header
  PROVE  Ask(r, header) \in Message /\ Ask(r, header).correlationId = NoId
<1>1. header[1] \in Word
  BY DEF Header
<1>2. QED
  BY <1>1 DEF Ask, Message, TokenOf

LEMMA StartupSteps ==
  /\ Len(Startup) = 3
  /\ Startup[1] = "listen"
  /\ Startup[2] = "authorization"
  /\ Startup[3] = "notification"
BY DEF Startup

\* A process that is still starting has a call left to make.
CallLeft == server = "starting" => started < Len(Startup)

LEMMA StartUpIsTyped ==
  ASSUME UserTypeOK, CallLeft, StartUp
  PROVE  UserTypeOK' /\ CallLeft'
<1>1. started \in {0, 1, 2} /\ started' = started + 1
  BY StartupSteps DEF StartUp, CallLeft, UserTypeOK
<1>2. Startup[started + 1] # "listen"
        => Startup[started + 1] \in {"authorization", "notification"}
  BY <1>1, StartupSteps
<1>3. handlers' \subseteq {"authorization", "notification"}
  BY <1>2 DEF StartUp, UserTypeOK
<1>4. server' \in ServerState
  BY DEF StartUp, ServerState
<1>5. CallLeft'
  BY <1>1, StartupSteps DEF StartUp, CallLeft
<1>6. QED
  BY <1>1, <1>3, <1>4, <1>5, StartupSteps DEF StartUp, UserTypeOK

LEMMA UserStepIsTyped ==
  ASSUME UserTypeOK, CallLeft, UserStep
  PROVE  UserTypeOK' /\ CallLeft'
<1> USE DEF UserTypeOK, CallLeft, UserStep
<1>1. CASE StartUpFails
  BY <1>1 DEF StartUpFails, ServerState
<1>2. ASSUME NEW r \in Registration, AccountStep(r)
      PROVE  UserTypeOK' /\ CallLeft'
  <2>1. ASSUME NEW next \in Attempt, Proceed(r, next), accounts' \subseteq Account
        PROVE  UserTypeOK' /\ CallLeft'
    BY <2>1 DEF Proceed
  <2>2. ASSUME NEW answer \in Answer, End(r, answer), accounts' \subseteq Account
        PROVE  UserTypeOK' /\ CallLeft'
    BY <2>1, <2>2 DEF End, Attempt
  <2>3. ASSUME NEW email \in Email, NEW username \in Username,
               Register(r, email) \/ CreateUser(r, email, username)
        PROVE  UserTypeOK' /\ CallLeft'
    <3>1. ASSUME NEW name \in Username, NEW answer \in {"created", "returned"}
          PROVE  [stage |-> "saving", email |-> email, username |-> name,
                  answer |-> answer] \in Attempt
      BY DEF Attempt
    <3>2. CASE Register(r, email)
      BY <2>1, <2>2, <3>1, <3>2, UserAssumption DEF Register, Await, Answer
    <3>3. CASE CreateUser(r, email, username)
      BY <2>1, <3>1, <3>3 DEF CreateUser, Await
    <3>4. QED
      BY <2>3, <3>2, <3>3
  <2>4. CASE SaveUser(r)
    <3>1. /\ attempt[r].email \in Email
          /\ attempt[r].username \in Username
          /\ attempt[r].answer \in Answer
      BY <2>4 DEF SaveUser, Attempt, Answer
    <3>2. [id |-> r, email |-> attempt[r].email,
           username |-> attempt[r].username] \in Account
      BY <3>1 DEF Account
    <3>3. accounts' \subseteq Account /\ (End(r, "error") \/ End(r, attempt[r].answer))
      BY <2>4, <3>2 DEF SaveUser
    <3>4. QED
      BY <2>2, <3>1, <3>3 DEF Answer
  <2>5. CASE SaveUserFails(r)
    BY <2>2, <2>5 DEF SaveUserFails, Answer
  <2>6. QED
    BY <1>2, <2>3, <2>4, <2>5, UserAssumption DEF AccountStep
<1>3. QED
  BY <1>1, <1>2

Typed == AccessTypeOK /\ CallLeft

LEMMA TypedInvariant == Safety => []Typed
<1>1. Init => Typed
  BY StartupSteps DEF Init, UserInit, Typed, AccessTypeOK, UserTypeOK, CallLeft, ServerState,
     Attempt
<1>2. Typed /\ [Next]_vars => Typed'
  <2> SUFFICES ASSUME Typed, [Next]_vars PROVE Typed'
    OBVIOUS
  <2> USE DEF Typed, AccessTypeOK, CallLeft, Queue, Pending, Judged, client, broker, userManagement,
              UserTypeOK
  <2>1. ASSUME NEW r \in Request, Arrive(r) PROVE Typed'
    BY <2>1 DEF Arrive, GoTo
  <2>2. ASSUME NEW r \in Request, Bind(r) PROVE Typed'
    BY <2>2 DEF Bind, GoTo
  <2>3. ASSUME NEW r \in Request, Publish(r) PROVE Typed'
    <3>1. PICK header \in Header :
            inbox' = [q \in Queue |->
                        IF q \in bound THEN inbox[q] \cup {Ask(r, header)}
                        ELSE inbox[q]]
      BY <2>3 DEF Publish
    <3>2. Ask(r, header) \in Message
      BY AskIsTyped
    <3>3. inbox' \in [Queue -> SUBSET Message]
      BY <3>1, <3>2
    <3>4. QED
      BY <2>3, <3>3 DEF Publish, GoTo
  <2>4. ASSUME NEW r \in Request, Expire(r) PROVE Typed'
    BY <2>4 DEF Expire, GoTo
  <2>5. ASSUME NEW r \in Request, Fail(r) PROVE Typed'
    BY <2>5 DEF Fail, GoTo
  <2>6. ASSUME NEW q \in Queue, Deliver(q) PROVE Typed'
    <3>1. PICK m \in inbox[q] : inbox' = [inbox EXCEPT ![q] = @ \ {m}]
      BY <2>6 DEF Deliver
    <3>2. inbox' \in [Queue -> SUBSET Message]
      BY <3>1
    <3>3. stage' \in [Request -> {"idle", "lost"} \cup Pending \cup Judged]
      BY <2>6 DEF Deliver, Receive, Authorize, GoTo
    <3>4. /\ bound' \subseteq Queue
          /\ consuming' \subseteq Queue
          /\ server' \in {server, "dead"}
      BY <2>6 DEF Deliver, Authorize
    <3>5. QED
      BY <2>6, <3>2, <3>3, <3>4 DEF Deliver, ServerState
  <2>7. CASE ChannelCloses
    BY <2>7 DEF ChannelCloses, DropQueues
  <2>8. CASE WalletEnds
    BY <2>8 DEF WalletEnds, DropQueues
  <2>9. CASE StartUpAtBroker
    <3>1. UserTypeOK' /\ CallLeft'
      BY <2>9, StartUpIsTyped DEF StartUpAtBroker
    <3>2. bound' \subseteq Queue /\ consuming' \subseteq Queue
      BY <2>9 DEF StartUpAtBroker
    <3>3. QED
      BY <2>9, <3>1, <3>2 DEF StartUpAtBroker
  <2>10. CASE UserStep
    BY <2>10, UserStepIsTyped DEF UserStep
  <2>11. CASE UNCHANGED vars
    BY <2>11 DEF vars
  <2>12. QED
    BY <2>1, <2>2, <2>3, <2>4, <2>5, <2>6, <2>7, <2>8, <2>9, <2>10, <2>11 DEF Next
<1>3. QED
  BY <1>1, <1>2, PTL DEF Safety

\* The variables keep their types.
THEOREM AccessTypeCorrect == Safety => []AccessTypeOK
<1>1. Typed => AccessTypeOK
  BY DEF Typed
<1>2. QED
  BY <1>1, TypedInvariant, PTL

------------------------------------------------------------------------------

\* No waiting message names a request, user-management has registered nothing
\* by the time it listens, so it has no queue; and the two properties.
Mute ==
  /\ \A q \in Queue : \A m \in inbox[q] : m.correlationId = NoId
  /\ started = 0 => handlers = {}
  /\ Server \notin bound /\ Server \notin consuming
  /\ NoMessageJudges
  /\ ServerSurvives

LEMMA MuteInvariant == Safety => []Mute
<1>1. Init => Mute
  BY DEF Init, UserInit, Mute, NoMessageJudges, ServerSurvives
<1>2. Typed /\ Mute /\ [Next]_vars => Mute'
  <2> SUFFICES ASSUME Typed, Mute, [Next]_vars PROVE Mute'
    OBVIOUS
  <2> USE AccessAssumption
      DEF Typed, CallLeft, AccessTypeOK, UserTypeOK, Mute, NoMessageJudges, ServerSurvives, client, broker,
          userManagement
  <2>1. ASSUME NEW r \in Request, Arrive(r) PROVE Mute'
    BY <2>1 DEF Arrive, GoTo
  <2>2. ASSUME NEW r \in Request, Bind(r) PROVE Mute'
    BY <2>2 DEF Bind, GoTo
  <2>3. ASSUME NEW r \in Request, Publish(r) PROVE Mute'
    <3>1. PICK header \in Header :
            inbox' = [q \in Queue |->
                        IF q \in bound THEN inbox[q] \cup {Ask(r, header)}
                        ELSE inbox[q]]
      BY <2>3 DEF Publish
    <3>2. Ask(r, header).correlationId = NoId
      BY AskIsTyped
    <3>3. \A q \in Queue : \A m \in inbox'[q] : m.correlationId = NoId
      BY <3>1, <3>2
    <3>4. QED
      BY <2>3, <3>3 DEF Publish, GoTo
  <2>4. ASSUME NEW r \in Request, Expire(r) PROVE Mute'
    BY <2>4 DEF Expire, GoTo
  <2>5. ASSUME NEW r \in Request, Fail(r) PROVE Mute'
    BY <2>5 DEF Fail, GoTo
  <2>6. ASSUME NEW q \in Queue, Deliver(q) PROVE Mute'
    <3>1. q # Server /\ q \in Request
      BY <2>6 DEF Deliver, Queue
    <3>2. PICK m \in inbox[q] :
            /\ inbox' = [inbox EXCEPT ![q] = @ \ {m}]
            /\ Receive(q, m) /\ UNCHANGED <<bound, consuming, server>>
      BY <2>6, <3>1 DEF Deliver
    <3>3. m.correlationId # q
      BY <3>1
    <3>4. UNCHANGED stage
      BY <3>2, <3>3 DEF Receive
    <3>5. \A p \in Queue : inbox'[p] \subseteq inbox[p]
      BY <3>2
    <3>6. QED
      BY <2>6, <3>2, <3>4, <3>5 DEF Deliver
  <2>7. CASE ChannelCloses
    BY <2>7 DEF ChannelCloses, DropQueues
  <2>8. CASE WalletEnds
    BY <2>8 DEF WalletEnds, DropQueues
  <2>9. CASE StartUpAtBroker
    <3>1. started \in {0, 1, 2} /\ started' = started + 1
      BY <2>9, StartupSteps DEF StartUpAtBroker, StartUp
    <3>2. Startup[started + 1] = "listen" => started = 0
      BY <3>1, StartupSteps
    <3>3. UNCHANGED <<bound, consuming, stage, inbox>>
      BY <2>9, <3>2 DEF StartUpAtBroker
    <3>4. server' # "dead"
      BY <2>9 DEF StartUpAtBroker, StartUp
    <3>5. QED
      BY <3>1, <3>3, <3>4
  <2>10. CASE UserStep
    BY <2>10
    DEF UserStep, StartUpFails, AccountStep, Register, CreateUser, SaveUser,
        SaveUserFails, End, Await, Proceed
  <2>11. CASE UNCHANGED vars
    BY <2>11 DEF vars
  <2>12. QED
    BY <2>1, <2>2, <2>3, <2>4, <2>5, <2>6, <2>7, <2>8, <2>9, <2>10, <2>11 DEF Next
<1>3. QED
  BY <1>1, <1>2, TypedInvariant, PTL DEF Safety

\* No message judges a request, however many requests share the routing key.
THEOREM MessagesDoNotJudge == Spec => []NoMessageJudges
<1>1. Mute => NoMessageJudges
  BY DEF Mute
<1>2. QED
  BY <1>1, MuteInvariant, PTL DEF Spec

\* No request ends the user-management process.
THEOREM NoRequestKills == Spec => []ServerSurvives
<1>1. Mute => ServerSurvives
  BY DEF Mute
<1>2. QED
  BY <1>1, MuteInvariant, PTL DEF Spec

------------------------------------------------------------------------------

\* A registration in flight wants the empty username, one that succeeded has
\* the row with it, and no two rows share a username.
NamesInv ==
  /\ \A r \in Registration :
       attempt[r].stage = "saving" /\ attempt[r].answer = "created" =>
         attempt[r].username = NoName
  /\ \A r \in Registration :
       attempt[r].stage = "created" =>
         \E a \in accounts : a.id = r /\ a.username = NoName
  /\ \A a, b \in accounts : a.username = b.username => a = b

LEMMA SaveUserKeepsNames ==
  ASSUME Typed, NamesInv, NEW r \in Registration, SaveUser(r)
  PROVE  NamesInv'
<1> DEFINE row == [id |-> r, email |-> attempt[r].email,
                   username |-> attempt[r].username]
<1> USE DEF Typed, AccessTypeOK, UserTypeOK
<1>1. CASE Collides(row)
  <2>1. attempt' = [attempt EXCEPT ![r] = [stage |-> "error"]] /\ accounts' = accounts
    BY <1>1 DEF SaveUser, End, Proceed
  <2>2. QED
    BY <2>1 DEF NamesInv
<1>2. CASE ~Collides(row)
  <2>1. /\ attempt' = [attempt EXCEPT ![r] = [stage |-> attempt[r].answer]]
        /\ accounts' = accounts \cup {row}
        /\ attempt[r].stage = "saving"
    BY <1>2 DEF SaveUser, End, Proceed
  <2>2. attempt[r].answer \in {"created", "returned"}
    BY <2>1 DEF Attempt, Answer
  <2>3. \A a \in accounts : a.username # row.username
    BY <1>2 DEF Collides
  <2>4. row.id = r /\ row.username = attempt[r].username
    OBVIOUS
  <2> HIDE DEF row
  <2>5. ASSUME NEW s \in Registration
        PROVE  /\ attempt'[s].stage = "saving" /\ attempt'[s].answer = "created" =>
                    attempt'[s].username = NoName
               /\ attempt'[s].stage = "created" =>
                    \E a \in accounts' : a.id = s /\ a.username = NoName
    <3>1. CASE s = r
      BY <2>1, <2>2, <2>4, <3>1 DEF NamesInv
    <3>2. CASE s # r
      BY <2>1, <3>2 DEF NamesInv
    <3>3. QED
      BY <3>1, <3>2
  <2>6. \A a, b \in accounts' : a.username = b.username => a = b
    BY <2>1, <2>3 DEF NamesInv
  <2>7. QED
    BY <2>5, <2>6 DEF NamesInv
<1>3. QED
  BY <1>1, <1>2

LEMMA AccountStepKeepsNames ==
  ASSUME Typed, NamesInv, NEW r \in Registration, AccountStep(r)
  PROVE  NamesInv'
<1> USE DEF Typed, AccessTypeOK, UserTypeOK
<1>1. ASSUME NEW next, Proceed(r, next), UNCHANGED accounts,
             next.stage # "created",
             next.stage = "saving" /\ next.answer = "created" => next.username = NoName
      PROVE  NamesInv'
  BY <1>1 DEF NamesInv, Proceed
<1>2. ASSUME NEW email \in Email, Register(r, email)
      PROVE  NamesInv'
  BY <1>1, <1>2 DEF Register, End, Await
<1>3. ASSUME NEW email \in Email, NEW username \in Username,
             CreateUser(r, email, username)
      PROVE  NamesInv'
  BY <1>1, <1>3 DEF CreateUser, Await
<1>4. CASE SaveUserFails(r)
  BY <1>1, <1>4 DEF SaveUserFails, End
<1>5. QED
  BY <1>2, <1>3, <1>4, SaveUserKeepsNames DEF AccountStep

LEMMA OthersKeepNames ==
  ASSUME [Next]_vars, ~\E r \in Registration : AccountStep(r)
  PROVE  UNCHANGED <<accounts, attempt>>
<1> USE DEF userManagement
<1>1. ASSUME NEW r \in Request,
             Arrive(r) \/ Bind(r) \/ Publish(r) \/ Expire(r) \/ Fail(r)
      PROVE  UNCHANGED <<accounts, attempt>>
  BY <1>1 DEF Arrive, Bind, Publish, Expire, Fail
<1>2. ASSUME NEW q \in Queue, Deliver(q) PROVE UNCHANGED <<accounts, attempt>>
  BY <1>2 DEF Deliver
<1>3. ChannelCloses \/ WalletEnds \/ StartUpAtBroker => UNCHANGED <<accounts, attempt>>
  BY DEF ChannelCloses, WalletEnds, StartUpAtBroker, StartUp
<1>4. UserStep => UNCHANGED <<accounts, attempt>>
  BY DEF UserStep, StartUpFails
<1>5. UNCHANGED vars => UNCHANGED <<accounts, attempt>>
  BY DEF vars
<1>6. QED
  BY <1>1, <1>2, <1>3, <1>4, <1>5 DEF Next

\* Of any number of registrations one succeeds, beside any calls of the manager.
THEOREM OneRegistrationSucceeds == Spec => []OneRegistration
<1>1. Init => NamesInv
  BY DEF Init, UserInit, NamesInv
<1>2. Typed /\ NamesInv /\ [Next]_vars => NamesInv'
  <2> SUFFICES ASSUME Typed, NamesInv, [Next]_vars PROVE NamesInv'
    OBVIOUS
  <2>1. CASE \E r \in Registration : AccountStep(r)
    BY <2>1, AccountStepKeepsNames
  <2>2. CASE ~\E r \in Registration : AccountStep(r)
    BY <2>2, OthersKeepNames DEF NamesInv
  <2>3. QED
    BY <2>1, <2>2
<1>3. NamesInv => OneRegistration
  BY DEF NamesInv, OneRegistration
<1>4. QED
  BY <1>1, <1>2, <1>3, TypedInvariant, PTL DEF Spec, Safety
==============================================================================
