---------------------------- MODULE UserManagement ----------------------------
(****************************************************************************)
(* The user-management process: its start-up (app/services.py and           *)
(* messaging/messaging_service.py) and its accounts (features/users).       *)
(*                                                                          *)
(* app/urls.py imports app/services.py, whose last lines run the start-up,  *)
(* so nothing is served over HTTP before the start-up is over.  Module      *)
(* AccessGuard puts RabbitMQ and the wallet process beside this one.        *)
(****************************************************************************)
EXTENDS Naturals, Sequences

CONSTANTS
  Registration,   \* attempts to create an account; also names its row
  Email,          \* the email addresses they give
  Username        \* the usernames that callers of the manager give, or none

\* The username of a row that is given none.
NoName == ""

ASSUME UserAssumption == NoName \in Username

VARIABLES
  started,    \* how many calls of services.py have been made
  handlers,   \* the routing keys registered with the messaging service
  server,     \* what the process is doing
  accounts,   \* the rows of table users_user
  attempt     \* what each attempt is waiting for, or how it ended

userManagement == <<started, handlers, server, accounts, attempt>>

\* "consuming" blocks inside start_consuming, "failed" ended in an exception
\* during the start-up, "dead" in one that left start_consuming.
ServerState == {"starting", "consuming", "serving", "failed", "dead"}

Account == [id : Registration, email : Email, username : Username]

\* A registration is "created" (201), "invalid" (400, by the serializer) or an
\* "error" (500); a call of the manager is "returned" or an "error" thrown.
Answer == {"created", "invalid", "returned", "error"}

\* An attempt that awaits its INSERT carries its row and how it will end.
Attempt ==
  [stage : {"idle"} \cup Answer] \cup
  [stage : {"saving"}, email : Email, username : Username,
   answer : {"created", "returned"}]

UserInit ==
  /\ started = 0
  /\ handlers = {}
  /\ server = "starting"
  /\ accounts = {}
  /\ attempt = [r \in Registration |-> [stage |-> "idle"]]

------------------------------------------------------------------------------

\* Mutant: services.py starts consuming last.
StartupListensLast == <<"authorization", "notification", "listen">>

\* The calls of on_ready at the end of services.py.
Startup == <<"listen", "authorization", "notification">>

\* The messaging service connects, and consumes for each registered handler:
\* start_consuming returns at once when there is none, and else never.  The
\* on_ready of the other two services only registers a handler.
StartUp ==
  /\ server = "starting"
  /\ started' = started + 1
  /\ LET call == Startup[started + 1]
     IN IF call = "listen"
          THEN UNCHANGED handlers
          ELSE handlers' = handlers \cup {call}
  /\ server' = IF Startup[started + 1] = "listen" /\ handlers # {} THEN "consuming"
               ELSE IF started + 1 = Len(Startup) THEN "serving" ELSE "starting"
  /\ UNCHANGED <<accounts, attempt>>

\* BlockingConnection finds no broker, and the import throws.
StartUpFails ==
  /\ server = "starting"
  /\ Startup[started + 1] = "listen"
  /\ server' = "failed"
  /\ UNCHANGED <<started, handlers, accounts, attempt>>

------------------------------------------------------------------------------

Proceed(r, next) ==
  /\ attempt' = [attempt EXCEPT ![r] = next]
  /\ UNCHANGED <<started, handlers, server>>

End(r, answer) == Proceed(r, [stage |-> answer])

Await(r, email, username, answer) ==
  Proceed(r, [stage |-> "saving", email |-> email, username |-> username,
              answer |-> answer])

\* POST /api/auth/register: the serializer looks for the email, one statement
\* before the one that inserts.  It has no username, so that AbstractUser's is
\* the empty string.
Register(r, email) ==
  /\ server = "serving"
  /\ attempt[r].stage = "idle"
  /\ IF \E a \in accounts : a.email = email
       THEN End(r, "invalid")
       ELSE Await(r, email, NoName, "created")
  /\ UNCHANGED accounts

\* UserManager.create_user and create_superuser, called by a command, a shell
\* or a test; the extra fields may name the user.
CreateUser(r, email, username) ==
  /\ attempt[r].stage = "idle"
  /\ Await(r, email, username, "returned")
  /\ UNCHANGED accounts

\* Mutant: the username column is not unique.
CollidesOnEmail(row) == \E a \in accounts : a.email = row.email

\* The two unique columns of the table.
Collides(row) ==
  \E a \in accounts : a.email = row.email \/ a.username = row.username

\* user.save(): the row of an attempt that collides raises an IntegrityError.
SaveUser(r) ==
  /\ attempt[r].stage = "saving"
  /\ LET row == [id |-> r, email |-> attempt[r].email,
                 username |-> attempt[r].username]
     IN IF Collides(row)
          THEN End(r, "error") /\ UNCHANGED accounts
          ELSE End(r, attempt[r].answer) /\ accounts' = accounts \cup {row}

\* The statement fails otherwise.
SaveUserFails(r) ==
  /\ attempt[r].stage = "saving"
  /\ End(r, "error")
  /\ UNCHANGED accounts

AccountStep(r) ==
  \/ \E email \in Email : Register(r, email)
  \/ \E email \in Email, username \in Username : CreateUser(r, email, username)
  \/ SaveUser(r)
  \/ SaveUserFails(r)

------------------------------------------------------------------------------

\* The types of the variables, a part of AccessTypeOK.
UserTypeOK ==
  /\ started \in 0 .. Len(Startup)
  /\ handlers \subseteq {"authorization", "notification"}
  /\ server \in ServerState
  /\ accounts \subseteq Account
  /\ attempt \in [Registration -> Attempt]

\* At most one registration ever succeeds, whatever emails people register
\* with and whomever the manager creates meanwhile: the serializer only looks
\* at emails, but each registration wants the empty username, which whoever
\* comes first has for good (serializers.py, create; models.py; 0001_initial.py).
OneRegistration ==
  \A r, s \in Registration :
    attempt[r].stage = "created" /\ attempt[s].stage = "created" => r = s

\* The start-up ends, and the process serves or has failed: it never blocks in
\* start_consuming, which its order of calls keeps without a consumer
\* (services.py; messaging_service.py, on_ready).
StartupEnds == server = "starting" ~> server \in {"serving", "failed"}
==============================================================================
