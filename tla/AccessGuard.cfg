SPECIFICATION Spec
CONSTANTS
  Request = {r1, r2}
  Server = server
  Word = {"Bearer", "jwt"}
  Registration = {u1, u2}
  Email = {"ada", "obi"}
  Username = {"", "ada"}
INVARIANTS
  AccessTypeOK
  NoMessageJudges
  ServerSurvives
  OneRegistration
PROPERTIES
  EveryRequestIsJudged
  StartupEnds
CHECK_DEADLOCK FALSE
