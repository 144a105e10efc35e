SPECIFICATION BackgroundSpec
CONSTANTS
  InApp = {n1}
  Email = {n2}
  Jobs = {j1, j2}
  TaskWorkers = {t1, t2}
  NoteRetries = 1
  JobRetries = 1
  MaxTaskFaults = 1
  Addresses = {a1}
  RegIds = {p1}
  Clients = {c1}
  Mailers = {l1, l2}
  MaxSends = 1
  MaxGuesses = 1
  MaxTries = 2
  MaxChallenges = 1
  MaxMailFaults = 1
CHECK_DEADLOCK FALSE
INVARIANTS
  OneOutcomePerNotification
  CompletedHasArtifact
PROPERTIES
  JobEnds
  NotificationEnds
  MailEnds
