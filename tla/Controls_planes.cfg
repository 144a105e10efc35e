SPECIFICATION ControlsSpec
CONSTANTS
  op = op  fm1 = fm1  fm2 = fm2
  sm = sm  pa1 = pa1  pa2 = pa2  p1 = p1
  NoActor = NoActor
  Ids = {h1, h2, h3}
  Actors = {op, fm1, fm2}
  Roles <- MCHaltRoles
  Instruments = {i1, i2}
  Keys = {k1, k2, k3}
  Accounts = {a1}
  Managers = {sm, pa1, pa2}
  RolesOf <- MCManagerRoles
  ActionIds = {r1, r2}
  CommandKeys = {c1, c2}
  None = None
  Addresses = {d1}
  RegIds = {p1, p2}
  Clients = {l1}
  Mailers = {w1, w2}
  MaxSends = 2
  MaxGuesses = 1
  MaxTries = 2
  MaxChallenges = 4
  MailsChallenges = 2
  MaxMailFaults = 1
SYMMETRY Symmetry
CHECK_DEADLOCK FALSE
INVARIANTS
  EveryApprovalInForce
  PlatformDecides
  OneReleasePerRequest
  FourEyes
  OneAccountPerAddress
  GuessesBounded
PROPERTIES
  CapabilityOnlyShrinks
  ForbiddenUntilReleased
  OnlyCurrentCodeSubmitted
