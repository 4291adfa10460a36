CONSTANTS
  MaxCrashes = 1 Apps = {a1} Caps = {c1} OtherItems = {}
  Folders = {f1} Clients = {k1, k2} MaxLayouts = 2 NoUI = NoUI
  Bundled = {b1} External = {e1} ByHash = {e1} Packages <- TwoPackages
  Users = {u1, u2} Unguarded = {u2} Chats = {c2} MaxRevision = 3
  None = None MaxPairings = 2 MaxClaims = 2 MaxRunners = 2
  QueueSize = 1 MaxAttempt = 2 MaxChunk = 2 MaxEvents = 3
  Accounts = {m1, m2} Profiles = {p1, p2} Endpoints = {x1, x2}
  Asking = {t1, t2} MaxJobs = 3 MaxLogins = 1 MaxChanges = 2
SPECIFICATION Spec
INVARIANTS
  ShelfIsTrue LiveTextIsTrue
PROPERTIES
  PassesWithConsent GrantIsHonoured ModelsAreCurrent
SYMMETRY Symmetry
CHECK_DEADLOCK FALSE
