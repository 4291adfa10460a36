CONSTANTS
  Promos = {p1, p2} Dels = {d1, d2} MaxThreads = 1 MaxEdits = 1
  Mishaps = {"crash", "io"} MaxMishaps = 1
  Sockets = {x1, x2} MaxContexts = 2 MaxLaunches = 2
  Targets = {w1} Widgets = {w1} Ids = {1} Calls = {m1, m2} MaxCommits = 2
  Producers = {q1, q2} BatchLimit = 1 Window = 1 MaxTries = 1
  MaxSequence = 2 MaxEpoch = 2
  Tasks = {t1, t2} Stoppers = {s2} Manifests = {i1, i2} MaxClients = 2
  MaxCancels = 1
  ToolCalls = {m1, m2} Folders = {f1} Texts = {t1} Findings = {n1}
  MaxPending = 1 MaxMessages = 4 MaxRepairs = 1 MaxStops = 2
  Builders = {u1, u2} Composite = {u1} NewEntities = {n1}
  Extensions = {n2} MaxHarm = 1 None = None
  MaxSends = 2 MaxBoots = 1 MaxDeletes = 1
  Windows = {win} MaxMounts = 2 MaxCalls = 2 MaxSessions = 1 MaxVersion = 2
  Runs = {r1, r2} g1 = g1 g2 = g2
  MaxBatches = 2 MaxAttempts = 2 MaxRetried = 1 MaxCrashes = 1
SPECIFICATION Spec
INVARIANTS
  ServicesTypeOK DirectoryIsWhole LastPublished BrowserIsShared
  NothingSkipped CallsAreServed QuietStaging BuildIsWhole
  ConversationIsWhole AnsweredForAsker
PROPERTIES
  NeverBackwards GrantCoversReport UndoIsExact
SYMMETRY Symmetry
CHECK_DEADLOCK FALSE
