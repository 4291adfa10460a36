CONSTANTS
  r1 = r1 r2 = r2 r3 = r3 w1 = w1 w2 = w2 w3 = w3
  chat = chat other = other board = board mail = mail core = core
  NoWorker = NoWorker NoSession = NoSession
  Runs <- ThreeRuns
  Workers = {w1, w2}
  SessionOf <- MixedSession
  AppOf <- MixedApp
  Agents = {}
  RestartSafe = {r2, r3}
  PreGranted = {mail, core}
  GlobalLimit = 2 OwnerLimit = 1 CandidateLimit = 3
  MaxSteps = 1 MaxMishaps = 1 Mishaps = {"crash"}
SPECIFICATION Spec
INVARIANTS ConcurrencyBound
PROPERTIES LaneSpec
SYMMETRY WorkerSymmetry
