CONSTANTS
  r1 = r1 r2 = r2 r3 = r3 w1 = w1 w2 = w2 w3 = w3
  chat = chat other = other board = board mail = mail core = core
  NoWorker = NoWorker NoSession = NoSession
  Runs <- TwoRuns
  Workers = {w1}
  SessionOf <- ManualSession
  AppOf <- AgentApp
  Agents = {r1, r2}
  RestartSafe = {r1, r2}
  PreGranted = {}
  GlobalLimit = 2 OwnerLimit = 1 CandidateLimit = 3
  MaxSteps = 2 MaxMishaps = 0 Mishaps = {}
SPECIFICATION Spec
INVARIANTS CancelledIsSettled
