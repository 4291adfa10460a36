CONSTANTS
  r1 = r1 r2 = r2 r3 = r3 w1 = w1 w2 = w2 w3 = w3
  chat = chat other = other board = board mail = mail core = core
  NoWorker = NoWorker NoSession = NoSession
  Runs <- TwoRuns
  Workers = {w1, w2}
  SessionOf <- ManualSession
  AppOf <- PairApp
  Agents = {r1}
  RestartSafe = {r1}
  PreGranted = {}
  GlobalLimit = 2 OwnerLimit = 1 CandidateLimit = 3
  MaxSteps = 1 MaxMishaps = 1 Mishaps = {"crash", "prestep"}
SPECIFICATION FairSpec
INVARIANTS TypeOK StepsFenced WaitingIsAnswerable GrantBeforeResume ManualIsSafe
PROPERTIES CancelSettles RunningSettles GrantsApplied NoStarvation TerminalIsFinal
