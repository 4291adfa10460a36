CONSTANTS
  p1 = p1 p2 = p2 p3 = p3 d1 = d1 d2 = d2 d3 = d3
  NoRun = NoRun NoProc = NoProc NoDraft = NoDraft
  Runs = {1, 2} Procs = {p1, p2} Drafts = {d1}
  MaxUp = 1 MaxMishaps = 1 Mishaps = {"crash", "locked", "stall"}
SPECIFICATION FairSpec
PROPERTIES CleanupSettles
