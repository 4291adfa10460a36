CONSTANTS
  p1 = p1 p2 = p2 p3 = p3 d1 = d1 d2 = d2 d3 = d3
  NoRun = NoRun NoProc = NoProc NoDraft = NoDraft
  Runs = {1} Procs = {p1} Drafts = {d1}
  MaxUp = 1 MaxMishaps = 1 Mishaps = {"unsafe"}
SPECIFICATION Spec
INVARIANTS ReviewHasExit
