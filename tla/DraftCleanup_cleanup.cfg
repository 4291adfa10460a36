CONSTANTS
  p1 = p1 p2 = p2 p3 = p3 d1 = d1 d2 = d2 d3 = d3
  NoRun = NoRun NoProc = NoProc NoDraft = NoDraft
  Runs = {1, 2} Procs = {p1, p2} Drafts = {d1, d2}
  MaxUp = 1 MaxMishaps = 2 Mishaps = {"crash", "locked", "unsafe"}
SPECIFICATION Spec
INVARIANTS TypeOK TombstoneBlocksClosing PromotionUndisturbed RetryFindsDraft
PROPERTIES CancelledIsNotPublished TerminalIsFinal
SYMMETRY DraftSymmetry
