CONSTANTS
  p1 = p1 p2 = p2 d1 = d1 d2 = d2
  Promos = {p1, p2} Dels = {d1, d2}
  MaxThreads = 2 MaxEdits = 1 Mishaps = {"crash"} MaxMishaps = 1
SPECIFICATION Spec
INVARIANTS LastPublished
SYMMETRY NameSymmetry
