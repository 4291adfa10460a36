CONSTANTS
  None = None Builders = {b1, b2} Composite = {b1}
  NewEntities = {n1} Extensions = {p1} MaxHarm = 1
SPECIFICATION Spec
INVARIANTS CommittedStays
CHECK_DEADLOCK FALSE
