CONSTANTS
  Children = {c1, c2}
SPECIFICATION Spec
INVARIANTS
  BodyErrorWins
CHECK_DEADLOCK FALSE
