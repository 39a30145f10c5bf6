CONSTANTS
  Call = {c1, c2}
  Blocks = {c1, c2}
  Kind = {"cacheThenNetwork"}
  Valid = {TRUE}
  None = None
SPECIFICATION Spec
INVARIANTS CancelStopsUnanswered
CHECK_DEADLOCK FALSE
