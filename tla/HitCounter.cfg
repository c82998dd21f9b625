\* Three visits that may each lose two requests or answers.  The visits end.
CONSTANTS
  Visit = {v1, v2, v3}
  Retries = 1
SPECIFICATION Spec
CHECK_DEADLOCK FALSE
INVARIANTS CountsDistinctAndGrow
PROPERTIES VisitsEnd
