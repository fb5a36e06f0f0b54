\* Three threads, two calls each, one scope after another.
CONSTANTS
  Workers = {worker}
  Others = {display}
  Render = render
  Size = 3
  MaxCalls = 2
SPECIFICATION Spec
INVARIANTS
  CountersAgree ScopeReadsOwn
CHECK_DEADLOCK FALSE
