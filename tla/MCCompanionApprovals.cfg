SPECIFICATION Spec
CONSTANTS
  c1 = c1
  c2 = c2
  c3 = c3
  Callers = {c1, c2, c3}
  MaxRestarts = 2
SYMMETRY Sym
CHECK_DEADLOCK FALSE
INVARIANTS TypeOK OnlyApprovedRuns RunningIsVisible
PROPERTY FirstAnswerStands
