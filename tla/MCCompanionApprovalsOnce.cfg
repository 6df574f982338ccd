SPECIFICATION Spec
CONSTANTS
  c1 = c1
  c2 = c2
  c3 = c3
  Callers = {c1, c2, c3}
  MaxRestarts = 0
SYMMETRY Sym
CHECK_DEADLOCK FALSE
INVARIANT RunsOnce
