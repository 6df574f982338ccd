SPECIFICATION Spec
CONSTANTS
  c1 = c1
  c2 = c2
  c3 = c3
  Callers = {c1, c2, c3}
  MaxAttempts = 2
  MaxRestarts = 2
SYMMETRY Sym
INVARIANTS TypeOK OneExecutor CallsRunOnce SupersededIsWorthless
PROPERTY OutcomeKept
