CONSTANTS
  a1 = a1
  a2 = a2
  s1 = s1
  s2 = s2
  c1 = c1
  c2 = c2
  Callers = {c1, c2}
  Sessions = {s1, s2}
  Attempts = {a1, a2}
  Nobody = Nobody
  SessionOf <- MCSessionOf
  LeaseSeconds = 1
  Deadline = 3
  MaxConflictRetries = 2
  MaxTime = 3
SPECIFICATION Spec
SYMMETRY Sym
INVARIANTS TypeOK OneOwner
PROPERTIES WritesAreTransitions ResultFromOwner SettledIsFinal LiveLeaseKept OwnershipSpec
