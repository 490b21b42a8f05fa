SPECIFICATION Spec
CONSTANTS
  None = None
  Requests = {r1, r2, r3, r4}
  Tokens = {t1, t2, t3}
  Families = {f1, f2}
  Users = {u1}
SYMMETRY Symmetry
INVARIANT OneSuccessor
