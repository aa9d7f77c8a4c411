SPECIFICATION Spec
CONSTANTS
  u1 = u1
  u2 = u2
  u3 = u3
  risk = risk
  executor = executor
  Appends = {a1, a2, a3}
  Updates = {u1, u2, u3}
  Roles = {risk, executor}
  RoleOf <- TwoAgents
  None = None
  MaxOps = 3
  MaxLate = 1
  MaxRestarts = 0
SYMMETRY Alike
INVARIANTS
  HistoryIsFull
