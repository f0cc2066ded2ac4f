SPECIFICATION Spec
CONSTANTS
  Conns = {c1, c2, c3}
  Sessions = {s1, s2}
  Addresses = {}
  Targets = {t1}
  Names = {"DBeaver 23.0.0"}
  Tools = {"DBeaver"}
  ToolOf <- Normal
  MaxConnections = 1
CHECK_DEADLOCK FALSE
SYMMETRY Symmetry
INVARIANT NoLockCycle
