SPECIFICATION Spec
CONSTANTS
  Conns = {c1, c2, c3}
  Sessions = {s1, s2}
  Addresses = {a1}
  Targets = {t1}
  Names = {"DBeaver 23.0.0"}
  Tools = {"DBeaver"}
  ToolOf <- Normal
  MaxConnections = 2
CHECK_DEADLOCK FALSE
SYMMETRY Symmetry
INVARIANTS LimitHolds ClaimsNotOrphaned OneToolPerTunnel
PROPERTY OnlyOwnRelease
