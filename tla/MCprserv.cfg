SPECIFICATION Spec
CONSTANTS
  s1 = s1
  s2 = s2
  a = a
  b = b
  c = c
  Servers = {s1, s2}
  Checksums = {a, b, c}
  None = None
  CrashAt = {"up", "insert", "begin", "raise"}
  Imports = {2}
  MaxValue = 5
SYMMETRY Interchangeable
INVARIANTS
  RevisionsGrow
