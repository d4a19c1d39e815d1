\* Two agents, two slots, entries that expire.
SPECIFICATION Spec
CONSTANTS
  p1 = p1
  p2 = p2
  a = a
  b = b
  x = x
  y = y
  Nobody = Nobody
  Procs = {p1, p2}
  Slots = {a, b}
  Values = {x, y}
  Ttls = {0, 1}
  MaxClock = 1
INVARIANTS
  LoadedIsCurrent
PROPERTIES
  MemorySpec
