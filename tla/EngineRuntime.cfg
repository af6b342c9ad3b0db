SPECIFICATION Spec
CONSTANTS
  Clients = {c1, c2}
  Starters = {s1}
  Workers = {w1, w2}
  Monitor = monitor
  None = None
  Commands = {"ping", "embed"}
  Attempts = 2
  MaxFaults = 1
  MaxStops = 1
SYMMETRY Symmetry
INVARIANTS TypeOK ChildrenAreOwned
