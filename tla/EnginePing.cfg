SPECIFICATION Spec
CONSTANTS
  Clients = {c1, c2}
  Starters = {s1}
  Workers = {w1, w2, w3}
  Monitor = monitor
  None = None
  Commands = {"ping", "embed"}
  Attempts = 2
  MaxFaults = 0
  MaxStops = 0
SYMMETRY Symmetry
INVARIANTS CrashedMeansCrash
