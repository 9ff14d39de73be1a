CONSTANTS
  p1 = p1
  p2 = p2
  none = none
  c1 = c1
  c2 = c2
  Peer = {p1, p2}
  NoPeer = none
  Caller = {c1, c2}
  MaxStarts = 2
  DoubleClick = FALSE
SPECIFICATION Spec
INVARIANTS NoPassLeft
SYMMETRY Alike
