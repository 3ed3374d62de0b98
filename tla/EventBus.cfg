SPECIFICATION Spec
CONSTANTS
  Emitters = {e1, e2}
  Subs = {s1, s2}
  Clearer = clearer
  QueueSize = 1
  RingSize = 1
  MaxEvents = 2
SYMMETRY Symmetry
INVARIANTS NoGap InOrder EndIsTold
CHECK_DEADLOCK FALSE
