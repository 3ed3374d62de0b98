CONSTANTS
  d1 = d1
  d2 = d2
  Dests = {d1, d2}
  NameOf <- SharedNames
  Filtered = {d2}
  Initial = {d1}
  Enabled = {d1, d2}
  Subs = {s1}
  Callers = {c1, c2}
  None = None
  MaxChunks = 3
SPECIFICATION Spec
INVARIANT SubscriptionsEnd
INVARIANT SubscriberSeesAll
INVARIANT ThreadsFollowList
SYMMETRY CallerSymmetry
