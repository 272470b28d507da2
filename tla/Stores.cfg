\* The Redis store and the memory store under two overlapping calls, torn
\* calls, restarts and the passing of time.
CONSTANTS
  w1 = w1
  w2 = w2
  Workers <- MCWorkers
  Dicts <- MCDicts
  Ttl = 3
SPECIFICATION Spec
SYMMETRY Symmetry
INVARIANT NoImmortalKey
PROPERTY KeepsLease
PROPERTY FreshMarkerKept
