\* Three callers resolve three valid keys and one that is too long.  Two keys
\* may be in flight, with one follower each; the scope holds two entries and
\* three bytes, so every limit is reached.
SPECIFICATION Spec
CONSTANTS
  Callers = {p1, p2, p3}
  Keys = {k1, k2, k3, long}
  BadKeys = {long}
  Values = {1, 2, 3}
  Tickets = {c1, c2, c3}
  None = None
  MaxKeys = 2
  MaxFollowers = 1
  MaxEntries = 2
  MaxBytes = 3
  MaxValueBytes = 2
SYMMETRY Symmetry
INVARIANTS BytesExact LimitsKept ClosedEmpty FlightSound
PROPERTIES MemoStable
