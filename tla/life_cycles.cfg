\* Run of the server and another starter, two calls of Shutdown beside its own.
SPECIFICATION LifeSpec
CONSTANTS
  NoCall = NoCall
  Starters = {s1, s2}
  Stoppers = {t1, t2}
  Runner = s1
INVARIANTS Truthful ServerSafe
PROPERTIES AllEnd HTTPEnds
\* Calls, listings and life cycles are over at some time.
CHECK_DEADLOCK FALSE
