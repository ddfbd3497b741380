\* Two identities, two contents, two replicas and up to two faults.
SPECIFICATION Spec
CONSTANTS
  Ids = {i1, i2}
  Contents = {c1, c2}
  Poison = {}
  Producers = {p1}
  Relays = {w1, w2}
  Tokens = {t1, t2, t3, t4, t5}
  None = None
  TickSeconds = 10
  Lease = 6
  DBTimeout = 1
  SendTimeout = 3
  MaxFaults = 2
  MaxTx = 2
SYMMETRY Symmetry
INVARIANTS RowsWellFormed NoLostEvent OnlyCommittedAccepted LeaseOutlivesDelivery DrainedProof
PROPERTIES LeaseFenced Delivery
