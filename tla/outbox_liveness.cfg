\* One deliverable and one poison content; every fault once.
SPECIFICATION FairSpec
CONSTANTS
  Ids = {i1, i2}
  Contents = {good, bad}
  Poison = {bad}
  Producers = {p1}
  Relays = {w1}
  Tokens = {t1, t2, t3}
  None = None
  TickSeconds = 10
  Lease = 6
  DBTimeout = 1
  SendTimeout = 3
  MaxFaults = 1
  MaxTx = 2
PROPERTIES AcceptedEventually LiveDelivery
