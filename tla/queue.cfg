\* Two instances, two messages of any body, two faults; two errors in a row
\* stop an instance.
SPECIFICATION FairSpec
CONSTANTS
  m1 = m1 m2 = m2 c1 = c1 c2 = c2
  Msgs = {m1, m2}
  Consumers = {c1, c2}
  BatchSize = 2
  MaxErrors = 2
  MaxFaults = 2
INVARIANTS
  TypeOK
  AtLeastOnce
PROPERTIES
  ImplementsDelivery
  EveryMessageLeaves
