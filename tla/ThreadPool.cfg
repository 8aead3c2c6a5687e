CONSTANTS
  Worker = {w1, w2, w3}
  Owner = Owner
  t1 = t1
  t2 = t2
  t3 = t3
  t4 = t4
  Task = {t1, t2, t3, t4}
  Parent <- MCParent
  MaxSpurious = 1
  Null = Null
SPECIFICATION FairSpec
INVARIANTS WorkConserving NoSleeperAfterStop
PROPERTIES ImplementsTaskPool AcceptedFinish DestructorReturns
