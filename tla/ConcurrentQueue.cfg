CONSTANTS
  Producer = {p1, p2}
  Poller = {c1}
  Waiter = {w1}
  Node = {n1, n2, n3, n4}
  Value = {a, b}
  Null = Null
  PushCalls = 1
  PopCalls = 2
SPECIFICATION TestSpec
INVARIANTS ListIntact SingleOwner NoNodeRace
PROPERTIES ImplementsLinQueue OnlyWaitersWait
