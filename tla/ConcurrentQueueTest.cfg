\* The test of main: it pushes twice, two threads call wait_and_pop.
CONSTANTS
  Producer = {main}
  Poller = {}
  Waiter = {t1, t2}
  Node = {n1, n2, n3}
  Value = {v}
  Null = Null
  PushCalls = 2
  PopCalls = 1
SPECIFICATION TestSpec
PROPERTY JoinsReturn
