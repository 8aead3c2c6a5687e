\* Three of the ten workers of main, which is the consumer.
CONSTANTS
  Producer = {w1, w2, w3}
  Consumer = {main}
  Node = {n1, n2, n3, n4}
  Value = {w1, w2, w3}
  Default = Default
  Wild = Wild
  Null = Null
SPECIFICATION TestSpec
INVARIANT EveryPopFinds
\* main ends after its last pop.
CHECK_DEADLOCK FALSE
