\* The constants of the source, two threads whose ids are 64 apart.
CONSTANTS
  t1 = t1
  t2 = t2
  Thread = {t1, t2}
  Tid <- CollidingPair
  NumBuckets = 64
  CounterMod = 256
  Rate = 20
  MaxCalls = 21
SPECIFICATION Spec
INVARIANTS OnlyOneInRate
