\* Two threads race in one bucket while a third has its own.  The counter is
\* small enough to wrap: the rate is the largest value it holds.  Each thread
\* makes four calls.
CONSTANTS
  t1 = t1
  t2 = t2
  t3 = t3
  Thread = {t1, t2, t3}
  Tid <- CollidingTids
  NumBuckets = 2
  CounterMod = 4
  Rate = 3
  MaxCalls = 13
  TotalCalls = 13
SPECIFICATION FairTestSpec
INVARIANTS
  TypeOK
  SerialBucketsAreExact
  HighCounterIsBeingReset
  CounterNeverOvercounts
  SerialTestIsExact
  PassMeansSampled
PROPERTIES ImplementsSamplingSpec ExclusiveThreadsAreSampled TestEnds
