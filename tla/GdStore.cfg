\* Three threads that read and change the store.
SPECIFICATION FairSpec
CONSTANTS
  v1 = v1
  v2 = v2
  x1 = x1
  x2 = x2
  Thread = {t1, t2, t3}
  Content = {v1, v2}
  Initial = v1
  NoThread = NoThread
  Nothing = Nothing
  Payload <- OwnText
  MaxCalls = 2
\* Every thread makes its calls and stops.
CHECK_DEADLOCK FALSE
INVARIANTS TypeOK
PROPERTIES ImplementsPromise EveryCallEnds
