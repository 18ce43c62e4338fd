SPECIFICATION FairSpec
CONSTANTS
  Clients = {c1}
  Capacity = 2
  Limit = 1
  MaxSeq = 3
  MaxLive = 1
  MaxBreaks = 2
INVARIANTS InOrderOnce NothingBetween
PROPERTIES SynchronizedIsTrue EventsArrive StreamsEnd
CHECK_DEADLOCK FALSE
