CONSTANTS
  Work <- SomeWork
  Posted <- SomeJobs
  Contract <- SomeContract
  Contents <- SomeContents
  Frame = {"last-day"}
  Span <- SpanInDays
  Days = 2
  Kept = 1
  Fiber = {f1, f2}
  f1 = f1
  f2 = f2
  LastDay = 3
  Failures = 1
  Price <- Prices
  Rate = 2
  Missing = Missing
  x = x
  usd = usd
  y = y
SPECIFICATION FairSpec
INVARIANTS
  TypeOK
  FeedIsTheDays
  
PROPERTY CacheCatchesUp
