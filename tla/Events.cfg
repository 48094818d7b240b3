CONSTANTS
  p1 = p1  p2 = p2
  room = room
  job = job  job2 = job2  said = said  said2 = said2
  Process = {p1, p2}
  Socket = {room}
  Home <- MCHome
  Url <- MCUrl
  Event = {job, job2, said, said2}
  Kind <- MCKind
  Started <- MCStarted
  Prefetch = 2
  MaxCrashes = 1
SPECIFICATION FairSpec
INVARIANTS TypeOK SentOnceInOrder StreamsHaveNoGaps
PROPERTY EventsArrive
CHECK_DEADLOCK FALSE
