SPECIFICATION FairSpec
CONSTANTS
  NoRow = "none"
  Last = 5
  Height <- TwoTwoOne
  Upto <- JobsUpto
  Txid = {"A", "B", "C"}
  Row = {"a1", "a2", "b", "c"}
  Names <- JobNames
  Points <- JobPoints
  Of <- JobOf
  Key <- JobOf
  Orphans <- NoOrphan
  Others = {"a1"}
  MayFail = TRUE
  MayStop = TRUE
INVARIANT TypeOK
INVARIANT WorkedOnce
INVARIANT CursorIsBehind
PROPERTY OnlyStopsOrSiblingsLose
PROPERTY WantedIsSettled
