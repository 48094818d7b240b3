SPECIFICATION Spec
CONSTANTS
  NoRow = "none"
  Last = 3
  Height <- OneTwo
  Upto <- ProofsUpto
  Txid = {"A", "B", "C", "D"}
  Row = {"a", "b", "c", "d"}
  Names <- ProofNames
  Points <- ProofPoints
  Of <- ProofOf
  Key <- ProofKey
  Orphans = {"d"}
  Others = {"b"}
  MayFail = TRUE
  MayStop = TRUE
PROPERTY OnlyStopsOrSiblingsLose
