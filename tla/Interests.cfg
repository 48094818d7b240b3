CONSTANTS
  Output = {old, first, second}
  Tx = {"s", "d"}
  Detected <- Detections
  Location <- Locations
  Asked = {"s_0", "d_0", "d_1"}
  TxOf <- TheTx
  At <- TheOutput
  Place <- ThePlace
  Removal = {r1, r2}
  Inputs <- Spent
  PaysTo <- Paid
  Legacy <- OldRows
  Fiber = {f1, f2}
  Failures = 1
  None = None
  old = old
  first = first
  second = second
  f1 = f1
  f2 = f2
  r1 = r1
  r2 = r2
SPECIFICATION Spec
SYMMETRY Interchangeable
INVARIANTS
  RemovalsAreOnChain
  RepeatsNeedOverlap
  FailuresLoseOneEach
PROPERTY RemovalsStick
