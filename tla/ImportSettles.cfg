SPECIFICATION FairSpec
CONSTANTS
  t1 = t1
  o1 = o1
  o2 = o2
  p1 = p1
  p2 = p2
  c1 = c1
  c2 = c2
  host = host
  None = None
  JobTx = {t1}
  Outpoint = {o1, o2}
  JobOut = {o1, o2}
  ProofTx = {p1}
  TxOf <- TwoOutputs
  Spends <- OneProof
  Call = {c1, c2}
  Process = {host}
  Home <- OneHost
  Entry <- AllEntries
  UniqueJobs = TRUE
  MayFail = FALSE
  MayCrash = FALSE
INVARIANTS
  JobsAreAnnounced
  GiveUpIsJustified
PROPERTY ImportsSettle
