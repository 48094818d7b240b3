CONSTANTS
  a0 = a0  a1 = a1  o = o  ta = ta  tb = tb
  proof = proof  other = other  both = both  reclaim = reclaim
  Output = {a0, a1, o}
  Job = {a0, a1}
  Tx <- MCTx
  Index <- MCIndex
  Spend = {proof, other, both, reclaim}
  Inputs <- MCInputs
  Proof = {proof, other, both}
  Proves <- MCProves
  MaxFails = 2
SPECIFICATION Spec
INVARIANTS TypeOK ProofsRedeemTheirJobs SweepsCloseWhatTheyPass
