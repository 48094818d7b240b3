CONSTANTS
  c1 = c1  c2 = c2  c3 = c3
  s1 = s1  s2 = s2  bad = bad
  Script = {s1, s2, bad}
  Malformed = {bad}
  Call = {c1, c2, c3}
  MaxFails = 1
SPECIFICATION Spec
SYMMETRY MCSymmetry
INVARIANTS LinksResolve TwinsNeedOverlap
