SPECIFICATION Spec
CONSTANTS
  ta = ta
  tb = tb
  tc = tc
  te = te
  p1 = p1
  p2 = p2
  p3 = p3
  pe = pe
  px = px
  r1 = r1
  FirstId = 1
  Templates <- MCTemplates
  NoHash = NoHash
  NoClient = NoClient
  PotLen <- MCNoneEmpty
  Pots <- MCPots
  TpHash <- MCTpHash
  Broken = {px}
  ByHand = {p2, px}
  Repos = {r1}
  Commits = {1, 2}
  CommitsOf <- MCCommitsOf
  Contents <- MCContents
  Fillers = {f1, f2}
  Slots = {s1, s2}
INVARIANT RangesDisjoint
