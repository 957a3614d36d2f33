SPECIFICATION FairSpec
CONSTANTS
  Clients = {c1}
  Templates = {known, unset, missing}
  known = known
  unset = unset
  missing = missing
  Recorded <- MCRecorded
  First <- MCFirst
  Count <- MCCount
  Ids = {1, 2, 3}
  MinId <- MCMinId
  Requests <- MCRequests
  ShortWrites = TRUE
INVARIANT TypeOK
INVARIANT InStep
INVARIANT ParentSurvivesChildren
PROPERTY KeepsPromise
PROPERTY CallsEnd
PROPERTY ChildrenEnd
