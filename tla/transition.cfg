SPECIFICATION FairSpec
CONSTANTS
  nil = nil
  Oids <- MCOids
  TpHash <- MCTpHash
  First <- MCFirst
  Messages <- MCMessages
  FirstRow = 3
  LastId = 7
  Detected <- DetectedAt
  MaxKills = 2
  MaxCuts = 1
INVARIANT TypeOK
INVARIANT SameTextOnly
INVARIANT RecordedWasDumped
INVARIANT AssertionsHold
PROPERTY RecordedWhenJoined
PROPERTY AllRecorded
