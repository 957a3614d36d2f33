SPECIFICATION Spec
CONSTANTS
  Contents = {1, 2, 3}
  IdsOf <- MCIdsOf
  MinId <- MCMinId
  Texts = {"a", "b", "plural"}
  Blank = "blank"
  Forms <- MCForms
  Diffs <- MCDiffs
  Versions <- MCVersions
  MaxSaves = 2
INVARIANTS ChangesAreWritten
CHECK_DEADLOCK FALSE
