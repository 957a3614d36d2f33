SPECIFICATION Spec
CONSTANTS
  Ids = {1, 2}
  Msgs = {m1, m2}
  Untranslated = Untranslated
  MinId <- MCMinId
SYMMETRY Interchangeable
PROPERTIES AcceptMovesOthers
