SPECIFICATION Spec
CONSTANTS
  Existing = {0, 1}
  Pairs = 2
  Groups = 2
  kDefaultBootAttempts = 3
  kActiveTries = 2
  Avb = TRUE
  Flaws <- MCFlaws
  Modes = {"enforcing", "", "logging"}
  CareMaps = {"missing", "invalid", "ranges"}
  MaxMishaps = 2
  MaxTorn = 1
INVARIANTS
  TypeOK
  SuccessfulIsChecked
  NeverStranded
  MarkedIsNext
  SlotShownIsNext
PROPERTIES
  ComesUp
