\* Two requests at a time, two versions of the CSV files, one thread killed.
SPECIFICATION Spec
CONSTANTS
  Thread = {t1, t2}
  BadRaw = {2}
  MaxRaw = 3
  MaxFiles = 2
  MaxCrash = 1
SYMMETRY Symmetry
INVARIANTS TypeOK AnswersAreCurrent PreparedIsReadable SignatureIsCurrent
CHECK_DEADLOCK FALSE
