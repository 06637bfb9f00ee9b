SPECIFICATION Spec
CONSTANTS
  Starters = {s1, s2}
  Admins = {a}
  Readers = {r}
  Nobody = Nobody
  MaxRuns = 3
SYMMETRY MCSymmetry
INVARIANTS
  TypeOK
  FinishedFilesAnswerWhole
  FinishedWhenQuiet
PROPERTIES
  FinishedFilesNeverChange
  OneWriterPerFile
CHECK_DEADLOCK FALSE
