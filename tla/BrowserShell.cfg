\* Two messages and loads that overtake each other; three files, overlapping selections and
\* repeated submissions; both runtimes.
SPECIFICATION PageSpec
CONSTANTS
  None = None
  Messages = {m1, m2}
  MaxLoads = 3
  MaxMutations = 1
  Absent = Absent
  small = small
  large = large
  other = other
  Files = {small, large, other}
  Declared <- MCDeclared
  Actual = {1, 2, 3}
  MaxFiles = 2
  MaxFileSize = 2
  MaxTotal = 3
  MaxComposes = 2
  MaxSelections = 2
  MaxWrites = 2
INVARIANTS
  TypeOK NeverStuck ListConverges
  DialogTypeOK OnlyCheckedAttachmentsLeave PreviewIsWhatLeaves
PROPERTY NewestLoadWins
CHECK_DEADLOCK FALSE
SYMMETRY Alike
