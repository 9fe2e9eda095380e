\* Two runs of the script, the second of which finds what the first left.
SPECIFICATION Spec
CONSTANTS
  MaxTime = 2
  Answers <- NearAnswers
  MaxRuns = 2
  None = None
INVARIANTS
  TypeOK
  VerdictsAgree
PROPERTIES
  EvidenceIsEarned
\* The runs are used up.
CHECK_DEADLOCK FALSE
