SPECIFICATION Spec
CONSTANTS
  a1 = a1
  a2 = a2
  n1 = n1
  n2 = n2
  MaxSeq = 2
  MaxReplies = 4
  Deadline = 2
  Address = {a1, a2}
  Name = {n1, n2}
  Answers <- MCAnswers
  None = None
INVARIANT TypeOK
PROPERTIES
  AlarmOnlyAfterSilence
  SilenceIsNoticed
  PagesShowWholeAnswers
