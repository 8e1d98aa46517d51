CONSTANTS
  c1 = c1
  c2 = c2
  Caller <- MCCaller
  Key = {"k1"}
  NoKey = NoKey
  ExpectedVersion = {0, 1, 2}
  MaxHeap = 38
  MaxAnswers = 5
  MaxScribbles = 1
SYMMETRY MCSymmetry
SPECIFICATION MCIsolationSpec
CHECK_DEADLOCK FALSE
INVARIANTS
  StoredStaysTrue
  AnswersStayTrue
