SPECIFICATION Spec
CHECK_DEADLOCK FALSE
CONSTANTS
  Languages = {"en", "sv"}
  Fields = {"headline"}
  None = None
  MaxRuns = 2
  MaxEvents = 2
INVARIANT PendingWordsStay
INVARIANT SavedMeansStored
PROPERTY UnsavedIsKept
PROPERTY Released
