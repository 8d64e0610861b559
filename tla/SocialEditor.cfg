SPECIFICATION Spec
CHECK_DEADLOCK FALSE
CONSTANTS
  Posts = {a, b}
  None = None
  MaxEdits = 3
  MaxLosses = 1
INVARIANT SavedMeansStored
PROPERTY UnseenWordsSurvive
PROPERTY ChangesAreSavedOrReported
