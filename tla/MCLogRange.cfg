SPECIFICATION Spec
CONSTANTS
  MaxResponse = 3
  MaxLog = 10
INVARIANTS
  AnswerIsTheRange
  FollowerHasPrefix
PROPERTIES
  FollowerCatchesUp
