SPECIFICATION Spec
CONSTANTS
  Texts <- MCTexts
  Qualities = {3, 80}
  Commands = {"Play"}
  Sequences = {6, 16}
  MaxPolls = 2
  MaxTransports = 2
  NONE = NONE
INVARIANT AckIsReal
INVARIANT PlanFulfilled
INVARIANT RefusedUntouched
