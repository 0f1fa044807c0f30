SPECIFICATION GuardSpec
CONSTANTS
  MaxRedirects = 3
  MaxAddresses = 16
INVARIANT Interruptible
INVARIANT ActsOnWholeAnswers
INVARIANT LeavesNothingBehind
INVARIANT OpensOneAtATime
PROPERTY EndsAfterDeadline
CHECK_DEADLOCK FALSE
