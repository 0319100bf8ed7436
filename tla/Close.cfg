SPECIFICATION FairSpec
CONSTANTS
  A = A
  B = B
  SafeEnds = {A}
  Calls <- MCCalls
  FinCopies = 2
  MaxRand = 5
  MaxResets = 1
  MaxConns = 2
  MaxDups = 1
  MaxLosses = 1
INVARIANTS HalfClosedIsClosing
PROPERTIES AnsweringEndClosesLast DestructorReturns SendReturns
CHECK_DEADLOCK FALSE
