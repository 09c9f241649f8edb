CONSTANTS
  Cap = 2
  Scripts <- Printed
  LineEnds <- Ends
SPECIFICATION Spec
INVARIANTS TypeOK OutputComplete MutualWaitOnErrorsOnly SuccessMeansAnswered
PROPERTIES CallReturns RefinesCapture
CHECK_DEADLOCK FALSE
