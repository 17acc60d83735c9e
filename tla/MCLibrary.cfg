\* Division, shifts, counts, copies.
SPECIFICATION Spec
CONSTANTS
  W = 16
  U32 = 1000
  Calls <- AllCalls
  Jobs <- AllJobs
\* Every call returns, or does not.
CHECK_DEADLOCK FALSE
INVARIANTS
  DivisionCorrect
  ShiftsAndCountsExact
  CopiesExact
