SPECIFICATION FairSpec
CONSTANTS
  None = None
  c1 = c1
  c2 = c2
  Callers = {c1, c2}
  First = 1
  Interval = 2
  Budget = 3
  Horizon = 5
  MaxBytes = 1
  MaxCalls = 2
  Outcome <- OneOfEach
INVARIANTS TerminalOnceAfterStop AllBytesTold
PROPERTIES HeartbeatsOnSchedule BudgetSuffices FinishReturns
CHECK_DEADLOCK FALSE
