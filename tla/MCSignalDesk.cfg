SPECIFICATION FairSpec
CONSTANTS
  o1 = o1
  o2 = o2
  l1 = l1
  r1 = r1
  Orders = {o1, o2}
  Legacy = {o1, o2}
  Grades <- MCGrades
  Pnl <- MCPnl
  Requests = {r1}
  Loads = {l1}
  Limit = 2
  Rows = 1
  Budgets <- MCBudgets
INVARIANT TypeOK
PROPERTY DeskCatchesUp
CHECK_DEADLOCK FALSE
