CONSTANTS
  t1 = t1
  t2 = t2
  Tasks <- TwoTasks
  MaxFds = 5
  Clients <- ClientsUsed
SPECIFICATION Spec
SYMMETRY TaskSymmetry
INVARIANT NoFault
INVARIANT ClosedIsGone
INVARIANT LifeInOrder
CHECK_DEADLOCK FALSE
