SPECIFICATION Spec
CONSTANTS
  Nil = Nil
  Fibers = {f1, f2, f3}
  Stacks = {s1, s2, s3, s4, s5}
  PoolTarget = 2
INVARIANTS
  TypeOK
  ControlIsCurrent
  ResumeChain
  StackOwnership
PROPERTY
  RefinesCoroutine
