CONSTANTS
  Owner = owner
  Child = child
  NoThread = NoThread
  Types = {Test, TestNoDestroy}
  NoDestroy = {TestNoDestroy}
  MaxInt = 1
  MaxCalls = 3

SPECIFICATION FairProgramSpec

CHECK_DEADLOCK FALSE

INVARIANTS
  TypeOK
  PointersAreGood
  ReclaimedOnce
  OneInstance
  InstanceOutlivesUsers
  ValuesReclaimed
  NumbersDiffer

PROPERTY
  StartAndJoinReturn
