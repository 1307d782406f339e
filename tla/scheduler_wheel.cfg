SPECIFICATION Spec
CONSTANTS
  o1 = o1
  o2 = o2
  Objects = {o1,o2}
  Slots = 4
  OutCap = 1
  Intervals = {1,2,3}
  Splay <- SmallSplay
  MaxTime = 8
  BootBy = 2
  MaxChanges = 1
CHECK_DEADLOCK FALSE
INVARIANTS TypeOK WheelAgrees OnTime
PROPERTY OncePerTime
