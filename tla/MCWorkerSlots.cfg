SPECIFICATION FairSpec
CONSTANTS
  Task = {t1, t2, t3, t4}
  SlotCount = 2
INVARIANTS SlotsConserved NoSlotIdles
PROPERTIES ImplementsSemaphore WaitersServed
CHECK_DEADLOCK FALSE
