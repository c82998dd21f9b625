\* Cleanup that comes while the task is about to queue itself again.
CONSTANT MaxTicks = 2
SPECIFICATION SchedSpec
INVARIANT NothingRefersToFreedTask
CHECK_DEADLOCK FALSE
