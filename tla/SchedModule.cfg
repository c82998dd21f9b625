\* Six runs of the task, cleanup at any time.  The module may be unloaded, or
\* fail to load, and then nothing happens any more.
CONSTANT MaxTicks = 6
SPECIFICATION FairSpec
INVARIANT AtMostOneLateRun
PROPERTIES KeepsTicking CleanupFinishes
CHECK_DEADLOCK FALSE
