\* All four tests, two threads, three groups of three messages for each of
\* them, a step that can go down to one and up again.
CONSTANTS
  num = 19
  thread_num = 2
  mode = 4
  max_num_per_group = 3
  Increase = 1
  MaxMisses = 3
SPECIFICATION FairSpec
INVARIANTS BurstsBounded MissesCounted
PROPERTY Terminates
