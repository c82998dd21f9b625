\* Three processes that read and write at the same time, texts that are shorter
\* than the buffer, fill it and are longer, and an overrun that leaves a size that
\* the buffer does not hold.
CONSTANTS
  Proc = {p1, p2, p3}
  PROCFS_MAX_SIZE = 2
  Data <- Texts
  Garbage = {3}
SYMMETRY Symmetry
SPECIFICATION Spec
INVARIANTS SizeFitsUndisturbed QuietReadsAreExact
