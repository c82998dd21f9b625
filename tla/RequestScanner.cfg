\* Every stream of up to nine bytes, in every segmentation, with room for
\* six bytes in the buffer: up to four requests, with and without a rest, and
\* requests whose end straddles two or three reads.
CONSTANTS
  ReadMax = 6
  MaxStream = 9
SPECIFICATION ScanSpec
INVARIANTS NothingSkipped SegmentationIndependent
