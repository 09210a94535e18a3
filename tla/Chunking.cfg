SPECIFICATION Spec
CONSTANTS
  Lengths = {1, 3, 9}
  MaxParagraphs = 5
  ChunkSize = 10
  Overlap = 2
INVARIANTS TypeOK ChunksAreTheDocument ChunksBounded HeadingMovesOn
CHECK_DEADLOCK FALSE
