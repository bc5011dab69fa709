SPECIFICATION Spec
CONSTANTS
  x = x
  y = y
  f1 = f1
  f2 = f2
  f3 = f3
  c1 = c1
  c2 = c2
  q1 = q1
  Worker = {w1, w2}
  Artifact = {x, y}
  File = {f1, f2, f3}
  Chunk = {c1, c2}
  FilesOf <- MCFilesOf
  ChunksOf <- MCChunksOf
  Staged = {y}
  Quarantine = {q1}
  Target <- MCTarget
  Intruded = {y}
  Attempts = 2
  MaxFaults = 2
  NoTree = NoTree
INVARIANT StagingCanBeResumed
