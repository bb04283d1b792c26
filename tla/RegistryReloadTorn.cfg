SPECIFICATION Spec
CONSTANTS
  t1 = t1
  t2 = t2
  cpu = cpu
  gpu = gpu
  a1 = a1
  a2 = a2
  Global = Global
  Readers <- OneReader
  Files <- FourFiles
INVARIANT
  DefaultCollectorsWhole
