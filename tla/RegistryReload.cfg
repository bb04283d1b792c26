SPECIFICATION FairSpec
CONSTANTS
  t1 = t1
  t2 = t2
  cpu = cpu
  gpu = gpu
  a1 = a1
  a2 = a2
  Global = Global
  Readers <- TwoReaders
  Files <- FourFiles
INVARIANTS
  NoSignalLost
PROPERTIES
  ReloadHappens
  RefinesRegister
