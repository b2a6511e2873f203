\* Each of the three routines: one writer with the fixed temp name, crashes and
\* leftovers, or two processes that install the same gated copy at once.
SPECIFICATION Spec
CONSTANTS
  Writers = {w1, w2}
  Values = {v1, v2}
  NoValue = NoValue
  Chunks = 2
  Temps = {tmp, t1, t2}
  Fixed = tmp
  Target = target
  Inodes = {i1, i2, i3, i4}
  NoInode = NoInode
  WritersOf <- MCApart
INVARIANTS TypeOK NoTornTarget NeverInstalledWithoutMode
PROPERTIES OnlyRenameChangesTarget RefinesWholeFile
