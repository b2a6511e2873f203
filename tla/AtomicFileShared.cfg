\* Two processes (daemon and pilotctl) share the fixed temp name.
SPECIFICATION Spec
CONSTANTS
  Writers = {w1, w2}
  Values = {v1, v2}
  NoValue = NoValue
  Chunks = 2
  Temps = {tmp}
  Fixed = tmp
  Target = target
  Inodes = {i1, i2, i3, i4}
  NoInode = NoInode
  WritersOf <- MCShared
INVARIANT NoTornTarget
