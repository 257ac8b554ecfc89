SPECIFICATION Spec
CONSTANTS
  p1 = p1
  p2 = p2
  p3 = p3
  i1 = i1
  i2 = i2
  i3 = i3
  Processes = {p1, p2, p3}
  Crashable = {p1}
  Inodes = {i1, i2, i3}
  NoInode = NoInode
  Allowance = 1
SYMMETRY InodeSymmetry
INVARIANT SingleAllowance
