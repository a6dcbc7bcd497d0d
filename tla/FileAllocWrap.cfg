\* `.file N "name"` with N the last unsigned int below 2^UIntBits: the
\* file array's new size N + FileBlock wraps.
CONSTANTS
  Names = {a, b}
  AsmName = a
  NoName = none
  Subsegs <- MC_Subsegs
  FileNums = {7}
  LocFiles = {7}
  LocLines = {7}
  LocOpts <- MC_ViewOpts
  InsnSizes = {4}
  AsmLines = {3}
  VarSizes = {0}
  MoveDeltas = {}
  GDwarf2 = FALSE
  UIntBits = 3
  FileBlock = 2
  MaxOps = 2
  MaxFrags = 1
SPECIFICATION Spec
INVARIANT FileTableInBounds
CHECK_DEADLOCK FALSE
