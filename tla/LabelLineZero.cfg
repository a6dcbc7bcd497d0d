\* .loc_mark_labels rows bypass the incomplete-location early-out.
CONSTANTS
  Names = {a, b}
  AsmName = a
  NoName = none
  Subsegs <- MC_Subsegs
  FileNums = {1}
  LocFiles = {1}
  LocLines = {0, 7}
  LocOpts <- MC_ViewOpts
  InsnSizes = {4}
  AsmLines = {3}
  VarSizes = {0, 2}
  MoveDeltas = {}
  GDwarf2 = FALSE
  UIntBits = 2
  FileBlock = 2
  MaxOps = 5
  MaxFrags = 2
SPECIFICATION Spec
INVARIANT NoIncompleteRow
CHECK_DEADLOCK FALSE
