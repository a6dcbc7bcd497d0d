\* -g: instructions of one source line in two subsections, another line
\* between them.
CONSTANTS
  Names = {a, b}
  AsmName = a
  NoName = none
  Subsegs <- MC_Subsegs
  FileNums = {}
  LocFiles = {}
  LocLines = {0, 7}
  LocOpts <- MC_ViewOpts
  InsnSizes = {4}
  AsmLines = {3, 4}
  VarSizes = {0, 2}
  MoveDeltas = {}
  GDwarf2 = TRUE
  UIntBits = 2
  FileBlock = 2
  MaxOps = 5
  MaxFrags = 1
SPECIFICATION Spec
INVARIANT AsmLinesAttributed
CHECK_DEADLOCK FALSE
