\* Under -g, rows name the assembly source in slot 1; then `.file 9 "b"`,
\* whose number is past the 3-bit unsigned int, reaches get_filenum as 1.
CONSTANTS
  Names = {a, b}
  AsmName = a
  NoName = none
  Subsegs <- MC_Subsegs
  FileNums = {9}
  LocFiles = {}
  LocLines = {7}
  LocOpts <- MC_ViewOpts
  InsnSizes = {4}
  AsmLines = {3}
  VarSizes = {0}
  MoveDeltas = {}
  GDwarf2 = TRUE
  UIntBits = 3
  FileBlock = 2
  MaxOps = 3
  MaxFrags = 1
SPECIFICATION Spec
INVARIANT FileRowsResolve
CHECK_DEADLOCK FALSE
