\* Under -g (rows from the assembly source until a .file or .loc turns
\* debug_type off), with rejected and partly rejected .loc directives,
\* .loc_mark_labels, .file numbers past unsigned int, and a .file slot at
\* the end of the allocated file array.
CONSTANTS
  Names = {a, b}
  AsmName = a
  NoName = none
  Subsegs <- MC_Subsegs
  FileNums = {1, 3, 8}
  LocFiles = {1, 2}
  LocLines = {0, 7}
  LocOpts <- MC_LocOpts
  InsnSizes = {4}
  AsmLines = {3}
  VarSizes = {0, 2}
  MoveDeltas = {}
  GDwarf2 = TRUE
  UIntBits = 3
  FileBlock = 2
  MaxOps = 6
  MaxFrags = 2
SPECIFICATION Spec
INVARIANTS ViewNumbersCorrect MismatchIffAssertionFails FileTableInBounds FileRowsResolve
CHECK_DEADLOCK FALSE
