\* dwarf2_move_insn after the frag it was meant for has been closed.
CONSTANTS
  Names = {a, b}
  AsmName = a
  NoName = none
  Subsegs <- MC_Subsegs
  FileNums = {1}
  LocFiles = {1, 2}
  LocLines = {7}
  LocOpts <- MC_ViewOpts
  InsnSizes = {4}
  AsmLines = {3}
  VarSizes = {0, 2}
  MoveDeltas = {4}
  GDwarf2 = FALSE
  UIntBits = 2
  FileBlock = 2
  MaxOps = 6
  MaxFrags = 2
SPECIFICATION Spec
PROPERTIES MovesOnlyCurrentPosition
CHECK_DEADLOCK FALSE
