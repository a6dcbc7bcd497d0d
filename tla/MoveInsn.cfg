\* Targets padding instructions by 4 bytes (dwarf2_move_insn) between .loc
\* view directives, labels and subsection switches, in one frag per
\* subsection (the other-frag case is move_insn_other_frag).
CONSTANTS
  Names = {a, b}
  AsmName = a
  NoName = none
  Subsegs <- MC_Subsegs
  FileNums = {1}
  LocFiles = {1, 2}
  LocLines = {7}
  LocOpts <- MC_ViewOpts
  InsnSizes = {4}
  AsmLines = {3}
  VarSizes = {0, 2}
  MoveDeltas = {4}
  GDwarf2 = FALSE
  UIntBits = 2
  FileBlock = 2
  MaxOps = 7
  MaxFrags = 1
SPECIFICATION Spec
INVARIANTS ViewNumbersCorrect
CHECK_DEADLOCK FALSE
