\* A row whose line is exactly INT_MAX above the previous row's line.
CONSTANTS
  MinInsnLength = 1
  AddrBits = 20
  IntBits = 16
  AddrSize = 4
  LinkRelax = {FALSE}
  Layouts <- MC_Layouts
  Offsets = {0, 4, 8}
  Files = {1}
  Lines = {1, 32768}
  Columns = {0, 1}
  Discs = {0}
  Isas = {0}
  FlagSets = {{"is_stmt"}, {}}
  Views = {"none"}
  MaxEntries = 2
SPECIFICATION Spec
INVARIANTS RowsDecoded
CHECK_DEADLOCK FALSE
