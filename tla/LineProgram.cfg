\* Register tracking: files, lines near and far, columns, discriminators,
\* isa and every flag, over both code layouts and both encoders (linkrelax FALSE and TRUE).
CONSTANTS
  MinInsnLength = 1
  AddrBits = 20
  IntBits = 16
  AddrSize = 4
  LinkRelax = {FALSE, TRUE}
  Layouts <- MC_Layouts
  Offsets = {0, 4, 8}
  Files = {1, 2}
  Lines = {1, 3, 40}
  Columns = {0, 1}
  Discs = {0, 2}
  Isas = {0, 1}
  FlagSets <- MC_FlagSets
  Views = {"none"}
  MaxEntries = 2
SPECIFICATION Spec
INVARIANTS RowsDecoded
CHECK_DEADLOCK FALSE
