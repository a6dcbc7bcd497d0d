\* Views of two subsections whose frags meet at one address.
CONSTANTS
  MinInsnLength = 1
  AddrBits = 20
  IntBits = 16
  AddrSize = 4
  LinkRelax = {FALSE}
  Layouts <- MC_SubsegLayouts
  Offsets = {0, 4, 8}
  Files = {1}
  Lines = {1}
  Columns = {0, 1}
  Discs = {0}
  Isas = {0}
  FlagSets = {{"is_stmt"}, {}}
  Views = {"none", "view"}
  MaxEntries = 3
SPECIFICATION Spec
INVARIANTS ViewsAgree
CHECK_DEADLOCK FALSE
