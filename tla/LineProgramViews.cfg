\* Three entries in one subsection under both encodings (linkrelax off and
\* on): plain, asserted and forced-reset views at one address and across
\* a frag boundary with no bytes, two bytes or 300 bytes between: the views
\* a consumer computes, and the refinement of LineTable (the rows decoded
\* after every step).
CONSTANTS
  MinInsnLength = 1
  AddrBits = 20
  IntBits = 16
  AddrSize = 4
  LinkRelax = {FALSE, TRUE}
  Layouts <- MC_AllLayouts
  Offsets = {0, 4, 8}
  Files = {1}
  Lines = {1, 2, 40}
  Columns = {0}
  Discs = {0}
  Isas = {0}
  FlagSets = {{"is_stmt"}}
  Views = {"none", "view", "forced"}
  MaxEntries = 3
SPECIFICATION Spec
INVARIANTS ViewsAgree
PROPERTIES LineTableSpec
CHECK_DEADLOCK FALSE
