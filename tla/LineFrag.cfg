\* Both encodings (linkrelax off: special opcodes and LEB128; on:
\* DW_LNS_fixed_advance_pc), minimum instruction length 1.
CONSTANTS
  MinInsnLength = 1
  AddrBits = 20
  IntBits = 16
  AddrSize = 4
  LinkRelax = {FALSE, TRUE}
  LineDeltas <- MC_LineDeltas
  Deltas <- MC_Deltas
  FromAddrs <- MC_FromAddrs
  MaxCodeChanges = 2
SPECIFICATION Spec
INVARIANTS ConvertFillsReservation RoundTrip Minimal
PROPERTIES EventuallyConverted
CHECK_DEADLOCK FALSE
