---------------------------- MODULE MC_LineFrag ----------------------------
(* Instantiates LineFrag with 16-bit ints and 20-bit addresses.  The line  *)
(* deltas straddle the special-opcode window [-5, 8] and include the       *)
(* end_sequence sentinel; the distances straddle every encoding boundary:  *)
(* 0, the special opcodes (<= 17 per line), const_add_pc (<= 34), the      *)
(* 256 + 17 overflow guard, the LEB128 byte boundaries, the fixed-advance  *)
(* limit 50000 and the largest addressT.                                   *)
EXTENDS LineFrag

MC_LineDeltas == {-100, -6, -5, 0, 1, 8, 9, 64, INT_MAX}
MC_Deltas     == {0, 1, 16, 17, 18, 34, 35, 127, 128, 272, 273, 16384,
                  50000, 50001, 65535, ADDR_MOD - 1}
MC_FromAddrs  == {0, 4096}
=============================================================================
