--------------------------- MODULE MC_LineProgram ---------------------------
(* Instantiates LineProgram with 16-bit ints, 20-bit addresses and 4-byte  *)
(* instructions.  The code segments: two frags where the first ends in a   *)
(* variable part that relaxation sizes to 2 (a relaxed branch), two frags  *)
(* that meet with no byte between them, and the same two frags as two      *)
(* subsections of one segment; and a frag that grows by 300 bytes, past  *)
(* one byte of address.  A flag set either keeps is_stmt or drops it     *)
(* and sets the three other flags.                                        *)
EXTENDS LineProgram

MC_Grown    == [fix |-> <<8, 4>>, var |-> <<2, 0>>, sub |-> <<0, 0>>]
MC_Adjacent == [fix |-> <<4, 4>>, var |-> <<0, 0>>, sub |-> <<0, 0>>]
MC_Subsegs  == [fix |-> <<4, 4>>, var |-> <<0, 0>>, sub |-> <<0, 1>>]
MC_Far      == [fix |-> <<4, 4>>, var |-> <<300, 0>>, sub |-> <<0, 0>>]
MC_Layouts  == {MC_Grown, MC_Adjacent}
MC_AllLayouts == {MC_Grown, MC_Adjacent, MC_Far}
MC_SubsegLayouts == {MC_Subsegs}

MC_AllFlags == {"is_stmt", "basic_block", "prologue_end", "epilogue_begin"}
MC_FlagSets == {{"is_stmt"}, MC_AllFlags \ {"is_stmt"}}
=============================================================================
