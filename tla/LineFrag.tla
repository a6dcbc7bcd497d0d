------------------------------ MODULE LineFrag ------------------------------
(***************************************************************************)
(* The relaxation engine of gas/dwarf2dbg.c: one rs_dwarf2dbg variant frag *)
(* from its creation by relax_inc_line_addr, through the assembler's       *)
(* relaxation passes (dwarf2dbg_estimate_size_before_relax,                *)
(* dwarf2dbg_relax_frag) while the code it describes is itself relaxed,    *)
(* to dwarf2dbg_convert_frag, which writes the final encoding into the     *)
(* bytes reserved for it.                                                  *)
(*                                                                         *)
(* The frag bridges two labels of a code section, from and to.  Their      *)
(* distance `delta` is decided by the code section's relaxation, which is  *)
(* the environment here: it may change between passes, a bounded number of *)
(* times.  The pass loop itself (write.c, relax_and_size_all_segments) is  *)
(* outside this file and is modelled from its contract: passes repeat      *)
(* until one pass changes no frag size, and only then are frags converted. *)
(***************************************************************************)
EXTENDS DwarfLineOpcodes

CONSTANTS
  LinkRelax,       \* the values -mrelax / -mno-relax may give linkrelax
  LineDeltas,      \* line deltas a frag may carry (INT_MAX: end_sequence)
  Deltas,          \* distances the code relaxation may give to - from
  FromAddrs,       \* addresses of the from label
  MaxCodeChanges   \* bound on how often code relaxation moves the labels

ASSUME LinkRelax \subseteq BOOLEAN
ASSUME Deltas \subseteq 0..(ADDR_MOD - 1) /\ MaxCodeChanges \in Nat

VARIABLES
  frag,        \* the frag: fr_type, fr_var, fr_subtype, fr_offset, literal
  from,        \* value of from_sym
  delta,       \* value of the expression to_sym - from_sym
  phase,       \* "emit", "code", "debug", "endpass", "converted"
  changed,     \* a frag size changed during the current pass
  codeChanges, \* how often code relaxation has moved the labels
  unaligned,   \* printed_this of scale_addr_delta
  linkrelax    \* the assembler's linkrelax, fixed for the whole run

vars == <<frag, from, delta, phase, changed, codeChanges, unaligned, linkrelax>>

DWARF2_USE_FIXED_ADVANCE_PC == linkrelax

\* The size functions chosen by DWARF2_USE_FIXED_ADVANCE_PC.
SizeOf(ld, a) == IF DWARF2_USE_FIXED_ADVANCE_PC
                 THEN size_fixed_inc_line_addr(ld, a)
                 ELSE size_inc_line_addr(ld, a)
\* scale_addr_delta diagnoses an unaligned delta once (only the non-fixed
\* encoder scales).
Diagnose(a) == unaligned' = (unaligned \/ (~DWARF2_USE_FIXED_ADVANCE_PC /\ Unaligned(a)))

Init ==
  /\ frag = [fr_type |-> "none", fr_var |-> 0, fr_subtype |-> 0,
             fr_offset |-> 0, literal |-> <<>>]
  /\ from \in FromAddrs
  /\ delta \in {d \in Deltas : from + d < ADDR_MOD}
  /\ phase = "emit"
  /\ changed = FALSE
  /\ codeChanges = 0
  /\ unaligned = FALSE
  /\ linkrelax \in LinkRelax

\* Mutant: the reservation sized for an address delta of 0.
relax_inc_line_addr_zero(ld) ==
  frag' = [fr_type |-> "dwarf2dbg", fr_var |-> SizeOf(ld, 0),
           fr_subtype |-> 1, fr_offset |-> ld, literal |-> <<>>]

\* relax_inc_line_addr: reserve the worst case, the line delta with the
\* largest address delta, -DWARF2_LINE_MIN_INSN_LENGTH as an addressT.
relax_inc_line_addr(ld) ==
  frag' = [fr_type |-> "dwarf2dbg",
           fr_var |-> SizeOf(ld, (0 - MinInsnLength) % ADDR_MOD),
           fr_subtype |-> 1, fr_offset |-> ld, literal |-> <<>>]

RelaxIncLineAddr ==
  /\ phase = "emit"
  /\ \E ld \in LineDeltas : relax_inc_line_addr(ld)
  /\ phase' = "code"
  /\ Diagnose((0 - MinInsnLength) % ADDR_MOD)
  /\ UNCHANGED <<from, delta, changed, codeChanges, linkrelax>>

\* Relaxation of the code section moves the two labels apart or together.
CodeRelax ==
  /\ phase = "code"
  /\ codeChanges < MaxCodeChanges
  /\ \E d \in Deltas \ {delta} :
       /\ delta' = d
       /\ from + d < ADDR_MOD
  /\ changed' = TRUE
  /\ codeChanges' = codeChanges + 1
  /\ UNCHANGED <<frag, from, phase, unaligned, linkrelax>>

\* The code section is done for this pass; the .debug_line section is next.
CodeDone ==
  /\ phase = "code"
  /\ phase' = "debug"
  /\ UNCHANGED <<frag, from, delta, changed, codeChanges, unaligned, linkrelax>>

\* Mutant: relax_frag returns the new size instead of the growth.
dwarf2dbg_relax_frag_size(f) == SizeOf(f.fr_offset, delta)

\* dwarf2dbg_estimate_size_before_relax and then dwarf2dbg_relax_frag, as
\* relax_segment calls them in one pass over the .debug_line frags.
dwarf2dbg_estimate_size_before_relax(f) == [f EXCEPT !.fr_subtype = SizeOf(f.fr_offset, delta)]
dwarf2dbg_relax_frag(f) == SizeOf(f.fr_offset, delta) - f.fr_subtype

DebugPass ==
  /\ phase = "debug"
  /\ LET est == dwarf2dbg_estimate_size_before_relax(frag)
     IN /\ frag' = est
        /\ changed' = (changed \/ est.fr_subtype /= frag.fr_subtype
                               \/ dwarf2dbg_relax_frag(est) /= 0)
  /\ Diagnose(delta)
  /\ phase' = "endpass"
  /\ UNCHANGED <<from, delta, codeChanges, linkrelax>>

\* End of a pass over all sections: repeat while anything changed.
EndPass ==
  /\ phase = "endpass"
  /\ changed
  /\ phase' = "code"
  /\ changed' = FALSE
  /\ UNCHANGED <<frag, from, delta, codeChanges, unaligned, linkrelax>>

\* dwarf2dbg_convert_frag: write the encoding for the final delta into the
\* fr_subtype bytes reserved, and turn the frag into a plain fill frag.
dwarf2dbg_convert_frag(f) ==
  [f EXCEPT !.fr_type = "fill", !.fr_var = 0,
            !.literal = IF DWARF2_USE_FIXED_ADVANCE_PC
                        THEN emit_fixed_inc_line_addr(f.fr_offset, delta, from + delta)
                        ELSE emit_inc_line_addr(f.fr_offset, delta)]

ConvertFrag ==
  /\ phase = "endpass"
  /\ ~changed
  /\ frag' = dwarf2dbg_convert_frag(frag)
  /\ phase' = "converted"
  /\ Diagnose(delta)
  /\ UNCHANGED <<from, delta, changed, codeChanges, linkrelax>>

Next == RelaxIncLineAddr \/ CodeRelax \/ CodeDone \/ DebugPass \/ EndPass \/ ConvertFrag

Spec == Init /\ [][Next]_vars /\ WF_vars(Next)

-----------------------------------------------------------------------------
(* Properties.                                                             *)

TypeOK ==
  /\ frag.fr_type \in {"none", "dwarf2dbg", "fill"}
  /\ frag.fr_var \in Nat /\ frag.fr_subtype \in Nat
  /\ frag.literal \in Seq(0..255)
  /\ from \in FromAddrs /\ delta \in Deltas
  /\ phase \in {"emit", "code", "debug", "endpass", "converted"}
  /\ changed \in BOOLEAN /\ unaligned \in BOOLEAN
  /\ codeChanges \in 0..MaxCodeChanges
  /\ linkrelax \in BOOLEAN

\* The bytes dwarf2dbg_convert_frag writes fill exactly the fr_subtype bytes
\* the last relaxation pass reserved (emit_inc_line_addr asserts p == end),
\* and that size never exceeded the worst case relax_inc_line_addr
\* reserved (convert asserts fr_var >= fr_subtype), whatever the code
\* relaxation did to the labels in between.
ConvertFillsReservation ==
  /\ frag.fr_type = "dwarf2dbg" /\ phase \in {"endpass", "converted"}
       => frag.fr_subtype <= frag.fr_var
  /\ phase = "converted" => Len(frag.literal) = frag.fr_subtype

\* A consumer that runs the converted bytes from the from label's row
\* (line 1) appends exactly one row, at the to label, with the line
\* advanced by the frag's line delta; the end_sequence row keeps the line.
\* An address delta that is not a multiple of the minimum instruction
\* length is only encoded after the one-shot diagnostic.
RoundTrip ==
  phase = "converted" =>
    LET rows == DecodeFrom(frag.literal, 1, InitRegs(from, 1))
        isEnd == frag.fr_offset = INT_MAX
    IN /\ Len(rows) = 1
       /\ rows[1].end = isEnd
       /\ rows[1].line = IF isEnd THEN 1 ELSE 1 + frag.fr_offset
       /\ \/ rows[1].addr = from + delta
          \/ unaligned

\* When one special opcode encodes the pair, the non-fixed encoder uses
\* exactly that one byte; when const_add_pc and a special opcode do, two.
Minimal ==
  (phase = "converted" /\ ~DWARF2_USE_FIXED_ADVANCE_PC /\ frag.fr_offset /= INT_MAX
     /\ delta % MinInsnLength = 0) =>
    LET a == delta \div MinInsnLength
        ld == frag.fr_offset
    IN /\ (<<ld, a>> \in SpecialPairs) => Len(frag.literal) = 1
       /\ (<<ld, a>> \notin SpecialPairs /\ a >= MAX_SPECIAL_ADDR_DELTA
           /\ <<ld, a - MAX_SPECIAL_ADDR_DELTA>> \in SpecialPairs)
            => Len(frag.literal) = 2

\* The frag is eventually converted.
EventuallyConverted == <>(phase = "converted")

=============================================================================
