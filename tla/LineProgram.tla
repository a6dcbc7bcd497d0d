----------------------------- MODULE LineProgram -----------------------------
(***************************************************************************)
(* The line-program emitter of gas/dwarf2dbg.c: process_entries walking   *)
(* the chained line entries of one code segment, emitting the opcodes     *)
(* that move the DWARF state machine from one row to the next, then the   *)
(* end_sequence; and, after relaxation, dwarf2dbg_convert_frag and the     *)
(* fixups that turn the frags it left behind into bytes.                   *)
(*                                                                         *)
(* The code segment is a chain of frags, each with a fixed part (fr_fix,   *)
(* known when process_entries runs) and a variable part whose final size  *)
(* only relaxation decides.  Frags belong to subsections; dwarf2_finish    *)
(* has chained the subsection lists in ascending order, so the entries     *)
(* arrive in layout order.  A label is a (frag, offset) pair, as           *)
(* symbol_get_frag / S_GET_VALUE give it before relaxation.                *)
(*                                                                         *)
(* The emitted .debug_line content is a sequence of pieces: literal bytes, *)
(* an address fixup (out_set_addr) and an rs_dwarf2dbg variant frag        *)
(* (relax_inc_line_addr), the last two resolved at the final layout.       *)
(***************************************************************************)
EXTENDS DwarfLineOpcodes
LOCAL INSTANCE SequencesExt

CONSTANTS
  LinkRelax,     \* the values -mrelax / -mno-relax may give linkrelax
  Layouts,       \* possible code segments: [fix, var, sub : Seq(Nat)]
  Offsets,       \* label offsets within a frag (instruction boundaries)
  Files, Lines, Columns, Discs, Isas,
  FlagSets,      \* subsets of the loc flags
  Views,         \* "none", "view" or "forced" (loc.view = force_reset_view)
  MaxEntries     \* bound on the length of the entry chain

ASSUME LinkRelax \subseteq BOOLEAN /\ MaxEntries \in Nat \ {0}
ASSUME Views \subseteq {"none", "view", "forced"}

NoLab == [frag |-> 0, ofs |-> 0]   \* last_frag == NULL

VARIABLES
  layout,   \* the code segment's frags
  pc,       \* "entries" (the do-while loop), "relax", "converted"
  regs,     \* process_entries' filenum, line, column, isa, flags
  last,     \* last_lab, i.e. last_frag and last_frag_ofs
  chain,    \* the entries consumed so far
  out,      \* the pieces emitted into .debug_line
  program,  \* the bytes after conversion
  decoded,  \* auxiliary: the rows a consumer decodes from out
  linkrelax \* the assembler's linkrelax, fixed for the whole run

vars == <<layout, pc, regs, last, chain, out, program, decoded, linkrelax>>

DWARF2_USE_FIXED_ADVANCE_PC == linkrelax

NF == Len(layout.fix)
Labels == UNION {{[frag |-> k, ofs |-> o] : o \in {x \in Offsets : x <= layout.fix[k]}} : k \in 1..NF}
\* Label order within the segment: frag chain first, then offset.
LabLeq(a, b) == a.frag < b.frag \/ (a.frag = b.frag /\ a.ofs <= b.ofs)

Entry == [filenum : Files, line : Lines, column : Columns, discriminator : Discs,
          isa : Isas, flags : FlagSets, view : Views, label : Labels]

\* Final addresses, once relaxation has sized every variable part.
FragAddr(k) == FoldSeq(LAMBDA x, y : x + y, 0,
                       [j \in 1..(k - 1) |-> layout.fix[j] + layout.var[j]])
LabAddr(l) == FragAddr(l.frag) + l.ofs

\* get_frag_fix: fr_fix, also for the last frag pending on a chain.
get_frag_fix(k) == layout.fix[k]

Bytes(b) == [kind |-> "bytes", b |-> b]

\* out_set_addr: extended set_address with a fixup against the label.
out_set_addr(lab) ==
  << Bytes(<<DW_LNS_extended_op>> \o ULeb128(AddrSize + 1) \o <<DW_LNE_set_address>>),
     [kind |-> "addr", lab |-> lab] >>

\* out_inc_line_addr = size_inc_line_addr then emit_inc_line_addr.
out_inc_line_addr(ld, a) == << Bytes(emit_inc_line_addr(ld, a)) >>

relax_inc_line_addr(ld, to, from) ==
  << [kind |-> "var", ld |-> ld, to |-> to, from |-> from] >>

IsStmt(f) == "is_stmt" \in f

\* The opcodes that carry the registers over to entry e, and the values
\* process_entries keeps afterwards.
state_opcodes(e) ==
  (IF regs.filenum /= e.filenum THEN <<DW_LNS_set_file>> \o ULeb128(e.filenum) ELSE <<>>)
  \o (IF regs.column /= e.column THEN <<DW_LNS_set_column>> \o ULeb128(e.column) ELSE <<>>)
  \o (IF e.discriminator /= 0
      THEN <<DW_LNS_extended_op>> \o SLeb128(1 + sizeof_leb128(e.discriminator, FALSE))
           \o <<DW_LNE_set_discriminator>> \o ULeb128(e.discriminator)
      ELSE <<>>)
  \o (IF regs.isa /= e.isa THEN <<DW_LNS_set_isa>> \o ULeb128(e.isa) ELSE <<>>)
  \o (IF IsStmt(e.flags) /= IsStmt(regs.flags) THEN <<DW_LNS_negate_stmt>> ELSE <<>>)
  \o (IF "basic_block" \in e.flags THEN <<DW_LNS_set_basic_block>> ELSE <<>>)
  \o (IF "prologue_end" \in e.flags THEN <<DW_LNS_set_prologue_end>> ELSE <<>>)
  \o (IF "epilogue_begin" \in e.flags THEN <<DW_LNS_set_epilogue_begin>> ELSE <<>>)

\* Mutant: the column register is not carried over.
regs_after_nocolumn(e) ==
  [filenum |-> e.filenum, line |-> e.line, column |-> regs.column, isa |-> e.isa,
   flags |-> IF IsStmt(e.flags) /= IsStmt(regs.flags) THEN e.flags ELSE regs.flags]

regs_after(e) ==
  [filenum |-> e.filenum, line |-> e.line, column |-> e.column, isa |-> e.isa,
   flags |-> IF IsStmt(e.flags) /= IsStmt(regs.flags) THEN e.flags ELSE regs.flags]

\* line_delta = e->loc.line - line: unsigned subtraction stored in an int.
LineDelta(l) == LET u == (l - regs.line) % UINT_MOD
                IN IF u > INT_MAX THEN u - UINT_MOD ELSE u

\* Mutant: only the same-frag, same-offset case gets set_address.
ForceSetAddr_samefrag(e) ==
  e.view = "forced" /\ e.label.frag = last.frag /\ last.ofs = e.label.ofs

\* A forced view reset needs set_address unless the PC is known to advance.
ForceSetAddr(e) ==
  /\ e.view = "forced"
  /\ IF e.label.frag = last.frag
     THEN last.ofs = e.label.ofs
     ELSE e.label.ofs = 0 /\ last.ofs >= get_frag_fix(last.frag)

\* The address step of the loop body.
addr_step(e, ld) ==
  IF last = NoLab \/ ForceSetAddr(e)
  THEN out_set_addr(e.label) \o out_inc_line_addr(ld, 0)
  ELSE IF e.label.frag = last.frag /\ ~DWARF2_USE_FIXED_ADVANCE_PC
  THEN out_inc_line_addr(ld, e.label.ofs - last.ofs)
  ELSE relax_inc_line_addr(ld, e.label, last)

\* dwarf2dbg_convert_frag at the final layout, and the set_address fixups.
dwarf2dbg_convert_frag(p) ==
  LET delta == LabAddr(p.to) - LabAddr(p.from)
  IN IF DWARF2_USE_FIXED_ADVANCE_PC THEN emit_fixed_inc_line_addr(p.ld, delta, LabAddr(p.to))
                 ELSE emit_inc_line_addr(p.ld, delta)

PieceBytes(p) ==
  CASE p.kind = "bytes" -> p.b
    [] p.kind = "addr"  -> LittleEndian(LabAddr(p.lab), AddrSize)
    [] p.kind = "var"   -> dwarf2dbg_convert_frag(p)

Resolve(o) == FlattenSeq([i \in 1..Len(o) |-> PieceBytes(o[i])])

\* The line register is an unsigned int.
Observed(r) == [r EXCEPT !.line = @ % UINT_MOD]

\* The rows a consumer decodes from pieces o once they are resolved.
Decoded(o) == LET rows == DecodeFrom(Resolve(o), 1, InitRegs(0, 1))
              IN [i \in 1..Len(rows) |-> Observed(rows[i])]

Init ==
  /\ layout \in Layouts
  /\ pc = "entries"
  /\ regs = [filenum |-> 1, line |-> 1, column |-> 0, isa |-> 0, flags |-> {"is_stmt"}]
  /\ last = NoLab
  /\ chain = <<>>
  /\ out = <<>>
  /\ program = <<>>
  /\ decoded = <<>>
  /\ linkrelax \in LinkRelax

\* One iteration of process_entries' do-while loop, for the next entry of
\* the chain (entries follow the layout order of their labels).
process_entry ==
  /\ pc = "entries"
  /\ Len(chain) < MaxEntries
  /\ \E e \in Entry :
       /\ last = NoLab \/ LabLeq(last, e.label)
       /\ LET o2 == out \o <<Bytes(state_opcodes(e))>> \o addr_step(e, LineDelta(e.line))
          IN out' = o2 /\ decoded' = Decoded(o2)
       /\ regs' = regs_after(e)
       /\ last' = e.label
       /\ chain' = Append(chain, e)
  /\ UNCHANGED <<layout, pc, program, linkrelax>>

\* Mutant: the end offset taken from the last entry's frag.
end_sequence_lastfrag ==
  /\ pc = "entries"
  /\ chain /= <<>>
  /\ LET endLab == [frag |-> NF, ofs |-> get_frag_fix(last.frag)]
         o2 == out \o IF endLab.frag = last.frag /\ ~DWARF2_USE_FIXED_ADVANCE_PC
                       THEN out_inc_line_addr(INT_MAX, endLab.ofs - last.ofs)
                       ELSE relax_inc_line_addr(INT_MAX, endLab, last)
     IN out' = o2 /\ decoded' = Decoded(o2)
  /\ pc' = "relax"
  /\ UNCHANGED <<layout, regs, last, chain, program, linkrelax>>

\* After the loop: DW_LNE_end_sequence at the end of the segment's last frag.
end_sequence ==
  /\ pc = "entries"
  /\ chain /= <<>>
  /\ LET endLab == [frag |-> NF, ofs |-> get_frag_fix(NF)]
         o2 == out \o IF endLab.frag = last.frag /\ ~DWARF2_USE_FIXED_ADVANCE_PC
                       THEN out_inc_line_addr(INT_MAX, endLab.ofs - last.ofs)
                       ELSE relax_inc_line_addr(INT_MAX, endLab, last)
     IN out' = o2 /\ decoded' = Decoded(o2)
  /\ pc' = "relax"
  /\ UNCHANGED <<layout, regs, last, chain, program, linkrelax>>

Convert ==
  /\ pc = "relax"
  /\ program' = Resolve(out)
  /\ pc' = "converted"
  /\ UNCHANGED <<layout, regs, last, chain, out, decoded, linkrelax>>

Next == process_entry \/ end_sequence \/ Convert

Spec == Init /\ [][Next]_vars

-----------------------------------------------------------------------------
(* Reference definitions: the rows and the view numbers a consumer must   *)
(* find in the program.                                                    *)

\* The row an entry stands for, as a DWARF 2 consumer holds it.
ExpectedRow(e) ==
  [addr |-> LabAddr(e.label), file |-> e.filenum, line |-> e.line,
   column |-> e.column, isa |-> e.isa, discriminator |-> e.discriminator,
   is_stmt |-> IsStmt(e.flags), basic_block |-> "basic_block" \in e.flags,
   prologue_end |-> "prologue_end" \in e.flags,
   epilogue_begin |-> "epilogue_begin" \in e.flags, end |-> FALSE]

SegEnd == LabAddr([frag |-> NF, ofs |-> get_frag_fix(NF)])

ExpectedRows ==
  [i \in 1..Len(chain) |-> ExpectedRow(chain[i])]
  \o << [AfterRow(ExpectedRow(chain[Len(chain)])) EXCEPT !.addr = SegEnd, !.end = TRUE] >>

\* The view numbers the view algebra (set_or_check_view) gives the
\* entries: per subsection list, 0 for the first entry and for a forced
\* reset, 0 when the label is past the previous entry's, else one more.
SubOf(e) == layout.sub[e.label.frag]
RECURSIVE AsmView(_)
AsmView(i) ==
  LET prev == {j \in 1..(i - 1) : SubOf(chain[j]) = SubOf(chain[i])}
  IN IF prev = {} \/ chain[i].view = "forced" THEN 0
     ELSE LET p == CHOOSE j \in prev : \A k \in prev : k <= j
          IN IF LabAddr(chain[i].label) > LabAddr(chain[p].label) THEN 0
             ELSE AsmView(p) + 1

\* A consumer numbers views the same way from the program: a row takes
\* the current view, which then grows by one; set_address, a move of the
\* address and the end of a sequence reset it.
SetsAddress(b, i) == b[i] = DW_LNS_extended_op /\ b[i + 1 + LebLen(b, i + 1)] = DW_LNE_set_address
RECURSIVE ViewsFrom(_, _, _, _)
ViewsFrom(b, i, r, v) ==
  IF i > Len(b) THEN <<>>
  ELSE LET s  == DecodeStep(b, i, r)
           v1 == IF s.regs.addr /= r.addr \/ SetsAddress(b, i) THEN 0 ELSE v
       IN IF s.rows = <<>> THEN ViewsFrom(b, s.next, s.regs, v1)
          ELSE IF s.rows[1].end THEN <<v1>> \o ViewsFrom(b, s.next, s.regs, 0)
          ELSE <<v1>> \o ViewsFrom(b, s.next, s.regs, v1 + 1)

-----------------------------------------------------------------------------
(* Properties.                                                             *)

\* Decoding the converted .debug_line program gives back exactly one row
\* per line entry, with the entry's address, file, line, column, isa,
\* discriminator and flags, followed by the end_sequence row at the end
\* of the segment: process_entries tracks the consumer's registers and
\* chooses set_address, a direct increment or a variant frag correctly.
RowsDecoded ==
  pc = "converted" =>
    LET rows == DecodeFrom(program, 1, InitRegs(0, 1))
    IN [i \in 1..Len(rows) |-> Observed(rows[i])] = ExpectedRows

\* The view numbers a consumer computes from the program agree with the
\* view numbers the assembler gave every entry that carries a view: a
\* forced reset at an address the PC has not left gets its set_address.
ViewsAgree ==
  pc = "converted" =>
    LET cv == ViewsFrom(program, 1, InitRegs(0, 1), 0)
    IN \A i \in 1..Len(chain) : chain[i].view /= "none" => cv[i] = AsmView(i)

-----------------------------------------------------------------------------
(* Refinement: the emitter implements the line table of LineTable.  The   *)
(* rows asked for are the rows of the entries consumed; the rows emitted   *)
(* are what a consumer decodes from the pieces written so far, each frag   *)
(* and fixup resolved at the final layout.                                 *)

MaxAddr == LET Size(l) == FoldSeq(LAMBDA x, y : x + y, 0,
                                  [j \in DOMAIN l.fix |-> l.fix[j] + l.var[j]])
           IN CHOOSE m \in {Size(l) : l \in Layouts} : \A l \in Layouts : Size(l) <= m

RowSpace == [addr : 0..MaxAddr, file : Files, line : Lines, column : Columns,
             isa : Isas, discriminator : Discs, is_stmt : BOOLEAN,
             basic_block : BOOLEAN, prologue_end : BOOLEAN,
             epilogue_begin : BOOLEAN, end : {FALSE}]

LT == INSTANCE LineTable WITH
        table <- [i \in 1..Len(chain) |-> ExpectedRow(chain[i])],
        emitted <- decoded,
        ended <- pc /= "entries",
        segEnd <- SegEnd,
        Rows <- RowSpace,
        Addrs <- 0..MaxAddr

\* process_entries implements the line table: each loop iteration makes
\* the program decode to exactly one more row, the entry's, within the
\* segment, and the code after the loop closes it with one end_sequence
\* row at the end of the segment's last frag.
LineTableSpec == LT!Spec

=============================================================================
