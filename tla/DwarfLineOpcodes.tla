-------------------------- MODULE DwarfLineOpcodes --------------------------
(***************************************************************************)
(* The opcode packer of gas/dwarf2dbg.c: size_inc_line_addr and           *)
(* emit_inc_line_addr (special / const_add_pc / advance_pc encodings),     *)
(* the fixed-advance pair size_fixed_inc_line_addr and                     *)
(* emit_fixed_inc_line_addr, and scale_addr_delta.  The bytes an encoder   *)
(* writes are modelled as a sequence of byte values; LEB128 operands are   *)
(* encoded byte by byte.                                                   *)
(*                                                                         *)
(* The reference definitions at the end (a DWARF 2 line-number state       *)
(* machine that decodes bytes into rows, and the set of special opcodes)   *)
(* are what the encoder is checked against.                                *)
(*                                                                         *)
(* C integer widths are parameters: `int` / `unsigned int` have IntBits    *)
(* bits, addressT has AddrBits bits, so that INT_MAX and the wrap-around   *)
(* of `-DWARF2_LINE_MIN_INSN_LENGTH` stay within TLC's integers.           *)
(***************************************************************************)
EXTENDS Integers, Sequences

CONSTANTS
  MinInsnLength,   \* DWARF2_LINE_MIN_INSN_LENGTH (target hook, default 1)
  AddrBits,        \* width of addressT
  IntBits,         \* width of int / unsigned int
  AddrSize         \* sizeof_address: bytes of a target address

ASSUME MinInsnLength \in Nat \ {0}
ASSUME AddrBits \in 8..28 /\ IntBits \in 8..24 /\ AddrSize \in {2, 4, 8}

ADDR_MOD == 2^AddrBits
UINT_MOD == 2^IntBits
INT_MAX  == 2^(IntBits - 1) - 1

\* An int converted to unsigned int.
ToUnsigned(x) == x % UINT_MOD

\* Line-program parameters (macros of the source with their defaults).
DWARF2_LINE_OPCODE_BASE == 13
DWARF2_LINE_BASE        == -5
DWARF2_LINE_RANGE       == 14
ADDR_DELTA_LIMIT        == 50000
SPECIAL_LINE(op) == ((op - DWARF2_LINE_OPCODE_BASE) % DWARF2_LINE_RANGE) + DWARF2_LINE_BASE
SPECIAL_ADDR(op) == (op - DWARF2_LINE_OPCODE_BASE) \div DWARF2_LINE_RANGE
MAX_SPECIAL_ADDR_DELTA == SPECIAL_ADDR(255)

\* Standard and extended opcodes (dwarf2.h).
DW_LNS_extended_op == 0
DW_LNS_copy == 1
DW_LNS_advance_pc == 2
DW_LNS_advance_line == 3
DW_LNS_set_file == 4
DW_LNS_set_column == 5
DW_LNS_negate_stmt == 6
DW_LNS_set_basic_block == 7
DW_LNS_const_add_pc == 8
DW_LNS_fixed_advance_pc == 9
DW_LNS_set_prologue_end == 10
DW_LNS_set_epilogue_begin == 11
DW_LNS_set_isa == 12
DW_LNE_end_sequence == 1
DW_LNE_set_address == 2
DW_LNE_set_discriminator == 4

-----------------------------------------------------------------------------
(* LEB128 and fixed-width little-endian encodings (output_leb128,          *)
(* sizeof_leb128 and md_number_to_chars of gas).                           *)

RECURSIVE ULeb128(_)
ULeb128(v) == IF v < 128 THEN <<v>> ELSE <<(v % 128) + 128>> \o ULeb128(v \div 128)

RECURSIVE SLeb128(_)
SLeb128(v) ==
  LET byte == v % 128
      rest == v \div 128          \* arithmetic shift right by 7
  IN IF (rest = 0 /\ byte < 64) \/ (rest = -1 /\ byte >= 64)
     THEN <<byte>>
     ELSE <<byte + 128>> \o SLeb128(rest)

sizeof_leb128(v, sign) == IF sign THEN Len(SLeb128(v)) ELSE Len(ULeb128(v))

LittleEndian(v, n) == [i \in 1..n |-> (v \div 2^(8 * (i - 1))) % 256]

-----------------------------------------------------------------------------
(* The encoder.                                                            *)

\* addr_delta divided by the minimum instruction length.  The "unaligned
\* opcodes" diagnostic is part of the caller's state, see Unaligned.
scale_addr_delta(a) == IF MinInsnLength > 1 THEN a \div MinInsnLength ELSE a
Unaligned(a) == MinInsnLength > 1 /\ a % MinInsnLength /= 0

\* The line delta biased by the base, as the unsigned int `tmp`.
BiasedLine(lineDelta) == ToUnsigned(lineDelta - DWARF2_LINE_BASE)
FarLine(lineDelta)    == BiasedLine(lineDelta) >= DWARF2_LINE_RANGE

\* Mutant: special opcodes only below MAX_SPECIAL_ADDR_DELTA.
SpecialRange_narrow(a) == a < MAX_SPECIAL_ADDR_DELTA
\* Mutant: const_add_pc's advance subtracted one short.
ConstAddOp_off(tmp, a) == tmp + (a - MAX_SPECIAL_ADDR_DELTA + 1) * DWARF2_LINE_RANGE

\* The two special-opcode candidates; the code tries them only while
\* addr_delta < 256 + MAX_SPECIAL_ADDR_DELTA.  The second is reached only
\* once the first exceeds 255, hence with a >= MAX_SPECIAL_ADDR_DELTA.
SpecialOp(tmp, a)     == tmp + a * DWARF2_LINE_RANGE
ConstAddOp(tmp, a)    == tmp + (a - MAX_SPECIAL_ADDR_DELTA) * DWARF2_LINE_RANGE
SpecialRange(a)       == a < 256 + MAX_SPECIAL_ADDR_DELTA

size_inc_line_addr(lineDelta, addrDelta) ==
  LET a   == scale_addr_delta(addrDelta)
      len == IF FarLine(lineDelta) THEN 1 + sizeof_leb128(lineDelta, TRUE) ELSE 0
      tmp == (IF FarLine(lineDelta) THEN 0 - DWARF2_LINE_BASE ELSE BiasedLine(lineDelta))
               + DWARF2_LINE_OPCODE_BASE
  IN IF lineDelta = INT_MAX
     THEN (IF a = MAX_SPECIAL_ADDR_DELTA THEN 1 ELSE 1 + sizeof_leb128(a, FALSE)) + 3
     ELSE IF SpecialRange(a) /\ SpecialOp(tmp, a) <= 255 THEN len + 1
     ELSE IF SpecialRange(a) /\ ConstAddOp(tmp, a) <= 255 THEN len + 2
     ELSE len + 1 + sizeof_leb128(a, FALSE) + 1

emit_inc_line_addr(lineDelta, addrDelta) ==
  LET a    == scale_addr_delta(addrDelta)
      far  == FarLine(lineDelta)
      adv  == IF far THEN <<DW_LNS_advance_line>> \o SLeb128(lineDelta) ELSE <<>>
      ld   == IF far THEN 0 ELSE lineDelta
      tmp  == (IF far THEN 0 - DWARF2_LINE_BASE ELSE BiasedLine(lineDelta))
                + DWARF2_LINE_OPCODE_BASE
      endSeq == <<DW_LNS_extended_op, 1, DW_LNE_end_sequence>>
  IN IF lineDelta = INT_MAX
     THEN (IF a = MAX_SPECIAL_ADDR_DELTA THEN <<DW_LNS_const_add_pc>>
                                         ELSE <<DW_LNS_advance_pc>> \o ULeb128(a))
          \o endSeq
     ELSE IF ld = 0 /\ a = 0 THEN adv \o <<DW_LNS_copy>>
     ELSE IF SpecialRange(a) /\ SpecialOp(tmp, a) <= 255
          THEN adv \o <<SpecialOp(tmp, a)>>
     ELSE IF SpecialRange(a) /\ ConstAddOp(tmp, a) <= 255
          THEN adv \o <<DW_LNS_const_add_pc, ConstAddOp(tmp, a)>>
     ELSE adv \o <<DW_LNS_advance_pc>> \o ULeb128(a)
              \o <<IF far THEN DW_LNS_copy ELSE tmp>>

\* Mutant: set_address chosen from ADDR_DELTA_LIMIT on, in the size only.
size_fixed_inc_line_addr_geq(lineDelta, addrDelta) ==
  (IF lineDelta /= INT_MAX THEN 1 + sizeof_leb128(lineDelta, TRUE) ELSE 0)
  + (IF addrDelta >= ADDR_DELTA_LIMIT
     THEN 1 + sizeof_leb128(AddrSize + 1, FALSE) + 1 + AddrSize
     ELSE 3)
  + (IF lineDelta = INT_MAX THEN 3 ELSE 1)

size_fixed_inc_line_addr(lineDelta, addrDelta) ==
  (IF lineDelta /= INT_MAX THEN 1 + sizeof_leb128(lineDelta, TRUE) ELSE 0)
  + (IF addrDelta > ADDR_DELTA_LIMIT
     THEN 1 + sizeof_leb128(AddrSize + 1, FALSE) + 1 + AddrSize
     ELSE 3)
  + (IF lineDelta = INT_MAX THEN 3 ELSE 1)

\* Mutant: set_address given the delta instead of the to-symbol.
emit_fixed_inc_line_addr_delta(lineDelta, addrDelta, toAddr) ==
  (IF lineDelta /= INT_MAX THEN <<DW_LNS_advance_line>> \o SLeb128(lineDelta) ELSE <<>>)
  \o (IF addrDelta > ADDR_DELTA_LIMIT
      THEN <<DW_LNS_extended_op>> \o ULeb128(AddrSize + 1) \o <<DW_LNE_set_address>>
           \o LittleEndian(addrDelta, AddrSize)
      ELSE <<DW_LNS_fixed_advance_pc>> \o LittleEndian(addrDelta % 2^16, 2))
  \o (IF lineDelta = INT_MAX THEN <<DW_LNS_extended_op, 1, DW_LNE_end_sequence>>
                             ELSE <<DW_LNS_copy>>)

\* toAddr is the value of the to-symbol that the set_address fixup
\* resolves to; the 2-byte fixed_advance_pc operand is the fixup of
\* to - from.
emit_fixed_inc_line_addr(lineDelta, addrDelta, toAddr) ==
  (IF lineDelta /= INT_MAX THEN <<DW_LNS_advance_line>> \o SLeb128(lineDelta) ELSE <<>>)
  \o (IF addrDelta > ADDR_DELTA_LIMIT
      THEN <<DW_LNS_extended_op>> \o ULeb128(AddrSize + 1) \o <<DW_LNE_set_address>>
           \o LittleEndian(toAddr, AddrSize)
      ELSE <<DW_LNS_fixed_advance_pc>> \o LittleEndian(addrDelta % 2^16, 2))
  \o (IF lineDelta = INT_MAX THEN <<DW_LNS_extended_op, 1, DW_LNE_end_sequence>>
                             ELSE <<DW_LNS_copy>>)

-----------------------------------------------------------------------------
(* Reference definitions: a DWARF 2 line-number program consumer.          *)

InitRegs(addr, line) ==
  [addr |-> addr, file |-> 1, line |-> line, column |-> 0, isa |-> 0,
   discriminator |-> 0, is_stmt |-> TRUE, basic_block |-> FALSE,
   prologue_end |-> FALSE, epilogue_begin |-> FALSE, end |-> FALSE]

\* Value and length of the LEB128 number starting at b[i].
RECURSIVE LebLen(_, _)
LebLen(b, i) == IF b[i] < 128 THEN 1 ELSE 1 + LebLen(b, i + 1)
RECURSIVE ULebAt(_, _)
ULebAt(b, i) == IF b[i] < 128 THEN b[i] ELSE (b[i] - 128) + 128 * ULebAt(b, i + 1)
SLebAt(b, i) ==
  LET n == LebLen(b, i)
  IN IF b[i + n - 1] % 128 >= 64 THEN ULebAt(b, i) - 2^(7 * n) ELSE ULebAt(b, i)
LEAt(b, i, n) == LET RECURSIVE V(_) V(k) == IF k = n THEN 0 ELSE b[i + k] + 256 * V(k + 1)
                 IN V(0)

\* Registers after a row is appended: the one-shot registers reset.
AfterRow(r) == [r EXCEPT !.basic_block = FALSE, !.prologue_end = FALSE,
                         !.epilogue_begin = FALSE, !.discriminator = 0]

\* One opcode at b[i]: the next index, the registers, and the row it
\* appends (a one-element or empty sequence).
DecodeStep(b, i, r) ==
  LET op == b[i]
      Next(n, r2) == [next |-> i + n, regs |-> r2, rows |-> <<>>]
      Row(n, r2)  == [next |-> i + n, regs |-> AfterRow(r2), rows |-> <<r2>>]
  IN CASE op >= DWARF2_LINE_OPCODE_BASE ->
            Row(1, [r EXCEPT !.addr = @ + SPECIAL_ADDR(op) * MinInsnLength,
                             !.line = @ + SPECIAL_LINE(op)])
       [] op = DW_LNS_copy -> Row(1, r)
       [] op = DW_LNS_advance_pc ->
            Next(1 + LebLen(b, i + 1), [r EXCEPT !.addr = @ + ULebAt(b, i + 1) * MinInsnLength])
       [] op = DW_LNS_advance_line ->
            Next(1 + LebLen(b, i + 1), [r EXCEPT !.line = @ + SLebAt(b, i + 1)])
       [] op = DW_LNS_set_file -> Next(1 + LebLen(b, i + 1), [r EXCEPT !.file = ULebAt(b, i + 1)])
       [] op = DW_LNS_set_column -> Next(1 + LebLen(b, i + 1), [r EXCEPT !.column = ULebAt(b, i + 1)])
       [] op = DW_LNS_negate_stmt -> Next(1, [r EXCEPT !.is_stmt = ~@])
       [] op = DW_LNS_set_basic_block -> Next(1, [r EXCEPT !.basic_block = TRUE])
       [] op = DW_LNS_const_add_pc ->
            Next(1, [r EXCEPT !.addr = @ + MAX_SPECIAL_ADDR_DELTA * MinInsnLength])
       [] op = DW_LNS_fixed_advance_pc -> Next(3, [r EXCEPT !.addr = @ + LEAt(b, i + 1, 2)])
       [] op = DW_LNS_set_prologue_end -> Next(1, [r EXCEPT !.prologue_end = TRUE])
       [] op = DW_LNS_set_epilogue_begin -> Next(1, [r EXCEPT !.epilogue_begin = TRUE])
       [] op = DW_LNS_set_isa -> Next(1 + LebLen(b, i + 1), [r EXCEPT !.isa = ULebAt(b, i + 1)])
       [] op = DW_LNS_extended_op ->
            LET n   == LebLen(b, i + 1)
                sub == b[i + 1 + n]
                len == 1 + n + ULebAt(b, i + 1)
            IN CASE sub = DW_LNE_end_sequence ->
                      [next |-> i + len, regs |-> InitRegs(0, 1),
                       rows |-> <<[r EXCEPT !.end = TRUE]>>]
                 [] sub = DW_LNE_set_address ->
                      Next(len, [r EXCEPT !.addr = LEAt(b, i + 2 + n, len - n - 2)])
                 [] sub = DW_LNE_set_discriminator ->
                      Next(len, [r EXCEPT !.discriminator = ULebAt(b, i + 2 + n)])

\* The rows the program b appends, starting from registers r.
RECURSIVE DecodeFrom(_, _, _)
DecodeFrom(b, i, r) ==
  IF i > Len(b) THEN <<>>
  ELSE LET s == DecodeStep(b, i, r) IN s.rows \o DecodeFrom(b, s.next, s.regs)

\* The (line delta, address delta) pairs a single special opcode encodes.
SpecialPairs == { <<SPECIAL_LINE(op), SPECIAL_ADDR(op)>> : op \in DWARF2_LINE_OPCODE_BASE..255 }

=============================================================================
