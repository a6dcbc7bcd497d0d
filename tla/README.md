# TLA+ models of gas/dwarf2dbg.c

The repository's only source is `src/assembler/riscv/gas/dwarf2dbg.c`. It is
the GNU assembler's generator of DWARF 2 line-number information. While the
assembler reads its input, the file records one line entry per instruction or
`.loc` directive. When assembly ends, it turns the entries into a `.debug_line`
program plus the companion sections. This directory holds TLA+ modules that model
the file's state machines, the TLC configurations that check them, and
`PROJECT.json`. That file lists the components, runs, mutants, the map from
every definition to the source lines it translates, the findings and the hazards.

## 1. Inventory

### Components and their state

| Component | Functions | State it keeps |
|---|---|---|
| A. File/dir table | `get_filenum`, `dwarf2_directive_filename` | `files[]`, `files_in_use`, `files_allocated`, `dirs[]`, the `last_used` cache |
| B. Location state | `dwarf2_directive_loc`, `dwarf2_consume_line_info`, `dwarf2_where`, `dwarf2_set_isa`, `dwarf2_directive_loc_mark_labels` | `current`, `dwarf2_loc_directive_seen`, `dwarf2_loc_mark_labels`, `debug_type` (shared with the driver) |
| C. Line-entry accumulator | `dwarf2_gen_line_info(_1)`, `get_line_subseg`, `dwarf2_emit_insn`, `dwarf2_emit_label`, `dwarf2_move_insn` | `all_segs` (per segment, per subsection lists with `ptail`, `pmove_tail`), the static `line`/`filenum` of the -g dedupe |
| D. View algebra | `set_or_check_view`, `reverse_line_entry_list`, `dwarf2dbg_final_check` | view symbols, `force_reset_view`, the `view_assert_failed` chain |
| E. Opcode packer | `scale_addr_delta`, `size_inc_line_addr`, `emit_inc_line_addr`, `size_fixed_inc_line_addr`, `emit_fixed_inc_line_addr`, `out_inc_line_addr` | `printed_this` |
| F. Relaxation engine | `relax_inc_line_addr`, `dwarf2dbg_estimate_size_before_relax`, `dwarf2dbg_relax_frag`, `dwarf2dbg_convert_frag` | the `rs_dwarf2dbg` frag: `fr_var` (reserved size), `fr_subtype` (current size), `fr_offset` (line delta), `fr_symbol` (to − from) |
| G. Line-program emitter | `process_entries`, `out_set_addr`, `out_debug_line`, `out_file_list`, `out_header` | the line-program registers while emitting |
| H. Finalization | `dwarf2_init`, `dwarf2_finish` | subsection chaining, section creation |
| I. Companion sections | `out_debug_aranges`, `out_debug_ranges`, `out_debug_abbrev`, `out_debug_info`, `out_debug_str` | none: fixed layouts |

### Operations and how the components interact

- **`.file N "name"`** (A). It turns off `-g` line generation (`debug_type = DEBUG_NONE`) and fills slot N.
- **`.loc F L [opts]`** (B). These steps run in this order:
  1. It flushes a pending `.loc` with `dwarf2_emit_insn (0)` (C).
  2. It validates F against the file table (A).
  3. It writes F, L and every sub-directive into `current`.
  4. It latches `dwarf2_loc_directive_seen`.
  5. If the directive names a view, it emits the row at once.
- **An instruction.** The target calls `dwarf2_emit_insn (size)` (C). This step:
  - takes the location from `dwarf2_where` (B): the assembly source under `-g`, otherwise `current`;
  - appends an entry to the list of the current subsection;
  - runs the view algebra (D) if the location names a view;
  - consumes the one-shot parts of `current` (B).
- **A label.** `dwarf2_emit_label` (C) does the same when `.loc_mark_labels 1` is in force.
- **End of assembly** (H):
  - `dwarf2_finish` chains the subsections.
  - `process_entries` (G) walks the entries. When two entries are in the same frag, it encodes the (line, address) advance directly with E. Otherwise it reserves a variant frag with F.
  - Relaxation calls F's estimate and relax hooks until sizes settle, then convert, which writes the E encoding into the reserved bytes.
  - `dwarf2dbg_final_check` (D) evaluates the deferred view assertions over the final addresses.

### What is hard

The file is single-threaded. What makes it hard is that several things can happen in orders nobody tests:

- **Views depend on addresses that are not yet known** (D). Whether a row is past the previous one is only known at assembly time when both labels are in one frag. Otherwise the view number is an expression over labels whose addresses relaxation decides later. Defining one view may require defining a chain of earlier temporary views through a reversed list. An asserted `view 0` is checked at once or deferred.
- **Relaxation** (F + E):
  - The reservation is computed once, from the wrapped value `-MIN_INSN_LENGTH`.
  - The size is recomputed on every pass while the code section moves the labels.
  - Convert writes the size of the last pass.
  - Size and emit are two functions that must agree on every boundary: 255, 256 + 17, 50000, and the unsigned wrap of negative line deltas.
- **Errors that do not stop the directive's effect**: a `.file` number is checked as `offsetT` and used as `unsigned int`, so the already-allocated check can be bypassed. (A `.loc` rejected halfway keeps what it wrote to `current`, but `as_bad` means no object file is written, so that is not observable.)
- **Numeric edges**: the `offsetT` slot number used as an `unsigned int`; the `INT_MAX` end-of-sequence sentinel; the unaligned-delta truncation.
- **Static caches** that outlive the context they were computed in: the `-g` dedupe pair (kept across subsections) and `last_used`.
- **Unsigned growth**: `files_allocated = i + 32` wraps for a slot near `UINT_MAX`.

### What makes each component correct

| Component | What must hold |
|---|---|
| A | Every slot written lies inside the allocated array. Unless an error is reported, every row's file number picks, in the emitted file table, the file it was recorded with. |
| B | The one-shot fields are consumed by exactly one row. |
| C | No row has file 0 or line 0. Under `-g`, every instruction lies under a row of its own source line. |
| D | After the final layout, every view symbol of a row equals the row's view number: 0 after an address advance or a forced reset, otherwise the previous row's view + 1. "view number mismatch" is diagnosed exactly when an asserted `view 0` is not a reset. |
| E | `len(emit) = size`. The bytes decode, by a DWARF 2 consumer, to the requested row. The encoding is minimal where a special opcode or `const_add_pc` + special opcode exists. |
| F | The reservation covers every later size. Convert fills exactly the bytes of the last pass. The frag is eventually converted. |
| G | The decoded program of a sequence is its list of entries, then one end row at the end of the segment. The view a consumer computes for each row is the assembler's view number. |

## 2. Modules

| Module | Models | State (VARIABLES) | Actions |
|---|---|---|---|
| `DwarfLineOpcodes` | E, as operators. It also holds a reference DWARF 2 line-program decoder (`DecodeStep`, `DecodeFrom`) and the set of special-opcode pairs, which the encoder is checked against. | none | none |
| `LineFrag` | F, over E | `frag` (fr_type, fr_var, fr_subtype, fr_offset, the bytes written), `from`, `delta` (to − from), `phase`, `changed`, `codeChanges`, `unaligned` (`printed_this`) | `RelaxIncLineAddr`, `CodeRelax` (code relaxation moves the labels: the environment), `CodeDone`, `DebugPass` (estimate + relax), `EndPass`, `ConvertFrag` |
| `DwarfLoc` | A, B, C, D | see below | see below |
| `LineProgram` | G, over E and F | `layout` (fixed and variable frag sizes, the subsection of each frag), `pc`, `regs` (the locals `filenum`, `line`, `column`, `isa`, `flags`), `last` (`last_frag`, `last_frag_ofs`), `chain` (the entries processed), `out` (the pieces of `.debug_line`), `program` (its bytes), `decoded` (auxiliary: what a consumer decodes from `out`) | `process_entry` (one loop iteration), `end_sequence`, `Convert` |
| `LineTable` | the abstract line table that G promises: rows asked for, rows emitted, closed | `table`, `emitted`, `ended` | `AddRow`, `EndSequence` |
| `MC_LineFrag`, `MC_DwarfLoc`, `MC_LineProgram` | the input sets for TLC | | |

`DwarfLoc` keeps all of the file's state in one record `d`, so that a directive handler is the composition of the operators of the functions it calls. Its fields are:

- `files`, `filesInUse`, `filesAllocated`, `lastUsed` (the `last_used` cache), `debugType`
- `cur` (`current`), `seen`, `markLabels`
- `lastLine`, `lastFile` (the dedupe statics)
- `lists` (one list per subsection, as `get_line_subseg` keeps them)
- `syms` (view symbols: `const`, `undef`, or the expression `zero`, `inc` or `mul` that `set_or_check_view` builds)
- `asserted`, `force` (`force_reset_view`), `chain` (`view_assert_failed`)
- `reports` (the number of "view number mismatch" diagnostics)
- `hadErrors` (some `as_bad` was issued: gas then writes no object file, so output properties are stated for `~hadErrors`)
- `fileTable` (the file names `out_file_list` wrote, in order)

The history field `name` of every entry holds the file that its file number named when the row was recorded. It is used only by `FileRowsResolve`.

The assembler around the file is the variables `nowSS`, `fragOf`, `ofsOf`, `fixed`, `varLen` and `srcLine`: the current subsection, frag and offset, the fixed sizes of the closed frags, their final variable sizes, and the source line `as_where` reports. The input is one source file, so `srcLine` never decreases; a macro expansion repeats a line. The history variable `asmInsns` records, per subsection, the position and line of every instruction assembled under `-g`; only `AsmLinesAttributed` reads it.

The actions are:

- `FileDirective`, `LocDirective`, `MarkLabelsDirective`: the directive handlers.
- `Insn`: append an instruction, then `dwarf2_emit_insn`. A target may pad the instruction first: it calls `dwarf2_move_insn (delta)` for the rows already emitted at the current offset, then appends `delta` bytes of padding and the instruction. `dwarf2_move_insn` moves the entries past the subsection's `pmove_tail` whose label value equals the current offset, and advances `pmove_tail` to the end of the list.
- `Label`: `dwarf2_emit_label`.
- `FragBreak`: a relaxable instruction closes the frag.
- `SwitchSubseg`: `.text N`.
- `Finish`: `dwarf2_finish` writes `.debug_line` if any row was recorded (`out_file_list` emits the named slots and diagnoses unnamed ones), relaxation chooses the variable sizes, then `dwarf2dbg_final_check` runs.

Each action is the whole handler, every call it makes included. For example, `dwarf2_directive_loc` is the flush, the validation, the sub-directive loop with its early returns, the view symbol creation, and the immediate emit.

Widths. C integer widths are parameters, so that `INT_MAX`, the wrapped `-MIN_INSN_LENGTH` and `unsigned int` stay within TLC's integers:

- `IntBits` is the width of int (16 in the runs);
- `AddrBits` is the width of addressT (20);
- `UIntBits` is the slot-number width (2, or 3 in `views_asm` and `file_alloc_wrap`);
- `FileBlock` is the growth step of the file array, 32 in the code and 2 in the runs, so that `i + FileBlock` wraps for the top slots of a 3-bit `unsigned int` as `i + 32` does for the top 32 slots of a 32-bit one;
- `MinInsnLength` is `DWARF2_LINE_MIN_INSN_LENGTH`, 1 in this build (line 144), so every run uses 1 and the scaling of `scale_addr_delta` is never taken.

The arithmetic is done modulo these widths wherever the code converts.

### LineProgram and LineTable

`LineProgram` models `process_entries` for one code segment after `dwarf2_finish` has chained its subsections. The layout is chosen in `Init` from `Layouts`: per frag, the fixed size, the final variable size, and the subsection it belongs to. The entries are then chosen one at a time, in layout order, each with any file, line, column, discriminator, isa, flags and view kind.

- `process_entry` is one iteration of the do-while loop. It writes the register opcodes (`state_opcodes`), updates the locals (`regs_after`), and takes the address step (`addr_step`):
  - `set_address` for the first entry, or for a forced view reset unless the PC is known to advance (`ForceSetAddr`);
  - a direct increment within one frag (`out_inc_line_addr`);
  - otherwise a variant frag (`relax_inc_line_addr`).
- `end_sequence` writes the `INT_MAX` advance to the end of the segment's last frag.
- `Convert` resolves the pieces at the final layout: `set_address` fixups become little-endian addresses, and variant frags become what `dwarf2dbg_convert_frag` writes. `LineFrag` shows separately that relaxation settles on that size.

The reference is a consumer: `DecodeFrom` in `DwarfLineOpcodes` decodes the bytes into rows. Two views are compared:

- `AsmView` is the view number the assembler assigns: 0 for the first entry of its subsection list, for a forced reset, or after an address advance; otherwise the previous entry's view + 1.
- `ViewsFrom` is the view a consumer computes: it resets on an address change, after `set_address`, and after `end_sequence`.

`LineTable` is the abstract specification: each entry adds exactly its row to what is emitted, addresses never go backwards, and one end-of-sequence row closes the table at or past the last row. The refinement mapping takes `table` to the rows of the entries processed and `emitted` to the auxiliary `decoded`. `decoded` is a function of `out` that each action updates with it, so that TLC decodes each state once.

## 3. Runs

| Run | cfg | What it shows |
|---|---|---|
| `line_frag` | `LineFrag.cfg` | For every line delta and label distance in the sets, and up to two moves of the labels by code relaxation, the frag reserved by `relax_inc_line_addr` holds what convert writes. Convert fills exactly `fr_subtype` bytes. The bytes decode to one row at `from + delta`, with the line advanced, or an end-of-sequence row for `INT_MAX`. Special and `const_add_pc` pairs use 1 and 2 bytes. The frag is eventually converted. `linkrelax` (`DWARF2_USE_FIXED_ADVANCE_PC`) is chosen in `Init`, so the same run covers the fixed-advance encoder across its 50000-byte `set_address` threshold and 16-bit operand. |
| `views_asm` | `DwarfLocAsm.cfg` | Consider any sequence of up to 6 `.file`, `.loc` (with no view, `view 0`, `view -0` or a named view), instructions, labels, frag breaks and subsection switches, followed by any final frag sizes, starting under `-g`. After it, every view symbol of a row evaluates to the row's view number, unless a mismatch was diagnosed. A mismatch is diagnosed exactly when some asserted `view 0` row does not advance. The inputs include rejected and partly rejected `.loc` directives, line 0, `.loc_mark_labels`, and `.file` numbers past unsigned int. Every file slot written is below `files_allocated`. When no error is reported, every row's file number names, in the table `out_file_list` writes, the file it was recorded with. |
| `file_num_truncated` | `FileNumTruncated.cfg` | Violation: after `-g` rows in slot 1, `.file 9` (past the 3-bit `unsigned int`) passes the already-allocated check as 9 and renames slot 1; the rows name the wrong file and no error is reported. |
| `file_alloc_wrap` | `FileAllocWrap.cfg` | Violation: `.file N` for the largest `unsigned int` N makes `files_allocated = N + 32` wrap, and `files[N]` is written past the array. |
| `g_line_subseg` | `GLineSubseg.cfg` | Violation: under `-g`, an instruction on the line of the previous instruction, but in another subsection, gets no row; after chaining, its code has no line or another line's. |
| `label_line_zero` | `LabelLineZero.cfg` | Violation: a row with line 0 through `dwarf2_emit_label`. |
| `move_insn` | `MoveInsn.cfg` | Instructions padded by 4 bytes through `dwarf2_move_insn`, among `.loc` view directives, labels and subsection switches: every view symbol still evaluates to its row's view number. A view that `set_or_check_view` folded to a constant between rows at one offset stays right because all those rows move together. |
| `move_insn_other_frag` | `MoveInsnOtherFrag.cfg` | Violation: `dwarf2_move_insn` also moves an entry of an earlier frag at the same offset, because it compares only the label's value. |
| `line_program` | `LineProgram.cfg` | Two entries with any registers, in one or two frags, with or without a variable part, with and without `linkrelax`: the converted program decodes to exactly their rows and the end row. |
| `line_program_views` | `LineProgramViews.cfg` | Up to three entries with no view, a view or a forced reset, with and without `linkrelax`, including a 300-byte variable part: the consumer's view of every view row equals the assembler's. The same run checks `LineTableSpec`: `process_entries` implements `LineTable`. |
| `line_program_int_max` | `LineProgramIntMax.cfg` | Violation: a line exactly `INT_MAX` above the previous row is written as `end_sequence`, and the row is lost. |
| `line_program_subseg_views` | `LineProgramSubsegViews.cfg` | Violation: a subsection that starts where the previous one ended gets view 0 from the assembler and view 1 from a consumer. |

The findings behind the violation runs are in `PROJECT.json`. Every property of a passing run has a mutant: a plausible bug in a mapped definition that TLC shows the property catches. The mutants include:

- the reservation sized for delta 0;
- `const_add_pc` off by one;
- a narrowed special-opcode window;
- `relax_frag` returning the size instead of the growth;
- the backward walk dropped;
- every deferred check taken as failed;
- `dwarf2_move_insn` moving only the newest row at the current offset;
- the file array grown only for a slot past `files_allocated` (off by one);
- `.file` without the already-allocated check;
- the column register not carried over by `process_entries`;
- set_address for a forced reset only within one frag;
- `end_sequence` at the fixed size of the last entry's frag instead of the segment's last frag.

### Bounds

- **LineFrag.** The line deltas are −100, −6, −5, 0, 1, 8, 9, 64 and `INT_MAX`. They cover both sides of `tmp >= LINE_RANGE`, the unsigned wrap of negative deltas, and the sentinel. The address deltas cover every branch boundary of both encoders: 0, 1, 16–18 (`MAX_SPECIAL_ADDR_DELTA` = 17), 34–35, 127–128 and 16384 (LEB128 lengths), 272–273 (`256 + 17`), 50000–50001, 65535, and the largest address. `MaxCodeChanges = 2` lets the labels move both up and down after the first estimate.
- **DwarfLoc.** The bounds are:
  - two subsections and two frags per subsection: enough for rows in the same frag, in different frags, and in different subsections;
  - final variable sizes 0 and 2: a frag break may or may not advance the address;
  - 6 steps: enough for three view rows around a frag break followed by an assertion;
  - 3-bit slot numbers in `views_asm`: `.file 8` truncates to 0 and takes the next free slot, and `.file 3` lands exactly on `files_allocated` after `.file 1` and leaves slot 2 unnamed; `file_alloc_wrap` uses slot 7, the largest, and `file_num_truncated` uses 9, which truncates to an occupied slot;
  - `g_line_subseg` uses source lines 3 and 4 and 5 steps: two instructions of one line in two subsections and a later line;
  - `dwarf2_move_insn` runs pad by 4 bytes (one instruction). `move_insn` has one frag per subsection and 7 steps: enough for two view rows at one offset, a padded instruction, and a later row, in either subsection. `move_insn_other_frag` has two frags and 6 steps: enough for an entry left at the end of a closed frag and a padded instruction at the same offset of the next frag.
- **LineProgram.** The layouts are two frags: one where the first frag grows by a variable part, one without, one split over two subsections, and one with a 300-byte variable part (past `256 + MAX_SPECIAL_ADDR_DELTA`: the variable encoder needs `DW_LNS_advance_pc` with a two-byte operand, the fixed encoder a `DW_LNS_fixed_advance_pc` above one byte). Label offsets 0, 4 and 8 cover the same offset, the frag end and the next frag's start. Lines 1, 3 and 40 (1, 2 and 40 in `line_program_views`) cover special opcodes and `advance_line`, both up and down. Two entries cover every pair of register changes; three entries (with fewer register values, under both encodings) cover chains of views and the refinement.

### Fairness

`LineFrag` assumes weak fairness of its next-state relation. The assembler's relaxation loop (`relax_segment`) runs passes until no frag changes and then converts. Nothing in the file can stop it, so some step is always taken while one is enabled. The code relaxation is bounded, as is the code's: its moves stop.

`DwarfLoc` and `LineProgram` check only safety; `LineTable` is a safety specification too, so the refinement needs no fairness. Assembly may stop after any input, so `CHECK_DEADLOCK FALSE` is set for `DwarfLoc`; its final state is `phase = "done"`. `LineProgram` stops at `pc = "converted"`, which is why its runs set it too.

## 4. Correspondence to the code

`PROJECT.json` "map" names the lines of every definition. Some choices are abstractions:

- **Symbols.** A label is a (frag, offset) pair in its subsection. `resolve_expression` folds `E > P` to a constant exactly when both are in one frag (`viewx`). The final address is the offset plus the sizes of the earlier frags (`Addr`).
- **View symbols.** These are indices into `d.syms`. `ValueOf` evaluates their expressions (`inc` is `P + 1`; `mul` is `!(E > P) * (P + 1)`) at the final layout.
- **File names.** These are model values without a directory part; directories are not modelled. The `last_used` cache is modelled, but it cannot change a result: `get_filenum (name, 0)` is called only under `-g`, which the first `.file` or `.loc` turns off for good, so every cached lookup precedes every `.file` and the name is in one slot only. `seen_at_least_1_file ()` (true during assembly) and the column operand are not modelled.
- **The code section's relaxation.** In `LineFrag` this is an environment action (`CodeRelax`) that changes the label distance a bounded number of times. The pass loop of `write.c` is modelled from its contract (spec 4.F).
- **LEB128 and the fixup writers.** These come from gas's `read.c`/`write.c`, which are not in the repository, and are modelled from the spec.

## 5. Not modelled

| Part | Status |
|---|---|
| The pending `.loc` at end of input | Not a hazard: `dwarf2_loc_directive_seen` is only acted on by the next instruction or `.loc`; a `.loc` with no code after it describes no address. |
| The companion sections | Not modelled, nor planned. They are fixed byte layouts of headers and strings without control beyond byte output. |
| The byte writers (`out_byte` … `out_abbrev`) and `dwarf2_set_isa` | Not modelled, nor planned. The byte writers are thin wrappers over frag I/O, and RISC-V never calls `dwarf2_set_isa`. |
| `out_debug_line`, `out_header` | Not modelled: the header is a fixed sequence of bytes (version, lengths as label differences, the opcode parameters and lengths) with no control. `out_file_list` is modelled by the table it writes and its diagnostic; the directory list it writes is not, as directories are not. |
| `dwarf2_finish` | Modelled: the choice to write `.debug_line` (for an input without its own `.debug_info`/`.debug_line`), the file table, and the subsection chaining (in `LineProgram`). Not modelled: inputs with their own debug sections (a fatal error or nothing to do), section creation, several code segments (each is an independent `process_entries` call), and `dwarf2_init`. |
| The composition of `DwarfLoc` with `LineProgram` | Not modelled: the product of the two state spaces is beyond TLC at bounds where either is interesting. `LineProgram` chooses its entries freely in layout order, a superset of what `DwarfLoc` appends, so its properties cover every list `DwarfLoc` can produce. |
| Directories of `get_filenum` and an abstract view specification | Not modelled. Directories only add a second table keyed the same way; the views are already checked against their definition (`AbsView`) in `ViewNumbersCorrect`. |
