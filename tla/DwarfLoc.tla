------------------------------ MODULE DwarfLoc ------------------------------
(***************************************************************************)
(* The directive-driven front half of gas/dwarf2dbg.c: the file table as   *)
(* .file fills it, the `current` location that .loc updates, the hooks     *)
(* the assembler calls per instruction and per label, the per-subsection   *)
(* lists of line entries, and the view algebra (set_or_check_view) that    *)
(* defines a symbolic view number for rows that ask for one, up to         *)
(* dwarf2dbg_final_check after the final layout is known.                  *)
(*                                                                         *)
(* All state of the file lives in the record `d`, so that a directive      *)
(* handler, which calls several of the file's functions in sequence, is    *)
(* the composition of the operators that model them.  The assembler       *)
(* around it (position in the code section, frags, relaxation) is in the   *)
(* variables nowSS, fragOf, ofsOf, fixed and varLen.                       *)
(*                                                                         *)
(* One code segment is modelled, with the subsections Subsegs.  A label    *)
(* is a (frag, offset) pair inside its subsection's frag chain; frags are  *)
(* closed by a variable-size (relaxable) frag, whose final size is chosen  *)
(* at Finish, so two labels compare at assembly time only within a frag.   *)
(***************************************************************************)
EXTENDS Integers, Sequences, FiniteSetsExt, Functions

CONSTANTS
  Names, AsmName, NoName, \* file names; AsmName is the assembly source
  Subsegs,                \* subsection numbers of the code segment
  FileNums,               \* operands of `.file N "name"`
  LocFiles, LocLines,     \* operands of `.loc FILENO LINENO`
  LocOpts,                \* sub-directive lists of .loc (at most one view)
  InsnSizes, AsmLines,    \* instruction sizes; source lines as_where reports
  VarSizes,               \* final sizes of the variable part of a frag
  MoveDeltas,             \* arguments of dwarf2_move_insn
  GDwarf2,                \* -g given: debug_type starts as DEBUG_DWARF2
  UIntBits,               \* width of unsigned int
  FileBlock,              \* slots files grows by past the one asked (32)
  MaxOps, MaxFrags        \* bounds on directives and on frags per subsection

ASSUME AsmName \in Names /\ NoName \notin Names
ASSUME Subsegs \subseteq Nat /\ Subsegs /= {} /\ GDwarf2 \in BOOLEAN

Slots == 1..(2^UIntBits - 1)
NoSym == 0
OneShot == {"basic_block", "prologue_end", "epilogue_begin"}
InitLoc == [filenum |-> 1, line |-> 1, isa |-> 0, disc |-> 0,
            flags |-> {"is_stmt"}, view |-> NoSym]
Undef == [k |-> "undef", ss |-> 0, i |-> 0, prev |-> NoSym]
Max2(a, b) == IF a > b THEN a ELSE b

VARIABLES
  d,       \* the state of dwarf2dbg.c (see Init)
  nowSS,   \* now_subseg
  fragOf,  \* per subsection: index of frag_now in its frag chain
  ofsOf,   \* per subsection: frag_now_fix ()
  fixed,   \* per subsection: fixed sizes of the closed frags
  varLen,  \* per subsection: final variable sizes of the closed frags
  phase,   \* "assembling", "done"
  ops,     \* directives and instructions processed
  asmInsns, \* per subsection: instructions assembled under -g (history)
  srcLine   \* the line as_where reports: one source file, whose lines
            \* never decrease (a macro expansion repeats its line)

vars == <<d, nowSS, fragOf, ofsOf, fixed, varLen, phase, ops, asmInsns, srcLine>>

Pos == [ss |-> nowSS, frag |-> fragOf[nowSS], ofs |-> ofsOf[nowSS]]

-----------------------------------------------------------------------------
(* File table.                                                             *)

\* Mutant: the array grows only for a slot past files_allocated.
get_filenum_offbyone(dd, name, num) ==
  LET W    == 2^UIntBits
      hits == {i \in 1..(dd.filesInUse - 1) : dd.files[i] = name}
      i    == IF num = 0 THEN Max2(1, dd.filesInUse) ELSE num
  IN CASE num = 0 /\ dd.lastUsed /= 0 /\ dd.files[dd.lastUsed] = name ->
            [d |-> dd, idx |-> dd.lastUsed]
       [] num = 0 /\ hits /= {} ->
            [d |-> [dd EXCEPT !.lastUsed = Min(hits)], idx |-> Min(hits)]
       [] OTHER ->
            [d |-> [dd EXCEPT !.filesAllocated = IF i > @ THEN (i + FileBlock) % W ELSE @,
                              !.files[i] = name,
                              !.filesInUse = IF @ < (i + 1) % W THEN (i + 1) % W ELSE @,
                              !.lastUsed = i],
             idx |-> i]

\* get_filenum without directories.  NUM = 0: the slot last_used if it
\* holds the name, else the first slot below files_in_use holding it, else
\* the slot past the table; NUM > 0: slot NUM.  A slot at or past
\* files_allocated grows the array to slot + FileBlock entries, in unsigned
\* arithmetic, as does files_in_use < i + 1.
get_filenum(dd, name, num) ==
  LET W    == 2^UIntBits
      hits == {i \in 1..(dd.filesInUse - 1) : dd.files[i] = name}
      i    == IF num = 0 THEN Max2(1, dd.filesInUse) ELSE num
  IN CASE num = 0 /\ dd.lastUsed /= 0 /\ dd.files[dd.lastUsed] = name ->
            [d |-> dd, idx |-> dd.lastUsed]
       [] num = 0 /\ hits /= {} ->
            [d |-> [dd EXCEPT !.lastUsed = Min(hits)], idx |-> Min(hits)]
       [] OTHER ->
            [d |-> [dd EXCEPT !.filesAllocated = IF i >= @ THEN (i + FileBlock) % W ELSE @,
                              !.files[i] = name,
                              !.filesInUse = IF @ < (i + 1) % W THEN (i + 1) % W ELSE @,
                              !.lastUsed = i],
             idx |-> i]

\* as_bad: the diagnostic is printed, and gas writes no object file.
as_bad(dd) == [dd EXCEPT !.hadErrors = TRUE]

\* Mutant: a slot in use may be named again.
dwarf2_directive_filename_nocheck(dd, num, name) ==
  IF num < 1 THEN as_bad(dd)
  ELSE get_filenum([dd EXCEPT !.debugType = "NONE"], name, num % 2^UIntBits).d

\* `.file N "name"`; N reaches get_filenum as an unsigned int.
dwarf2_directive_filename(dd, num, name) ==
  IF num < 1 THEN as_bad(dd)
  ELSE LET d1 == [dd EXCEPT !.debugType = "NONE"]
       IN IF num < d1.filesInUse /\ d1.files[num] /= NoName THEN as_bad(d1)
          ELSE get_filenum(d1, name, num % 2^UIntBits).d

-----------------------------------------------------------------------------
(* Location state.                                                         *)

dwarf2_consume_line_info(dd) ==
  LET Used(c) == [c EXCEPT !.flags = @ \ OneShot, !.disc = 0, !.view = NoSym]
  IN [dd EXCEPT !.seen = FALSE, !.cur = Used(@)]

\* The location a row gets: under -g the assembly source position, else
\* `current`.
dwarf2_where(dd, asmLine) ==
  IF dd.debugType = "DWARF2"
  THEN LET g == get_filenum(dd, AsmName, 0)
       IN [d |-> g.d, loc |-> [filenum |-> g.idx, line |-> asmLine, isa |-> dd.cur.isa,
                               disc |-> dd.cur.disc, flags |-> {"is_stmt"}, view |-> NoSym]]
  ELSE [d |-> dd, loc |-> dd.cur]

\* One .loc sub-directive applied to location c: the new location, whether
\* it was rejected, and the view operand it named ("none" if none).
ParseOpt(c, o) ==
  LET ok(c2) == [cur |-> c2, err |-> FALSE, vtok |-> "none"]
      bad    == [cur |-> c, err |-> TRUE, vtok |-> "none"]
  IN CASE o.op \in OneShot -> ok([c EXCEPT !.flags = @ \cup {o.op}])
       [] o.op = "is_stmt" ->
            IF o.v = 0 THEN ok([c EXCEPT !.flags = @ \ {"is_stmt"}])
            ELSE IF o.v = 1 THEN ok([c EXCEPT !.flags = @ \cup {"is_stmt"}]) ELSE bad
       [] o.op = "isa" -> IF o.v >= 0 THEN ok([c EXCEPT !.isa = o.v]) ELSE bad
       [] o.op = "discriminator" -> IF o.v >= 0 THEN ok([c EXCEPT !.disc = o.v]) ELSE bad
       [] o.op = "view" ->
            IF o.v \in {"0", "-0", "name"} THEN [cur |-> c, err |-> FALSE, vtok |-> o.v]
            ELSE bad
       [] OTHER -> bad

\* The sub-directives in order, stopping at the first rejected one; what
\* the accepted ones before it did stays done.
RECURSIVE ParseOpts(_, _)
ParseOpts(c, opts) ==
  IF opts = <<>> THEN [cur |-> c, err |-> FALSE, vtok |-> "none"]
  ELSE LET r == ParseOpt(c, Head(opts))
       IN IF r.err THEN r
          ELSE LET rest == ParseOpts(r.cur, Tail(opts))
               IN [rest EXCEPT !.vtok = IF @ = "none" THEN r.vtok ELSE @]

\* The view symbol of a `view` operand: a numeric 0 is a new absolute
\* symbol of value 0 (-0 shares force_reset_view), a name a new undefined
\* symbol.
MakeView(dd, tok) ==
  LET new  == Len(dd.syms) + 1
      Konst == [Undef EXCEPT !.k = "const"]
  IN CASE tok = "-0" /\ dd.force /= NoSym -> [d |-> dd, sym |-> dd.force]
       [] tok = "-0" -> [d |-> [dd EXCEPT !.syms = Append(@, Konst), !.force = new], sym |-> new]
       [] tok = "0"  -> [d |-> [dd EXCEPT !.syms = Append(@, Konst),
                                          !.asserted = @ \cup {new}], sym |-> new]
       [] tok = "name" -> [d |-> [dd EXCEPT !.syms = Append(@, Undef)], sym |-> new]
       [] OTHER -> [d |-> dd, sym |-> NoSym]

dwarf2_directive_loc_mark_labels(dd, v) ==
  IF v \in {0, 1} THEN [dd EXCEPT !.markLabels = (v /= 0)] ELSE as_bad(dd)

-----------------------------------------------------------------------------
(* View algebra.                                                           *)

\* viewx = !(E > P) for E = entry i of list L and P = entry i - 1: "0" or
\* "1" when resolve_expression folds it (both labels in one frag), else
\* "sym" (left as an expression until the layout is final).
viewx(L, i, force) ==
  IF i = 1 \/ (L[i].loc.view = force /\ force /= NoSym) THEN "0"
  ELSE IF L[i].frag = L[i - 1].frag
       THEN IF L[i].ofs > L[i - 1].ofs THEN "0" ELSE "1"
       ELSE "sym"

\* An asserted view (a constant symbol, always 0): compare now, or chain
\* the check onto view_assert_failed.
CheckAssertedView(dd, ss, i, ev, vx) ==
  IF dd.syms[ev].k /= "const" THEN dd
  ELSE IF vx = "sym" THEN [dd EXCEPT !.chain = Append(@, [ss |-> ss, i |-> i])]
  ELSE IF vx = "1" THEN [dd EXCEPT !.reports = @ + 1, !.hadErrors = TRUE]
  ELSE dd

\* set_or_check_view (E = entry i of subsection ss, P = entry i - 1).
set_or_check_view(dd, ss, i) ==
  LET L  == dd.lists[ss]
      ev == L[i].loc.view
      vx == viewx(L, i, dd.force)
      d1 == CheckAssertedView(dd, ss, i, ev, vx)
      \* P needs a view symbol unless E's view is the constant 0.
      d2 == IF vx /= "0" /\ L[i - 1].loc.view = NoSym
            THEN [d1 EXCEPT !.syms = Append(@, Undef),
                            !.lists[ss][i - 1].loc.view = Len(d1.syms) + 1]
            ELSE d1
      expr == IF vx = "0" THEN [Undef EXCEPT !.k = "zero"]
              ELSE [k |-> IF vx = "1" THEN "inc" ELSE "mul", ss |-> ss, i |-> i,
                    prev |-> d2.lists[ss][i - 1].loc.view]
  IN IF d2.syms[ev].k = "undef" THEN [d2 EXCEPT !.syms[ev] = expr] ELSE d2

PendingPrev(dd, ss, r) ==
  LET L == dd.lists[ss]
  IN r > 1 /\ L[r - 1].loc.view /= NoSym /\ dd.syms[L[r - 1].loc.view].k = "undef"

\* The backward walk (through reverse_line_entry_list): define the views
\* of earlier entries until one is already defined or absent.
RECURSIVE DefineEarlier(_, _, _)
DefineEarlier(dd, ss, r) ==
  LET d1 == set_or_check_view(dd, ss, r)
  IN IF PendingPrev(d1, ss, r) THEN DefineEarlier(d1, ss, r - 1) ELSE d1

\* Mutant: earlier pending views are left undefined.
SetOrCheckViewTop_nowalk(dd, ss, n) == set_or_check_view(dd, ss, n)

SetOrCheckViewTop(dd, ss, n) ==
  LET d1 == set_or_check_view(dd, ss, n)
  IN IF PendingPrev(d1, ss, n) THEN DefineEarlier(d1, ss, n - 1) ELSE d1

-----------------------------------------------------------------------------
(* Line entries.                                                           *)

\* get_line_subseg keeps one list per subsection, in subsection order:
\* dd.lists is indexed by subsection number.  (`name`, the file the row's
\* number denotes when it is recorded, is history.)
dwarf2_gen_line_info_1(dd, ss, lbl, loc) ==
  LET d1 == [dd EXCEPT !.lists[ss] = Append(@, [frag |-> lbl.frag, ofs |-> lbl.ofs,
                                                 loc |-> loc,
                                                 name |-> dd.files[loc.filenum]])]
  IN IF loc.view /= NoSym THEN SetOrCheckViewTop(d1, ss, Len(d1.lists[ss])) ELSE d1

dwarf2_gen_line_info(dd, pos, ofs, loc) ==
  IF loc.filenum = 0 \/ loc.line = 0 THEN dd
  ELSE IF dd.debugType = "DWARF2" /\ dd.lastLine = loc.line /\ dd.lastFile = loc.filenum
  THEN dd
  ELSE dwarf2_gen_line_info_1([dd EXCEPT !.lastLine = loc.line, !.lastFile = loc.filenum],
                              pos.ss, [frag |-> pos.frag, ofs |-> ofs], loc)

\* dwarf2_emit_insn (size), called once the SIZE bytes are in the frag.
dwarf2_emit_insn(dd, pos, size, asmLine) ==
  IF dd.debugType /= "DWARF2" /\ ~dd.seen THEN dd
  ELSE LET w == dwarf2_where(dd, asmLine)
       IN dwarf2_consume_line_info(dwarf2_gen_line_info(w.d, pos, pos.ofs - size, w.loc))

\* dwarf2_emit_label for a label defined at the current position of the
\* code segment.
dwarf2_emit_label(dd, pos, asmLine) ==
  IF ~dd.markLabels \/ (dd.filesInUse = 0 /\ dd.debugType /= "DWARF2") THEN dd
  ELSE LET w == dwarf2_where(dd, asmLine)
           BB(c) == [c EXCEPT !.flags = @ \cup {"basic_block"}]
       IN dwarf2_consume_line_info(
            dwarf2_gen_line_info_1(w.d, pos.ss, [frag |-> pos.frag, ofs |-> pos.ofs],
                                   BB(w.loc)))

\* `.loc FILENO LINENO [sub-directives]`.
dwarf2_directive_loc(dd, pos, f, l, opts) ==
  LET d0 == IF dd.seen THEN dwarf2_emit_insn(dd, pos, 0, 0) ELSE dd
  IN IF f < 1 \/ f >= d0.filesInUse \/ d0.files[f] = NoName THEN as_bad(d0)
     ELSE LET Start(c) == [c EXCEPT !.filenum = f, !.line = l, !.disc = 0]
              p   == ParseOpts(Start(d0.cur), opts)
              m   == MakeView(d0, p.vtok)
              cur == IF p.vtok = "none" THEN p.cur ELSE [p.cur EXCEPT !.view = m.sym]
              d1  == [m.d EXCEPT !.cur = cur]
          IN IF p.err THEN as_bad(d1)
             ELSE LET d2 == [d1 EXCEPT !.seen = TRUE, !.debugType = "NONE"]
                  IN IF cur.view /= NoSym THEN dwarf2_emit_insn(d2, pos, 0, 0) ELSE d2

\* Mutant: only the newest entry at the current position is moved, as if
\* the loop looked at lss->ptail alone.
dwarf2_move_insn_lastonly(dd, pos, delta) ==
  IF delta = 0 THEN dd
  ELSE LET L == dd.lists[pos.ss]
       IN [dd EXCEPT !.lists[pos.ss] =
                       [j \in DOMAIN L |-> IF j = Len(L) /\ j > dd.pmove[pos.ss] /\ L[j].ofs = pos.ofs
                                           THEN [L[j] EXCEPT !.ofs = pos.ofs + delta]
                                           ELSE L[j]],
                     !.pmove[pos.ss] = Len(L)]

\* dwarf2_move_insn (delta): every entry past pmove_tail whose label value
\* equals frag_now_fix () is moved by delta; pmove_tail passes them all.
dwarf2_move_insn(dd, pos, delta) ==
  IF delta = 0 THEN dd
  ELSE LET L == dd.lists[pos.ss]
       IN [dd EXCEPT !.lists[pos.ss] =
                       [j \in DOMAIN L |-> IF j > dd.pmove[pos.ss] /\ L[j].ofs = pos.ofs
                                           THEN [L[j] EXCEPT !.ofs = pos.ofs + delta]
                                           ELSE L[j]],
                     !.pmove[pos.ss] = Len(L)]

-----------------------------------------------------------------------------
(* Layout after relaxation: a closed frag is its fixed part followed by    *)
(* its variable part.                                                      *)

\* The address of a label in its subsection once the variable parts of
\* the frags have the final sizes vl.
Addr(vl, ss, e) ==
  e.ofs + SumFunctionOnSet([j \in 1..Len(fixed[ss]) |-> fixed[ss][j] + vl[ss][j]],
                           1..(e.frag - 1))

\* !(E > P) for entry i of subsection ss of dd, at the final addresses.
NotAdvancedIn(dd, vl, ss, i) ==
  ~(Addr(vl, ss, dd.lists[ss][i]) > Addr(vl, ss, dd.lists[ss][i - 1]))
NotAdvanced(ss, i) == NotAdvancedIn(d, varLen, ss, i)

\* The value of view symbol s once every label is resolved (-1: undefined).
RECURSIVE ValueOf(_)
ValueOf(s) ==
  LET x == d.syms[s]
  IN CASE x.k \in {"const", "zero"} -> 0
       [] x.k = "inc" -> ValueOf(x.prev) + 1
       [] x.k = "mul" -> IF NotAdvanced(x.ss, x.i) THEN ValueOf(x.prev) + 1 ELSE 0
       [] x.k = "undef" -> -1

\* Mutant: any deferred check is taken as failed.
dwarf2dbg_final_check_any(dd, vl) ==
  IF dd.chain /= <<>> THEN [dd EXCEPT !.reports = @ + 1, !.hadErrors = TRUE] ELSE dd

\* dwarf2dbg_final_check: walk view_assert_failed; one diagnostic at most.
dwarf2dbg_final_check(dd, vl) ==
  IF \E c \in Range(dd.chain) : NotAdvancedIn(dd, vl, c.ss, c.i)
  THEN [dd EXCEPT !.reports = @ + 1, !.hadErrors = TRUE] ELSE dd


\* out_file_list: the file table of .debug_line lists the named slots
\* below files_in_use in order; an unnamed one is diagnosed ("unassigned
\* file number") and skipped.  (Its filename is then set to "", which
\* nothing here reads again.)
out_file_list(dd) ==
  LET n     == dd.filesInUse
      slots == [i \in 1..(n - 1) |-> dd.files[i]]
  IN [dd EXCEPT !.fileTable = SelectSeq(slots, LAMBDA x : x /= NoName),
                !.hadErrors = @ \/ (\E i \in 1..(n - 1) : slots[i] = NoName)]

\* dwarf2_finish for an input without .debug_info or .debug_line of its
\* own: nothing when no row was recorded (all_segs is empty), else
\* out_debug_line, whose file table is out_file_list's.
dwarf2_finish(dd) ==
  IF \A ss \in Subsegs : dd.lists[ss] = <<>> THEN dd ELSE out_file_list(dd)

-----------------------------------------------------------------------------
(* The assembler driving the hooks and directives.                         *)

Init ==
  /\ d = [files |-> [i \in Slots |-> NoName], filesInUse |-> 0,
          filesAllocated |-> 0, lastUsed |-> 0,
          debugType |-> IF GDwarf2 THEN "DWARF2" ELSE "NONE",
          cur |-> InitLoc, seen |-> FALSE, markLabels |-> FALSE,
          lastLine |-> -1, lastFile |-> -1,
          lists |-> [ss \in Subsegs |-> <<>>], pmove |-> [ss \in Subsegs |-> 0],
          syms |-> <<>>, asserted |-> {}, force |-> NoSym, chain |-> <<>>, reports |-> 0,
          hadErrors |-> FALSE, fileTable |-> <<>>]
  /\ nowSS = Min(Subsegs)
  /\ fragOf = [ss \in Subsegs |-> 1]
  /\ ofsOf = [ss \in Subsegs |-> 0]
  /\ fixed = [ss \in Subsegs |-> <<>>]
  /\ varLen = [ss \in Subsegs |-> <<>>]
  /\ phase = "assembling"
  /\ ops = 0
  /\ asmInsns = [ss \in Subsegs |-> <<>>]
  /\ srcLine = Min(AsmLines)

Step == phase = "assembling" /\ ops < MaxOps /\ ops' = ops + 1 /\ UNCHANGED <<phase, varLen>>

\* Every step but Insn and Label leaves the source position alone.
NoInsn == UNCHANGED <<asmInsns, srcLine>>

\* `.file N "name"`.
FileDirective ==
  /\ Step /\ NoInsn
  /\ \E num \in FileNums, name \in Names \ {AsmName} :
       d' = dwarf2_directive_filename(d, num, name)
  /\ UNCHANGED <<nowSS, fragOf, ofsOf, fixed>>

\* `.loc FILENO LINENO ...`.
LocDirective ==
  /\ Step /\ NoInsn
  /\ \E f \in LocFiles, l \in LocLines, o \in LocOpts :
       d' = dwarf2_directive_loc(d, Pos, f, l, o)
  /\ UNCHANGED <<nowSS, fragOf, ofsOf, fixed>>

\* `.loc_mark_labels V`.
MarkLabelsDirective ==
  /\ Step /\ NoInsn
  /\ \E v \in {0, 1, 2} : d' = dwarf2_directive_loc_mark_labels(d, v)
  /\ UNCHANGED <<nowSS, fragOf, ofsOf, fixed>>

\* An instruction of SIZE bytes is appended, then dwarf2_emit_insn (SIZE).
\* A target may first pad by DELTA bytes in front of it: it calls
\* dwarf2_move_insn (DELTA) for the rows already emitted for the
\* instruction, then emits the padding and the instruction.
Insn ==
  /\ Step
  /\ \E size \in InsnSizes, delta \in MoveDeltas \cup {0}, line \in {l \in AsmLines : l >= srcLine} :
       LET at   == ofsOf[nowSS] + delta
           ofs2 == at + size
       IN /\ srcLine' = line
          /\ ofsOf' = [ofsOf EXCEPT ![nowSS] = ofs2]
          /\ d' = dwarf2_emit_insn(dwarf2_move_insn(d, Pos, delta),
                                   [Pos EXCEPT !.ofs = ofs2], size, line)
          /\ asmInsns' = IF d.debugType = "DWARF2"
                         THEN [asmInsns EXCEPT ![nowSS] =
                                 Append(@, [frag |-> fragOf[nowSS], ofs |-> at, line |-> line])]
                         ELSE asmInsns
  /\ UNCHANGED <<nowSS, fragOf, fixed>>

\* A label is defined at the current position: dwarf2_emit_label.
Label ==
  /\ Step
  /\ \E line \in {l \in AsmLines : l >= srcLine} :
       srcLine' = line /\ d' = dwarf2_emit_label(d, Pos, line)
  /\ UNCHANGED <<nowSS, fragOf, ofsOf, fixed, asmInsns>>

\* A relaxable instruction closes frag_now with a variable-size frag.
FragBreak ==
  /\ Step /\ NoInsn
  /\ fragOf[nowSS] < MaxFrags
  /\ fixed' = [fixed EXCEPT ![nowSS] = Append(@, ofsOf[nowSS])]
  /\ fragOf' = [fragOf EXCEPT ![nowSS] = @ + 1]
  /\ ofsOf' = [ofsOf EXCEPT ![nowSS] = 0]
  /\ UNCHANGED <<d, nowSS>>

\* `.text N`: switch subsection.
SwitchSubseg ==
  /\ Step /\ NoInsn
  /\ \E ss \in Subsegs \ {nowSS} : nowSS' = ss
  /\ UNCHANGED <<d, fragOf, ofsOf, fixed>>

\* End of assembly: dwarf2_finish writes .debug_line, relaxation fixes the
\* variable sizes, then dwarf2dbg_final_check runs.
Finish ==
  /\ phase = "assembling"
  /\ \E vl \in [Subsegs -> UNION {[1..n -> VarSizes] : n \in 0..MaxFrags}] :
       /\ \A ss \in Subsegs : DOMAIN vl[ss] = 1..Len(fixed[ss])
       /\ varLen' = vl
       /\ d' = dwarf2dbg_final_check(dwarf2_finish(d), vl)
  /\ phase' = "done"
  /\ UNCHANGED <<nowSS, fragOf, ofsOf, fixed, ops, asmInsns, srcLine>>

Next == FileDirective \/ LocDirective \/ MarkLabelsDirective \/ Insn \/ Label
          \/ FragBreak \/ SwitchSubseg \/ Finish

Spec == Init /\ [][Next]_vars

-----------------------------------------------------------------------------
(* Properties.                                                             *)

Entries == UNION {{[ss |-> ss, i |-> i] : i \in 1..Len(d.lists[ss])} : ss \in Subsegs}
E(x) == d.lists[x.ss][x.i]

TypeOK ==
  /\ d.filesInUse \in 0..(2^UIntBits - 1) /\ d.lastUsed \in 0..(2^UIntBits - 1)
  /\ d.files \in [Slots -> Names \cup {NoName}]
  /\ d.debugType \in {"DWARF2", "NONE"} /\ d.seen \in BOOLEAN
  /\ d.cur.flags \subseteq OneShot \cup {"is_stmt"}
  /\ d.cur.view \in 0..Len(d.syms) /\ d.force \in 0..Len(d.syms)
  /\ \A x \in Entries : E(x).loc.view \in 0..Len(d.syms) /\ E(x).frag \in 1..MaxFrags
  /\ d.asserted \subseteq 1..Len(d.syms) /\ d.reports \in Nat /\ d.hadErrors \in BOOLEAN
  /\ nowSS \in Subsegs /\ phase \in {"assembling", "done"}

\* The view number of entry i of subsection ss as the view algebra defines
\* it: 0 for the first entry of the list and for a forced reset (view -0),
\* 0 when the row's address is past the previous row's, else one more than
\* the previous row's view.
RECURSIVE AbsView(_, _)
AbsView(ss, i) ==
  IF i = 1 \/ (d.lists[ss][i].loc.view = d.force /\ d.force /= NoSym) THEN 0
  ELSE IF NotAdvanced(ss, i) THEN AbsView(ss, i - 1) + 1 ELSE 0

\* Once the layout is final, every view symbol that set_or_check_view
\* attached to a row (the compiler's named views and the temporaries it
\* creates for earlier rows, whether it resolved them at assembly time or
\* left them as expressions over labels in different frags) evaluates to
\* the row's view number, unless "view number mismatch" was diagnosed.
ViewNumbersCorrect ==
  phase = "done" /\ d.reports = 0 =>
    \A x \in Entries : E(x).loc.view /= NoSym => ValueOf(E(x).loc.view) = AbsView(x.ss, x.i)

\* "view number mismatch" is diagnosed (at the .loc or in
\* dwarf2dbg_final_check) exactly when some row asserted `view 0` while
\* its address does not advance past the previous row's.
MismatchIffAssertionFails ==
  phase = "done" =>
    ((d.reports > 0) <=>
       \E x \in Entries : x.i > 1 /\ E(x).loc.view \in d.asserted /\ NotAdvanced(x.ss, x.i))

\* (spec 3) A location with file 0 or line 0 is never appended.
NoIncompleteRow ==
  \A x \in Entries : E(x).loc.filenum /= 0 /\ E(x).loc.line /= 0

\* (dwarf2_move_insn's comment: "move all previously-emitted line entries
\* for the current position") A step moves no label other than one at the
\* current position of the current subsection.
MovesOnlyCurrentPosition ==
  [][\A x \in Entries :
       (x.ss /= nowSS \/ E(x).frag /= fragOf[nowSS] \/ E(x).ofs /= ofsOf[nowSS])
         => d'.lists[x.ss][x.i].ofs = E(x).ofs]_vars

\* get_filenum writes files[i] only inside the array XRESIZEVEC last gave
\* it: every slot holding a name is below files_allocated, whatever slot
\* numbers .file asked for and however the array grew before.
FileTableInBounds ==
  \A i \in Slots : d.files[i] /= NoName => i < d.filesAllocated

\* The row in force at position p of subsection ss once get_line_subseg's
\* lists are chained in subsection order: the last row of ss at or before
\* p, else the last row of the nearest earlier subsection with rows.
AtOrBefore(e, p) == e.frag < p.frag \/ (e.frag = p.frag /\ e.ofs <= p.ofs)
RowInForce(ss, p) ==
  LET own     == {i \in 1..Len(d.lists[ss]) : AtOrBefore(d.lists[ss][i], p)}
      earlier == {s \in Subsegs : s < ss /\ d.lists[s] /= <<>>}
  IN IF own /= {} THEN {d.lists[ss][Max(own)]}
     ELSE IF earlier /= {} THEN LET l == d.lists[Max(earlier)] IN {l[Len(l)]} ELSE {}

\* (dwarf2_gen_line_info's comment: only "sequences of line symbols for the
\* same line" are dropped under -g) In the finished line table every
\* instruction assembled under -g lies under a row of its own source line,
\* though the last line and file it remembers may come from another
\* subsection.
AsmLinesAttributed ==
  phase = "done" =>
    \A ss \in Subsegs : \A k \in 1..Len(asmInsns[ss]) :
      \E r \in RowInForce(ss, asmInsns[ss][k]) : r.loc.line = asmInsns[ss][k].line

\* (spec 4.A: a slot is named once; `.file N` for a named slot N is an
\* error) When gas writes an object file, every row's file number picks,
\* in the file table out_file_list wrote, the file that slot named when
\* the row was recorded: no later .file renamed it, and no unnamed slot
\* shifted the table.
FileRowsResolve ==
  phase = "done" /\ ~d.hadErrors =>
    \A x \in Entries : /\ E(x).loc.filenum \in 1..Len(d.fileTable)
                      /\ d.fileTable[E(x).loc.filenum] = E(x).name

=============================================================================
