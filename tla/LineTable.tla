------------------------------ MODULE LineTable ------------------------------
(***************************************************************************)
(* What the .debug_line program of one code segment promises a consumer,  *)
(* stated without opcodes: the line entries arrive one at a time, each     *)
(* asks for one row, and the program holds exactly the rows asked for, in  *)
(* the order asked, at addresses that never go backwards; once the entries *)
(* run out, one end_sequence row closes the sequence at or past the last   *)
(* row's address and nothing follows it.                                   *)
(*                                                                         *)
(* `table` is the rows asked for, `emitted` the rows a consumer decodes    *)
(* from what has been written so far, `ended` whether the sequence is      *)
(* closed.                                                                 *)
(***************************************************************************)
EXTENDS Integers, Sequences

CONSTANTS
  Rows,    \* the rows a line entry may ask for (end = FALSE)
  Addrs    \* the addresses a segment may end at

VARIABLES table, emitted, ended, segEnd

vars == <<table, emitted, ended, segEnd>>

LastOf(s) == s[Len(s)]

\* The end_sequence row: the registers of the last row, the one-shot
\* registers cleared, at address a.
EndRow(r, a) == [r EXCEPT !.addr = a, !.end = TRUE, !.basic_block = FALSE,
                          !.prologue_end = FALSE, !.epilogue_begin = FALSE,
                          !.discriminator = 0]

Init == table = <<>> /\ emitted = <<>> /\ ended = FALSE /\ segEnd \in Addrs

\* One more row is asked for and appears in the program.
AddRow ==
  /\ ~ended
  /\ Len(table') = Len(table) + 1
  /\ SubSeq(table', 1, Len(table)) = table
  /\ LastOf(table') \in Rows
  /\ table = <<>> \/ LastOf(table').addr >= LastOf(table).addr
  /\ LastOf(table').addr <= segEnd
  /\ emitted' = Append(emitted, LastOf(table'))
  /\ UNCHANGED <<ended, segEnd>>

\* The sequence is closed.
EndSequence ==
  /\ ~ended
  /\ table /= <<>>
  /\ emitted' = Append(emitted, EndRow(LastOf(emitted), segEnd))
  /\ ended' = TRUE
  /\ UNCHANGED <<table, segEnd>>

Next == AddRow \/ EndSequence

Spec == Init /\ [][Next]_vars

=============================================================================
