---------------------------- MODULE MC_DwarfLoc ----------------------------
(* Small instances of DwarfLoc for TLC.                                    *)
EXTENDS DwarfLoc

\* .loc sub-directive lists: none; each form of `view`; a rejected numeric
\* view; is_stmt 0; and two lists that fail after an accepted option.
MC_LocOpts ==
  { <<>>,
    <<[op |-> "view", v |-> "0"]>>,
    <<[op |-> "view", v |-> "-0"]>>,
    <<[op |-> "view", v |-> "name"]>>,
    <<[op |-> "view", v |-> "1"]>>,
    <<[op |-> "is_stmt", v |-> 0]>>,
    <<[op |-> "prologue_end", v |-> 0], [op |-> "isa", v |-> -1]>>,
    <<[op |-> "view", v |-> "name"], [op |-> "bogus", v |-> 0]>> }

\* Only the view forms, for the view-algebra runs.
MC_ViewOpts ==
  { <<>>,
    <<[op |-> "view", v |-> "0"]>>,
    <<[op |-> "view", v |-> "-0"]>>,
    <<[op |-> "view", v |-> "name"]>> }

MC_Subsegs == {0, 1}
=============================================================================
