---------------------------- MODULE MCTextRules ----------------------------
(***************************************************************************)
(* One character of each class the rules tell apart: "a" and "1" in the    *)
(* names of schemes, "!" in tokens only; a tab is space and control, a     *)
(* no-break space is a space outside ASCII, "x" a letter outside ASCII.    *)
(***************************************************************************)
EXTENDS TextRules

MCChars == {"a", "1", "!", ":", "#", "/", ";", " ", "tab", "nbsp", "nul", "x"}
MCSingleNames == {<<"a", "/", "a">>}
MCBatchNames == {<<"a", "/", "1">>}
=============================================================================
