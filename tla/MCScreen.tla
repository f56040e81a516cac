------------------------------ MODULE MCScreen ------------------------------
(***************************************************************************)
(* An instance of Screen for TLC.  Programs and the user write every kind  *)
(* of character; the buffer of the keyboard is empty, or has a letter and  *)
(* the blank that an erased one leaves.                                    *)
(***************************************************************************)
EXTENDS Screen

MCGlyph == [c \in {Backspace, FKey} |-> "a"]
MCWritten == {"a"} \cup Controls
MCTyped == {"a", Newline, Backspace, FKey}
MCLines == {<<>>, <<"a", " ">>}
MCMessages == {<<"a", Newline>>}
MCCanvas == {<<0, 0>>}
=============================================================================
