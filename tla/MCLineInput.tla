---------------------------- MODULE MCLineInput ----------------------------
(***************************************************************************)
(* Instances of LineInput for TLC: the keys that are pressed.              *)
(***************************************************************************)
EXTENDS LineInput

LineKeys == {"enter", "backspace", "alt", "F1", "F2"}
ModifierKeys == {"a", "1", "lshift", "rshift", "ctrl", "alt", "caps",
                 "enter", "backspace"}
============================================================================
