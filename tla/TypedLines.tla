---------------------------- MODULE TypedLines ----------------------------
(***************************************************************************)
(* What the terminals promise to the programs that read them: each has the *)
(* text typed since the last read, which only the keys typed while the     *)
(* terminal is displayed change.  Once a line was ended a read takes all   *)
(* of the text, handing over as much as was asked for and blanks after it. *)
(***************************************************************************)
EXTENDS Integers, Sequences

CONSTANTS Terminals,
          BUF_SIZE,    \* characters a terminal holds (128 in keyboard_handler.h)
          Typable,     \* what keys other than Enter and Backspace type
          Newline,     \* what Enter types
          Blanks       \* what pads the text a read returns

VARIABLES unread,      \* the text typed on each terminal
          ended,       \* the terminals on which a line was ended
          got          \* what a read has just returned

vars == <<unread, ended, got>>

Init ==
    /\ unread = [t \in Terminals |-> <<>>]
    /\ ended = {}
    /\ got = <<>>

(* One place is kept for the newline.                                      *)
Type(t, c) ==
    /\ Len(unread[t]) < BUF_SIZE - 1
    /\ unread' = [unread EXCEPT ![t] = Append(@, c)]
    /\ UNCHANGED ended
    /\ got' = <<>>

End(t) ==
    /\ Len(unread[t]) < BUF_SIZE
    /\ unread' = [unread EXCEPT ![t] = Append(@, Newline)]
    /\ ended' = ended \cup {t}
    /\ got' = <<>>

Erase(t) ==
    /\ unread[t] # <<>>
    /\ unread' = [unread EXCEPT ![t] = SubSeq(@, 1, Len(@) - 1)]
    /\ UNCHANGED ended
    /\ got' = <<>>

(* bytes is the text, cut or padded to the length n asked for.             *)
Answers(bytes, text, n) ==
    /\ Len(bytes) = n
    /\ \A i \in 1 .. n : IF i <= Len(text) THEN bytes[i] = text[i] ELSE bytes[i] \in Blanks

Read(t) ==
    /\ t \in ended
    /\ \E n \in 0 .. BUF_SIZE : Answers(got', unread[t], n)
    /\ unread' = [unread EXCEPT ![t] = <<>>]
    /\ ended' = ended \ {t}

(* What a read returned is past.                                           *)
Past == got' = <<>> /\ UNCHANGED <<unread, ended>>

Next == \/ Past
        \/ \E t \in Terminals : End(t) \/ Erase(t) \/ Read(t) \/ \E c \in Typable : Type(t, c)

Spec == Init /\ [][Next]_vars
===========================================================================
