---------------------------- MODULE CommandLine ----------------------------
(***************************************************************************)
(* What becomes of a typed line on its way to a program: the shell's read  *)
(* of it, parse_cmd and the test for exit of execute, and getargs.  The    *)
(* buffers of the terminal and the shell are sequences of characters; a    *)
(* PCB's argument is what stands in it before the first NUL.               *)
(***************************************************************************)
EXTENDS Naturals, Sequences

CONSTANTS BUF_SIZE,     \* characters a terminal holds (128)
          Characters,   \* what may be typed or stand in a buffer
          Exit          \* the letters of exit

Blank == " "
Newline == "newline"
Nul == "nul"

ASSUME CommandLineAssumption ==
    BUF_SIZE \in Nat \ {0} /\ {Blank, Newline, Nul} \subseteq Characters /\ Exit # <<>>

Garbage == <<"garbage">>        \* an argument nobody has set

(* The first place from i on that holds one of, or none of, the characters.*)
First(s, i, Stops(_)) == CHOOSE k \in i .. Len(s) : Stops(s[k]) /\ \A j \in i .. k - 1 : ~Stops(s[j])
SkipBlanks(s, i) == First(s, i, LAMBDA c : c # Blank)
Upto(s, i, ends) == First(s, i, LAMBDA c : c \in ends)

CString(s) == SubSeq(s, 1, Upto(Append(s, Nul), 1, {Nul}) - 1)

Padded(line) == [i \in 1 .. BUF_SIZE |-> IF i <= Len(line) THEN line[i] ELSE Nul]

(* A read gives BUF_SIZE characters; the shell ends them with a NUL, in    *)
(* place of the newline only if that is the last of them.                  *)
ShellLine(line) ==
    LET read == Padded(line)
    IN  IF read[BUF_SIZE] = Newline THEN [read EXCEPT ![BUF_SIZE] = Nul] \o <<Nul>>
        ELSE read \o <<Nul>>

(* The argument starts where the blanks after the name do.                 *)
parse_cmd_BlanksKept(command, old) ==
    LET start == SkipBlanks(command, 1)
        i == Upto(command, start, {Nul, Newline, Blank})
    IN  [name |-> SubSeq(command, start, i - 1),
         argument |-> CASE command[SkipBlanks(command, i)] = Nul -> old
                        [] command[i] = Newline -> <<>>
                        [] OTHER -> CString(SubSeq(command, i, BUF_SIZE))]

(* The name and the argument that stays in the PCB.  The loop that copies  *)
(* the argument looks at the character behind the name again and again: at *)
(* a blank it goes on, past newline and NUL, to the end of the buffer.     *)
(* Where the command ends in NUL the PCB keeps what it has.                *)
parse_cmd(command, old) ==
    LET start == SkipBlanks(command, 1)
        i == Upto(command, start, {Nul, Newline, Blank})
        arg_start == SkipBlanks(command, i)
    IN  [name |-> SubSeq(command, start, i - 1),
         argument |-> CASE command[arg_start] = Nul -> old
                        [] command[i] = Newline -> <<>>
                        [] OTHER -> CString(SubSeq(command, arg_start, BUF_SIZE))]

IsExit(name) == Len(name) >= Len(Exit) /\ SubSeq(name, 1, Len(Exit)) = Exit

(* What getargs gives, and that it fails, of the parent's argument.        *)
NoArgs(argument) == argument = <<>>
getargs(argument) == SubSeq(argument, 1, Upto(Append(argument, Newline), 1, {Newline}) - 1)

-----------------------------------------------------------------------------
(* What a terminal gives to a read once a line was ended.                  *)
TypedLine(line) ==
    /\ line \in Seq(Characters) /\ Len(line) \in 1 .. BUF_SIZE
    /\ line[Len(line)] = Newline
    /\ \A i \in 1 .. Len(line) - 1 : line[i] \notin {Newline, Nul}

(* What a line says, read as a user would: a first word, and as argument   *)
(* the rest of the line from its next word on.                             *)
Without(s, n) == SubSeq(s, n + 1, Len(s))
Trimmed(s) ==
    LET blanks == {n \in 0 .. Len(s) : \A i \in 1 .. n : s[i] = Blank}
    IN  Without(s, CHOOSE n \in blanks : \A m \in blanks : m <= n)
Says(line) ==
    LET text == Trimmed(SubSeq(line, 1, Len(line) - 1))
        words == {n \in 0 .. Len(text) : \A i \in 1 .. n : text[i] # Blank}
        size == CHOOSE n \in words : \A m \in words : m <= n
    IN  [word |-> SubSeq(text, 1, size), argument |-> Trimmed(Without(text, size))]
=============================================================================
