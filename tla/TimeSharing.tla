---------------------------- MODULE TimeSharing ----------------------------
(***************************************************************************)
(* What processes and terminals promise, without stacks, pages, saved      *)
(* contexts or the statements of a system call: every terminal is a stack  *)
(* of programs, its base shell at the bottom; only the top one runs, and   *)
(* only in its terminal's turn; starting and ending a program is one step  *)
(* of the program whose turn it is.  ProcessControl implements this.       *)
(***************************************************************************)
EXTENDS Integers

CONSTANTS Terminal, Program, None   \* Terminal is 0 .. n - 1

VARIABLES live,    \* the programs that exist
          below,   \* below[p]: the one p runs on top of, or None
          top,     \* top[t]: the program of terminal t that runs, or None
          turn,    \* the terminal whose turn it is, or None
          shown    \* the terminal on the screen, or None

vars == <<live, below, top, turn, shown>>

Init == /\ live = {}
        /\ below = [p \in live |-> None]
        /\ top = [t \in Terminal |-> None]
        /\ turn = None
        /\ shown = None

Push(t, p) ==
    /\ p \in Program \ live
    /\ live' = live \cup {p}
    /\ below' = [q \in live \cup {p} |-> IF q = p THEN top[t] ELSE below[q]]
    /\ top' = [top EXCEPT ![t] = p]

(* The turns go round; the next one starts its terminal's base shell if it *)
(* is the first one of the terminal.                                       *)
Following(t) == turn \in Terminal \cup {None} /\
    t = IF turn # None /\ turn + 1 \in Terminal THEN turn + 1 ELSE 0

Boot(t) == /\ Following(t) /\ top[t] = None
           /\ Push(t, t)
           /\ turn' = t
           /\ shown' = IF shown = None THEN t ELSE shown

Pass(t) == /\ Following(t) /\ top[t] # None
           /\ turn' = t
           /\ UNCHANGED <<live, below, top, shown>>

(* A base shell's pid is never given to another program.                   *)
Start(p) == /\ turn # None
            /\ p \notin Terminal
            /\ Push(turn, p)
            /\ UNCHANGED <<turn, shown>>

(* A base shell never ends.                                                *)
End == /\ turn # None
       /\ below[top[turn]] # None
       /\ live' = live \ {top[turn]}
       /\ below' = [q \in live \ {top[turn]} |-> below[q]]
       /\ top' = [top EXCEPT ![turn] = below[top[turn]]]
       /\ UNCHANGED <<turn, shown>>

Show(t) == /\ top[t] # None
           /\ shown' = t
           /\ UNCHANGED <<live, below, top, turn>>

Next == \/ \E t \in Terminal : Boot(t) \/ Pass(t) \/ Show(t)
        \/ \E p \in Program : Start(p)
        \/ End

Spec == Init /\ [][Next]_vars
=============================================================================
