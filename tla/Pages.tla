------------------------------- MODULE Pages -------------------------------
(***************************************************************************)
(* What the terminals promise to what is written on them: each has a page  *)
(* of text of its own, that fills from left to right and line by line and  *)
(* scrolls when it is full.  The program that runs writes on the page of   *)
(* its terminal, the user on the one that is shown, and which is shown,    *)
(* and when that changes, makes no difference to what a page holds, but    *)
(* that                                                                    *)
(*   - out of sight control characters are drawn, and a letter in the last *)
(*     column takes the cursor to the second position of the next line;    *)
(*   - an erasure stops at the end of a line only after a carriage return  *)
(*     was seen;                                                           *)
(*   - until the next turn of a program, drawings may go to the page that  *)
(*     is shown;                                                           *)
(*   - a fault, of whichever program, clears the page that is shown.       *)
(***************************************************************************)
EXTENDS Integers

CONSTANTS Terminals,
          COLS, ROWS,     \* the size of a page
          Letters, Blank,
          Newline, Return, Erase,
          Mute,           \* a character that shows nothing
          Glyph           \* what Erase and Mute are drawn as

VARIABLES page,           \* terminal -> [cells, x, y]
          shown, running, \* the terminal displayed, the one whose program runs
          marked,         \* an erasure may stop where a carriage return was seen
          settled         \* drawings go to the page of the program that runs

vars == <<page, shown, running, marked, settled>>

Characters == Letters \cup {Blank, Newline, Return, Erase, Mute}
Cells == (0 .. COLS - 1) \X (0 .. ROWS - 1)
Empty == [c \in Cells |-> Blank]

Init == /\ page = [t \in Terminals |-> [cells |-> Empty, x |-> 0, y |-> 0]]
        /\ shown \in Terminals
        /\ running \in Terminals
        /\ ~marked /\ ~settled

Below(c) == <<c[1], c[2] + 1>>

NextLine(p) ==
    IF p.y < ROWS - 1 THEN [p EXCEPT !.x = 0, !.y = @ + 1]
    ELSE [p EXCEPT !.x = 0, !.cells = [c \in Cells |-> IF Below(c) \in Cells THEN @[Below(c)]
                                                       ELSE Blank]]

Advanced(p) == IF p.x < COLS - 1 THEN [p EXCEPT !.x = @ + 1] ELSE NextLine(p)

Erased(p) ==
    LET back(x, y) == [p EXCEPT !.x = x, !.y = y, !.cells[<<x, y>>] = Blank] IN
    IF p.x > 0 THEN back(p.x - 1, p.y)
    ELSE IF p.y > 0 THEN back(COLS - 1, p.y - 1)
    ELSE p

(* What a character makes of a page in sight, and of one out of sight.     *)
Printed(p, c) ==
    CASE c \in {Newline, Return} -> NextLine(p)
      [] c = Erase               -> Erased(p)
      [] c = Mute                -> p
      [] OTHER                   -> Advanced([p EXCEPT !.cells[<<p.x, p.y>>] = c])

Picture(c) == IF c \in {Erase, Mute} THEN Glyph[c] ELSE c

Behind(p, c) ==
    IF c \in {Newline, Return} THEN NextLine(p)
    ELSE IF p.x < COLS - 1 THEN Advanced([p EXCEPT !.cells[<<p.x, p.y>>] = Picture(c)])
    ELSE LET q == NextLine(p) IN
         [cells |-> [q.cells EXCEPT ![<<p.x, p.y>>] = Picture(c)], x |-> 1, y |-> q.y]

OnShown(c) ==
    /\ UNCHANGED <<shown, running, settled>>
    /\ marked' => marked \/ c = Return
    /\ \/ page' = [page EXCEPT ![shown] = Printed(@, c)]
       \/ c = Erase /\ marked /\ page[shown].x = 0 /\ page' = page

OutOfSight(c) ==
    /\ UNCHANGED <<shown, running, marked, settled>>
    /\ page' = [page EXCEPT ![running] = Behind(@, c)]

User(c) == OnShown(c)
Program(c) == IF running = shown THEN OnShown(c) ELSE OutOfSight(c)

(* By the user, or by a fault.                                             *)
Clear ==
    /\ UNCHANGED <<shown, running, marked, settled>>
    /\ page' = [page EXCEPT ![shown] = [cells |-> Empty, x |-> 0, y |-> 0]]

(* A program draws where it likes, on its own page once that is settled.   *)
Paint(c, letter) ==
    /\ UNCHANGED <<shown, running, marked, settled>>
    /\ \/ page' = [page EXCEPT ![running].cells[c] = letter]
       \/ ~settled /\ page' = [page EXCEPT ![shown].cells[c] = letter]

(* A program asks for the screen.                                          *)
Open == (settled' => settled) /\ UNCHANGED <<page, shown, running, marked>>

Show(t) == shown' = t /\ ~settled' /\ UNCHANGED <<page, running, marked>>
Run(t) == running' = t /\ settled' /\ UNCHANGED <<page, shown, marked>>

Next == \/ \E t \in Terminals : Show(t) \/ Run(t)
        \/ \E c \in Characters : Program(c) \/ User(c)
        \/ \E c \in Cells, letter \in Letters : Paint(c, letter)
        \/ Clear
        \/ Open

Spec == Init /\ [][Next]_vars
=============================================================================
