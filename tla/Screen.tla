------------------------------- MODULE Screen -------------------------------
(***************************************************************************)
(* The text output of anirux: putc and clear of lib.c, the terminals'      *)
(* pages and their switch of terminal.c, and the page that vidmap gives to *)
(* programs, which the scheduler remaps (paging.c, scheduler.c).           *)
(*                                                                         *)
(* One character is one step: terminal_write prints several with the       *)
(* interrupts off.  Colours are left out.  A program may write any byte,   *)
(* as cat does of any file: letters, the ends of lines, and backspaces and *)
(* function keys, which the two branches of putc treat differently.        *)
(***************************************************************************)
EXTENDS Integers, Sequences

CONSTANTS NUM_TERMINAL,         \* terminals (3)
          NUM_COLS, NUM_ROWS,   \* the screen (80, 25)
          Letters,              \* what a letter can be
          Glyph,                \* the letters that control characters are drawn as
          Written, Typed,       \* what programs write, and the user
          Lines,                \* what may be in the buffer of the keyboard
          Messages,             \* what the handlers of exceptions print
          Canvas                \* where programs draw; if nowhere, none asks to

Terminals == 0 .. NUM_TERMINAL - 1
Cells == (0 .. NUM_COLS - 1) \X (0 .. NUM_ROWS - 1)
Blank == " "
Newline == "newline"
Return == "return"
Backspace == "backspace"
FKey == "function key"
Controls == {Newline, Return, Backspace, FKey}
Characters == Letters \cup {Blank} \cup Controls

ASSUME SizesAssumption ==
    /\ NUM_TERMINAL \in Nat \ {0}
    /\ NUM_COLS \in Nat /\ NUM_COLS >= 2
    /\ NUM_ROWS \in Nat \ {0}
    /\ (Letters \cup {Blank}) \cap Controls = {}
    /\ Glyph \in [{Backspace, FKey} -> Letters]
    /\ Written \subseteq Characters /\ Typed \subseteq Characters
    /\ Lines \subseteq Seq(Characters) /\ Messages \subseteq Seq(Characters)
    /\ Canvas \subseteq Cells

VARIABLES
    video_mem, screen_x, screen_y,    \* the screen and its cursor (lib.c)
    start_y,                          \* the line where the last '\r' put the cursor
    vidmem, pos_x, pos_y,             \* the pages of the terminals
    flags,                            \* tmnl_block[t].flags is TMNL_RUN
    active_terminal, exec_terminal,
    page_table_2, present,            \* what vidmap's page is, and is it in the directory
    reprint,                          \* what Ctrl+L has still to print
    message                           \* what the handler of an exception has still to print

(* History: the display, or vidmap's page, changed since the last tick.    *)
VARIABLE moved

screenVars == <<video_mem, screen_x, screen_y>>
pageVars == <<vidmem, pos_x, pos_y>>
mapVars == <<page_table_2, present, moved>>
termVars == <<flags, active_terminal, exec_terminal>>
printVars == <<reprint, message>>
vars == <<screenVars, start_y, pageVars, mapVars, termVars, printVars>>

Empty == [c \in Cells |-> Blank]

(* Terminal 0 has been booted by the first tick, at which it was not yet   *)
(* the displayed one (scheduler.c:64, before execute sets it).             *)
Init ==
    /\ video_mem = Empty /\ screen_x = 0 /\ screen_y = 0 /\ start_y = 0
    /\ vidmem = [t \in Terminals |-> Empty]
    /\ pos_x = [t \in Terminals |-> 0] /\ pos_y = [t \in Terminals |-> 0]
    /\ flags = [t \in Terminals |-> t = 0]
    /\ active_terminal = 0 /\ exec_terminal = 0
    /\ page_table_2 = 0 /\ present = FALSE
    /\ moved = TRUE
    /\ reprint = <<>> /\ message = <<>>

-----------------------------------------------------------------------------
(* putc.                                                                   *)

(* The memcpy of the lines, and the loop that blanks the last one.         *)
Scrolled(mem) == [c \in Cells |-> IF c[2] < NUM_ROWS - 1 THEN mem[<<c[1], c[2] + 1>>]
                                  ELSE Blank]

At(mem, x, y) == [mem |-> mem, x |-> x, y |-> y]

(* The branch of the displayed terminal: of what the screen shows.         *)
PutNewline(s) == IF s.y >= NUM_ROWS - 1 THEN At(Scrolled(s.mem), 0, s.y)
                 ELSE At(s.mem, 0, s.y + 1)

PutBackspace_NoCorner(s) ==         \* mutant: no check of the first position
    LET x == (s.x + NUM_COLS - 1) % NUM_COLS
        y == IF x = NUM_COLS - 1 THEN s.y - 1 ELSE s.y IN
    IF s.x = 0 /\ s.y = start_y THEN s ELSE At([s.mem EXCEPT ![<<x, y>>] = Blank], x, y)

PutBackspace(s) ==
    LET x == (s.x + NUM_COLS - 1) % NUM_COLS
        y == IF x = NUM_COLS - 1 THEN s.y - 1 ELSE s.y IN
    IF s.x = 0 /\ s.y \in {0, start_y} THEN s ELSE At([s.mem EXCEPT ![<<x, y>>] = Blank], x, y)

PutLetter(s, c) ==
    LET mem == [s.mem EXCEPT ![<<s.x, s.y>>] = c]
        x == (s.x + 1) % NUM_COLS IN
    IF s.x = NUM_COLS - 1 /\ s.y = NUM_ROWS - 1 THEN At(Scrolled(mem), 0, s.y)
    ELSE At(mem, x, IF x = 0 THEN s.y + 1 ELSE s.y)

Put(s, c) == CASE c \in {Newline, Return} -> PutNewline(s)
               [] c = Backspace           -> PutBackspace(s)
               [] c = FKey                -> s
               [] OTHER                   -> PutLetter(s, c)

(* start_x is never but 0; start_y moves with the text only when a letter  *)
(* scrolls it.  It stays at 0 here when the code lets it fall below: on    *)
(* the first line a backspace stops with or without it.                    *)
StartAfter(s, c) ==
    CASE c = Return /\ s.y < NUM_ROWS - 1 -> s.y + 1
      [] /\ c \notin Controls /\ s.x = NUM_COLS - 1 /\ s.y = NUM_ROWS - 1
         /\ start_y > 0                   -> start_y - 1
      [] OTHER                            -> start_y

(* The other branch, of a terminal's page: pos_x and pos_y are moved to    *)
(* the next line before the letter is written where they were.  All but    *)
(* the ends of lines is drawn.                                             *)
HiddenNewline(s) ==
    At(IF s.y >= NUM_ROWS - 1 THEN Scrolled(s.mem) ELSE s.mem,
       0, IF s.y # NUM_ROWS - 1 THEN s.y + 1 ELSE s.y)

Drawn(c) == IF c \in {Backspace, FKey} THEN Glyph[c] ELSE c

HiddenLetter(s, c) ==
    LET last == s.x = NUM_COLS - 1
        full == last /\ s.y = NUM_ROWS - 1
        mem == IF full THEN Scrolled(s.mem) ELSE s.mem
        x == ((IF last THEN 0 ELSE s.x) + 1) % NUM_COLS
        y == IF last /\ ~full THEN s.y + 1 ELSE s.y IN
    At([mem EXCEPT ![<<s.x, s.y>>] = Drawn(c)], x, IF x = 0 THEN y + 1 ELSE y)

PutHidden(s, c) == IF c \in {Newline, Return} THEN HiddenNewline(s) ELSE HiddenLetter(s, c)

Screen == At(video_mem, screen_x, screen_y)
Page(t) == At(vidmem[t], pos_x[t], pos_y[t])

(* What is shown on the screen; update_cursor keeps the terminal's copy of *)
(* the cursor.                                                             *)
Display(s) ==
    /\ video_mem' = s.mem /\ screen_x' = s.x /\ screen_y' = s.y
    /\ pos_x' = [pos_x EXCEPT ![active_terminal] = s.x]
    /\ pos_y' = [pos_y EXCEPT ![active_terminal] = s.y]
    /\ UNCHANGED vidmem

Putc(c) == Display(Put(Screen, c)) /\ start_y' = StartAfter(Screen, c)

(* What the kernel prints for the program that runs, on its terminal.      *)
WriteVisible(c) ==
    /\ active_terminal = exec_terminal
    /\ Putc(c)
    /\ UNCHANGED <<mapVars, termVars>>

WriteHidden(c) ==
    LET t == exec_terminal
        s == PutHidden(Page(t), c) IN
    /\ active_terminal # t
    /\ vidmem' = [vidmem EXCEPT ![t] = s.mem]
    /\ pos_x' = [pos_x EXCEPT ![t] = s.x] /\ pos_y' = [pos_y EXCEPT ![t] = s.y]
    /\ UNCHANGED <<screenVars, start_y, mapVars, termVars>>

(* terminal_write.                                                         *)
Write(c) == (WriteVisible(c) \/ WriteHidden(c)) /\ UNCHANGED printVars

(* The echo of a key: the handler runs as the displayed terminal.          *)
Echo(c) == Putc(c) /\ UNCHANGED <<mapVars, termVars, printVars>>

(* Ctrl+L: clear, and the buffer of the keyboard is printed again, letter  *)
(* by letter, before the handler returns and anything else happens.        *)
Clear(line) ==
    /\ Display(At(Empty, 0, 0))
    /\ reprint' = line
    /\ UNCHANGED <<start_y, mapVars, termVars, message>>

Reprint ==
    /\ reprint # <<>>
    /\ Putc(Head(reprint))
    /\ reprint' = Tail(reprint)
    /\ UNCHANGED <<mapVars, termVars, message>>

(* An exception of the program that runs, wherever that is displayed: its  *)
(* handler clears the screen and prints what it has to say on the          *)
(* program's terminal, with the interrupts off.                            *)
Fault(text) ==
    /\ Display(At(Empty, 0, 0))
    /\ message' = text
    /\ UNCHANGED <<start_y, mapVars, termVars, reprint>>

Report ==
    /\ message # <<>>
    /\ WriteVisible(Head(message)) \/ WriteHidden(Head(message))
    /\ message' = Tail(message)
    /\ UNCHANGED reprint

-----------------------------------------------------------------------------
(* switch_terminal: save_terminal, restore_terminal.                       *)
Switch_KeepsCursor(t) ==            \* mutant: restore_terminal leaves the cursor
    /\ t # active_terminal /\ flags[t]
    /\ vidmem' = [vidmem EXCEPT ![active_terminal] = video_mem]
    /\ pos_x' = [pos_x EXCEPT ![active_terminal] = screen_x]
    /\ pos_y' = [pos_y EXCEPT ![active_terminal] = screen_y]
    /\ video_mem' = vidmem[t] /\ UNCHANGED <<screen_x, screen_y>>
    /\ active_terminal' = t
    /\ moved' = TRUE
    /\ UNCHANGED <<start_y, flags, exec_terminal, page_table_2, present, printVars>>

Switch(t) ==
    /\ t # active_terminal /\ flags[t]
    /\ vidmem' = [vidmem EXCEPT ![active_terminal] = video_mem]
    /\ pos_x' = [pos_x EXCEPT ![active_terminal] = screen_x]
    /\ pos_y' = [pos_y EXCEPT ![active_terminal] = screen_y]
    /\ video_mem' = vidmem[t] /\ screen_x' = pos_x[t] /\ screen_y' = pos_y[t]
    /\ active_terminal' = t
    /\ moved' = TRUE
    /\ UNCHANGED <<start_y, flags, exec_terminal, page_table_2, present, printVars>>

(* The tick: remap_vidmem, and a terminal that is idle is booted.          *)
Video == -1
Tick_Before ==                      \* mutant: remapped for the terminal that ran
    LET sched_next == (exec_terminal + 1) % NUM_TERMINAL IN
    /\ page_table_2' = IF exec_terminal = active_terminal THEN Video ELSE exec_terminal
    /\ exec_terminal' = sched_next
    /\ flags' = [flags EXCEPT ![sched_next] = TRUE]
    /\ moved' = FALSE
    /\ UNCHANGED <<screenVars, start_y, pageVars, active_terminal, present, printVars>>

Tick ==
    LET sched_next == (exec_terminal + 1) % NUM_TERMINAL IN
    /\ page_table_2' = IF sched_next = active_terminal THEN Video ELSE sched_next
    /\ exec_terminal' = sched_next
    /\ flags' = [flags EXCEPT ![sched_next] = TRUE]
    /\ moved' = FALSE
    /\ UNCHANGED <<screenVars, start_y, pageVars, active_terminal, present, printVars>>

(* vidmap, of the program that runs.  The directory's entry stays, for all *)
(* programs.                                                               *)
Vidmap ==
    /\ Canvas # {}
    /\ page_table_2' = Video /\ present' = TRUE
    /\ moved' = (moved \/ exec_terminal # active_terminal)
    /\ UNCHANGED <<screenVars, start_y, pageVars, termVars, printVars>>

(* A program draws through the directory's entry, whatever page that leads *)
(* to.                                                                     *)
Home(t) == IF t = active_terminal THEN Video ELSE t

Draw(c, letter) ==
    /\ present
    /\ IF page_table_2 = Video
         THEN video_mem' = [video_mem EXCEPT ![c] = letter] /\ UNCHANGED vidmem
         ELSE vidmem' = [vidmem EXCEPT ![page_table_2][c] = letter] /\ UNCHANGED video_mem
    /\ UNCHANGED <<screen_x, screen_y, start_y, pos_x, pos_y, mapVars, termVars, printVars>>

Next ==
    \/ /\ reprint = <<>> /\ message = <<>>
       /\ \/ \E c \in Written : Write(c)
          \/ \E c \in Typed : Echo(c)
          \/ \E line \in Lines : Clear(line)
          \/ \E text \in Messages : Fault(text)
          \/ \E t \in Terminals : Switch(t)
          \/ Tick \/ Vidmap
          \/ \E c \in Canvas, letter \in Letters : Draw(c, letter)
    \/ Reprint
    \/ Report

Spec == Init /\ [][Next]_vars

-----------------------------------------------------------------------------
(* Properties.                                                             *)

(* The types; above all the cursors stay on the screen, whatever is        *)
(* printed, erased and scrolled in whichever branch of putc, so that no    *)
(* letter is written outside of a page (lib.c:253, 330).                   *)
TypeOK ==
    /\ video_mem \in [Cells -> Letters \cup {Blank}]
    /\ vidmem \in [Terminals -> [Cells -> Letters \cup {Blank}]]
    /\ screen_x \in 0 .. NUM_COLS - 1 /\ screen_y \in 0 .. NUM_ROWS - 1
    /\ start_y \in 0 .. NUM_ROWS - 1
    /\ pos_x \in [Terminals -> 0 .. NUM_COLS - 1]
    /\ pos_y \in [Terminals -> 0 .. NUM_ROWS - 1]
    /\ flags \in [Terminals -> BOOLEAN]
    /\ active_terminal \in Terminals /\ exec_terminal \in Terminals
    /\ flags[active_terminal] /\ flags[exec_terminal]
    /\ page_table_2 \in Terminals \cup {Video}
    /\ present \in BOOLEAN /\ moved \in BOOLEAN
    /\ reprint \in Seq(Characters) /\ message \in Seq(Characters)

(* vidmap's page is that of the terminal whose program runs, wherever that *)
(* is displayed, except until the next tick after a switch of the display, *)
(* a vidmap off the display or the boot (scheduler.c:64); until then it is *)
(* that terminal's page off the display, or the screen: never the page of  *)
(* a third.                                                                *)
MapFollows ==
    /\ page_table_2 \in {Video, exec_terminal}
    /\ ~moved => page_table_2 = Home(exec_terminal)

(* Each terminal keeps a page of its own, which the switches, the ticks    *)
(* and what is written on the others leave alone: the two branches of      *)
(* putc, the saved and restored pages and cursors and the page of vidmap   *)
(* implement Pages, which says where they let one terminal touch another.  *)
Shown(t) == IF t = active_terminal THEN Screen ELSE Page(t)
Pages == INSTANCE Pages WITH
    COLS <- NUM_COLS, ROWS <- NUM_ROWS, Erase <- Backspace, Mute <- FKey,
    page <- [t \in Terminals |-> [cells |-> Shown(t).mem, x |-> Shown(t).x, y |-> Shown(t).y]],
    shown <- active_terminal, running <- exec_terminal,
    marked <- start_y > 0, settled <- ~moved
ImplementsPages == Pages!Spec

(* "Move position to new line" (lib.c:317 and 324): after the last column  *)
(* a terminal that is not displayed goes on at the first column of a line. *)
LinesBeginAtStart ==
    [][\A t \in Terminals :
         t # active_terminal /\ t # active_terminal'
           /\ pos_x[t] = NUM_COLS - 1 /\ pos_x'[t] # pos_x[t] => pos_x'[t] = 0]_vars
=============================================================================
