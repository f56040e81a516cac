--------------------------- MODULE Screen_proofs ---------------------------
(***************************************************************************)
(* The cursors stay on the screen, and Screen implements Pages, for any    *)
(* size of the screen and any number of terminals.                         *)
(***************************************************************************)
EXTENDS Screen, TLAPS

(* The % of putc wraps a column once.                                      *)
LEMMA Wrapped ==
  ASSUME NEW n \in Nat \ {0}, NEW a \in Nat, a < 2 * n
  PROVE  a % n = IF a < n THEN a ELSE a - n
  BY SMTT(30)

Cols == 0 .. NUM_COLS - 1
Rows == 0 .. NUM_ROWS - 1
Pictures == [Cells -> Letters \cup {Blank}]
Screens == [mem : Pictures, x : Cols, y : Rows]

LEMMA Sizes == NUM_COLS \in Nat /\ NUM_COLS >= 2 /\ NUM_ROWS \in Nat \ {0}
               /\ NUM_TERMINAL \in Nat \ {0}
  BY SizesAssumption

(* The characters are of five kinds.                                       *)
LEMMA Kinds ==
  ASSUME NEW c \in Characters
  PROVE  /\ \/ c \in {Newline, Return}
            \/ c = Backspace
            \/ c = FKey
            \/ c \in Letters \cup {Blank} /\ c \notin Controls
         /\ c \notin {Newline, Return} => Drawn(c) \in Letters \cup {Blank}
<1>1. Drawn(Backspace) \in Letters /\ Drawn(FKey) \in Letters
  BY SizesAssumption DEF Drawn
<1>2. ASSUME c \notin Controls PROVE Drawn(c) = c
  BY <1>2 DEF Drawn, Controls
<1>3. c \in Controls \/ c \in Letters \cup {Blank}
  BY DEF Characters
<1> QED
  BY <1>1, <1>2, <1>3, SizesAssumption DEF Controls

LEMMA Kept ==
  ASSUME NEW mem \in Pictures, NEW x \in Cols, NEW y \in Rows
  PROVE  /\ At(mem, x, y) \in Screens
         /\ At(mem, x, y).mem = mem /\ At(mem, x, y).x = x /\ At(mem, x, y).y = y
  BY DEF At, Screens

LEMMA ScrolledType ==
  ASSUME NEW mem \in Pictures
  PROVE  Scrolled(mem) \in Pictures
<1>1. ASSUME NEW c \in Cells, c[2] < NUM_ROWS - 1
      PROVE  <<c[1], c[2] + 1>> \in Cells
  BY <1>1, Sizes DEF Cells
<1> QED
  BY <1>1 DEF Scrolled, Pictures

(* The positions putc moves to.                                            *)
LEMMA Columns ==
  ASSUME NEW x \in Cols
  PROVE  /\ (x + 1) % NUM_COLS = IF x = NUM_COLS - 1 THEN 0 ELSE x + 1
         /\ (x + NUM_COLS - 1) % NUM_COLS = IF x = 0 THEN NUM_COLS - 1 ELSE x - 1
<1>1. x \in Nat /\ x < NUM_COLS /\ NUM_COLS \in Nat \ {0}
  BY Sizes DEF Cols
<1> DEFINE right == x + 1
           left == x + NUM_COLS - 1
<1>2. right \in Nat /\ right < 2 * NUM_COLS /\ left \in Nat /\ left < 2 * NUM_COLS
  BY <1>1, Sizes
<1> HIDE DEF right, left
<1>3. right % NUM_COLS = IF right < NUM_COLS THEN right ELSE right - NUM_COLS
  BY <1>1, <1>2, Wrapped
<1>4. left % NUM_COLS = IF left < NUM_COLS THEN left ELSE left - NUM_COLS
  BY <1>1, <1>2, Wrapped
<1>5. right % NUM_COLS = IF x = NUM_COLS - 1 THEN 0 ELSE x + 1
  <2>1. (IF right < NUM_COLS THEN right ELSE right - NUM_COLS)
          = IF x = NUM_COLS - 1 THEN 0 ELSE x + 1
    BY <1>1 DEF right
  <2> QED
    BY <1>3, <2>1
<1>6. left % NUM_COLS = IF x = 0 THEN NUM_COLS - 1 ELSE x - 1
  <2>1. (IF left < NUM_COLS THEN left ELSE left - NUM_COLS)
          = IF x = 0 THEN NUM_COLS - 1 ELSE x - 1
    BY <1>1 DEF left
  <2> QED
    BY <1>4, <2>1
<1> QED
  BY <1>5, <1>6 DEF right, left

(* putc, on the screen, leaves a screen: and it is what Pages prints.      *)
PageOf(s) == [cells |-> s.mem, x |-> s.x, y |-> s.y]

LEMMA NewlinePut ==
  ASSUME NEW s \in Screens
  PROVE  /\ PutNewline(s) \in Screens
         /\ PageOf(PutNewline(s)) = Pages!NextLine(PageOf(s))
<1>1. s.mem \in Pictures /\ s.x \in Cols /\ s.y \in Rows /\ 0 \in Cols
  BY Sizes DEF Screens, Cols
<1>2. CASE s.y >= NUM_ROWS - 1
  <2>1. PutNewline(s) = At(Scrolled(s.mem), 0, s.y) /\ ~(s.y < NUM_ROWS - 1)
    BY <1>1, <1>2, Sizes DEF PutNewline, Rows
  <2>2. Scrolled(s.mem) = [c \in Cells |-> IF Pages!Below(c) \in Cells THEN s.mem[Pages!Below(c)]
                                           ELSE Blank]
    <3>1. \A c \in Cells : Pages!Below(c) = <<c[1], c[2] + 1>>
                             /\ (Pages!Below(c) \in Cells <=> c[2] < NUM_ROWS - 1)
      BY Sizes DEF Cells, Pages!Below
    <3> QED
      BY <3>1 DEF Scrolled
  <2>3. Pages!NextLine(PageOf(s)) = [cells |-> Scrolled(s.mem), x |-> 0, y |-> s.y]
    BY <2>1, <2>2 DEF Pages!NextLine, PageOf, Pages!Cells, Cells
  <2> QED
    BY <1>1, <2>1, <2>3, Kept, ScrolledType DEF PageOf
<1>3. CASE ~(s.y >= NUM_ROWS - 1)
  <2>1. PutNewline(s) = At(s.mem, 0, s.y + 1) /\ s.y < NUM_ROWS - 1 /\ s.y + 1 \in Rows
    BY <1>1, <1>3, Sizes DEF PutNewline, Rows
  <2>2. Pages!NextLine(PageOf(s)) = [cells |-> s.mem, x |-> 0, y |-> s.y + 1]
    BY <2>1 DEF Pages!NextLine, PageOf
  <2> QED
    BY <1>1, <2>1, <2>2, Kept DEF PageOf
<1> QED
  BY <1>2, <1>3

LEMMA BackspacePut ==
  ASSUME NEW s \in Screens, start_y \in Rows
  PROVE  /\ PutBackspace(s) \in Screens
         /\ \/ PageOf(PutBackspace(s)) = Pages!Erased(PageOf(s))
            \/ start_y > 0 /\ s.x = 0 /\ PutBackspace(s) = s
<1>1. s.mem \in Pictures /\ s.x \in Cols /\ s.y \in Rows /\ NUM_COLS - 1 \in Cols
  BY Sizes DEF Screens, Cols
<1>2. ASSUME NEW x \in Cols, NEW y \in Rows
      PROVE  [s.mem EXCEPT ![<<x, y>>] = Blank] \in Pictures
  BY <1>1 DEF Pictures
<1>a. CASE s.x = 0 /\ s.y = start_y /\ s.y > 0
  BY <1>a DEF PutBackspace
<1>3. CASE s.x = 0 /\ s.y = 0
  <2>1. PutBackspace(s) = s
    BY <1>3 DEF PutBackspace
  <2>2. Pages!Erased(PageOf(s)) = PageOf(s)
    BY <1>3 DEF Pages!Erased, PageOf
  <2> QED
    BY <2>1, <2>2
<1>4. CASE s.x > 0
  <2>1. /\ s.x - 1 \in Cols /\ s.x - 1 # NUM_COLS - 1 /\ s.x # 0
        /\ (s.x + NUM_COLS - 1) % NUM_COLS = s.x - 1
    BY <1>1, <1>4, Columns DEF Cols
  <2>2. PutBackspace(s) = At([s.mem EXCEPT ![<<s.x - 1, s.y>>] = Blank], s.x - 1, s.y)
    BY <2>1 DEF PutBackspace
  <2>3. Pages!Erased(PageOf(s))
          = [cells |-> [s.mem EXCEPT ![<<s.x - 1, s.y>>] = Blank], x |-> s.x - 1, y |-> s.y]
    BY <1>4 DEF Pages!Erased, PageOf
  <2> QED
    BY <1>1, <1>2, <2>1, <2>2, <2>3, Kept DEF PageOf
<1>5. CASE s.x = 0 /\ s.y > 0 /\ s.y # start_y
  <2>1. s.y - 1 \in Rows /\ s.y \notin {0, start_y} /\ (s.x + NUM_COLS - 1) % NUM_COLS = NUM_COLS - 1
    <3>1. (s.x + NUM_COLS - 1) % NUM_COLS = IF s.x = 0 THEN NUM_COLS - 1 ELSE s.x - 1
      BY <1>1, Columns
    <3>2. s.x = 0 /\ s.y - 1 \in Rows /\ s.y \notin {0, start_y}
      BY <1>1, <1>5, Sizes DEF Rows
    <3> QED
      BY <3>1, <3>2, Zenon
  <2>2. PutBackspace(s)
          = At([s.mem EXCEPT ![<<NUM_COLS - 1, s.y - 1>>] = Blank], NUM_COLS - 1, s.y - 1)
    BY <2>1 DEF PutBackspace
  <2>3. Pages!Erased(PageOf(s))
          = [cells |-> [s.mem EXCEPT ![<<NUM_COLS - 1, s.y - 1>>] = Blank],
             x |-> NUM_COLS - 1, y |-> s.y - 1]
    <3>1. ~(s.x > 0) /\ s.y > 0
      BY <1>5
    <3> QED
      BY <3>1 DEF Pages!Erased, PageOf
  <2> QED
    BY <1>1, <1>2, <2>1, <2>2, <2>3, Kept DEF PageOf
<1> QED
  BY <1>1, <1>a, <1>3, <1>4, <1>5 DEF Cols, Rows

LEMMA LetterPut ==
  ASSUME NEW s \in Screens, NEW c \in Letters \cup {Blank}
  PROVE  /\ PutLetter(s, c) \in Screens
         /\ PageOf(PutLetter(s, c)) = Pages!Advanced([PageOf(s) EXCEPT !.cells[<<s.x, s.y>>] = c])
<1> DEFINE mem == [s.mem EXCEPT ![<<s.x, s.y>>] = c]
           w == At(mem, s.x, s.y)
<1>1. s.mem \in Pictures /\ s.x \in Cols /\ s.y \in Rows /\ 0 \in Cols
  BY Sizes DEF Screens, Cols
<1>2. mem \in Pictures
  BY <1>1 DEF Pictures
<1>3. w \in Screens /\ PageOf(w) = [PageOf(s) EXCEPT !.cells[<<s.x, s.y>>] = c]
        /\ w.mem = mem /\ w.x = s.x /\ w.y = s.y
  BY <1>1, <1>2, Kept DEF PageOf
<1> HIDE DEF w
<1>4. CASE s.x < NUM_COLS - 1
  <2>1. (s.x + 1) % NUM_COLS = s.x + 1 /\ s.x + 1 \in Cols /\ s.x + 1 # 0 /\ s.x # NUM_COLS - 1
    <3>1. (s.x + 1) % NUM_COLS = IF s.x = NUM_COLS - 1 THEN 0 ELSE s.x + 1
      BY <1>1, Columns
    <3>2. s.x # NUM_COLS - 1 /\ s.x + 1 \in Cols /\ s.x + 1 # 0
      BY <1>1, <1>4, Sizes DEF Cols
    <3> QED
      BY <3>1, <3>2, Zenon
  <2>2. PutLetter(s, c) = At(mem, s.x + 1, s.y)
    BY <2>1 DEF PutLetter
  <2>3. Pages!Advanced(PageOf(w)) = [cells |-> mem, x |-> s.x + 1, y |-> s.y]
    BY <1>3, <1>4 DEF Pages!Advanced, PageOf
  <2> QED
    BY <1>1, <1>2, <1>3, <2>1, <2>2, <2>3, Kept DEF PageOf
<1>5. CASE ~(s.x < NUM_COLS - 1)
  <2>1. s.x = NUM_COLS - 1 /\ (s.x + 1) % NUM_COLS = 0
    <3>1. (s.x + 1) % NUM_COLS = IF s.x = NUM_COLS - 1 THEN 0 ELSE s.x + 1
      BY <1>1, Columns
    <3>2. s.x = NUM_COLS - 1
      BY <1>1, <1>5, Sizes DEF Cols
    <3> QED
      BY <3>1, <3>2, Zenon
  <2>2. PutLetter(s, c) = PutNewline(w)
    <3>1. CASE s.y = NUM_ROWS - 1
      BY <1>1, <1>3, <2>1, <3>1 DEF PutLetter, PutNewline, Rows
    <3>2. CASE s.y # NUM_ROWS - 1
      <4>1. ~(s.y >= NUM_ROWS - 1)
        BY <1>1, <3>2, Sizes DEF Rows
      <4> QED
        BY <1>3, <2>1, <3>2, <4>1 DEF PutLetter, PutNewline
    <3> QED
      BY <3>1, <3>2
  <2>3. Pages!Advanced(PageOf(w)) = Pages!NextLine(PageOf(w))
    BY <1>3, <1>5 DEF Pages!Advanced, PageOf
  <2> QED
    BY <1>3, <2>2, <2>3, NewlinePut
<1> QED
  BY <1>4, <1>5

(* What is printed on the screen.                                          *)
LEMMA PutPrints ==
  ASSUME NEW s \in Screens, NEW c \in Characters, start_y \in Rows
  PROVE  /\ Put(s, c) \in Screens
         /\ \/ PageOf(Put(s, c)) = Pages!Printed(PageOf(s), c)
            \/ c = Backspace /\ start_y > 0 /\ s.x = 0 /\ Put(s, c) = s
<1> USE DEF Newline, Return, Backspace, FKey
<1>1. CASE c \in {Newline, Return}
  BY <1>1, NewlinePut DEF Put, Pages!Printed
<1>2. CASE c = Backspace
  BY <1>2, BackspacePut DEF Put, Pages!Printed
<1>3. CASE c = FKey
  BY <1>3 DEF Put, Pages!Printed
<1>4. CASE c \in Letters \cup {Blank} /\ c \notin Controls
  <2>1. Put(s, c) = PutLetter(s, c)
    BY <1>4 DEF Put, Controls
  <2>2. Pages!Printed(PageOf(s), c) = Pages!Advanced([PageOf(s) EXCEPT !.cells[<<s.x, s.y>>] = c])
    BY <1>4 DEF Pages!Printed, PageOf, Controls
  <2> QED
    BY <1>4, <2>1, <2>2, LetterPut
<1> QED
  BY <1>1, <1>2, <1>3, <1>4, Kinds

(* The mark of a carriage return stays on the screen, and only a carriage  *)
(* return sets one.                                                        *)
LEMMA MarkKept ==
  ASSUME NEW s \in Screens, NEW c \in Characters, start_y \in Rows
  PROVE  /\ StartAfter(s, c) \in Rows
         /\ StartAfter(s, c) > 0 => start_y > 0 \/ c = Return
<1>1. s.y \in Rows
  BY DEF Screens
<1>2. CASE c = Return /\ s.y < NUM_ROWS - 1
  BY <1>1, <1>2, Sizes DEF StartAfter, Rows
<1>3. CASE ~(c = Return /\ s.y < NUM_ROWS - 1)
  <2>1. (StartAfter(s, c) = start_y - 1 /\ start_y > 0) \/ StartAfter(s, c) = start_y
    BY <1>3 DEF StartAfter
  <2> QED
    BY <2>1, Sizes DEF Rows
<1> QED
  BY <1>2, <1>3

(* What is printed on a page that is not displayed.                        *)
LEMMA HiddenPut ==
  ASSUME NEW s \in Screens, NEW c \in Characters
  PROVE  /\ PutHidden(s, c) \in Screens
         /\ PageOf(PutHidden(s, c)) = Pages!Behind(PageOf(s), c)
<1>1. s.mem \in Pictures /\ s.x \in Cols /\ s.y \in Rows /\ 0 \in Cols
  BY Sizes DEF Screens, Cols
<1>2. s.y >= NUM_ROWS - 1 <=> s.y = NUM_ROWS - 1
  BY <1>1, Sizes DEF Rows
<1>3. CASE c \in {Newline, Return}
  <2>1. HiddenNewline(s) = PutNewline(s)
    BY <1>2 DEF HiddenNewline, PutNewline
  <2> QED
    BY <1>3, <2>1, NewlinePut DEF PutHidden, Pages!Behind
<1> DEFINE d == Drawn(c)
<1>4. CASE c \notin {Newline, Return} /\ s.x # NUM_COLS - 1
  <2>1. (s.x + 1) % NUM_COLS # 0
    <3>1. (s.x + 1) % NUM_COLS = IF s.x = NUM_COLS - 1 THEN 0 ELSE s.x + 1
      BY <1>1, Columns
    <3>2. s.x + 1 # 0
      BY <1>1 DEF Cols
    <3> QED
      BY <1>4, <3>1, <3>2, Zenon
  <2>2. HiddenLetter(s, c) = At([s.mem EXCEPT ![<<s.x, s.y>>] = d], (s.x + 1) % NUM_COLS, s.y)
    BY <1>4, <2>1, Zenon DEF HiddenLetter
  <2>3. PutLetter(s, d) = At([s.mem EXCEPT ![<<s.x, s.y>>] = d], (s.x + 1) % NUM_COLS, s.y)
    BY <1>4, <2>1, Zenon DEF PutLetter
  <2>4. PutHidden(s, c) = PutLetter(s, d)
    BY <1>4, <2>2, <2>3 DEF PutHidden
  <2>5. d \in Letters \cup {Blank}
    BY <1>4, Kinds
  <2>6. PageOf(s).x < NUM_COLS - 1 /\ d = Pages!Picture(c)
    BY <1>1, <1>4, Sizes DEF PageOf, Cols, Pages!Picture, Drawn
  <2>7. Pages!Behind(PageOf(s), c)
          = Pages!Advanced([PageOf(s) EXCEPT !.cells[<<s.x, s.y>>] = d])
    BY <1>4, <2>6 DEF Pages!Behind, PageOf
  <2> HIDE DEF d
  <2> QED
    BY <2>4, <2>5, <2>7, LetterPut
<1>5. CASE c \notin {Newline, Return} /\ s.x = NUM_COLS - 1
  <2> DEFINE mem == IF s.y = NUM_ROWS - 1 THEN Scrolled(s.mem) ELSE s.mem
             y == IF s.y = NUM_ROWS - 1 THEN s.y ELSE s.y + 1
  <2>1. (0 + 1) % NUM_COLS = 1 /\ 1 \in Cols
    <3>1. (0 + 1) % NUM_COLS = IF 0 = NUM_COLS - 1 THEN 0 ELSE 0 + 1
      BY <1>1, Columns
    <3>2. 0 # NUM_COLS - 1 /\ 0 + 1 = 1 /\ 1 \in Cols
      BY Sizes DEF Cols
    <3> QED
      BY <3>1, <3>2, Zenon
  <2>2. HiddenLetter(s, c) = At([mem EXCEPT ![<<s.x, s.y>>] = d], 1, y)
    BY <1>5, <2>1, 1 # 0 DEF HiddenLetter
  <2>3. PutNewline(s) = At(mem, 0, y)
    BY <1>2 DEF PutNewline
  <2>4. mem \in Pictures /\ y \in Rows
    BY <1>1, Sizes, ScrolledType DEF Rows
  <2>5. d \in Letters \cup {Blank}
    BY <1>5, Kinds
  <2>6. d = Pages!Picture(c) /\ ~(PageOf(s).x < NUM_COLS - 1)
    BY <1>1, <1>5, Sizes DEF PageOf, Cols, Pages!Picture, Drawn
  <2> HIDE DEF mem, y, d
  <2>7. [mem EXCEPT ![<<s.x, s.y>>] = d] \in Pictures
    BY <2>4, <2>5 DEF Pictures
  <2> DEFINE drawn == [mem EXCEPT ![<<s.x, s.y>>] = d]
  <2> HIDE DEF drawn
  <2>8. /\ PutHidden(s, c) \in Screens
        /\ PageOf(PutHidden(s, c)) = [cells |-> drawn, x |-> 1, y |-> y]
    <3>1. PutHidden(s, c) = At(drawn, 1, y)
      BY <1>5, <2>2 DEF PutHidden, drawn
    <3>2. /\ At(drawn, 1, y) \in Screens
          /\ At(drawn, 1, y).mem = drawn /\ At(drawn, 1, y).x = 1 /\ At(drawn, 1, y).y = y
      BY <2>1, <2>4, <2>7, Kept DEF drawn
    <3> QED
      BY <3>1, <3>2 DEF PageOf
  <2>9. Pages!NextLine(PageOf(s)) = [cells |-> mem, x |-> 0, y |-> y]
    BY <2>3, NewlinePut DEF PageOf, At
  <2> DEFINE q == Pages!NextLine(PageOf(s))
  <2>10. Pages!Behind(PageOf(s), c)
           = [cells |-> [q.cells EXCEPT ![<<s.x, s.y>>] = d], x |-> 1, y |-> q.y]
    BY <1>5, <2>6 DEF Pages!Behind, PageOf
  <2>11. q.cells = mem /\ q.y = y
    BY <2>9
  <2>12. Pages!Behind(PageOf(s), c) = [cells |-> drawn, x |-> 1, y |-> y]
    BY <2>10, <2>11 DEF drawn
  <2> QED
    BY <2>8, <2>12
<1> QED
  BY <1>3, <1>4, <1>5

-----------------------------------------------------------------------------
(* The types.                                                              *)
LEMMA TypesOf ==
  TypeOK <=> /\ Screen \in Screens
             /\ vidmem \in [Terminals -> Pictures]
             /\ pos_x \in [Terminals -> Cols] /\ pos_y \in [Terminals -> Rows]
             /\ flags \in [Terminals -> BOOLEAN]
             /\ active_terminal \in Terminals /\ exec_terminal \in Terminals
             /\ flags[active_terminal] /\ flags[exec_terminal]
             /\ page_table_2 \in Terminals \cup {Video}
             /\ present \in BOOLEAN /\ moved \in BOOLEAN /\ start_y \in Rows
             /\ reprint \in Seq(Characters) /\ message \in Seq(Characters)
  BY DEF TypeOK, Screen, At, Screens, Pictures, Cols, Rows

LEMMA PageType ==
  ASSUME TypeOK, NEW t \in Terminals
  PROVE  Page(t) \in Screens
  BY TypesOf, Kept DEF Page

(* What the screen shows stays a screen.                                   *)
LEMMA DisplayType ==
  ASSUME TypeOK, NEW s \in Screens, Display(s)
  PROVE  /\ Screen' = s
         /\ vidmem' \in [Terminals -> Pictures]
         /\ pos_x' \in [Terminals -> Cols] /\ pos_y' \in [Terminals -> Rows]
<1>1. s.x \in Cols /\ s.y \in Rows /\ s = At(s.mem, s.x, s.y)
  BY DEF Screens, At
<1> QED
  BY <1>1, TypesOf DEF Display, Screen

LEMMA NextRemainder ==
  ASSUME NEW t \in Terminals
  PROVE  (t + 1) % NUM_TERMINAL \in Terminals
<1> DEFINE a == t + 1
<1>1. NUM_TERMINAL \in Nat \ {0} /\ a \in Nat /\ a <= NUM_TERMINAL /\ a < 2 * NUM_TERMINAL
  BY Sizes DEF Terminals
<1> HIDE DEF a
<1>2. a % NUM_TERMINAL = IF a < NUM_TERMINAL THEN a ELSE a - NUM_TERMINAL
  BY <1>1, Wrapped
<1>3. a % NUM_TERMINAL \in Terminals
  BY <1>1, <1>2 DEF Terminals
<1> QED
  BY <1>3 DEF a

LEMMA TypeInit == Init => TypeOK
<1>1. 0 \in Terminals /\ 0 \in Cols /\ 0 \in Rows /\ Empty \in Pictures
  BY Sizes DEF Terminals, Cols, Rows, Empty, Pictures
<1>2. <<>> \in Seq(Characters)
  OBVIOUS
<1>3. Init => flags \in [Terminals -> BOOLEAN] /\ flags[0]
  BY <1>1 DEF Init
<1> QED
  BY <1>1, <1>2, <1>3 DEF Init, TypeOK, Cols, Rows, Pictures

(* What is printed on the screen, and what clears it.                      *)
LEMMA DisplayedType ==
  ASSUME TypeOK, NEW s \in Screens, Display(s), start_y' \in Rows,
         UNCHANGED <<mapVars, termVars>>,
         reprint' \in Seq(Characters), message' \in Seq(Characters)
  PROVE  TypeOK'
<1>1. /\ Screen' \in Screens
      /\ vidmem' \in [Terminals -> Pictures]
      /\ pos_x' \in [Terminals -> Cols] /\ pos_y' \in [Terminals -> Rows]
  BY DisplayType
<1> QED
  BY <1>1, TypesOf DEF TypeOK, Screen, At, Screens, Pictures, Cols, Rows, mapVars, termVars

LEMMA VisibleType ==
  ASSUME TypeOK, NEW c \in Characters, Putc(c), UNCHANGED <<mapVars, termVars>>,
         reprint' \in Seq(Characters), message' \in Seq(Characters)
  PROVE  TypeOK'
<1>1. Put(Screen, c) \in Screens /\ StartAfter(Screen, c) \in Rows
  BY TypesOf, PutPrints, MarkKept
<1> QED
  BY <1>1, DisplayedType DEF Putc

LEMMA HiddenType ==
  ASSUME TypeOK, NEW c \in Characters, WriteHidden(c),
         reprint' \in Seq(Characters), message' \in Seq(Characters)
  PROVE  TypeOK'
<1> DEFINE s == PutHidden(Page(exec_terminal), c)
<1>1. s \in Screens
  BY TypesOf, PageType, HiddenPut
<1>2. s.mem \in Pictures /\ s.x \in Cols /\ s.y \in Rows
  BY <1>1 DEF Screens
<1>3. /\ vidmem' = [vidmem EXCEPT ![exec_terminal] = s.mem]
      /\ pos_x' = [pos_x EXCEPT ![exec_terminal] = s.x]
      /\ pos_y' = [pos_y EXCEPT ![exec_terminal] = s.y]
      /\ UNCHANGED <<screenVars, start_y, mapVars, termVars>>
  BY DEF WriteHidden
<1> HIDE DEF s
<1> QED
  BY <1>2, <1>3 DEF TypeOK, Pictures, Cols, Rows, screenVars, mapVars, termVars

LEMMA ClearedType ==
  ASSUME TypeOK, Display(At(Empty, 0, 0)), UNCHANGED <<start_y, mapVars, termVars>>,
         reprint' \in Seq(Characters), message' \in Seq(Characters)
  PROVE  TypeOK'
<1>1. Empty \in Pictures /\ 0 \in Cols /\ 0 \in Rows
  BY Sizes DEF Empty, Pictures, Cols, Rows
<1>2. At(Empty, 0, 0) \in Screens /\ start_y' \in Rows
  BY <1>1, Kept, TypesOf
<1> QED
  BY <1>2, DisplayedType

LEMMA TypeStep == TypeOK /\ [Next]_vars => TypeOK'
<1> SUFFICES ASSUME TypeOK, [Next]_vars PROVE TypeOK'
  OBVIOUS
<1> USE DEF mapVars, termVars, screenVars, pageVars, printVars
<1>0. reprint \in Seq(Characters) /\ message \in Seq(Characters)
  BY TypesOf
<1>1. ASSUME NEW c \in Written, Write(c) PROVE TypeOK'
  <2>1. c \in Characters /\ UNCHANGED printVars
    BY <1>1, SizesAssumption DEF Write
  <2>2. CASE WriteVisible(c)
    BY <1>0, <2>1, <2>2, VisibleType DEF WriteVisible
  <2>3. CASE WriteHidden(c)
    BY <1>0, <2>1, <2>3, HiddenType
  <2> QED
    BY <1>1, <2>2, <2>3 DEF Write
<1>2. CASE Report
  <2>1. Head(message) \in Characters /\ message' \in Seq(Characters) /\ reprint' = reprint
    BY <1>0, <1>2 DEF Report
  <2>2. CASE WriteVisible(Head(message))
    BY <1>0, <2>1, <2>2, VisibleType DEF WriteVisible
  <2>3. CASE WriteHidden(Head(message))
    BY <1>0, <2>1, <2>3, HiddenType
  <2> QED
    BY <1>2, <2>2, <2>3 DEF Report
<1>3. ASSUME NEW c \in Typed, Echo(c) PROVE TypeOK'
  BY <1>0, <1>3, SizesAssumption, VisibleType DEF Echo
<1>4. ASSUME NEW line \in Lines, Clear(line) PROVE TypeOK'
  BY <1>0, <1>4, SizesAssumption, ClearedType DEF Clear
<1>11. ASSUME NEW text \in Messages, Fault(text) PROVE TypeOK'
  BY <1>0, <1>11, SizesAssumption, ClearedType DEF Fault
<1>5. ASSUME NEW t \in Terminals, Switch(t) PROVE TypeOK'
  BY <1>5 DEF Switch, TypeOK
<1>6. CASE Tick
  <2>1. (exec_terminal + 1) % NUM_TERMINAL \in Terminals
    BY NextRemainder DEF TypeOK
  <2> DEFINE next == (exec_terminal + 1) % NUM_TERMINAL
  <2>2. /\ page_table_2' \in {Video, next} /\ exec_terminal' = next
        /\ flags' = [flags EXCEPT ![next] = TRUE] /\ moved' = FALSE
        /\ UNCHANGED <<screenVars, start_y, pageVars, active_terminal, present, printVars>>
    BY <1>6 DEF Tick
  <2> HIDE DEF next
  <2>3. next \in Terminals
    BY <2>1 DEF next
  <2>4. flags' \in [Terminals -> BOOLEAN] /\ flags'[active_terminal'] /\ flags'[exec_terminal']
    BY <2>2, <2>3, Zenon DEF TypeOK
  <2> QED
    BY <2>2, <2>3, <2>4 DEF TypeOK
<1>7. CASE Vidmap
  BY <1>7 DEF Vidmap, TypeOK
<1>8. ASSUME NEW c \in Canvas, NEW letter \in Letters, Draw(c, letter) PROVE TypeOK'
  <2>1. UNCHANGED <<screen_x, screen_y, start_y, pos_x, pos_y, mapVars, termVars, printVars>>
    BY <1>8 DEF Draw
  <2>2. \/ video_mem' = [video_mem EXCEPT ![c] = letter] /\ UNCHANGED vidmem
        \/ vidmem' = [vidmem EXCEPT ![page_table_2][c] = letter] /\ UNCHANGED video_mem
    BY <1>8 DEF Draw
  <2>3. video_mem' \in Pictures /\ vidmem' \in [Terminals -> Pictures]
    <3>1. ASSUME NEW mem \in Pictures PROVE [mem EXCEPT ![c] = letter] \in Pictures
      BY DEF Pictures
    <3>2. video_mem \in Pictures /\ vidmem \in [Terminals -> Pictures]
      BY DEF TypeOK, Pictures
    <3>3. [vidmem EXCEPT ![page_table_2][c] = letter] \in [Terminals -> Pictures]
      <4>1. CASE page_table_2 \in Terminals
        <5>1. [vidmem[page_table_2] EXCEPT ![c] = letter] \in Pictures
          BY <3>1, <3>2, <4>1
        <5> QED
          BY <3>2, <5>1
      <4>2. CASE page_table_2 \notin Terminals
        BY <3>2, <4>2
      <4> QED
        BY <4>1, <4>2
    <3> QED
      BY <2>2, <3>1, <3>2, <3>3
  <2> QED
    BY <2>1, <2>3 DEF TypeOK, Pictures
<1>9. CASE Reprint
  <2>1. Head(reprint) \in Characters /\ reprint' \in Seq(Characters) /\ message' = message
    BY <1>0, <1>9 DEF Reprint
  <2> QED
    BY <1>0, <1>9, <2>1, VisibleType DEF Reprint
<1>10. CASE UNCHANGED vars
  BY <1>10 DEF vars, TypeOK
<1> QED
  BY <1>1, <1>2, <1>3, <1>4, <1>5, <1>6, <1>7, <1>8, <1>9, <1>10, <1>11 DEF Next

(* The cursors stay on the screen.                                         *)
THEOREM ScreenTypes == Spec => []TypeOK
  BY TypeInit, TypeStep, PTL DEF Spec

(* The page of vidmap is that of the program that runs, but between a      *)
(* change of the display and the next tick.                                *)
LEMMA MapStep == MapFollows /\ [Next]_vars => MapFollows'
<1> SUFFICES ASSUME MapFollows, [Next]_vars PROVE MapFollows'
  OBVIOUS
<1> USE DEF MapFollows, Home, mapVars, termVars
<1>1. CASE UNCHANGED <<mapVars, termVars>>
  BY <1>1
<1>2. ASSUME NEW t \in Terminals, Switch(t) PROVE MapFollows'
  BY <1>2 DEF Switch
<1>3. CASE Tick
  BY <1>3 DEF Tick
<1>4. CASE Vidmap
  BY <1>4 DEF Vidmap
<1> QED
  BY <1>1, <1>2, <1>3, <1>4
     DEF Next, Write, WriteVisible, WriteHidden, Echo, Clear, Fault, Reprint, Report, Draw, vars

THEOREM VidmapFollows == Spec => []MapFollows
<1>1. Init => MapFollows
  BY DEF Init, MapFollows, Home
<1> QED
  BY <1>1, MapStep, PTL DEF Spec

-----------------------------------------------------------------------------
(* Screen implements Pages.                                                *)
pagesOf == [t \in Terminals |-> [cells |-> Shown(t).mem, x |-> Shown(t).x, y |-> Shown(t).y]]

LEMMA ShownType ==
  ASSUME TypeOK, NEW t \in Terminals
  PROVE  Shown(t) \in Screens /\ pagesOf[t] = PageOf(Shown(t))
  BY TypesOf, PageType DEF Shown, pagesOf, PageOf

(* What the screen shows is the page of the terminal that is displayed.    *)
LEMMA DisplayPages ==
  ASSUME TypeOK, NEW s \in Screens, Display(s), active_terminal' = active_terminal
  PROVE  pagesOf' = [pagesOf EXCEPT ![active_terminal] = PageOf(s)]
<1>1. Screen' = s
  BY DisplayType
<1>2. ASSUME NEW t \in Terminals, t # active_terminal PROVE Page(t)' = Page(t)
  <2>1. vidmem'[t] = vidmem[t] /\ pos_x'[t] = pos_x[t] /\ pos_y'[t] = pos_y[t]
    BY <1>2, TypesOf DEF Display
  <2> QED
    BY <2>1 DEF Page
<1>3. pagesOf' = [t \in Terminals |-> IF t = active_terminal THEN PageOf(s) ELSE PageOf(Page(t))]
  BY <1>1, <1>2 DEF pagesOf, Shown, PageOf
<1>4. pagesOf = [t \in Terminals |-> IF t = active_terminal THEN PageOf(Screen)
                                    ELSE PageOf(Page(t))]
  BY DEF pagesOf, Shown, PageOf
<1> QED
  BY <1>3, <1>4

LEMMA PrintedPages ==
  ASSUME TypeOK, NEW c \in Characters, Putc(c), UNCHANGED <<mapVars, termVars>>
  PROVE  Pages!OnShown(c)
<1>1. Screen \in Screens /\ active_terminal \in Terminals /\ Shown(active_terminal) = Screen
        /\ start_y \in Rows
  BY TypesOf DEF Shown
<1>2. /\ Put(Screen, c) \in Screens
      /\ \/ PageOf(Put(Screen, c)) = Pages!Printed(PageOf(Screen), c)
         \/ c = Backspace /\ start_y > 0 /\ screen_x = 0 /\ Put(Screen, c) = Screen
  BY <1>1, PutPrints DEF Screen, At
<1>3. pagesOf' = [pagesOf EXCEPT ![active_terminal] = PageOf(Put(Screen, c))]
  BY <1>2, DisplayPages DEF Putc, termVars
<1>4. pagesOf[active_terminal] = PageOf(Screen)
  BY <1>1, ShownType
<1>5. \/ pagesOf' = [pagesOf EXCEPT ![active_terminal] = Pages!Printed(@, c)]
      \/ c = Backspace /\ start_y > 0 /\ pagesOf[active_terminal].x = 0 /\ pagesOf' = pagesOf
  <2>1. CASE PageOf(Put(Screen, c)) = Pages!Printed(PageOf(Screen), c)
    BY <1>3, <1>4, <2>1
  <2>2. CASE c = Backspace /\ start_y > 0 /\ screen_x = 0 /\ Put(Screen, c) = Screen
    <3>1. pagesOf[active_terminal].x = 0
      BY <1>4, <2>2 DEF PageOf, Screen, At
    <3>2. pagesOf' = pagesOf
      BY <1>3, <1>4, <2>2 DEF pagesOf
    <3> QED
      BY <2>2, <3>1, <3>2
  <2> QED
    BY <1>2, <2>1, <2>2
<1>6. start_y' > 0 => start_y > 0 \/ c = Return
  BY <1>1, MarkKept DEF Putc
<1>7. UNCHANGED <<active_terminal, exec_terminal, moved>>
  BY DEF termVars, mapVars
<1> QED
  BY <1>5, <1>6, <1>7 DEF Pages!OnShown, pagesOf

LEMMA HiddenPages ==
  ASSUME TypeOK, NEW c \in Characters, WriteHidden(c)
  PROVE  active_terminal # exec_terminal /\ Pages!OutOfSight(c)
<1> DEFINE t == exec_terminal
           s == PutHidden(Page(t), c)
<1>1. /\ t \in Terminals /\ active_terminal # t /\ Page(t) \in Screens
      /\ Shown(t) = Page(t) /\ pagesOf[t] = PageOf(Page(t))
  BY TypesOf, PageType, ShownType DEF WriteHidden, Shown
<1>2. s \in Screens /\ PageOf(s) = Pages!Behind(PageOf(Page(t)), c)
  BY <1>1, HiddenPut
<1>3. /\ vidmem' = [vidmem EXCEPT ![t] = s.mem]
      /\ pos_x' = [pos_x EXCEPT ![t] = s.x] /\ pos_y' = [pos_y EXCEPT ![t] = s.y]
      /\ UNCHANGED <<screenVars, start_y, mapVars, termVars>>
  BY DEF WriteHidden
<1>4. s = At(s.mem, s.x, s.y)
  BY <1>2 DEF Screens, At
<1> HIDE DEF s
<1>5. ASSUME NEW u \in Terminals PROVE Shown(u)' = IF u = t THEN s ELSE Shown(u)
  BY <1>1, <1>3, <1>4, TypesOf DEF Shown, Screen, Page, screenVars, termVars
<1>6. pagesOf' = [pagesOf EXCEPT ![t] = PageOf(s)]
  BY <1>5 DEF pagesOf, PageOf
<1>7. pagesOf' = [pagesOf EXCEPT ![t] = Pages!Behind(@, c)]
  BY <1>1, <1>2, <1>6
<1>8. UNCHANGED <<active_terminal, exec_terminal, moved, start_y>>
  BY <1>3 DEF termVars, mapVars
<1> QED
  BY <1>1, <1>7, <1>8 DEF Pages!OutOfSight, pagesOf

LEMMA WrittenPages ==
  ASSUME TypeOK, NEW c \in Characters, WriteVisible(c) \/ WriteHidden(c)
  PROVE  Pages!Program(c)
<1>1. CASE WriteVisible(c)
  BY <1>1, PrintedPages DEF WriteVisible, Pages!Program
<1>2. CASE WriteHidden(c)
  BY <1>2, HiddenPages DEF Pages!Program
<1> QED
  BY <1>1, <1>2

LEMMA ClearedPages ==
  ASSUME TypeOK, Display(At(Empty, 0, 0)), UNCHANGED <<start_y, mapVars, termVars>>
  PROVE  Pages!Clear
<1>1. At(Empty, 0, 0) \in Screens
  <2>1. Empty \in Pictures /\ 0 \in Cols /\ 0 \in Rows
    BY Sizes DEF Empty, Pictures, Cols, Rows
  <2> QED
    BY <2>1, Kept
<1>2. UNCHANGED <<active_terminal, exec_terminal, moved, start_y>>
  BY DEF termVars, mapVars
<1>3. pagesOf' = [pagesOf EXCEPT ![active_terminal] = PageOf(At(Empty, 0, 0))]
  BY <1>1, <1>2, DisplayPages
<1> QED
  BY <1>2, <1>3 DEF Pages!Clear, pagesOf, PageOf, At, Pages!Empty, Empty, Pages!Cells, Cells

LEMMA PagesInit == Init => Pages!Init
<1> SUFFICES ASSUME Init PROVE Pages!Init
  OBVIOUS
<1>1. \A t \in Terminals : Shown(t) = At(Empty, 0, 0)
  BY DEF Init, Shown, Screen, Page
<1>2. pagesOf = [t \in Terminals |-> [cells |-> Empty, x |-> 0, y |-> 0]]
  BY <1>1 DEF pagesOf, At
<1>3. /\ 0 \in Terminals /\ active_terminal = 0 /\ exec_terminal = 0
      /\ ~(start_y > 0) /\ moved = TRUE
  BY Sizes DEF Init, Terminals
<1> QED
  BY <1>2, <1>3 DEF Pages!Init, pagesOf, Pages!Empty, Empty, Pages!Cells, Cells

LEMMA PagesStep ==
  ASSUME TypeOK, MapFollows, [Next]_vars
  PROVE  [Pages!Next]_(Pages!vars)
<1> USE DEF termVars, mapVars, screenVars, pageVars
<1>1. ASSUME NEW c \in Written, Write(c) PROVE Pages!Next
  <2>1. c \in Pages!Characters
    BY SizesAssumption DEF Characters, Controls, Pages!Characters
  <2>2. Pages!Program(c)
    BY <1>1, SizesAssumption, WrittenPages DEF Write
  <2> QED
    BY <2>1, <2>2 DEF Pages!Next
<1>2. ASSUME NEW c \in Characters, Putc(c), UNCHANGED <<mapVars, termVars>> PROVE Pages!Next
  <2>1. c \in Pages!Characters
    BY DEF Characters, Controls, Pages!Characters
  <2>2. Pages!User(c)
    BY <1>2, PrintedPages DEF Pages!User
  <2> QED
    BY <2>1, <2>2 DEF Pages!Next
<1>3. ASSUME NEW c \in Typed, Echo(c) PROVE Pages!Next
  BY <1>2, <1>3, SizesAssumption DEF Echo
<1>4. ASSUME NEW line \in Lines, Clear(line) PROVE Pages!Next
  BY <1>4, ClearedPages DEF Clear, Pages!Next
<1>5. ASSUME NEW text \in Messages, Fault(text) PROVE Pages!Next
  BY <1>5, ClearedPages DEF Fault, Pages!Next
<1>6. ASSUME NEW t \in Terminals, Switch(t) PROVE Pages!Next
  <2>1. ASSUME NEW u \in Terminals PROVE Shown(u)' = Shown(u)
    BY <1>6, TypesOf DEF Switch, Shown, Screen, Page, At
  <2>2. pagesOf' = pagesOf
    BY <2>1 DEF pagesOf
  <2>3. Pages!Show(t)
    BY <1>6, <2>2 DEF Switch, Pages!Show, pagesOf
  <2> QED
    BY <2>3 DEF Pages!Next
<1>7. ASSUME UNCHANGED <<screenVars, pageVars, active_terminal>>
      PROVE  pagesOf' = pagesOf
  BY <1>7 DEF pagesOf, Shown, Screen, Page
<1>8. CASE Tick
  <2>1. /\ pagesOf' = pagesOf /\ UNCHANGED <<active_terminal, start_y>> /\ ~moved'
        /\ exec_terminal' \in Terminals
    BY <1>7, <1>8, TypeStep DEF Tick, TypeOK
  <2> QED
    BY <2>1 DEF Pages!Next, Pages!Run, pagesOf
<1>9. CASE Vidmap
  <2>1. /\ pagesOf' = pagesOf /\ UNCHANGED <<active_terminal, exec_terminal, start_y>>
        /\ ~moved' => ~moved
    BY <1>7, <1>9 DEF Vidmap
  <2> QED
    BY <2>1 DEF Pages!Next, Pages!Open, pagesOf
<1>10. CASE UNCHANGED vars
  <2>1. UNCHANGED <<screenVars, pageVars, active_terminal, exec_terminal, moved, start_y>>
    BY <1>10 DEF vars
  <2> QED
    BY <1>7, <2>1 DEF Pages!vars, pagesOf
<1>11. ASSUME NEW c \in Canvas, NEW letter \in Letters, Draw(c, letter)
       PROVE  Pages!Next \/ UNCHANGED Pages!vars
  <2>1. UNCHANGED <<screen_x, screen_y, start_y, pos_x, pos_y, mapVars, termVars>>
    BY <1>11 DEF Draw
  <2>2. c \in Cells
    BY SizesAssumption
  <2>3. ASSUME NEW t \in Terminals,
               \A u \in Terminals : pagesOf'[u] = IF u = t THEN [pagesOf[u] EXCEPT !.cells[c] = letter]
                                                  ELSE pagesOf[u]
        PROVE  pagesOf' = [pagesOf EXCEPT ![t].cells[c] = letter]
    BY <2>3 DEF pagesOf
  <2>4. CASE page_table_2 = Video
    <3>1. video_mem' = [video_mem EXCEPT ![c] = letter] /\ UNCHANGED vidmem
      BY <1>11, <2>4 DEF Draw
    <3>2. ASSUME NEW u \in Terminals
          PROVE  pagesOf'[u] = IF u = active_terminal THEN [pagesOf[u] EXCEPT !.cells[c] = letter]
                               ELSE pagesOf[u]
      BY <2>1, <3>1, TypesOf DEF pagesOf, Shown, Screen, Page, At
    <3>3. pagesOf' = [pagesOf EXCEPT ![active_terminal].cells[c] = letter]
      BY <2>3, <3>2, TypesOf
    <3>4. moved \/ active_terminal = exec_terminal
      BY <2>4, TypesOf DEF MapFollows, Home, Video, Terminals
    <3>5. Pages!Paint(c, letter)
      BY <2>1, <3>3, <3>4 DEF Pages!Paint, pagesOf
    <3> QED
      BY <2>2, <3>5 DEF Pages!Next, Pages!Cells, Cells
  <2>5. CASE page_table_2 # Video
    <3>1. /\ vidmem' = [vidmem EXCEPT ![exec_terminal][c] = letter] /\ UNCHANGED video_mem
          /\ exec_terminal \in Terminals
      BY <1>11, <2>5, TypesOf DEF Draw, MapFollows
    <3>2. CASE exec_terminal = active_terminal
      <4>1. ASSUME NEW u \in Terminals PROVE Shown(u)' = Shown(u)
        BY <2>1, <3>1, <3>2, TypesOf DEF Shown, Screen, Page
      <4> QED
        BY <2>1, <4>1 DEF Pages!vars, pagesOf
    <3>3. CASE exec_terminal # active_terminal
      <4>1. ASSUME NEW u \in Terminals
            PROVE  pagesOf'[u] = IF u = exec_terminal THEN [pagesOf[u] EXCEPT !.cells[c] = letter]
                                 ELSE pagesOf[u]
        BY <2>1, <3>1, <3>3, TypesOf DEF pagesOf, Shown, Screen, Page, At
      <4>2. pagesOf' = [pagesOf EXCEPT ![exec_terminal].cells[c] = letter]
        BY <2>3, <3>1, <4>1
      <4>3. Pages!Paint(c, letter)
        BY <2>1, <4>2 DEF Pages!Paint, pagesOf
      <4> QED
        BY <2>2, <4>3 DEF Pages!Next, Pages!Cells, Cells
    <3> QED
      BY <3>2, <3>3
  <2> QED
    BY <2>4, <2>5
<1>12. CASE Reprint
  <2>1. Head(reprint) \in Characters
    BY <1>12, TypesOf DEF Reprint
  <2> QED
    BY <1>2, <1>12, <2>1 DEF Reprint
<1>13. CASE Report
  <2>1. Head(message) \in Characters
    BY <1>13, TypesOf DEF Report
  <2>2. Pages!Program(Head(message))
    BY <1>13, <2>1, WrittenPages DEF Report
  <2> QED
    BY <2>1, <2>2 DEF Pages!Next, Characters, Controls, Pages!Characters
<1> QED
  BY <1>1, <1>3, <1>4, <1>5, <1>6, <1>8, <1>9, <1>10, <1>11, <1>12, <1>13 DEF Next

(* Each terminal's page is written by its program and by the user who sees *)
(* it, and by others only as Pages allows.                                 *)
THEOREM ScreenImplementsPages == Spec => ImplementsPages
<1>1. TypeOK /\ MapFollows /\ [Next]_vars => [Pages!Next]_(Pages!vars)
  BY PagesStep
<1> QED
  BY <1>1, PagesInit, ScreenTypes, VidmapFollows, PTL DEF Spec, ImplementsPages, Pages!Spec
=============================================================================
