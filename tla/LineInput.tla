----------------------------- MODULE LineInput -----------------------------
(***************************************************************************)
(* The keyboard and the lines of the terminals: keyboard_handler of        *)
(* keyboard_handler.c, switch_terminal, terminal_read and clear_buffer of  *)
(* terminal.c.  All three terminals are booted.                            *)
(*                                                                         *)
(* The keyboard handler and the timer run with interrupts off, each is one *)
(* action; terminal_read waits with interrupts on and takes the line with  *)
(* interrupts off.  The flow on the processor reads the buffer of          *)
(* exec_terminal, which the handler points at the displayed terminal while *)
(* it runs.                                                                *)
(***************************************************************************)
EXTENDS Integers, Sequences, FiniteSets

CONSTANTS NUM_TERMINAL,
          BUF_SIZE,      \* characters in a terminal's buffer
          NewlineCode,   \* the code of '\n' (10)
          Keys,          \* the keys that are pressed
          Requests,      \* the numbers of bytes programs ask for
          MaxShift,      \* bound on shift_count
          Overruns       \* whether anybody presses Enter on a full buffer

ASSUME LineAssumption ==
    /\ NUM_TERMINAL \in Nat \ {0}
    /\ BUF_SIZE \in Nat \ {0}
    /\ NewlineCode \in Nat /\ NewlineCode + 1 < BUF_SIZE
    /\ Requests \subseteq Nat
    /\ Overruns \in BOOLEAN
    /\ MaxShift \in Nat \ {0, 1}

Terminals == 0 .. NUM_TERMINAL - 1

(* Keys.  Two letters stand for all (l is special with Ctrl), one symbol   *)
(* for those that shift_lookup_table shifts.                               *)
Letters == {"a", "l"}
Symbols == {"1"}
Shifts == {"lshift", "rshift"}
Modifiers == Shifts \cup {"ctrl", "alt"}
FKeys == {"F1", "F2", "F3"}
FTerminal == [F1 |-> 0, F2 |-> 1, F3 |-> 2]

(* Characters.  A function key pressed without Alt types its own code.     *)
NUL == "nul"
Space == " "
Newline == "newline"
UpperCase == [a |-> "A", l |-> "L"]
Capitals == {UpperCase[c] : c \in Letters}
ShiftedSymbol == [x \in Symbols |-> "!"]
Typable == Letters \cup Capitals \cup Symbols \cup {"!"} \cup FKeys
Chars == Typable \cup {Newline, Space, NUL}

VARIABLES
    buffer, buffer_size, enter_flag,              \* of each terminal
    active_terminal, exec_terminal,
    running,                                      \* the flow on the processor
    caps_flag, shift_count, ctrl_flag, alt_flag,  \* keyboard_handler.c
    held,                                         \* the modifiers held down
    repeats,                                      \* history: how often a Shift repeated
    reading, nbytes,                              \* terminal_read, per flow
    got                                           \* what a read has just returned

lineVars == <<buffer, buffer_size, enter_flag>>
schedVars == <<exec_terminal, running>>
shiftVars == <<shift_count, repeats>>
modVars == <<caps_flag, shiftVars, ctrl_flag, alt_flag, held>>
readVars == <<reading, nbytes>>
NothingRead == got' = <<>>
vars == <<lineVars, schedVars, active_terminal, modVars, readVars, got>>

Empty == [i \in 0 .. BUF_SIZE - 1 |-> NUL]

(* The types of the variables: a size never leaves its buffer, not even    *)
(* when Enter is pressed on a full one (keyboard_handler.c:211-234).       *)
TypeOK ==
    /\ buffer \in [Terminals -> [0 .. BUF_SIZE - 1 -> Chars]]
    /\ buffer_size \in [Terminals -> 0 .. BUF_SIZE]
    /\ enter_flag \in [Terminals -> BOOLEAN]
    /\ active_terminal \in Terminals
    /\ exec_terminal \in Terminals
    /\ running \in Terminals
    /\ caps_flag \in BOOLEAN
    /\ shift_count \in Int
    /\ ctrl_flag \in BOOLEAN
    /\ alt_flag \in BOOLEAN
    /\ held \subseteq Modifiers
    /\ repeats \in Nat
    /\ reading \in [Terminals -> {"user", "wait", "copy"}]
    /\ nbytes \in [Terminals -> 0 .. BUF_SIZE]
    /\ got \in Seq(Chars)

Init ==
    /\ buffer = [t \in Terminals |-> Empty]
    /\ buffer_size = [t \in Terminals |-> 0]
    /\ enter_flag = [t \in Terminals |-> FALSE]
    /\ active_terminal = 0
    /\ exec_terminal = 0
    /\ running = 0
    /\ caps_flag = FALSE
    /\ shift_count = 0
    /\ ctrl_flag = FALSE
    /\ alt_flag = FALSE
    /\ held = {}
    /\ repeats = 0
    /\ reading = [t \in Terminals |-> "user"]
    /\ nbytes = [t \in Terminals |-> 0]
    /\ got = <<>>

-----------------------------------------------------------------------------
(* The keyboard handler.  It leaves exec_terminal as it found it.          *)

(* The keyboard sends a code when a key goes down, and again and again     *)
(* while it is held.                                                       *)
Sends(k) == k \in Keys

CtrlRelease ==
    /\ "ctrl" \in held
    /\ held' = held \ {"ctrl"}
    /\ ctrl_flag' = FALSE
    /\ UNCHANGED <<lineVars, schedVars, active_terminal, caps_flag, shiftVars,
                   alt_flag, readVars>>
    /\ NothingRead

AltRelease ==
    /\ "alt" \in held
    /\ held' = held \ {"alt"}
    /\ alt_flag' = FALSE
    /\ UNCHANGED <<lineVars, schedVars, active_terminal, caps_flag, shiftVars,
                   ctrl_flag, readVars>>
    /\ NothingRead

(* With the releases of Shift handled after the chords of Alt.             *)
ShiftRelease_AfterAlt(k) ==
    /\ k \in held
    /\ held' = held \ {k}
    /\ shift_count' = IF alt_flag THEN shift_count ELSE shift_count - 1
    /\ UNCHANGED <<lineVars, schedVars, active_terminal, caps_flag, ctrl_flag,
                   alt_flag, repeats, readVars>>
    /\ NothingRead

ShiftRelease(k) ==
    /\ k \in held
    /\ held' = held \ {k}
    /\ shift_count' = shift_count - 1
    /\ UNCHANGED <<lineVars, schedVars, active_terminal, caps_flag, ctrl_flag,
                   alt_flag, repeats, readVars>>
    /\ NothingRead

ShiftPress(k) ==
    /\ Sends(k)
    /\ shift_count < MaxShift
    /\ held' = held \cup {k}
    /\ shift_count' = shift_count + 1
    /\ repeats' = IF k \in held THEN repeats + 1 ELSE repeats
    /\ UNCHANGED <<lineVars, schedVars, active_terminal, caps_flag, ctrl_flag,
                   alt_flag, readVars>>
    /\ NothingRead

AltPress ==
    /\ Sends("alt")
    /\ held' = held \cup {"alt"}
    /\ alt_flag' = TRUE
    /\ UNCHANGED <<lineVars, schedVars, active_terminal, caps_flag, shiftVars,
                   ctrl_flag, readVars>>
    /\ NothingRead

(* Alt and a function key: switch_terminal.                                *)
AltF_KeepsExec(k) ==
    /\ Sends(k)
    /\ alt_flag
    /\ FTerminal[k] \in Terminals \ {active_terminal}
    /\ active_terminal' = FTerminal[k]
    /\ exec_terminal' = active_terminal
    /\ UNCHANGED <<lineVars, running, modVars, readVars>>
    /\ NothingRead

AltF(k) ==
    /\ Sends(k)
    /\ alt_flag
    /\ FTerminal[k] \in Terminals \ {active_terminal}
    /\ active_terminal' = FTerminal[k]
    /\ UNCHANGED <<lineVars, schedVars, modVars, readVars>>
    /\ NothingRead

(* Any other key does nothing while Alt is down, not even Ctrl.            *)
CtrlPress ==
    /\ Sends("ctrl")
    /\ held' = held \cup {"ctrl"}
    /\ ctrl_flag' = IF alt_flag THEN ctrl_flag ELSE TRUE
    /\ UNCHANGED <<lineVars, schedVars, active_terminal, caps_flag, shiftVars,
                   alt_flag, readVars>>
    /\ NothingRead

(* With Ctrl down other keys do nothing either, Ctrl+L only redraws.       *)
Plain == ~alt_flag /\ ~ctrl_flag

CapsPress ==
    /\ Sends("caps")
    /\ Plain
    /\ caps_flag' = ~caps_flag
    /\ UNCHANGED <<lineVars, schedVars, active_terminal, shiftVars, ctrl_flag,
                   alt_flag, held, readVars>>
    /\ NothingRead

(* Shift wins over Caps Lock, as it does not on other keyboards.           *)
Translate_ShiftWins(k) ==
    IF k \in Symbols /\ shift_count > 0 THEN ShiftedSymbol[k]
    ELSE IF k \in Letters /\ (shift_count > 0 \/ caps_flag) THEN UpperCase[k]
    ELSE k

Translate(k) ==
    IF k \in Symbols /\ shift_count > 0 THEN ShiftedSymbol[k]
    ELSE IF k \in Letters /\ (shift_count > 0) # caps_flag THEN UpperCase[k]
    ELSE k

(* A character goes to the buffer of the displayed terminal, while there   *)
(* is room for it and a newline.                                           *)
CharPress(k) ==
    /\ Sends(k)
    /\ Plain
    /\ LET size == buffer_size[active_terminal] IN
       /\ size < BUF_SIZE - 1
       /\ buffer' = [buffer EXCEPT ![active_terminal][size] = Translate(k)]
       /\ buffer_size' = [buffer_size EXCEPT ![active_terminal] = @ + 1]
    /\ UNCHANGED <<enter_flag, schedVars, active_terminal, modVars, readVars>>
    /\ NothingRead

(* Enter has no check of the size.  The byte after the buffer is           *)
(* buffer_size itself: written there, '\n' becomes the size, which is then *)
(* incremented.  (Only Overruns lets the model get there.)                 *)
EnterPress_OtherFlag ==
    /\ Sends("enter")
    /\ Plain
    /\ LET size == buffer_size[active_terminal] IN
       /\ size < BUF_SIZE
       /\ buffer' = [buffer EXCEPT ![active_terminal][size] = Newline]
       /\ buffer_size' = [buffer_size EXCEPT ![active_terminal] = @ + 1]
    /\ enter_flag' = [enter_flag EXCEPT ![exec_terminal] = TRUE]
    /\ UNCHANGED <<schedVars, active_terminal, modVars, readVars>>
    /\ NothingRead

EnterPress ==
    /\ Sends("enter")
    /\ Plain
    /\ LET size == buffer_size[active_terminal] IN
       \/ /\ size < BUF_SIZE
          /\ buffer' = [buffer EXCEPT ![active_terminal][size] = Newline]
          /\ buffer_size' = [buffer_size EXCEPT ![active_terminal] = @ + 1]
       \/ /\ size = BUF_SIZE
          /\ Overruns
          /\ buffer_size' = [buffer_size EXCEPT ![active_terminal] = NewlineCode + 1]
          /\ UNCHANGED buffer
    /\ enter_flag' = [enter_flag EXCEPT ![active_terminal] = TRUE]
    /\ UNCHANGED <<schedVars, active_terminal, modVars, readVars>>
    /\ NothingRead

BackspacePress_NoCheck ==
    /\ Sends("backspace")
    /\ Plain
    /\ LET size == buffer_size[active_terminal] IN
       /\ buffer' = [buffer EXCEPT ![active_terminal] =
                       [i \in 0 .. BUF_SIZE - 1 |-> IF i = size - 1 THEN Space ELSE @[i]]]
       /\ buffer_size' = [buffer_size EXCEPT ![active_terminal] = @ - 1]
    /\ UNCHANGED <<enter_flag, schedVars, active_terminal, modVars, readVars>>
    /\ NothingRead

BackspacePress ==
    /\ Sends("backspace")
    /\ Plain
    /\ LET size == buffer_size[active_terminal] IN
       /\ size # 0
       /\ buffer' = [buffer EXCEPT ![active_terminal][size - 1] = Space]
       /\ buffer_size' = [buffer_size EXCEPT ![active_terminal] = @ - 1]
    /\ UNCHANGED <<enter_flag, schedVars, active_terminal, modVars, readVars>>
    /\ NothingRead

(* The codes left out, of keys behind F3, of other keys that are released  *)
(* and of E0, index kb_scancode past its end.  What lies there is          *)
(* shift_lookup_table and zeroes, no Shift, Ctrl, Alt, Caps Lock, function *)
(* key or l, and such a code goes into no buffer (keyboard_handler.c:117,  *)
(* 209): nothing changes.                                                  *)
Keyboard ==
    \/ CtrlRelease \/ AltRelease \/ AltPress \/ CtrlPress \/ CapsPress
    \/ EnterPress \/ BackspacePress
    \/ \E k \in Shifts : ShiftPress(k) \/ ShiftRelease(k)
    \/ \E k \in FKeys : AltF(k)
    \/ \E k \in Letters \cup Symbols \cup FKeys : CharPress(k)

-----------------------------------------------------------------------------
(* terminal_read, called by flow t for n bytes.                            *)

ReadCall(t, n) ==
    /\ running = t
    /\ reading[t] = "user"
    /\ nbytes' = [nbytes EXCEPT ![t] = IF n > BUF_SIZE THEN BUF_SIZE ELSE n]
    /\ reading' = [reading EXCEPT ![t] = "wait"]
    /\ UNCHANGED <<lineVars, schedVars, active_terminal, modVars>>
    /\ NothingRead

(* The flag is reset where it is seen, before interrupts are off.          *)
ReadWait_ResetsFlag(t) ==
    /\ running = t
    /\ reading[t] = "wait"
    /\ enter_flag[exec_terminal]
    /\ reading' = [reading EXCEPT ![t] = "copy"]
    /\ enter_flag' = [enter_flag EXCEPT ![exec_terminal] = FALSE]
    /\ UNCHANGED <<buffer, buffer_size, schedVars, active_terminal, modVars, nbytes>>
    /\ NothingRead

(* The loop sees the flag; interrupts are still on.                        *)
ReadWait(t) ==
    /\ running = t
    /\ reading[t] = "wait"
    /\ enter_flag[exec_terminal]
    /\ reading' = [reading EXCEPT ![t] = "copy"]
    /\ UNCHANGED <<lineVars, schedVars, active_terminal, modVars, nbytes>>
    /\ NothingRead

Copied(t) == [i \in 1 .. nbytes[t] |-> buffer[exec_terminal][i - 1]]

(* Only the characters that were asked for leave the buffer.               *)
ReadCopy_KeepsRest(t) ==
    LET n == nbytes[t] IN
    /\ running = t
    /\ reading[t] = "copy"
    /\ enter_flag' = [enter_flag EXCEPT ![exec_terminal] = FALSE]
    /\ got' = Copied(t)
    /\ buffer' = [buffer EXCEPT ![exec_terminal] =
                    [i \in 0 .. BUF_SIZE - 1 |-> IF i + n < BUF_SIZE THEN @[i + n] ELSE NUL]]
    /\ buffer_size' = [buffer_size EXCEPT ![exec_terminal] = IF @ > n THEN @ - n ELSE 0]
    /\ reading' = [reading EXCEPT ![t] = "user"]
    /\ nbytes' = [nbytes EXCEPT ![t] = 0]
    /\ UNCHANGED <<schedVars, active_terminal, modVars>>

ReadCopy(t) ==
    /\ running = t
    /\ reading[t] = "copy"
    /\ enter_flag' = [enter_flag EXCEPT ![exec_terminal] = FALSE]
    /\ got' = Copied(t)
    /\ buffer' = [buffer EXCEPT ![exec_terminal] = Empty]
    /\ buffer_size' = [buffer_size EXCEPT ![exec_terminal] = 0]
    /\ reading' = [reading EXCEPT ![t] = "user"]
    /\ nbytes' = [nbytes EXCEPT ![t] = 0]
    /\ UNCHANGED <<schedVars, active_terminal, modVars>>

Reader(t) == ReadWait(t) \/ ReadCopy(t)

(* The timer schedules the next terminal's flow.                           *)
Tick ==
    /\ exec_terminal' = (exec_terminal + 1) % NUM_TERMINAL
    /\ running' = exec_terminal'
    /\ UNCHANGED <<lineVars, active_terminal, modVars, readVars>>
    /\ NothingRead

Next == \/ Tick
        \/ Keyboard
        \/ \E t \in Terminals : Reader(t) \/ \E n \in Requests : ReadCall(t, n)

Spec == Init /\ [][Next]_vars

(* The timer interrupts forever, and what a flow may do each time it is    *)
(* scheduled it does in the end: its quantum is longer than the steps.     *)
FairSpec == /\ Spec
            /\ WF_vars(Tick)
            /\ \A t \in Terminals : SF_vars(Reader(t))

-----------------------------------------------------------------------------
(* The text of terminal t: the first buffer_size characters of its buffer. *)
Text(t) == [i \in 1 .. buffer_size[t] |-> buffer[t][i - 1]]
HasLine(t) == \E i \in 1 .. buffer_size[t] : Text(t)[i] = Newline

-----------------------------------------------------------------------------
(* A line that was ended and not taken has its flag up (keyboard_handler.c *)
(* :213-218, terminal.c:248-257): the program that waits for it does not   *)
(* wait in vain, whichever way Enter and the read interleave.              *)
NewlinePending ==
    \A t \in Terminals : HasLine(t) => enter_flag[t]

(* A read on one terminal takes nothing from another (terminal.c:246-257). *)
ReadsOwnTerminal ==
    [][\A t \in Terminals :
          reading[t] = "copy" /\ reading'[t] = "user" =>
             /\ got' = [i \in 1 .. nbytes[t] |-> buffer[t][i - 1]]
             /\ \A u \in Terminals \ {t} : buffer'[u] = buffer[u]]_vars

(* The terminals keep the promise of TypedLines.                           *)
Lines == INSTANCE TypedLines
            WITH unread <- [t \in Terminals |-> Text(t)],
                 ended <- {t \in Terminals : enter_flag[t]},
                 Blanks <- {Space, NUL}
ImplementsTypedLines == Lines!Spec

(* "Wait on enter" (terminal.c:245): a program that waits gets its line    *)
(* once one was ended, whatever terminal is displayed by then.             *)
WaitEnds ==
    \A t \in Terminals :
        (reading[t] = "wait" /\ HasLine(t)) ~> (reading[t] = "user")

-----------------------------------------------------------------------------
(* No modifier is lost, in whatever order they are pressed, repeated and   *)
(* released, and none sticks but a Shift that has repeated                 *)
(* (keyboard_handler.c:102-138, 166-171): each repeat adds 1 to            *)
(* shift_count and the release takes 1 off, so it counts the Shifts that   *)
(* are held and, for good, every repeat there was.  Ctrl pressed while Alt *)
(* is down is ignored.                                                     *)
ModifiersMatch ==
    /\ shift_count = Cardinality(held \cap Shifts) + repeats
    /\ alt_flag = ("alt" \in held)
    /\ ctrl_flag => "ctrl" \in held

ShiftSeen == held \cap Shifts # {} \/ repeats > 0

(* A letter is upper case if Shift is held or Caps Lock is on, not both    *)
(* (keyboard_handler.c:191-206), whatever chords came before, where a      *)
(* Shift that has repeated counts as held from then on, released or not.   *)
LetterCase ==
    [][\A t \in Terminals :
          /\ buffer_size'[t] = buffer_size[t] + 1
          /\ buffer'[t][buffer_size[t]] \in Letters \cup Capitals
          => (buffer'[t][buffer_size[t]] \in Capitals)
             = (ShiftSeen # caps_flag)]_vars
=============================================================================
