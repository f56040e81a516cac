-------------------------- MODULE LineInput_proofs --------------------------
(***************************************************************************)
(* Theorems about LineInput for any number of terminals, any buffer size,  *)
(* any keys and any requests, proved with TLAPS: type correctness, that an *)
(* ended line is always announced, that the terminals implement TypedLines *)
(* as long as nobody presses Enter on a full buffer, that reads stay with  *)
(* their terminals, and that the modifiers are what is held and repeats.   *)
(***************************************************************************)
EXTENDS LineInput, SequenceTheorems, FiniteSetTheorems, TLAPS

USE LineAssumption DEF Terminals

(* Reads use exec_terminal, which is the terminal of the running flow.     *)
ExecIsRunning == exec_terminal = running

(* What lies after the text in a buffer is blank.                          *)
BlankTail ==
    \A t \in Terminals :
        \A i \in 0 .. BUF_SIZE - 1 : i >= buffer_size[t] => buffer[t][i] \in {Space, NUL}

(* The flag a read saw is still up when the read takes the line.           *)
FlagHeld == \A t \in Terminals : reading[t] = "copy" => enter_flag[t]

-----------------------------------------------------------------------------
(* Translate maps the keys that type to the characters that they type.     *)
LEMMA TranslateTypes ==
    ASSUME NEW k \in Letters \cup Symbols \cup FKeys
    PROVE  Translate(k) \in Typable
BY DEF Translate, Typable, Letters, Symbols, FKeys, Capitals, UpperCase, ShiftedSymbol

(* A function on 1 .. n is a sequence of length n.                         *)
LEMMA FunctionIsSeq ==
    ASSUME NEW S, NEW n \in Nat, NEW f \in [1 .. n -> S]
    PROVE  f \in Seq(S) /\ Len(f) = n
OBVIOUS

(* TypeOK is inductive.                                                    *)
LEMMA TypeStep == TypeOK /\ [Next]_vars => TypeOK'
<1> SUFFICES ASSUME TypeOK, [Next]_vars PROVE TypeOK'
    OBVIOUS
<1> USE DEF TypeOK, shiftVars
<1>1. CASE CtrlRelease
  <2>1. ctrl_flag' \in BOOLEAN
        BY <1>1, Zenon DEF CtrlRelease
  <2> QED
      BY <1>1, <2>1 DEF CtrlRelease, lineVars, schedVars, readVars, NothingRead, Modifiers
<1>2. CASE AltRelease
  <2>1. alt_flag' \in BOOLEAN
        BY <1>2, Zenon DEF AltRelease
  <2> QED
      BY <1>2, <2>1 DEF AltRelease, lineVars, schedVars, readVars, NothingRead, Modifiers
<1>3. CASE AltPress
      BY <1>3 DEF AltPress, lineVars, schedVars, readVars, NothingRead, Modifiers
<1>4. CASE CtrlPress
  <2>1. ctrl_flag' \in BOOLEAN /\ alt_flag' \in BOOLEAN
        BY <1>4, Zenon DEF CtrlPress
  <2>2. /\ held' = held \cup {"ctrl"} /\ got' = <<>>
        /\ UNCHANGED <<lineVars, schedVars, active_terminal, caps_flag, shiftVars, readVars>>
        BY <1>4, Zenon DEF CtrlPress, NothingRead
  <2> QED
      BY <2>1, <2>2 DEF lineVars, schedVars, readVars, Modifiers
<1>5. CASE CapsPress
      BY <1>5 DEF CapsPress, lineVars, schedVars, readVars, NothingRead
<1>6. CASE EnterPress
  <2>1. Newline \in Chars
        BY DEF Chars
  <2>2. UNCHANGED <<schedVars, active_terminal, modVars, readVars>> /\ got' = <<>>
        BY <1>6 DEF EnterPress, NothingRead
  <2>3. enter_flag' \in [Terminals -> BOOLEAN]
        BY <1>6 DEF EnterPress
  <2>4. /\ buffer' \in [Terminals -> [0 .. BUF_SIZE - 1 -> Chars]]
        /\ buffer_size' \in [Terminals -> 0 .. BUF_SIZE]
    <3>1. CASE /\ buffer_size[active_terminal] < BUF_SIZE
               /\ buffer' = [buffer EXCEPT
                               ![active_terminal][buffer_size[active_terminal]] = Newline]
               /\ buffer_size' = [buffer_size EXCEPT ![active_terminal] = @ + 1]
          BY <3>1, <2>1
    <3>2. CASE /\ buffer_size' = [buffer_size EXCEPT ![active_terminal] = NewlineCode + 1]
               /\ UNCHANGED buffer
          BY <3>2
    <3> QED
        BY <1>6, <3>1, <3>2 DEF EnterPress
  <2> QED
      BY <2>2, <2>3, <2>4 DEF schedVars, modVars, readVars
<1>7. CASE BackspacePress
  <2>1. Space \in Chars
        BY DEF Chars
  <2>2. buffer_size[active_terminal] - 1 \in 0 .. BUF_SIZE - 1
        BY <1>7 DEF BackspacePress
  <2> QED
      BY <1>7, <2>1, <2>2 DEF BackspacePress, schedVars, modVars, readVars, NothingRead
<1>8. ASSUME NEW k \in Shifts, ShiftPress(k) PROVE TypeOK'
      BY <1>8 DEF ShiftPress, lineVars, schedVars, readVars, NothingRead, Modifiers
<1>9. ASSUME NEW k \in Shifts, ShiftRelease(k) PROVE TypeOK'
      BY <1>9 DEF ShiftRelease, lineVars, schedVars, readVars, NothingRead
<1>10. ASSUME NEW k \in FKeys, AltF(k) PROVE TypeOK'
  <2>1. /\ active_terminal' \in Terminals /\ got' = <<>>
        /\ UNCHANGED <<lineVars, schedVars, modVars, readVars>>
        BY <1>10, Zenon DEF AltF, NothingRead
  <2> QED
      BY <2>1 DEF lineVars, schedVars, modVars, readVars
<1>11. ASSUME NEW k \in Letters \cup Symbols \cup FKeys, CharPress(k) PROVE TypeOK'
  <2>1. Translate(k) \in Chars
        BY TranslateTypes DEF Chars
  <2> QED
      BY <1>11, <2>1 DEF CharPress, schedVars, modVars, readVars, NothingRead
<1>12. ASSUME NEW t \in Terminals, NEW n \in Requests, ReadCall(t, n) PROVE TypeOK'
      BY <1>12 DEF ReadCall, lineVars, schedVars, modVars, NothingRead
<1>13. ASSUME NEW t \in Terminals, ReadWait(t) PROVE TypeOK'
      BY <1>13 DEF ReadWait, lineVars, schedVars, modVars, NothingRead
<1>14. ASSUME NEW t \in Terminals, ReadCopy(t) PROVE TypeOK'
  <2>1. Copied(t) \in Seq(Chars)
    <3>1. /\ nbytes[t] \in Nat
          /\ Copied(t) \in [1 .. nbytes[t] -> Chars]
          BY DEF Copied
    <3> QED
        BY <3>1, FunctionIsSeq
  <2>2. Empty \in [0 .. BUF_SIZE - 1 -> Chars]
        BY DEF Empty, Chars
  <2> QED
      BY <1>14, <2>1, <2>2 DEF ReadCopy, schedVars, modVars
<1>15. CASE Tick
      BY <1>15 DEF Tick, lineVars, modVars, readVars, NothingRead
<1>16. CASE UNCHANGED vars
      BY <1>16 DEF vars, lineVars, schedVars, modVars, readVars
<1> QED
    BY <1>1, <1>2, <1>3, <1>4, <1>5, <1>6, <1>7, <1>8, <1>9, <1>10, <1>11, <1>12, <1>13,
       <1>14, <1>15, <1>16 DEF Next, Keyboard, Reader

(* The machine boots with the types.                                       *)
LEMMA InitTypes == Init => TypeOK
<1> SUFFICES ASSUME Init PROVE TypeOK
    OBVIOUS
<1>1. /\ caps_flag \in BOOLEAN /\ ctrl_flag \in BOOLEAN /\ alt_flag \in BOOLEAN
      /\ enter_flag \in [Terminals -> BOOLEAN]
      BY Zenon DEF Init
<1>2. Empty \in [0 .. BUF_SIZE - 1 -> Chars]
      BY DEF Empty, Chars
<1> QED
    BY <1>1, <1>2 DEF Init, TypeOK

(* The types of the variables are kept, on every terminal, whatever is     *)
(* typed (keyboard_handler.c, terminal.c): even an Enter on a full buffer  *)
(* leaves its size within the buffer.                                      *)
THEOREM TypeCorrect == Spec => []TypeOK
BY InitTypes, TypeStep, PTL DEF Spec

-----------------------------------------------------------------------------
(* What holds beside the types.  The tail of a buffer is blank as long as  *)
(* nobody presses Enter on a full buffer.                                  *)
LineInv == /\ TypeOK
           /\ ExecIsRunning
           /\ NewlinePending
           /\ FlagHeld
           /\ Overruns = FALSE => BlankTail

(* The text of a terminal is a sequence of buffer_size characters.         *)
LEMMA TextType ==
    ASSUME TypeOK, NEW t \in Terminals
    PROVE  /\ Text(t) \in Seq(Chars)
           /\ Len(Text(t)) = buffer_size[t]
           /\ \A i \in 1 .. buffer_size[t] : Text(t)[i] = buffer[t][i - 1]
<1>1. buffer_size[t] \in Nat /\ buffer_size[t] <= BUF_SIZE
      BY DEF TypeOK
<1>2. Text(t) \in [1 .. buffer_size[t] -> Chars]
      BY <1>1 DEF TypeOK, Text
<1> QED
    BY <1>1, <1>2, FunctionIsSeq DEF Text

(* A terminal whose line does not change keeps its text.                   *)
LEMMA TextKept ==
    ASSUME NEW t \in Terminals, buffer'[t] = buffer[t], buffer_size'[t] = buffer_size[t]
    PROVE  Text(t)' = Text(t)
BY DEF Text

(* One more character at the end of the line.                              *)
LEMMA TextGrows ==
    ASSUME TypeOK, NEW t \in Terminals, NEW c \in Chars,
           buffer_size[t] < BUF_SIZE,
           buffer' = [buffer EXCEPT ![t][buffer_size[t]] = c],
           buffer_size' = [buffer_size EXCEPT ![t] = @ + 1]
    PROVE  /\ [u \in Terminals |-> Text(u)]' = [[u \in Terminals |-> Text(u)] EXCEPT
                                                  ![t] = Append(@, c)]
           /\ BlankTail => BlankTail'
<1>1. /\ buffer_size[t] \in 0 .. BUF_SIZE - 1
      /\ buffer_size'[t] = buffer_size[t] + 1
      /\ buffer'[t] = [buffer[t] EXCEPT ![buffer_size[t]] = c]
      /\ buffer[t] \in [0 .. BUF_SIZE - 1 -> Chars]
      BY DEF TypeOK
<1>2. Text(t)' = Append(Text(t), c)
  <2>1. Text(t)' = [i \in 1 .. buffer_size[t] + 1 |-> buffer'[t][i - 1]]
        BY <1>1 DEF Text
  <2>2. Text(t) = [i \in 1 .. buffer_size[t] |-> buffer[t][i - 1]]
        BY DEF Text
  <2>3. \A i \in 1 .. buffer_size[t] : buffer'[t][i - 1] = buffer[t][i - 1]
        BY <1>1
  <2>4. buffer'[t][buffer_size[t]] = c
        BY <1>1
  <2>5. Text(t)' \in Seq(Chars) /\ Len(Text(t)') = buffer_size[t] + 1
    <3>1. buffer_size[t] + 1 \in Nat
          BY <1>1
    <3>2. Text(t)' \in [1 .. buffer_size[t] + 1 -> Chars]
          BY <1>1, <2>1, SMTT(30)
    <3> QED
        BY <3>1, <3>2, FunctionIsSeq
  <2>6. /\ Append(Text(t), c) \in Seq(Chars)
        /\ Len(Append(Text(t), c)) = buffer_size[t] + 1
        /\ \A i \in 1 .. buffer_size[t] : Append(Text(t), c)[i] = Text(t)[i]
        /\ Append(Text(t), c)[buffer_size[t] + 1] = c
        BY TextType, AppendProperties
  <2>7. \A i \in 1 .. buffer_size[t] + 1 : Text(t)'[i] = Append(Text(t), c)[i]
        BY <1>1, <2>1, <2>2, <2>3, <2>4, <2>6
  <2> QED
      BY <2>5, <2>6, <2>7, SeqEqual
<1>3. \A u \in Terminals \ {t} : Text(u)' = Text(u)
  <2>1. \A u \in Terminals \ {t} : buffer'[u] = buffer[u] /\ buffer_size'[u] = buffer_size[u]
        BY DEF TypeOK
  <2> QED
      BY <2>1, TextKept
<1>4. [u \in Terminals |-> Text(u)]' = [[u \in Terminals |-> Text(u)] EXCEPT
                                          ![t] = Append(@, c)]
      BY <1>2, <1>3
<1>5. ASSUME BlankTail PROVE BlankTail'
      BY <1>1, <1>5 DEF BlankTail, TypeOK
<1> QED
    BY <1>4, <1>5

(* One character less.                                                     *)
LEMMA TextShrinks ==
    ASSUME TypeOK, NEW t \in Terminals, buffer_size[t] # 0,
           buffer' = [buffer EXCEPT ![t][buffer_size[t] - 1] = Space],
           buffer_size' = [buffer_size EXCEPT ![t] = @ - 1]
    PROVE  /\ Text(t) # <<>>
           /\ [u \in Terminals |-> Text(u)]' =
                 [[u \in Terminals |-> Text(u)] EXCEPT ![t] = SubSeq(@, 1, Len(@) - 1)]
           /\ HasLine(t)' => HasLine(t)
           /\ BlankTail => BlankTail'
<1>1. /\ buffer_size[t] \in 1 .. BUF_SIZE
      /\ buffer_size'[t] = buffer_size[t] - 1
      /\ buffer'[t] = [buffer[t] EXCEPT ![buffer_size[t] - 1] = Space]
      /\ buffer[t] \in [0 .. BUF_SIZE - 1 -> Chars]
      BY DEF TypeOK
<1> DEFINE n == buffer_size[t]
<1>2. /\ Text(t) \in Seq(Chars) /\ Len(Text(t)) = n
      /\ \A i \in 1 .. n : Text(t)[i] = buffer[t][i - 1]
      BY TextType
<1>3. Text(t)' = [i \in 1 .. n - 1 |-> buffer'[t][i - 1]]
      BY <1>1 DEF Text
<1>4. \A i \in 1 .. n - 1 : /\ buffer'[t][i - 1] = buffer[t][i - 1]
                           /\ buffer'[t][i - 1] \in Chars
                           /\ i \in 1 .. n
  <2> SUFFICES ASSUME NEW i \in 1 .. n - 1
               PROVE  /\ buffer'[t][i - 1] = buffer[t][i - 1]
                      /\ buffer'[t][i - 1] \in Chars
                      /\ i \in 1 .. n
      OBVIOUS
  <2>1. i - 1 \in 0 .. BUF_SIZE - 1 /\ i - 1 # n - 1 /\ i \in 1 .. n
        BY <1>1
  <2> QED
      BY <1>1, <2>1
<1>5. Text(t)' = SubSeq(Text(t), 1, Len(Text(t)) - 1)
  <2>1. Text(t)' \in Seq(Chars) /\ Len(Text(t)') = n - 1
    <3>1. n - 1 \in Nat
          BY <1>1
    <3>2. Text(t)' \in [1 .. n - 1 -> Chars]
          BY <1>3, <1>4
    <3> QED
        BY <3>1, <3>2, FunctionIsSeq
  <2>2. n - 1 \in Int /\ \A i \in 1 .. n - 1 : Text(t)[i] \in Chars
        BY <1>1, <1>2, <1>4
  <2>3. /\ SubSeq(Text(t), 1, n - 1) \in Seq(Chars)
        /\ Len(SubSeq(Text(t), 1, n - 1)) = n - 1
        /\ \A i \in 1 .. n - 1 : SubSeq(Text(t), 1, n - 1)[i] = Text(t)[i]
    <3>1. /\ SubSeq(Text(t), 1, n - 1) \in Seq(Chars)
          /\ Len(SubSeq(Text(t), 1, n - 1)) = IF 1 <= n - 1 THEN (n - 1) - 1 + 1 ELSE 0
          /\ \A i \in 1 .. (n - 1) - 1 + 1 : SubSeq(Text(t), 1, n - 1)[i] = Text(t)[1 + i - 1]
          BY <2>2, SubSeqProperties
    <3> QED
        BY <1>1, <3>1, SMTT(30)
  <2>4. \A i \in 1 .. n - 1 : Text(t)'[i] = SubSeq(Text(t), 1, n - 1)[i]
        BY <1>2, <1>3, <1>4, <2>3
  <2> QED
      BY <1>2, <2>1, <2>3, <2>4, SeqEqual
<1>6. \A u \in Terminals \ {t} : Text(u)' = Text(u)
  <2>1. \A u \in Terminals \ {t} : buffer'[u] = buffer[u] /\ buffer_size'[u] = buffer_size[u]
        BY DEF TypeOK
  <2> QED
      BY <2>1, TextKept
<1>7. [u \in Terminals |-> Text(u)]' =
         [[u \in Terminals |-> Text(u)] EXCEPT ![t] = SubSeq(@, 1, Len(@) - 1)]
      BY <1>5, <1>6
<1>8. ASSUME BlankTail PROVE BlankTail'
      BY <1>1, <1>8 DEF BlankTail, TypeOK
<1>9. ASSUME HasLine(t)' PROVE HasLine(t)
  <2>1. PICK i \in 1 .. n - 1 : Text(t)'[i] = Newline
        BY <1>1, <1>9 DEF HasLine
  <2>2. Text(t)[i] = Newline
        BY <2>1, <1>2, <1>3, <1>4
  <2> QED
      BY <1>1, <2>1, <2>2 DEF HasLine
<1>10. Text(t) # <<>>
      BY <1>1, <1>2
<1> QED
    BY <1>7, <1>8, <1>9, <1>10

(* The steps that leave every line alone.                                  *)
LEMMA QuietSteps ==
    ASSUME [Next]_vars,
           ~EnterPress, ~BackspacePress,
           ~\E k \in Letters \cup Symbols \cup FKeys : CharPress(k),
           ~\E t \in Terminals : ReadCopy(t)
    PROVE  /\ UNCHANGED lineVars
           /\ ExecIsRunning => ExecIsRunning'
           /\ got' = <<>> \/ UNCHANGED got
BY DEF Next, Keyboard, Reader, CtrlRelease, AltRelease, AltPress, CtrlPress, CapsPress,
   ShiftPress, ShiftRelease, AltF, ReadCall, ReadWait, Tick, vars, lineVars, schedVars,
   NothingRead, ExecIsRunning

(* Only the flow that saw the flag resets it.                              *)
LEMMA FlagStep == TypeOK /\ ExecIsRunning /\ FlagHeld /\ [Next]_vars => FlagHeld'
<1> SUFFICES ASSUME TypeOK, ExecIsRunning, FlagHeld, [Next]_vars,
                    NEW t \in Terminals, reading'[t] = "copy"
             PROVE  enter_flag'[t]
    BY DEF FlagHeld
<1>1. CASE EnterPress
  <2>1. /\ reading' = reading
        /\ enter_flag' = [enter_flag EXCEPT ![active_terminal] = TRUE]
        BY <1>1 DEF EnterPress, readVars
  <2>2. enter_flag[t] /\ enter_flag \in [Terminals -> BOOLEAN]
        BY <2>1 DEF FlagHeld, TypeOK
  <2> QED
      BY <2>1, <2>2
<1>2. ASSUME NEW u \in Terminals, ReadWait(u) PROVE enter_flag'[t]
  <2>1. /\ reading' = [reading EXCEPT ![u] = "copy"] /\ exec_terminal = u
        /\ enter_flag' = enter_flag /\ enter_flag[u]
        BY <1>2 DEF ReadWait, lineVars, ExecIsRunning
  <2> QED
      BY <2>1 DEF FlagHeld, TypeOK
<1>3. ASSUME NEW u \in Terminals, ReadCopy(u) PROVE enter_flag'[t]
  <2>1. /\ reading' = [reading EXCEPT ![u] = "user"] /\ exec_terminal = u
        /\ enter_flag' = [enter_flag EXCEPT ![u] = FALSE]
        BY <1>3 DEF ReadCopy, ExecIsRunning
  <2>2. t # u /\ reading[t] = "copy"
        BY <2>1 DEF TypeOK
  <2> QED
      BY <2>1, <2>2 DEF FlagHeld, TypeOK
<1>4. ASSUME NEW u \in Terminals, NEW n \in Requests, ReadCall(u, n) PROVE enter_flag'[t]
  <2>1. reading' = [reading EXCEPT ![u] = "wait"] /\ enter_flag' = enter_flag
        BY <1>4 DEF ReadCall, lineVars
  <2> QED
      BY <2>1 DEF FlagHeld, TypeOK
<1>5. CASE /\ ~EnterPress
           /\ ~\E u \in Terminals : Reader(u) \/ \E n \in Requests : ReadCall(u, n)
  <2>1. reading' = reading /\ enter_flag' = enter_flag
        BY <1>5 DEF Next, Keyboard, CtrlRelease, AltRelease, AltPress, CtrlPress, CapsPress,
           BackspacePress, ShiftPress, ShiftRelease, AltF, CharPress, Tick, vars, lineVars,
           readVars
  <2> QED
      BY <2>1 DEF FlagHeld
<1> QED
    BY <1>1, <1>2, <1>3, <1>4, <1>5 DEF Reader

(* What holds of the lines is inductive.                                   *)
LEMMA LineStep == LineInv /\ [Next]_vars => LineInv'
<1> SUFFICES ASSUME LineInv, [Next]_vars PROVE LineInv'
    OBVIOUS
<1>1. TypeOK /\ TypeOK' /\ FlagHeld'
      BY TypeStep, FlagStep DEF LineInv
<1>2. CASE EnterPress
  <2> PICK a \in Terminals : a = active_terminal
      BY <1>1 DEF TypeOK
  <2>1. /\ ExecIsRunning'
        /\ a \in Terminals
        /\ enter_flag' = [enter_flag EXCEPT ![a] = TRUE]
        BY <1>1, <1>2 DEF EnterPress, LineInv, ExecIsRunning, schedVars, TypeOK
  <2>2. NewlinePending'
    <3>1. enter_flag'[a] = TRUE /\ \A t \in Terminals \ {a} : enter_flag'[t] = enter_flag[t]
          BY <1>1, <2>1 DEF TypeOK
    <3>2. \A t \in Terminals \ {a} : buffer'[t] = buffer[t] /\ buffer_size'[t] = buffer_size[t]
          BY <1>1, <1>2 DEF EnterPress, TypeOK
    <3>3. \A t \in Terminals \ {a} : HasLine(t)' => HasLine(t)
          BY <3>2 DEF HasLine, Text
    <3> QED
        BY <3>1, <3>3 DEF NewlinePending, LineInv
  <2>3. ASSUME Overruns = FALSE PROVE BlankTail'
    <3>1. /\ buffer_size[a] < BUF_SIZE
          /\ buffer' = [buffer EXCEPT ![a][buffer_size[a]] = Newline]
          /\ buffer_size' = [buffer_size EXCEPT ![a] = @ + 1]
          BY <1>2, <2>3 DEF EnterPress
    <3>2. Newline \in Chars
          BY DEF Chars
    <3> QED
        BY <1>1, <2>1, <2>3, <3>1, <3>2, TextGrows DEF LineInv
  <2> QED
      BY <1>1, <2>1, <2>2, <2>3 DEF LineInv
<1>3. CASE BackspacePress
  <2> PICK a \in Terminals : a = active_terminal
      BY <1>1 DEF TypeOK
  <2>1. /\ ExecIsRunning'
        /\ a \in Terminals
        /\ buffer_size[a] # 0
        /\ buffer' = [buffer EXCEPT ![a][buffer_size[a] - 1] = Space]
        /\ buffer_size' = [buffer_size EXCEPT ![a] = @ - 1]
        /\ UNCHANGED enter_flag
        BY <1>1, <1>3 DEF BackspacePress, LineInv, ExecIsRunning, schedVars, TypeOK
  <2>2. (HasLine(a)' => HasLine(a)) /\ (BlankTail => BlankTail')
        BY <1>1, <2>1, TextShrinks
  <2>3. \A t \in Terminals \ {a} : HasLine(t)' => HasLine(t)
    <3>1. \A t \in Terminals \ {a} : buffer'[t] = buffer[t] /\ buffer_size'[t] = buffer_size[t]
          BY <1>1, <2>1 DEF TypeOK
    <3> QED
        BY <3>1 DEF HasLine, Text
  <2>4. NewlinePending'
        BY <2>1, <2>2, <2>3 DEF NewlinePending, LineInv
  <2> QED
      BY <1>1, <2>1, <2>2, <2>4 DEF LineInv
<1>4. ASSUME NEW k \in Letters \cup Symbols \cup FKeys, CharPress(k) PROVE LineInv'
  <2> PICK a \in Terminals : a = active_terminal
      BY <1>1 DEF TypeOK
  <2>1. /\ ExecIsRunning'
        /\ a \in Terminals
        /\ buffer_size[a] < BUF_SIZE
        /\ buffer' = [buffer EXCEPT ![a][buffer_size[a]] = Translate(k)]
        /\ buffer_size' = [buffer_size EXCEPT ![a] = @ + 1]
        /\ UNCHANGED enter_flag
        BY <1>1, <1>4 DEF CharPress, LineInv, ExecIsRunning, schedVars, TypeOK
  <2>2. Translate(k) \in Chars /\ Translate(k) # Newline
        BY TranslateTypes
        DEF Chars, Typable, Letters, Symbols, FKeys, Capitals, UpperCase, Newline
  <2>3. /\ [u \in Terminals |-> Text(u)]' = [[u \in Terminals |-> Text(u)] EXCEPT
                                                ![a] = Append(@, Translate(k))]
        /\ BlankTail => BlankTail'
        BY <1>1, <2>1, <2>2, TextGrows
  <2>4. ASSUME NEW t \in Terminals, HasLine(t)' PROVE HasLine(t)
    <3>1. CASE t # a
      <4>1. buffer'[t] = buffer[t] /\ buffer_size'[t] = buffer_size[t]
            BY <1>1, <2>1, <3>1 DEF TypeOK
      <4> QED
          BY <2>4, <4>1 DEF HasLine, Text
    <3>2. CASE t = a
      <4>1. /\ buffer_size[t] \in 0 .. BUF_SIZE - 1
            /\ buffer_size'[t] = buffer_size[t] + 1
            /\ buffer'[t] = [buffer[t] EXCEPT ![buffer_size[t]] = Translate(k)]
            /\ buffer[t] \in [0 .. BUF_SIZE - 1 -> Chars]
            BY <1>1, <2>1, <3>2 DEF TypeOK
      <4>2. PICK i \in 1 .. buffer_size[t] + 1 : buffer'[t][i - 1] = Newline
            BY <2>4, <4>1 DEF HasLine, Text
      <4>3. i # buffer_size[t] + 1
            BY <2>2, <4>1, <4>2
      <4>4. i \in 1 .. buffer_size[t] /\ buffer[t][i - 1] = Newline
            BY <4>1, <4>2, <4>3
      <4> QED
          BY <4>4 DEF HasLine, Text
    <3> QED
        BY <3>1, <3>2
  <2>5. NewlinePending'
        BY <2>1, <2>4 DEF NewlinePending, LineInv
  <2> QED
      BY <1>1, <2>1, <2>3, <2>5 DEF LineInv
<1>5. ASSUME NEW t \in Terminals, ReadCopy(t) PROVE LineInv'
  <2>1. /\ exec_terminal = t /\ ExecIsRunning'
        /\ enter_flag' = [enter_flag EXCEPT ![t] = FALSE]
        /\ buffer' = [buffer EXCEPT ![t] = Empty]
        /\ buffer_size' = [buffer_size EXCEPT ![t] = 0]
        BY <1>5 DEF ReadCopy, LineInv, ExecIsRunning, schedVars
  <2>2. /\ buffer_size'[t] = 0 /\ buffer'[t] = Empty
        /\ \A u \in Terminals \ {t} : /\ buffer'[u] = buffer[u]
                                      /\ buffer_size'[u] = buffer_size[u]
                                      /\ enter_flag'[u] = enter_flag[u]
        BY <1>1, <2>1 DEF TypeOK
  <2>3. ~HasLine(t)'
        BY <2>2 DEF HasLine
  <2>6. \A u \in Terminals \ {t} : HasLine(u)' => HasLine(u)
        BY <2>2 DEF HasLine, Text
  <2>4. NewlinePending'
        BY <2>2, <2>3, <2>6 DEF NewlinePending, LineInv
  <2>5. BlankTail => BlankTail'
        BY <2>2 DEF BlankTail, Empty
  <2> QED
      BY <1>1, <2>1, <2>4, <2>5 DEF LineInv
<1>6. CASE /\ ~EnterPress /\ ~BackspacePress
           /\ ~\E k \in Letters \cup Symbols \cup FKeys : CharPress(k)
           /\ ~\E t \in Terminals : ReadCopy(t)
      BY <1>1, <1>6, QuietSteps DEF LineInv, lineVars, NewlinePending, HasLine, Text, BlankTail
<1> QED
    BY <1>2, <1>3, <1>4, <1>5, <1>6

(* The machine boots with empty lines.                                     *)
LEMMA LineInit == Init => LineInv
<1> SUFFICES ASSUME Init PROVE LineInv
    OBVIOUS
<1>1. TypeOK
      BY InitTypes
<1>2. ExecIsRunning /\ NewlinePending /\ FlagHeld /\ BlankTail
      BY DEF Init, ExecIsRunning, FlagHeld, NewlinePending, HasLine, BlankTail, Empty
<1> QED
    BY <1>1, <1>2 DEF LineInv

(* An ended line that was not read is announced by enter_flag              *)
(* (keyboard_handler.c:213-218, terminal.c:246-257).                       *)
THEOREM LinesAnnounced == Spec => []NewlinePending
<1>1. LineInv => NewlinePending
      BY DEF LineInv
<1> QED
    BY <1>1, LineInit, LineStep, PTL DEF Spec

-----------------------------------------------------------------------------
Unread == [t \in Terminals |-> Text(t)]
Ended == {t \in Terminals : enter_flag[t]}

(* The machine boots as TypedLines begins.                                 *)
LEMMA RefinesInit == Init => Lines!Init
<1> SUFFICES ASSUME Init PROVE Lines!Init
    OBVIOUS
<1>1. \A t \in Terminals : Text(t) = <<>>
      BY DEF Init, Text
<1>2. Ended = {}
      BY DEF Init, Ended
<1> QED
    BY <1>1, <1>2 DEF Lines!Init, Init, Ended

(* Every step types, ends, erases or reads as TypedLines does, or stutters.*)
LEMMA RefinesNext ==
    ASSUME Overruns = FALSE
    PROVE  LineInv /\ [Next]_vars => [Lines!Next]_(Lines!vars)
<1> SUFFICES ASSUME LineInv, [Next]_vars PROVE [Lines!Next]_(Lines!vars)
    OBVIOUS
<1>1. TypeOK /\ BlankTail /\ ExecIsRunning /\ FlagHeld
      BY DEF LineInv
<1>2. \A t \in Terminals : Text(t) \in Seq(Chars) /\ Len(Text(t)) = buffer_size[t]
      BY <1>1, TextType
<1>3. CASE EnterPress
  <2> PICK a \in Terminals : a = active_terminal
      BY <1>1 DEF TypeOK
  <2>1. /\ buffer_size[a] < BUF_SIZE
        /\ buffer' = [buffer EXCEPT ![a][buffer_size[a]] = Newline]
        /\ buffer_size' = [buffer_size EXCEPT ![a] = @ + 1]
        /\ enter_flag' = [enter_flag EXCEPT ![a] = TRUE]
        /\ got' = <<>>
        BY <1>3 DEF EnterPress, NothingRead
  <2>2. Unread' = [Unread EXCEPT ![a] = Append(@, Newline)]
    <3>1. Newline \in Chars
          BY DEF Chars
    <3> QED
        BY <1>1, <2>1, <3>1, TextGrows DEF Unread
  <2>3. Ended' = Ended \cup {a}
    <3>1. \A t \in Terminals : enter_flag'[t] <=> (t = a \/ enter_flag[t])
          BY <1>1, <2>1 DEF TypeOK
    <3> QED
        BY <3>1 DEF Ended
  <2>4. Len(Unread[a]) < BUF_SIZE
        BY <1>2, <2>1 DEF Unread
  <2>5. Lines!End(a)
        BY <2>1, <2>2, <2>3, <2>4 DEF Lines!End, Unread, Ended
  <2> QED
      BY <2>5 DEF Lines!Next
<1>4. CASE BackspacePress
  <2> PICK a \in Terminals : a = active_terminal
      BY <1>1 DEF TypeOK
  <2>1. /\ buffer_size[a] # 0
        /\ buffer' = [buffer EXCEPT ![a][buffer_size[a] - 1] = Space]
        /\ buffer_size' = [buffer_size EXCEPT ![a] = @ - 1]
        /\ UNCHANGED enter_flag
        /\ got' = <<>>
        BY <1>4 DEF BackspacePress, NothingRead
  <2>2. /\ Unread[a] # <<>>
        /\ Unread' = [Unread EXCEPT ![a] = SubSeq(@, 1, Len(@) - 1)]
        BY <1>1, <2>1, TextShrinks DEF Unread
  <2>3. Ended' = Ended
        BY <2>1 DEF Ended
  <2>4. Lines!Erase(a)
        BY <2>1, <2>2, <2>3 DEF Lines!Erase, Unread, Ended
  <2> QED
      BY <2>4 DEF Lines!Next
<1>5. ASSUME NEW k \in Letters \cup Symbols \cup FKeys, CharPress(k)
      PROVE  [Lines!Next]_(Lines!vars)
  <2> PICK a \in Terminals : a = active_terminal
      BY <1>1 DEF TypeOK
  <2> PICK c \in Typable : c = Translate(k)
      BY TranslateTypes
  <2>1. /\ buffer_size[a] < BUF_SIZE - 1
        /\ buffer' = [buffer EXCEPT ![a][buffer_size[a]] = c]
        /\ buffer_size' = [buffer_size EXCEPT ![a] = @ + 1]
        /\ UNCHANGED enter_flag
        /\ got' = <<>>
        BY <1>5 DEF CharPress, NothingRead
  <2>2. Unread' = [Unread EXCEPT ![a] = Append(@, c)]
    <3>1. c \in Chars
          BY DEF Chars
    <3>2. buffer_size[a] < BUF_SIZE
          BY <1>1, <2>1 DEF TypeOK
    <3> QED
        BY <1>1, <2>1, <3>1, <3>2, TextGrows DEF Unread
  <2>3. Ended' = Ended
        BY <2>1 DEF Ended
  <2>4. Len(Unread[a]) < BUF_SIZE - 1
        BY <1>2, <2>1 DEF Unread
  <2>5. Lines!Type(a, c)
        BY <2>1, <2>2, <2>3, <2>4 DEF Lines!Type, Unread, Ended
  <2> QED
      BY <2>5 DEF Lines!Next
<1>6. ASSUME NEW t \in Terminals, ReadCopy(t) PROVE [Lines!Next]_(Lines!vars)
  <2>1. enter_flag[t]
        BY <1>1, <1>6 DEF ReadCopy, FlagHeld
  <2>2. /\ exec_terminal = t
        /\ enter_flag' = [enter_flag EXCEPT ![t] = FALSE]
        /\ got' = [i \in 1 .. nbytes[t] |-> buffer[t][i - 1]]
        /\ buffer' = [buffer EXCEPT ![t] = Empty]
        /\ buffer_size' = [buffer_size EXCEPT ![t] = 0]
        BY <1>1, <1>6 DEF ReadCopy, Copied, ExecIsRunning
  <2>3. Unread' = [Unread EXCEPT ![t] = <<>>]
    <3>1. Text(t)' = <<>>
          BY <1>1, <2>2 DEF Text, TypeOK
    <3>2. \A u \in Terminals \ {t} : Text(u)' = Text(u)
          BY <1>1, <2>2 DEF Text, TypeOK
    <3> QED
        BY <3>1, <3>2 DEF Unread
  <2>4. Ended' = Ended \ {t}
    <3>1. \A u \in Terminals : enter_flag'[u] <=> (u # t /\ enter_flag[u])
          BY <1>1, <2>2 DEF TypeOK
    <3> QED
        BY <3>1 DEF Ended
  <2>5. t \in Ended
        BY <2>1 DEF Ended
  <2>6. nbytes[t] \in 0 .. BUF_SIZE
        BY <1>1 DEF TypeOK
  <2>7. Lines!Answers(got', Unread[t], nbytes[t])
    <3>1. Len(got') = nbytes[t]
          BY <2>2, <2>6
    <3>2. ASSUME NEW i \in 1 .. nbytes[t]
          PROVE  IF i <= Len(Unread[t]) THEN got'[i] = Unread[t][i]
                                        ELSE got'[i] \in {Space, NUL}
      <4>1. got'[i] = buffer[t][i - 1] /\ i - 1 \in 0 .. BUF_SIZE - 1
            BY <2>2, <2>6
      <4>2. Unread[t] = Text(t) /\ Len(Unread[t]) = buffer_size[t]
            BY <1>2 DEF Unread
      <4>3. CASE i <= buffer_size[t]
            BY <1>1, <4>1, <4>2, <4>3, TextType
      <4>4. CASE ~(i <= buffer_size[t])
        <5>1. i - 1 >= buffer_size[t]
              BY <1>1, <4>4 DEF TypeOK
        <5> QED
            BY <1>1, <4>1, <4>2, <4>4, <5>1 DEF BlankTail
      <4> QED
          BY <4>3, <4>4
    <3> QED
        BY <3>1, <3>2 DEF Lines!Answers
  <2>8. Lines!Read(t)
        BY <2>3, <2>4, <2>5, <2>6, <2>7 DEF Lines!Read, Unread, Ended
  <2> QED
      BY <2>8 DEF Lines!Next
<1>7. CASE /\ ~EnterPress /\ ~BackspacePress
           /\ ~\E k \in Letters \cup Symbols \cup FKeys : CharPress(k)
           /\ ~\E t \in Terminals : ReadCopy(t)
  <2>1. UNCHANGED lineVars /\ (got' = <<>> \/ UNCHANGED got)
        BY <1>7, QuietSteps
  <2>2. Unread' = Unread /\ Ended' = Ended
        BY <2>1 DEF Unread, Ended, Text, lineVars
  <2> QED
      BY <2>1, <2>2 DEF Lines!Next, Lines!Past, Lines!vars, Unread, Ended
<1> QED
    BY <1>3, <1>4, <1>5, <1>6, <1>7

(* The terminals keep the promise of TypedLines (terminal_read and         *)
(* keyboard_handler), unless Enter is pressed on a full buffer.            *)
THEOREM Implementation ==
    ASSUME Overruns = FALSE
    PROVE  Spec => ImplementsTypedLines
BY LineInit, LineStep, RefinesInit, RefinesNext, PTL
   DEF Spec, ImplementsTypedLines, Lines!Spec
-----------------------------------------------------------------------------
(* The Shifts that are held, counted, ...                                  *)
LEMMA ShiftCardinality ==
    /\ IsFiniteSet(held \cap Shifts)
    /\ Cardinality(held \cap Shifts) \in Nat
    /\ Cardinality(held \cap Shifts) = 0 <=> held \cap Shifts = {}
<1>1. IsFiniteSet(Shifts)
    <2>1. Shifts = ({} \cup {"lshift"}) \cup {"rshift"}
        BY DEF Shifts
    <2> QED
        BY <2>1, FS_EmptySet, FS_AddElement
<1>2. IsFiniteSet(held \cap Shifts)
    BY <1>1, FS_Subset
<1> QED
    BY <1>2, FS_CardinalityType, FS_EmptySet

(* ... and one Shift key more or less.                                     *)
LEMMA ShiftsCounted ==
    ASSUME NEW k \in Shifts
    PROVE  /\ k \notin held => Cardinality((held \cup {k}) \cap Shifts)
                                 = Cardinality(held \cap Shifts) + 1
           /\ k \in held => Cardinality((held \ {k}) \cap Shifts)
                              = Cardinality(held \cap Shifts) - 1
<1>2. IsFiniteSet(held \cap Shifts)
    BY ShiftCardinality
<1>3. (held \cup {k}) \cap Shifts = (held \cap Shifts) \cup {k}
    OBVIOUS
<1>4. (held \ {k}) \cap Shifts = (held \cap Shifts) \ {k}
    OBVIOUS
<1>5. CASE k \notin held
    BY <1>2, <1>3, <1>5, FS_AddElement
<1>6. CASE k \in held
    BY <1>2, <1>4, <1>6, FS_RemoveElement
<1> QED
    BY <1>5, <1>6

(* Every key keeps the modifiers as they are held.                         *)
LEMMA ModifiersStep ==
    ASSUME TypeOK, ModifiersMatch, [Next]_vars
    PROVE  ModifiersMatch'
<1>0. /\ repeats \in Nat /\ Cardinality(held \cap Shifts) \in Nat
      /\ shift_count = Cardinality(held \cap Shifts) + repeats
    BY ShiftCardinality DEF ModifiersMatch, TypeOK
<1>1. CASE CtrlRelease
    <2>1. held' \cap Shifts = held \cap Shifts /\ UNCHANGED <<shift_count, repeats>>
        BY <1>1 DEF CtrlRelease, Shifts, shiftVars
    <2>2. alt_flag' = alt_flag /\ ctrl_flag' = FALSE /\ held' = held \ {"ctrl"}
        BY <1>1 DEF CtrlRelease
    <2>3. "alt" \in held' <=> "alt" \in held
        BY <2>2
    <2>4. alt_flag' = ("alt" \in held')
        BY <2>2, <2>3 DEF ModifiersMatch
    <2> QED
        BY <2>1, <2>2, <2>4 DEF ModifiersMatch
<1>2. CASE AltRelease
    <2>1. held' \cap Shifts = held \cap Shifts /\ UNCHANGED <<shift_count, repeats>>
        BY <1>2 DEF AltRelease, Shifts, shiftVars
    <2>2. ~alt_flag' /\ "alt" \notin held' /\ (ctrl_flag' => "ctrl" \in held') /\ alt_flag' \in BOOLEAN
        BY <1>2 DEF AltRelease, ModifiersMatch
    <2> QED
        BY <2>1, <2>2 DEF ModifiersMatch
<1>3. CASE AltPress
    <2>1. held' \cap Shifts = held \cap Shifts /\ UNCHANGED <<shift_count, repeats>>
        BY <1>3 DEF AltPress, Shifts, shiftVars
    <2>2. alt_flag' = TRUE /\ "alt" \in held' /\ (ctrl_flag' => "ctrl" \in held')
        BY <1>3 DEF AltPress, ModifiersMatch
    <2> QED
        BY <2>1, <2>2 DEF ModifiersMatch
<1>4. CASE CtrlPress
    <2>1. held' \cap Shifts = held \cap Shifts /\ UNCHANGED <<shift_count, repeats>>
        BY <1>4 DEF CtrlPress, Shifts, shiftVars
    <2>2. alt_flag' = ("alt" \in held') /\ "ctrl" \in held'
        BY <1>4 DEF CtrlPress, ModifiersMatch
    <2> QED
        BY <2>1, <2>2 DEF ModifiersMatch
<1>5. ASSUME NEW k \in Shifts, ShiftPress(k) PROVE ModifiersMatch'
    <2>1. /\ held' = held \cup {k} /\ shift_count' = shift_count + 1
          /\ repeats' = IF k \in held THEN repeats + 1 ELSE repeats
        BY <1>5 DEF ShiftPress
    <2>2. shift_count' = Cardinality(held' \cap Shifts) + repeats'
        <3>1. CASE k \in held
            <4>1. held' = held
                BY <2>1, <3>1
            <4> QED
                BY <1>0, <2>1, <3>1, <4>1
        <3>2. CASE k \notin held
            BY <1>0, <2>1, <3>2, ShiftsCounted
        <3> QED
            BY <3>1, <3>2
    <2>3. alt_flag' = ("alt" \in held') /\ (ctrl_flag' => "ctrl" \in held')
        BY <1>5 DEF ShiftPress, ModifiersMatch, Shifts
    <2> QED
        BY <2>2, <2>3 DEF ModifiersMatch
<1>6. ASSUME NEW k \in Shifts, ShiftRelease(k) PROVE ModifiersMatch'
    <2>1. /\ k \in held /\ held' = held \ {k}
          /\ shift_count' = shift_count - 1 /\ repeats' = repeats
        BY <1>6 DEF ShiftRelease
    <2>2. shift_count' = Cardinality(held' \cap Shifts) + repeats'
        <3>1. Cardinality(held' \cap Shifts) = Cardinality(held \cap Shifts) - 1
            BY <2>1, ShiftsCounted
        <3> QED
            BY <1>0, <2>1, <3>1
    <2>3. alt_flag' = ("alt" \in held') /\ (ctrl_flag' => "ctrl" \in held')
        BY <1>6 DEF ShiftRelease, ModifiersMatch, Shifts
    <2> QED
        BY <2>2, <2>3 DEF ModifiersMatch
<1>7. CASE UNCHANGED <<held, shift_count, repeats, alt_flag, ctrl_flag>>
    BY <1>7 DEF ModifiersMatch
<1>8. CASE /\ ~CtrlRelease /\ ~AltRelease /\ ~AltPress /\ ~CtrlPress
           /\ ~\E k \in Shifts : ShiftPress(k) \/ ShiftRelease(k)
    <2>1. \/ Tick \/ CapsPress \/ EnterPress \/ BackspacePress
          \/ \E k \in FKeys : AltF(k)
          \/ \E k \in Letters \cup Symbols \cup FKeys : CharPress(k)
          \/ \E t \in Terminals : ReadWait(t) \/ ReadCopy(t) \/ \E n \in Requests : ReadCall(t, n)
          \/ UNCHANGED vars
        BY <1>8 DEF Next, Keyboard, Reader
    <2>2. UNCHANGED <<held, shift_count, repeats, alt_flag, ctrl_flag>>
        BY <2>1 DEF Tick, CapsPress, EnterPress, BackspacePress, AltF, CharPress, ReadWait, ReadCopy,
                    ReadCall, modVars, shiftVars, vars
    <2> QED
        BY <1>7, <2>2
<1> QED
    BY <1>1, <1>2, <1>3, <1>4, <1>5, <1>6, <1>8

(* Nothing is held when the machine boots.                                 *)
LEMMA ModifiersInit == Init => ModifiersMatch
<1> SUFFICES ASSUME Init PROVE ModifiersMatch
    OBVIOUS
<1>1. held \cap Shifts = {} /\ shift_count = 0 /\ repeats = 0
    BY DEF Init
<1>2. alt_flag = FALSE /\ ctrl_flag = FALSE /\ held = {}
    BY DEF Init
<1>3. alt_flag = ("alt" \in held)
    <2>1. ("alt" \in {}) = FALSE
        OBVIOUS
    <2> QED
        BY <1>2, <2>1
<1> QED
    BY <1>1, <1>2, <1>3, FS_EmptySet DEF ModifiersMatch

(* No chord leaves a modifier stuck or loses one (keyboard_handler.c:      *)
(* 102-138, 166-171), in any order of presses, repeats and releases, but   *)
(* for the count that every repeat of a Shift leaves behind.               *)
THEOREM ModifiersAlwaysMatch == Spec => []ModifiersMatch
<1>1. TypeOK /\ ModifiersMatch /\ [Next]_vars => ModifiersMatch'
    BY ModifiersStep
<1> QED
    BY <1>1, ModifiersInit, TypeCorrect, PTL DEF Spec

-----------------------------------------------------------------------------
(* A read takes the line of the flow that asked for it.                    *)
LEMMA ReadsOwnStep ==
    ASSUME LineInv, [Next]_vars, NEW t \in Terminals, reading[t] = "copy", reading'[t] = "user"
    PROVE  /\ got' = [i \in 1 .. nbytes[t] |-> buffer[t][i - 1]]
           /\ \A u \in Terminals \ {t} : buffer'[u] = buffer[u]
<1>1. reading \in [Terminals -> {"user", "wait", "copy"}] /\ exec_terminal = running
    BY DEF LineInv, TypeOK, ExecIsRunning
<1>2. ASSUME NEW r \in Terminals, ReadCopy(r)
      PROVE  /\ got' = [i \in 1 .. nbytes[t] |-> buffer[t][i - 1]]
             /\ \A u \in Terminals \ {t} : buffer'[u] = buffer[u]
    <2>1. r = t
        BY <1>1, <1>2 DEF ReadCopy
    <2>2. exec_terminal = t /\ got' = Copied(t)
        BY <1>1, <1>2, <2>1 DEF ReadCopy
    <2>3. buffer' = [buffer EXCEPT ![t] = Empty]
        BY <1>2, <2>1, <2>2 DEF ReadCopy
    <2> QED
        BY <2>2, <2>3 DEF Copied, LineInv, TypeOK
<1>3. CASE ~\E r \in Terminals : ReadCopy(r)
    <2>1. ASSUME NEW r \in Terminals, reading' = [reading EXCEPT ![r] = "copy"] PROVE FALSE
        BY <1>1, <2>1
    <2>2. ASSUME NEW r \in Terminals, reading' = [reading EXCEPT ![r] = "wait"] PROVE FALSE
        BY <1>1, <2>2
    <2>3. \/ reading' = reading
          \/ \E r \in Terminals : \/ reading' = [reading EXCEPT ![r] = "copy"]
                                  \/ reading' = [reading EXCEPT ![r] = "wait"]
        BY <1>3 DEF Next, Keyboard, Reader, Tick, CtrlRelease, AltRelease, AltPress, CtrlPress, CapsPress,
                    EnterPress, BackspacePress, ShiftPress, ShiftRelease, AltF, CharPress,
                    ReadWait, ReadCall, readVars, vars
    <2> QED
        BY <2>1, <2>2, <2>3
<1> QED
    BY <1>2, <1>3

(* Whatever is scheduled and displayed in between, a read takes its line   *)
(* from its own terminal and leaves the others alone (terminal.c:246-257). *)
THEOREM ReadsStayApart == Spec => ReadsOwnTerminal
<1>1. LineInv /\ [Next]_vars =>
        [\A t \in Terminals :
            reading[t] = "copy" /\ reading'[t] = "user" =>
               /\ got' = [i \in 1 .. nbytes[t] |-> buffer[t][i - 1]]
               /\ \A u \in Terminals \ {t} : buffer'[u] = buffer[u]]_vars
    BY ReadsOwnStep
<1> QED
    BY <1>1, LineInit, LineStep, PTL DEF Spec, ReadsOwnTerminal

(* Only the displayed terminal's line grows.                               *)
LEMMA KeysStep ==
    ASSUME LineInv, [Next]_vars, NEW t \in Terminals, buffer_size'[t] > buffer_size[t]
    PROVE  t = active_terminal
<1>1. buffer_size \in [Terminals -> 0 .. BUF_SIZE]
    BY DEF LineInv, TypeOK
<1>2. CASE \E n : buffer_size' = [buffer_size EXCEPT ![active_terminal] = n]
    BY <1>1, <1>2
<1>3. CASE \E r \in Terminals : ReadCopy(r)
    <2>1. buffer_size' = [buffer_size EXCEPT ![exec_terminal] = 0]
        BY <1>3 DEF ReadCopy
    <2> QED
        BY <1>1, <2>1
<1>4. CASE UNCHANGED buffer_size
    BY <1>1, <1>4
<1>5. CASE EnterPress \/ BackspacePress
           \/ \E k \in Letters \cup Symbols \cup FKeys : CharPress(k)
    <2>1. \E n : buffer_size' = [buffer_size EXCEPT ![active_terminal] = n]
        BY <1>5 DEF EnterPress, BackspacePress, CharPress
    <2> QED
        BY <1>2, <2>1
<1>6. CASE /\ ~EnterPress /\ ~BackspacePress
           /\ ~\E k \in Letters \cup Symbols \cup FKeys : CharPress(k)
           /\ ~\E r \in Terminals : ReadCopy(r)
    BY <1>4, <1>6, QuietSteps DEF lineVars
<1> QED
    BY <1>3, <1>5, <1>6

(* The case of a letter.                                                   *)
LEMMA CaseOf ==
    ASSUME TypeOK, ModifiersMatch, NEW k \in Letters \cup Symbols \cup FKeys,
           Translate(k) \in Letters \cup Capitals
    PROVE  (Translate(k) \in Capitals) = (ShiftSeen # caps_flag)
<1>1. shift_count > 0 <=> ShiftSeen
    BY ShiftCardinality DEF ModifiersMatch, ShiftSeen, TypeOK
<1>2. caps_flag \in BOOLEAN /\ ShiftSeen \in BOOLEAN
    BY DEF TypeOK, ShiftSeen
<1>3. k \in Letters
    BY DEF Translate, Letters, Symbols, FKeys, Capitals, UpperCase, ShiftedSymbol
<1>4. k \notin Symbols /\ k \notin Capitals /\ UpperCase[k] \in Capitals
    BY <1>3 DEF Letters, Symbols, Capitals, UpperCase
<1>5. CASE (shift_count > 0) # caps_flag
    <2>1. Translate(k) \in Capitals
        BY <1>3, <1>4, <1>5 DEF Translate
    <2>2. ShiftSeen # caps_flag
        BY <1>1, <1>2, <1>5
    <2> QED
        BY <2>1, <2>2
<1>6. CASE ~((shift_count > 0) # caps_flag)
    <2>1. Translate(k) \notin Capitals
        BY <1>3, <1>4, <1>6 DEF Translate
    <2>2. ~(ShiftSeen # caps_flag)
        BY <1>1, <1>2, <1>6
    <2> QED
        BY <2>1, <2>2
<1> QED
    BY <1>5, <1>6

LEMMA CaseStep ==
    ASSUME LineInv, ModifiersMatch, [Next]_vars, NEW t \in Terminals,
           buffer_size'[t] = buffer_size[t] + 1,
           buffer'[t][buffer_size[t]] \in Letters \cup Capitals
    PROVE  (buffer'[t][buffer_size[t]] \in Capitals)
           = (ShiftSeen # caps_flag)
<1>1. TypeOK /\ t = active_terminal
    <2>1. buffer_size'[t] > buffer_size[t]
        BY DEF LineInv, TypeOK
    <2> QED
        BY <2>1, KeysStep DEF LineInv
<1>2. buffer_size \in [Terminals -> 0 .. BUF_SIZE]
    BY <1>1 DEF TypeOK
<1>3. ASSUME NEW k \in Letters \cup Symbols \cup FKeys, CharPress(k)
      PROVE  (buffer'[t][buffer_size[t]] \in Capitals) = (ShiftSeen # caps_flag)
    <2>1. buffer'[t][buffer_size[t]] = Translate(k)
        BY <1>1, <1>2, <1>3 DEF CharPress, TypeOK
    <2> QED
        BY <1>1, <2>1, CaseOf
<1>4. CASE EnterPress
    <2>1. buffer_size[t] < BUF_SIZE /\ buffer' = [buffer EXCEPT ![t][buffer_size[t]] = Newline]
        BY <1>1, <1>2, <1>4 DEF EnterPress
    <2>2. buffer'[t][buffer_size[t]] = Newline
        BY <1>1, <1>2, <2>1 DEF TypeOK
    <2> QED
        BY <2>2 DEF Newline, Letters, Capitals, UpperCase
<1>5. CASE BackspacePress
    BY <1>1, <1>2, <1>5 DEF BackspacePress
<1>6. CASE \E r \in Terminals : ReadCopy(r)
    <2>1. buffer_size' = [buffer_size EXCEPT ![exec_terminal] = 0]
        BY <1>6 DEF ReadCopy
    <2> QED
        BY <1>2, <2>1
<1>7. CASE /\ ~EnterPress /\ ~BackspacePress
           /\ ~\E k \in Letters \cup Symbols \cup FKeys : CharPress(k)
           /\ ~\E r \in Terminals : ReadCopy(r)
    BY <1>2, <1>7, QuietSteps DEF lineVars
<1> QED
    BY <1>3, <1>4, <1>5, <1>6, <1>7

(* A letter is upper case if Shift is held or Caps Lock is on, not both,   *)
(* whatever chords came before (keyboard_handler.c:191-206), and a Shift   *)
(* that has repeated counts as held for good.                              *)
THEOREM CasesAsHeld == Spec => LetterCase
<1>1. LineInv /\ ModifiersMatch /\ [Next]_vars =>
        [\A t \in Terminals :
            /\ buffer_size'[t] = buffer_size[t] + 1
            /\ buffer'[t][buffer_size[t]] \in Letters \cup Capitals
            => (buffer'[t][buffer_size[t]] \in Capitals)
               = (ShiftSeen # caps_flag)]_vars
    BY CaseStep
<1> QED
    BY <1>1, LineInit, LineStep, ModifiersAlwaysMatch, PTL DEF Spec, LetterCase
=============================================================================
