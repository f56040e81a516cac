------------------------------ MODULE Session ------------------------------
(***************************************************************************)
(* A session on one terminal: the shell (ece391shell.c) reads a line and   *)
(* executes it, a program reads its argument, the directory, files and     *)
(* lines, writes what it finds and ends, and the shell says what came of   *)
(* it.  The lines are what TypedLines promises, the reads of descriptors   *)
(* what Files does; nothing but the program runs on its terminal.          *)
(***************************************************************************)
EXTENDS CommandLine

CONSTANTS Directory,    \* its entries in order: [name, type]
          Program,      \* what the executables are: name -> program
          Texts,        \* bound: what the text files may hold, by name
          Lines,        \* bound: the lines typed, each with its newline
          BUFSIZE,      \* bytes in a program's buffer (1024)
          Slots,        \* bound: processes there is room for on the terminal
          Behind,       \* what may stand behind do_one_file's buffer
          Counts        \* what counter counts to: character -> number

VARIABLES text,         \* what the text files hold
          shells,       \* the shells, each started by the one before it:
                        \*   the argument in the PCB of each
          pc,           \* what the process on top does
          asked,        \* history: what the line said
          out,          \* what was written since
          told,         \* what the shell says at the end
          arg,          \* what getargs gave
          entry, pos,   \* positions in the directory and in the file open
          data, last, cnt, line_start       \* of do_one_file

bufVars == <<data, last, cnt, line_start>>
fileVars == <<entry, pos>>
vars == <<text, shells, pc, asked, out, told, arg, fileVars, bufVars>>

Entries == 1 .. Len(Directory)
Programs == {"cat", "grep", "ls", "hello", "counter", "shell"}
Named(name) == {e \in Entries : Directory[e].name = name}
TextNames == {Directory[e].name : e \in {d \in Entries : Directory[d].type = "text"}}

(* grep takes what has such a name for a directory.                        *)
Hidden(e) == Directory[e].name[1] = "."

ASSUME SessionAssumption ==
    /\ BUFSIZE \in Nat \ {0} /\ Slots \in Nat \ {0}
    /\ \A line \in Lines : TypedLine(line)
    /\ Texts \subseteq [TextNames -> Seq(Characters \ {Nul})]
    /\ Len(Directory) \in Nat
    /\ \A e \in Entries : /\ Directory[e].type \in {"dir", "text", "program", "rtc"}
                          /\ Directory[e].name # <<>>
                          /\ Directory[e].type = "dir" => Hidden(e)
                          /\ \A d \in Entries : Directory[d].name = Directory[e].name => d = e
    /\ \A name \in DOMAIN Program : /\ Program[name] \in Programs /\ ~IsExit(name)
                                    /\ \E e \in Entries : Directory[e].name = name

NoLine == [word |-> <<>>, argument |-> Garbage]
Fill(c) == [k \in 0 .. BUFSIZE |-> c]

Init ==
    /\ text \in Texts
    /\ shells = <<Garbage>>
    /\ pc = "prompt"
    /\ asked = NoLine /\ out = <<>> /\ told = "nothing"
    /\ arg = <<>> /\ entry = 1 /\ pos = 0
    /\ data = Fill(Nul) /\ last = 0 /\ cnt = 0 /\ line_start = 0

Bytes(e) == CASE Directory[e].type = "text" -> text[Directory[e].name]
              [] Directory[e].type = "program" -> <<"ELF">>
              [] Directory[e].type = "rtc" -> <<>>

(* The process on top ends, and the shell says how.                        *)
End(status) == /\ pc' = "answered"
               /\ told' = IF status = 0 THEN "nothing" ELSE "abnormal"
Write(what) == out' = out \o what
Quiet == UNCHANGED out

-----------------------------------------------------------------------------
(* The shell.                                                              *)
Here == Len(shells)
Parsed(line) == parse_cmd(ShellLine(line), shells[Here])
Executable(name) == name \in DOMAIN Program /\ Named(name) # {} /\ Here < Slots
Exits(line) == IsExit(Parsed(line).name) /\ Here > 1

(* What every line does: it is read and parsed, and with it the PCB's      *)
(* argument is written.  A line of blanks alone that fills the buffer is   *)
(* refused before that, which comes to the same.                           *)
Typed(line) ==
    /\ pc = "prompt"
    /\ asked' = IF Len(line) = BUF_SIZE /\ Says(line).argument = <<>>
                THEN [word |-> Says(line).word, argument |-> Garbage] ELSE Says(line)
    /\ UNCHANGED <<text, out, fileVars, bufVars>>

Stored(line) == [shells EXCEPT ![Here] = Parsed(line).argument]

(* exit halts the shell that runs execute; the first one stays, and goes   *)
(* on to look for a program of that name.                                  *)
ExecuteExit(line) ==
    /\ Typed(line)
    /\ Exits(line)
    /\ shells' = SubSeq(shells, 1, Here - 1)
    /\ End(0)
    /\ UNCHANGED arg

ExecuteFails(line) ==
    /\ Typed(line)
    /\ ~Exits(line) /\ ~Executable(Parsed(line).name)
    /\ shells' = Stored(line)
    /\ pc' = "answered" /\ told' = "no such command"
    /\ UNCHANGED arg

(* The new process's argument is not initialised.                          *)
Execute(line) ==
    LET program == Program[Parsed(line).name]
    IN  /\ Typed(line)
        /\ ~Exits(line) /\ Executable(Parsed(line).name)
        /\ IF program = "shell"
           THEN shells' = Append(Stored(line), Garbage) /\ pc' = "prompt"
           ELSE shells' = Stored(line) /\ pc' = program
        /\ UNCHANGED <<told, arg>>

(* The prompt again; what the last command was is forgotten.               *)
Prompt == /\ pc = "answered"
          /\ pc' = "prompt"
          /\ asked' = NoLine /\ out' = <<>> /\ told' = "nothing"
          /\ arg' = <<>> /\ entry' = 1 /\ pos' = 0
          /\ data' = Fill(Nul) /\ last' = 0 /\ cnt' = 0 /\ line_start' = 0
          /\ UNCHANGED <<text, shells>>

-----------------------------------------------------------------------------
(* cat, ls, hello and counter.                                             *)
Rest == UNCHANGED <<text, shells, asked, bufVars>>

NoArgument(program) == /\ pc = program
                       /\ NoArgs(shells[Here])
                       /\ End(3) /\ Quiet
                       /\ UNCHANGED <<arg, fileVars>> /\ Rest

CatOpen == /\ pc = "cat"
           /\ ~NoArgs(shells[Here])
           /\ arg' = getargs(shells[Here])
           /\ IF Named(arg') = {} THEN End(2) /\ UNCHANGED entry
              ELSE pc' = "cat_read" /\ UNCHANGED told /\ entry' \in Named(arg')
           /\ UNCHANGED pos /\ Quiet /\ Rest

Fewest(m, n) == IF m <= n THEN m ELSE n
Read(e, n) == SubSeq(Bytes(e), pos + 1, Fewest(pos + n, Len(Bytes(e))))

CatRead == /\ pc = "cat_read" /\ Directory[entry].type # "dir"
           /\ Write(Read(entry, BUFSIZE))
           /\ pos' = pos + Len(Read(entry, BUFSIZE))
           /\ IF Read(entry, BUFSIZE) = <<>> THEN End(0) ELSE UNCHANGED <<pc, told>>
           /\ UNCHANGED <<arg, entry>> /\ Rest

(* Reads of a directory give a name each.                                  *)
CatNames == /\ pc = "cat_read" /\ Directory[entry].type = "dir"
            /\ IF pos = Len(Directory) THEN End(0) /\ Quiet /\ UNCHANGED pos
               ELSE Write(Directory[pos + 1].name) /\ pos' = pos + 1 /\ UNCHANGED <<pc, told>>
            /\ UNCHANGED <<arg, entry>> /\ Rest

Ls == /\ pc = "ls"
      /\ IF entry > Len(Directory) THEN End(0) /\ Quiet /\ UNCHANGED entry
         ELSE /\ Write(Append(Directory[entry].name, Newline))
              /\ entry' = entry + 1
              /\ UNCHANGED <<pc, told>>
      /\ UNCHANGED <<arg, pos>> /\ Rest

Hello(line) == /\ pc = "hello"
               /\ Write(<<"Hello">> \o CString(Padded(line)))
               /\ End(0)
               /\ UNCHANGED <<arg, fileVars>> /\ Rest

(* The choice is one character and its newline, or the newline alone; what *)
(* is written are the numbers themselves (Strings has their digits).       *)
Counter(line) ==
    LET typed == CString(Padded(line))
        wrong == Len(typed) > 2 \/ (Len(typed) = 2 /\ typed[1] \notin DOMAIN Counts)
    IN  /\ pc = "counter"
        /\ Write(IF wrong \/ Len(typed) = 1 THEN <<>> ELSE [i \in 1 .. Counts[typed[1]] |-> i])
        /\ End(0)
        /\ UNCHANGED <<arg, fileVars>> /\ Rest

-----------------------------------------------------------------------------
(* grep: every file of the directory whose name does not start with a dot, *)
(* read into a buffer that keeps the line the last read has cut.           *)
Shell == UNCHANGED <<text, shells, asked>>

(* The buffer is not initialised, then it is the one of the file before.   *)
GrepStart == /\ pc = "grep"
             /\ ~NoArgs(shells[Here])
             /\ arg' = getargs(shells[Here])
             /\ pc' = "grep_next"
             /\ \E c \in {Newline, Nul}, b \in Behind : data' = [Fill(c) EXCEPT ![BUFSIZE] = b]
             /\ UNCHANGED <<told, fileVars, last, cnt, line_start>> /\ Quiet /\ Shell

GrepNext ==
    /\ pc = "grep_next"
    /\ CASE entry > Len(Directory) -> End(0) /\ UNCHANGED <<fileVars, bufVars>>
         [] entry <= Len(Directory) /\ Hidden(entry) ->
              entry' = entry + 1 /\ UNCHANGED <<pc, told, pos, bufVars>>
         [] OTHER -> /\ pc' = "grep_read" /\ pos' = 0 /\ last' = 0
                     /\ UNCHANGED <<told, entry, data, cnt, line_start>>
    /\ Quiet /\ UNCHANGED arg /\ Shell

GrepRead ==
    LET got == Read(entry, BUFSIZE - last)
    IN  /\ pc = "grep_read"
        /\ cnt' = Len(got)
        /\ data' = [k \in 0 .. BUFSIZE |-> IF k - last \in 0 .. Len(got) - 1 /\ k >= last
                                           THEN got[k - last + 1] ELSE data[k]]
        /\ last' = last + Len(got)
        /\ pos' = pos + Len(got)
        /\ line_start' = 0
        /\ pc' = "grep_scan"
        /\ Quiet /\ UNCHANGED <<told, arg, entry>> /\ Shell

(* The line ends at a newline or where what was read ends.                 *)
LineEnd == CHOOSE k \in line_start .. BUFSIZE :
             /\ k >= last \/ data[k] = Newline
             /\ \A j \in line_start .. k - 1 : j < last /\ data[j] # Newline

Ended == [data EXCEPT ![LineEnd] = Nul]

StringAt(d, k) == CString([i \in 1 .. BUFSIZE + 1 - k |-> d[k + i - 1]])

(* The line goes on in what is still to be read: a copy of it, with the    *)
(* NUL that ends it, goes to the start of the buffer.                      *)
Cut == data[LineEnd] # Newline /\ cnt # 0 /\ line_start # 0

Carry ==
    LET line == StringAt(Ended, line_start)
    IN  /\ data' = [k \in 0 .. BUFSIZE |-> CASE k < Len(line) -> line[k + 1]
                                             [] k = Len(line) -> Nul
                                             [] OTHER -> Ended[k]]
        /\ last' = last - line_start
        /\ pc' = "grep_read"
        /\ Quiet /\ UNCHANGED <<entry, line_start>>

Matches(d, k) == /\ (IF arg = <<>> THEN Nul ELSE arg[1]) = d[k]
                 /\ LET string == StringAt(d, k)
                    IN  Len(arg) <= Len(string) /\ SubSeq(string, 1, Len(arg)) = arg

Search ==
    /\ data' = Ended
    /\ IF \E k \in line_start .. LineEnd - 1 : Matches(Ended, k)
       THEN Write(<<[file |-> Directory[entry].name, line |-> StringAt(Ended, line_start)]>>)
       ELSE Quiet
    /\ line_start' = LineEnd + 1
    /\ IF LineEnd + 1 < last THEN UNCHANGED <<last, pc, entry>>
       ELSE /\ last' = 0
            /\ IF cnt = 0 THEN pc' = "grep_next" /\ entry' = entry + 1
               ELSE pc' = "grep_read" /\ UNCHANGED entry

(* A line that is cut is searched as it stands.                            *)
GrepScan_Cut == /\ pc = "grep_scan"
                /\ Search
                /\ UNCHANGED <<told, arg, pos, cnt>> /\ Shell

GrepScan == /\ pc = "grep_scan"
            /\ IF Cut THEN Carry ELSE Search
            /\ UNCHANGED <<told, arg, pos, cnt>> /\ Shell

-----------------------------------------------------------------------------
Next ==
    \/ \E line \in Lines : ExecuteExit(line) \/ ExecuteFails(line) \/ Execute(line)
                           \/ Hello(line) \/ Counter(line)
    \/ NoArgument("cat") \/ CatOpen \/ CatRead \/ CatNames \/ Ls
    \/ NoArgument("grep") \/ GrepStart \/ GrepNext \/ GrepRead \/ GrepScan
    \/ Prompt

Spec == Init /\ [][Next]_vars

-----------------------------------------------------------------------------
(* What runs is what the line says, and the argument its program gets the  *)
(* rest of the line, however many blanks stand before, between and after   *)
(* and whatever the commands before it left in the PCB (parse_cmd, execute *)
(* and getargs).  A line that fills the buffer and has no argument is left *)
(* out: its program gets the argument of an earlier command.               *)
Runs(program) == asked.word \in DOMAIN Program /\ Program[asked.word] = program
RunsWhatWasTyped ==
    /\ \A program \in {"cat", "grep", "ls", "hello", "counter"} : pc = program => Runs(program)
    /\ told = "no such command" => asked.word \notin DOMAIN Program \/ Here = Slots
    /\ pc = "answered" /\ told = "nothing" => asked.word \in DOMAIN Program \/ IsExit(asked.word)
    /\ asked.argument # Garbage =>
         /\ pc \in {"cat", "grep"} => asked.argument = getargs(shells[Here])
         /\ pc \in {"cat_read", "grep_next", "grep_read", "grep_scan"} => asked.argument = arg

(* The lines of a text end before its newlines and where it ends.          *)
Ends(bytes) == {b \in 1 .. Len(bytes) + 1 : b = Len(bytes) + 1 \/ bytes[b] = Newline}
LineTo(bytes, b) ==
    LET from == {i \in 1 .. b : \A j \in i .. b - 1 : bytes[j] # Newline}
    IN  SubSeq(bytes, CHOOSE i \in from : \A j \in from : i <= j, b - 1)

Contains(line, s) == \E i \in 1 .. Len(line) + 1 - Len(s) : SubSeq(line, i, i + Len(s) - 1) = s

(* What is found of s in the lines of a file, and in the files of the      *)
(* directory, one after another.                                           *)
Finding(e, line, s) == IF Contains(line, s) THEN <<[file |-> Directory[e].name, line |-> line]>> ELSE <<>>
FoundIn(e, bytes, s) ==
    LET upTo[b \in 0 .. Len(bytes) + 1] ==
            IF b = 0 THEN <<>>
            ELSE upTo[b - 1] \o (IF b \in Ends(bytes) THEN Finding(e, LineTo(bytes, b), s) ELSE <<>>)
    IN  upTo
FoundTo(files, s) ==
    LET upTo[e \in 0 .. Len(Directory)] ==
            IF e = 0 THEN <<>>
            ELSE upTo[e - 1] \o (IF Hidden(e) THEN <<>>
                                 ELSE FoundIn(e, files[e], s)[Len(files[e]) + 1])
    IN  upTo
Files == [e \in {d \in Entries : ~Hidden(d)} |-> Bytes(e)]

(* When a program has ended it has written what it was asked for: cat the  *)
(* whole of the file, however many reads it took; grep every line that     *)
(* holds the text, once, in order and complete, wherever the reads have    *)
(* cut it, and no other, unless a line is longer than its buffer, or there *)
(* was a newline in the byte behind the buffer, which is read where a read *)
(* has filled the buffer, and which nothing has initialised.               *)
Short(bytes) == \A i \in 1 .. Len(bytes) - BUFSIZE : \E j \in i .. i + BUFSIZE : bytes[j] = Newline
WritesWhatWasAsked ==
    pc = "answered" /\ told # "no such command" /\ asked.argument # Garbage =>
        /\ Runs("cat") => \A e \in Named(asked.argument) :
                            Directory[e].type # "dir" => out = Bytes(e)
        /\ Runs("grep") /\ asked.argument # <<>> /\ (\A f \in DOMAIN text : Short(text[f])) =>
             out = FoundTo(Files, asked.argument)[Len(Directory)]

-----------------------------------------------------------------------------
(* The inductive invariant of the proofs: who runs and with what, ...      *)
Running == [p \in {"cat", "cat_read", "grep", "grep_next", "grep_read", "grep_scan",
                   "ls", "hello", "counter"} |->
              CASE p = "cat_read" -> "cat"
                [] p \in {"grep_next", "grep_read", "grep_scan"} -> "grep"
                [] OTHER -> p]

Commanded ==
    /\ text \in Texts
    /\ Here \in 1 .. Slots
    /\ pc \in DOMAIN Running \cup {"prompt", "answered"}
    /\ pc \in DOMAIN Running => Runs(Running[pc])
    /\ pc # "answered" => told = "nothing"
    /\ asked.argument # Garbage => asked.argument \in Seq(Characters)
    /\ RunsWhatWasTyped

(* ... what cat has written, ...                                           *)
Copied ==
    /\ pc \in {"prompt", "cat", "grep"} => out = <<>> /\ entry = 1 /\ pos = 0
    /\ pc = "cat_read" =>
         /\ entry \in Named(arg)
         /\ Directory[entry].type # "dir" =>
              pos \in 0 .. Len(Bytes(entry)) /\ out = SubSeq(Bytes(entry), 1, pos)

(* ... and what grep has: in the file that is open it has dealt with the   *)
(* lines in front of p, or with the one whose newline is behind p, too.    *)
Searchable == /\ arg \in Seq(Characters) \ {<<>>}
              /\ \A f \in DOMAIN text : Short(text[f])
Handled(written, files, e, s, p) ==
    LET found(b) == FoundTo(files, s)[e - 1] \o FoundIn(e, files[e], s)[b]
    IN  \/ written = found(p) /\ (p = 0 \/ files[e][p] = Newline)
        \/ written = found(p + 1) /\ (p = Len(files[e]) \/ files[e][p + 1] = Newline)
Dealt(p) == Handled(out, Files, entry, arg, p)

FileBytes == (Characters \ {Nul}) \cup {"ELF"}
(* The buffer holds what was read last, from its place from on.            *)
Buffered(from) ==
    /\ entry \in Entries /\ ~Hidden(entry)
    /\ pos \in 0 .. Len(Bytes(entry)) /\ last \in 0 .. BUFSIZE /\ last <= pos
    /\ \A k \in from .. last - 1 : data[k] = Bytes(entry)[pos - last + k + 1]
    /\ Dealt(pos - last + from)

Scanned ==
    /\ pc \in {"grep_next", "grep_read", "grep_scan"} =>
         data \in [0 .. BUFSIZE -> FileBytes \cup {Nul} \cup Behind] /\ data[BUFSIZE] # Newline
    /\ pc = "grep_next" =>
         entry \in 1 .. Len(Directory) + 1 /\ out = FoundTo(Files, arg)[entry - 1]
    /\ pc = "grep_read" => /\ Buffered(0) /\ last # BUFSIZE
                           /\ \A k \in 0 .. last - 1 : data[k] # Newline
    /\ pc = "grep_scan" =>
         /\ Buffered(line_start)
         /\ line_start \in 0 .. last /\ (line_start = 0 \/ line_start < last)
         /\ last = BUFSIZE \/ pos = Len(Bytes(entry))
         /\ cnt = 0 => /\ pos = Len(Bytes(entry))
                       /\ \A k \in line_start .. last - 1 : data[k] # Newline

IInv == Commanded /\ Copied /\ (Searchable => Scanned) /\ WritesWhatWasAsked
=============================================================================
