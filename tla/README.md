# anirux in TLA+

anirux is a small x86 kernel in C (`src/student-distrib`): three terminals, each with a base
shell, a process table of six slots, a round-robin scheduler driven by the PIT, a read-only file
system, a keyboard, a text screen and a virtualised real-time clock, with user programs
(`src/syscalls`) on top. This directory holds TLA+
modules of its state machines, the TLC configurations that check small instances of them, and
theorems about them, for all sizes, that TLAPS checks.

## 1. The system

| Component | State | Operations | Talks to |
|---|---|---|---|
| Process control: `syscall.c` (execute, halt), `PCB.c`, `scheduler.c`, `as_wrapper.S`, `set_idt.c`, `terminal.c` (switch), `paging.c` | `pcb[]`, `tmnl_block[].active_process` and `.flags`, `active_terminal`, `exec_terminal`, `page_directory[32]`, `tss.esp0`, the kernel stacks | execute, halt, exceptions, timer tick, Alt+Fn | everything |
| Keyboard and lines: `keyboard_handler.c`, `terminal.c` (terminal_read) | the modifier flags, each terminal's `buffer`, `buffer_size`, `enter_flag` | a key down or up, terminal_read | screen (echo), scheduler (`exec_terminal` is borrowed) |
| File system: `filesystem.c`, `paging.c` (load_prog), `syscall.c`, `PCB.c` | a constant image; per descriptor an inode and a position | lookup by name, read_data, file_read, dir_read, open, close, the loading of a program | descriptors, execute |
| Descriptors and arguments: `PCB.c`, `syscall.c` | `fd_table` and `argument` of each process | open, close, parse_cmd, getargs, what execute and halt do to them | file system, RTC |
| Virtual RTC: `rtc_handler.c` | `rtc_block[]`: client, rate, count, flag, one per terminal | rtc_open, rtc_read, rtc_write, rtc_close, the interrupt | descriptors |
| Screen: `lib.c` (putc, clear, update_cursor), `terminal.c`, `set_idt.c` | video memory and cursor; a page and a cursor per terminal | terminal_write, echo, Ctrl+L, an exception's message, switch | keyboard, scheduler |
| Video memory mapping: `paging.c`, `syscall.c` (vidmap), `scheduler.c` | `page_table_2[0]`, the directory's entry | vidmap, the remapping at a tick | screen |
| Boot, interrupts, dispatch: `kernel.c`, `boot.S`, `i8259.c`, `set_idt.c`, `as_wrapper.S` | the gates, the masks and requests of both 8259s, the interrupt flag, the frames on the kernel stacks | entry() with every initialisation, an interrupt, an acknowledgement, a trap, iret | everything |
| Paging: `paging.c` | `page_directory`, `page_table`, `page_table_2` | create_pages, create_process_page, vidmap_helper, remap_vidmem | process control, video memory |
| Numbers: `lib.c` (printf, itoa, strrev), `ece391support.c` | none | the conversions | boot's report, counter |
| Programs: `ece391shell.c`, `cat`, `grep`, `ls`, `hello`, `counter`; parse_cmd, getargs | the shell's line, the argument in each PCB, grep's buffer | a line typed, a read, a write, the end of a program | lines, file system, process control |
| Other programs, kernel tests, tools | | | see section 6 |

What makes it hard:

* **Interleaving.** System calls enter through trap gates, with interrupts on: the timer may switch
  to another terminal between any two statements of execute, halt or a read. The timer, keyboard,
  RTC and exception handlers use interrupt gates and are atomic.
* **Two notions of "current".** Some code uses `active_terminal` (what is displayed), some
  `exec_terminal` (what is scheduled); the keyboard handler changes the second one while it runs.
* **State read again later.** halt changes the terminal's process and then calls code that looks
  it up; the scheduler saves a context in the slot of whatever process is active at that moment.
* **Stacks as state.** halt returns by jumping into the frame that execute left on the parent's
  kernel stack, from the stack of a process whose slot is already free.
* **Interrupts off, by accident.** System calls return early after `cli`, exceptions never return,
  handlers leave for another stack after their acknowledgement: something else must turn interrupts
  on again, and keep a handler from being entered twice.
* **Text cut in pieces**: by reads, by buffers, by NULs, newlines and blanks that different loops
  look for in different places.
* **Full or empty tables**, the ends of lines, buffers, blocks, files and of the screen.

Two comments of the code do not match its numbers and none of the models depends on them: the
scheduler's "20HZ" (the divisor 11932 gives about 100 Hz) and "between 8MB and 12MB" in vidmap.

## 2. Modules

| Module | Models | Its abstract specification | Instance | Proofs |
|---|---|---|---|---|
| `ProcessControl` | processes, scheduler, page and TSS | `TimeSharing` | `MCProcessControl` | `ProcessControl_proofs` |
| `LineInput` | keyboard, line buffers, terminal_read | `TypedLines` | `MCLineInput` | `LineInput_proofs` |
| `FileSystem` | lookup, reads, program loading | `Files` | `MCFileSystem` | `FileSystem_proofs` |
| `Descriptors` | descriptors, arguments, virtual RTC | | `MCDescriptors` | `Descriptors_proofs` |
| `Screen` | putc, pages, switching, vidmap | `Pages` | `MCScreen` | `Screen_proofs` |
| `Interrupts`, `Paging`, `Strings`, composed by `Boot` | controllers, gates, wrappers; page tables; numbers; entry() | reference definitions in the properties | `MCBoot` | `Boot_proofs` |
| `CommandLine`, extended by `Session` | parse_cmd, getargs; the shell and its programs | reference definitions (`Says`, `FoundTo`) | `MCSession` | `Session_proofs` |

`Induction` holds what the proofs about recursive functions need and the library has only with an
operator as a parameter: the least element of a set of numbers, induction over a set, and that a
function defined by recursion exists.

A definition named `X_Something` next to `X` is a variant of `X` with one plausible mistake. It is
not part of any specification: put in the place of `X` it makes the property it is listed with in
`PROJECT.json` fail, which shows that the property depends on that piece of code.

### ProcessControl

A *flow* is a flow of control: one per terminal (its base shell and what that executes in turn),
and the one that boots the machine. `pc[t]` says where flow `t` stands. Each statement of execute
and halt that reads or writes shared state is an action (`ExecParent`, `ExecScan`, `ExecInsert`,
`ExecActive`, `ExecPage`, `ExecLoad`, `ExecFrame`, `ExecTss`, `ExecIret`; `HaltRead` ...
`HaltJump`), with the code's locals in `pid`, `par` and `ret`. The handlers are single actions:
`Tick` saves a context and resumes the next terminal's (`TickResume`) or runs all of
execute("shell") for an idle one (`TickBoot`), `Fault` is an exception with the whole halt it
calls, `SwitchTerminal` is Alt+Fn.

A kernel stack, a page of user memory and a slot are named by the pid they belong to, as the
addresses `OFF_8MB - OFF_8KB * pid` and `OFF_8MB + OFF_4MB * pid` are. `frames[q] = c` says that
the frame of the execute that started `c` is still on stack `q`; entering the kernel on a stack
from user mode overwrites it. A jump to garbage (a lost context, a missing frame, `pcb[-1]`) is
the state `running = Crashed`.

The code makes assumptions nowhere written down. The history variable `hazards` records every
step that goes against one: `background_exec` (execute on a terminal that is not displayed),
`slot_race` (two executes take one slot), `early_exec` (a command before all base shells are
booted), `stack_reuse` (a slot is taken while its last process is still on its stack),
`load_failed`, `base_fault` (an exception in a base shell). These steps are part of the model;
the safety properties say what holds as long as none has happened (`Clean`), and `TypeOK`,
`LocalsOK` and `BaseShellsStay` what holds afterwards too.

`TimeSharing` is what a user of processes may rely on: every terminal is a stack of programs, the
top one runs in its terminal's turn, programs start and end in one step. `Live` leaves out the
processes that a flow is in the middle of making or ending; a program starts at `ExecActive` and
ends at `HaltActive`, whatever the many other statements do before and after, and the terminal's
turn is `exec_terminal`.

### LineInput

The keyboard handler is one action per key and direction. terminal_read is `ReadCall`, `ReadWait`
(the loop, interrupts on) and `ReadCopy` (interrupts off). `held` is the keyboard's side, which keys
are down, and `repeats` is history, how often a Shift repeated while it was held (each repeat is
counted as a press). Keys, characters and the size of a buffer are small sets; a buffer is indexed
as in C. The code writes Enter without looking at the size, so that two Enters on a full line write
past `buffer[127]`: that byte is `buffer_size`, little-endian, which becomes 10 and is incremented
to 11 (`EnterPress`, second disjunct, enabled by the constant `Overruns`).

### FileSystem

The image is a constant: blocks, inodes with their tables, directory entries. The loops over
entries and over bytes are stepped with the code's locals, block offset included (it becomes
negative so that `block_off + i` is an offset of the block). execute's reads of the magic number and
the entry point are there, with the uninitialised rest of their buffers as a choice. An inode from
`NUM_INODES` on is refused (`filesystem.c:99`), and the position, an unsigned word of `POSITIONS`
values, then goes back by one, to the largest from 0 (`filesystem.c:216`); the image may have such
inodes, as the repository's does (64, with `NUM_INODES` 63). `seen` is history: what was read
through a descriptor.

### Descriptors

System calls of one terminal touch nothing of the others', so each is one action, except where
the RTC's interrupt or a wait comes between two statements: `OpenFd`/`OpenRate` (rtc_open sets the
client before the rate) and `ReadRtc`/`ReadSeen`/`ReadReset`. `RtcHandler` counts for all
terminals at once, as the handler does. `Execute` and `Halt` are here what they do to descriptors,
arguments and the clock; that `exec_terminal` is the caller's is `RunsOwnProcess` of
`ProcessControl`, and that a failed load is left out is its hazard `load_failed`. `given` is
history: the argument of the command that started a process.

### Screen

One character is one action, by a program (`WriteVisible`, `WriteHidden`: the two branches of putc),
by the echo of a key, or by Ctrl+L, which clears and then prints the buffer letter by letter before
anything else happens (`reprint`). Programs write any character, as cat does of any file: the
displayed branch erases for a backspace and ignores a function key, the hidden one draws both
(`Glyph`). `Fault` is an exception's handler: it clears the displayed terminal, whichever terminal
the faulty program is on, and prints its message on the program's (`Report`, `message`). `start_y`
is the line of the last carriage return, at which a backspace stops. `Switch` saves and restores
pages and cursors. `Tick` is the scheduler's remapping, `Vidmap` and `Draw` the page given to
programs, `Canvas` the cells they draw on. `moved` is history: the display or the page changed since
the last tick.

`Pages` promises a page of its own to each terminal and lists where the code does not keep to that:
what the hidden branch does with control characters and at the end of a line, drawings before the
page is remapped, and faults, which clear the page that is shown.

### Boot, Interrupts, Paging, Strings

A *flow* here is entry() or a terminal; `code[f]` is the piece of code it is in (or would go on
with), `frames[f]` what iret will go back to, with the interrupt flag of each frame. The handlers
are cut where their order matters: `SchedEoi` before `ChangeContext`, `KbEoi` before `KbPort`,
`RtcEoi` before `RtcRegC`. `Accepted` is the 8259's rule: the lowest line first, and nothing at or
above a line in service. `Cli` and `Sti` are terminal_read and terminal_write;
`Fault` and `FaultHalt` are an exception and the halt that never goes back to it, also for system
calls 9 and 10, which the wrapper lets through to a table of nine.

`Boot` adds entry(): one action per initialisation, in the order of `kernel.c`, from any flags of
the boot loader, and `Report`, any of its words printed in any of the conversions used. `Running`
joins the machine with `Paging`: a context switch, an execute and a halt map a page. create_pages
writes `page_table[i]` where it means `page_table[j]`: one word behind the table, and which
variable that is, is the linker's choice (`Neighbours`). `Vidmap` opens the directory's entry 34 to
programs for good, and each tick has that entry's table lead to a terminal's page or to the screen
(`remap_vidmem`; which of both is `Screen`'s business, and a choice here).

A key may be pressed at any time from `Init` on. i8259_init forgets what is requested, and nobody
reads the keyboard's port afterwards: `early` is history, the devices that were waiting then.

Named abstractions: the timer's period is longer than its handler (`Raise`), the boot loader has
read the keys pressed before and leaves the clock off (`Init`), a base shell's own exceptions are in
`ProcessControl` only.

### CommandLine and Session

Lines and files are sequences of characters, as the loops look at single ones: blank, newline, NUL
and letters. `ShellLine` is what the shell makes of a read of 128 characters, `parse_cmd` what
stays in the PCB, `getargs` what the program gets. In `Session` a line that is typed at the prompt
is one action (`ExecuteExit`, `ExecuteFails`, `Execute`); the programs go on with one action per
read (`CatRead`, `GrepRead`, ...) and grep with one per line it looks at (`GrepScan`: `Search` it or
`Carry` the cut rest to the front of the buffer). grep passes over the names that begin with a dot
(`Hidden`), whatever they name. `shells` holds the argument in each nested
shell's PCB; `asked` is history, what the line says when it is read as a user would (`Says`).

## 3. Runs

| Run | Question | Instance |
|---|---|---|
| `processes` | Do pages, stacks, contexts and the process tree stay consistent, does all of it look like `TimeSharing`, is every terminal scheduled for ever, does every call return, and what survives a hazard? | 2 terminals, 4 slots, one kind of hazard at most (`FewHazards`), fair |
| `background_execute` | Is the active process of `exec_terminal` the one that runs, as the comments say? No. | 2 terminals, 4 slots, this hazard alone |
| `lines` | Are lines ever mixed, lost or given to the wrong terminal, does a program that waits get its line? | 2 terminals, buffers of 3, two keys' worth of lines, reads shorter and longer than a line, fair |
| `modifiers` | Can a modifier stick, a letter have the wrong case, a size leave its buffer? | 1 terminal, both Shifts, Ctrl, Alt, Caps Lock, repeating while held (`MaxShift` 4), Enter on a full buffer |
| `file_reads` | Does every way to cut, close, reopen and list give the file's bytes and the directory's names in order? | blocks of 2 bytes, 3 per inode; files that end in, at and after a block, one of maximal length, one shorter than the magic number, one with an inode that is refused |
| `descriptors` | Does the clock serve who reads it, does every argument arrive, does every read of the clock end? | 2 terminals, 4 slots, 2 descriptors, periods 1 and 2, fair |
| `parents_descriptors` | Does a process keep its descriptors while a child runs? No. | 1 terminal, 3 slots |
| `screen` | Do the cursors stay on the screen, does the terminals' text depend on what is displayed, does vidmap's page follow? | 2 terminals, 2 by 2 cells, one of them drawn on, one letter, a fault's message of a line |
| `hidden_lines` | Does a hidden terminal go on at the start of a line? No. | 3 by 2 cells |
| `boot` | Is a handler ever interrupted, is anything left with interrupts off, does a program reach more than its page, does every device stay heard, does every number print as itself? | 2 terminals, 2 programs on top of each shell, words of 2 hexadecimal digits, fair |
| `early_key` | Is every key fetched once the keyboard is enabled? No. | 2 terminals, no programs on top of the shells, fair |
| `session` | Does what was typed run with the argument typed, and do cat and grep write what they should? | 10 entries, one a text whose name begins with a dot, 2 processes on top of the base shell (`Slots` 3), lines of up to 5 characters, every text of up to 5 characters through buffers of 3 |

Why the bounds are enough. Two terminals are needed for every interference, and two base shells
with two more slots let one terminal run two programs deep and both run one at a time with a full
table. The orders of booting more than two terminals are left to the theorems. A buffer of
three holds a character, one more and the newline, and is filled, emptied and overrun. Blocks of
two bytes and three blocks per inode have every boundary of the loop: start, middle and end of a
block, the last index, one past it. Two columns and two lines have a first and a last of each, and
scroll; `hidden_lines` needs a third column to tell the second from the last. Two periods are the
ends of the table of rates. The theorems of section 5 then cover all sizes.

In `boot`, two programs on top of a shell are the shortest chain in which an exception halts a
program whose parent is not the shell, and words of two digits have every case of the conversions:
zero, fewer digits than a word, the sign, the smallest int, which is its own negation. `Report`
follows one word at a time, as nothing is carried from one to the next, and `OneReport` has the
words of one loader printed before any device asks, as what is printed depends on neither. In
`session` a buffer of three is filled exactly, cut in the first, a middle and the last character of
a line, and a line of five does not fit in it; a line buffer of six holds a name, an argument and
one more blank in each place, and is filled exactly. `Behind` is the byte behind grep's buffer: it
is a NUL in the run (see below).

State constraints. `FewHazards` and `OnlyBackground` cut behaviours after a step the run is not
about: a second kind of hazard, and those two that let two flows be one process. `hazards` only
grows, so no cut behaviour comes back. After a failed load, `FewHazards` follows behaviours until
the table is full. `ReadOnce` bounds how far the history `seen` grows on the file of maximal length,
which can be read for ever; it lets the file that is refused be open beside the directory or the
text only, and uses one descriptor once a program was loaded. `FewOpen` lets one terminal do
anything (with `MAX_OPEN` descriptors open) and the others take and give back slots. In the two runs
with liveness and a constraint, `processes` and `descriptors`, the properties are those of
behaviours that stay inside; `EveryTerminalScheduled` and `CallsComplete` say so themselves
(`~Clean`), and a flow that is cut in `descriptors` has only not started another call. Deadlock is
not checked where the machine may really stop: in `processes` and the violation runs on processes,
as it may crash after a hazard and cut behaviours end, and in `boot` and `early_key`, as entry() may
return.

### What does not hold

The four violation runs show a comment of the code contradicted by what the code does; each one
covers behaviours that a passing run leaves out.

* `background_execute`: execute takes the parent from the displayed terminal and hangs the child on
  it (`syscall.c:185`, `:199`), while the rest of the kernel uses the scheduled one.
* `parents_descriptors`: end_process clears the descriptors of the process that is active by then,
  the parent (`PCB.c:119`, `:173`, `syscall.c:108`).
* `hidden_lines`: after the last column a hidden terminal skips the first one (`lib.c:336`).
* `early_key`: a key pressed before i8259_init leaves the keyboard silent for good (`i8259.c:26`,
  `keyboard_handler.c:75`).

Others were met while modelling. They are in the models, as the behaviours named in parentheses,
without a run of their own:

* A tick between create_process's test of a slot and its assignment lets two processes share a
  pid (`PCB.c:70`; hazard `slot_race`).
* An exception in a base shell stops the machine: halt refuses and returns to a handler that has
  no way back (`set_idt.c:234`; hazard `base_fault`, `FaultBase`).
* When load_prog fails, the slot and the terminal's active process stay taken (`syscall.c:213`;
  hazard `load_failed`).
* A command executed before all base shells are booted takes a base shell's pid (`syscall.c:191`;
  hazard `early_exec`).
* terminal_read returns the number of bytes asked for, "number of bytes read" notwithstanding
  (`terminal.c:235`, `:260`; `ReadCopy`).
* A fault clears the screen of the displayed terminal, also if the program is another's
  (`set_idt.c:232`; `Fault`).
* A program that writes a backspace erases a letter, or draws one if it is not displayed
  (`lib.c:213`, `:317`; `PutBackspace`, `HiddenLetter`).
* After a vidmap every program, one that never called it included, reaches the screen or its
  terminal's page (`paging.c:143`; `vidmap_helper`).
* At the end of a file of exactly 1023 blocks a read fails instead of giving 0, and the position
  goes back by one (`filesystem.c:107`, `:216`; `ReadFailed`).
* The magic number is compared without looking at how much was read: a file shorter than it runs if
  the stack holds the rest (`syscall.c:170`; `ReadEntry`).
* halt closes descriptors from 3 on, so an RTC at descriptor 2 is never closed (`syscall.c:101`;
  `FirstClosed`). As end_process takes the parent's descriptors away as well, nobody ever waits
  for that clock: `ClockServed` holds thanks to the other mistake.
* Closing one of two descriptors of the RTC stops the clock of the other (`rtc_handler.c:142`;
  `OneClock = FALSE`).
* A command without argument that ends in NUL leaves the last one's argument (`syscall.c:63`;
  `Ambiguous`). The shell passes such a command on when a typed line fills the buffer: its NUL
  replaces the newline (`Typed` in `Session`).
* Each repeat of a held Shift counts as a press, so that Shift stays down after its release
  (`keyboard_handler.c:128`; `ModifiersMatch` says that shift_count is too high by the repeats, and
  by nothing else).
* Any name that starts with "exit" halts a shell, not the command exit alone (`syscall.c:153`;
  `IsExit`).
* When a read fills grep's buffer, the byte behind it, which nothing has initialised, is taken for
  a part of the line: if it is a newline, a line that was cut is searched as two
  (`ece391grep.c:33`; with a newline in `Behind`, `WritesWhatWasAsked` fails). Lines longer than
  the buffer are searched in pieces.
* A key pressed between `sti()` and the first tick is written to terminal -1
  (`keyboard_handler.c:97`; `KbWild`).
* Without a module from the boot loader, reading the file system faults before there is a process
  to halt (`filesystem.c:15`; `InitFs`).

## 4. Properties and fairness

Safety: `NoCrash`, `RunsOwnProcess`, `SuspendedResumable`, `ProcessTree`, `OwnStacks`,
`ParentsWait`, `FreesOwnSlot`, `BaseShellsStay`; `NewlinePending`, `ReadsOwnTerminal`,
`ModifiersMatch`, `LetterCase`; `BytesInOrder`, `ListingInOrder`, `CopyInv`, `WholeProgram`;
`ClockServed`, `ArgumentsArrive`; `MapFollows`; `HandlersAtomic`, `UsersInterruptible`,
`ProgramReach`, `PrintsValues`; `RunsWhatWasTyped`, `WritesWhatWasAsked`; type invariants where they
say more than the shape of a value. Refinement: `ImplementsTimeSharing`, `ImplementsTypedLines`,
`ImplementsFiles`, `ImplementsPages`. Liveness: `EveryTerminalScheduled`, `CallsComplete`,
`WaitEnds`, `RtcReadEnds`, `DevicesAnswered`. Each is stated above its definition with the lines of
code it is about, and `PROJECT.json` ties them to the hazards of the code.

Fairness. The PIT and the RTC interrupt periodically whatever the software does, and their lines are
never masked after boot: weak fairness of `Tick` and of `RtcHandler`. A flow is scheduled again and
again for a whole quantum of about 10 ms, far longer than one statement, but loses the processor in
between: strong fairness of the kernel's steps, `SF(Kernel(t))` and `SF(Reader(t))`. `Descriptors`
has no scheduler: that its flows go on is `EveryTerminalScheduled`, weak fairness of the steps that
do not wait for the program. In `Boot` the processor goes on (weak fairness of each step of entry()
and of the handlers) and takes a request it accepts: strong fairness of `Interrupt(i)`, as a system
call may turn interrupts off again and again. That is enough for the timer, and for the keyboard
unless it was used too early (`early`). The clock, which comes behind both, is served if they leave
it a `Moment` again and again: the timer's handler takes far less than its period. If init_rtc came
before i8259_init, whose first word forgets requests, the clock could stay silent: `DevicesAnswered`
finds that. Nothing is assumed of users and programs: they may never type, call or draw.

## 5. Theorems

All proofs are checked by TLAPS from the named assumptions on the constants (`SizesAssumption`,
`LineAssumption`, `ImageAssumption`, `FrequenciesAssumption`, `InterruptsAssumption`,
`StringsAssumption`, `NamesAssumption`, `CommandLineAssumption`, `SessionAssumption`: sizes are
positive, the image is well formed, names fit their field, a typed line is one line that fits the
terminal's buffer, no text holds a NUL, the directory's names are distinct, those of directories
begin with a dot, as in the image, and every program is in it), which TLC evaluates on every
instance.

* **ProcessControl.** `NoCrash`, `RunsOwnProcess`, `SuspendedResumable`, `ProcessTree`,
  `OwnStacks`, `ParentsWait` and `FreesOwnSlot`, for any number of terminals and slots. None is
  inductive: whether halt finds its frame depends on where every flow stands, what it has made of
  its terminal so far, and which stack holds whose context. `IInv = TypeOK /\ LocalsOK /\ (Clean =>
  Coherent)`, where `Coherent` says for each label of each flow what the tree, the locals, the page,
  the TSS, the contexts and the frames are (`FlowOK`, `MappingOK`, `Families`, `BootOrder`,
  `Suspended`, `Awaited`). The proof has a lemma per action. `TypeOK` and `LocalsOK` hold after
  hazards, too.
* **TimeSharing.** `Spec => ImplementsTimeSharing`, from `IInv`: each action is one step of
  `TimeSharing` or none. `ExecActive` is `Start`, `HaltActive` is `End`, a tick is `Pass` or `Boot`,
  Alt+Fn is `Show`; that the rest changes nothing there is what `FlowOK` says of a process in
  the making.
* **Base shells.** `Spec => BaseShellsStay`, which holds after the other hazards as well. The
  invariant is `Rooted`: base shells have no parent, and so a halt past its test for one (`HaltRead`)
  is not a base shell's.
* **LineInput.** `TypeOK`, `NewlinePending`, and `Spec => ImplementsTypedLines` if nobody presses
  Enter on a full buffer (`Overruns = FALSE`). The invariant adds that a flow that runs is
  `exec_terminal`'s, that a reader past its loop has its flag up, and that buffers are blank
  beyond their size. `ReadsOwnTerminal` follows from it. `ModifiersMatch` is inductive with
  `TypeOK`, with any number of repeats, and `LetterCase` follows: letters come as the modifiers are
  held, but for a Shift that has repeated.
* **FileSystem.** `BytesInOrder` for every image (with inodes that are refused, too), block size and way to cut the reads, `TypeOK`,
  and
  `CopyInv`: the loop of read_data points at `offset + i` of the file at every iteration, inside
  inode and block. The invariant is `FileInv`: `TypeOK`, `CopyInv`, `ReadInv` (a read in progress is
  of its descriptor, from its position) and `BytesInOrder`; `ListingInOrder` is inductive with it.
  It also shows `Spec => ImplementsFiles` and `WholeProgram`. These need `CallInv`, too: no
  entry before `index` has the name that is looked up, a read is of as many bytes as were asked for,
  and a descriptor has the type and inode of its entry. Each action is one step of `Files` or none;
  a read of a file as long as an inode allows is `ReadAnything`.
* **Descriptors.** `TypeOK` (with it: counts stay below the slowest period), `ClockServed` and
  `ArgumentsArrive`. The invariant adds `OneChild` (the process tree, as far as descriptors need
  it) and `OneClockEach`.
* **Screen.** `TypeOK` (the cursors stay on the screen, for both branches of putc), `MapFollows`,
  and `Spec => ImplementsPages`, for every size of screen and whatever programs, users and handlers
  of exceptions print, in sight and out of it. The proof shows that each branch of putc prints what `Pages` prints, and maps
  each step to a step of `Pages` or a stutter.
* **Boot.** `HandlersAtomic`, `UsersInterruptible` and `ProgramReach`, for any number of terminals
  and any number of programs on top of their shells. The inductive invariant says what stands on
  the stacks of a flow in each piece of code (`Stack`: a frame for every program below, and on top
  of them one that was interrupted if the code is a handler's), that interrupts are on exactly in
  the code that may be interrupted, and that the only lines in service are those of the handler
  that has not acknowledged yet (`InService`). `ProgramReach` adds which page is mapped, and that
  vidmap's entry, once open, leads to the screen or to the page of the terminal that runs.
  `PrintsValues` is proved for every width of word: the lowest digits first come to the value
  (induction over the value, as itoa divides), reversed they read as it (induction over the
  digits), what the loop of `%#x` fills in and prints is the digits behind zeros (`Filled`), which
  add nothing, and the sign takes the word's complement.
* **Session.** `RunsWhatWasTyped` and `WritesWhatWasAsked`, for every directory, text, typed line,
  depth of shells and size of the buffers. The first needs where in the line its word starts and
  ends and its argument starts (`Split`): parse_cmd's loops find these places, `Says` means them,
  and the part that getargs cuts out of the copy in the PCB is the one between the last and the
  newline. `Commanded` then says of every label which program it belongs to. The second needs what
  holds in the middle of a file: of cat, that `out` is the file up to `pos` (`Copied`); of grep,
  that the buffer holds the bytes of the file up to `pos` from `pos - last` on (`Buffered`), that
  no newline stands in what is carried over, and that `out` is what is found in all files before,
  and in this one up to the line that is next (`Dealt`, with two cases, as the newline a read ends
  in front of is either consumed or not). A line that is searched is then one of the file's: it
  ends at a newline, at the file's end, or it fills the buffer, where a line that is not too long
  has its newline as the next byte (`WholeLine`); strncmp at each of its places finds what
  `Contains` says (`ContainsIs`). The proof assumes `Newline \notin Behind`; what happens otherwise is
  in the list of section 3.

Only model-checked: the five liveness properties, as TLAPS does not prove properties under fairness.
The library's induction takes an operator as a parameter and cannot be used; where a proof is about
a recursive function (`FoundIn`, `FoundTo`, `itoa`, `WORD`), the set of numbers for which the claim
holds is shown to have no least number outside it (`Induction`).

## 6. What is not modelled

Of the library, memset, memcpy, memmove and the copies of strings are sequential loops that no
property of the system turns on. Of the programs, pingpong and fish draw for ever without deciding
anything, sigtest is for signals the kernel does not have, and syserr and testprint are tests; the
emulation of the kernel on Linux (`ece391emulate.c`) is not part of the system. In every module but
`Session` user programs are arbitrary callers, so all of them are covered there. Colours, carriage
returns, the registers of the devices and the bytes of strings are abstracted. `tests.c` calls
components one after another and is disabled in `launch_tests`. print_tmnl, debug_remap, end_vidmap,
vidmap_present, make_process_base, find_base_process and print_process_data are not called. createfs
and elfconvert are binaries. The codes of released keys beyond the table of keys, at which the
keyboard's handler reads behind it (`keyboard_handler.c:117`), and the width of shift_count (bound
`MaxShift`) are left out. load_prog asks for 4 MB from the middle of a page, which only a program
larger than any in the image would notice.

Five hazards in `PROJECT.json` have no property, as they are what the code does: `PCB.c:70`,
`syscall.c:111`, `:191` and `:213` are steps of `ProcessControl` that end what its properties
promise, and `rtc_handler.c:145` is two descriptors of one clock, which `OneClock` rules out.

## 7. Plan

Done: `ProcessControl` with `TimeSharing`, `LineInput`, `FileSystem`, `Descriptors`, `Screen`,
`Boot` with `Interrupts`, `Paging` and `Strings`, `Session` with `CommandLine`. Left, in this order:

1. `Terminal`, the composition of `LineInput` and `Screen` over one keyboard handler: the echo on
   the page and the text in the buffer agree until a program writes.
2. `load_prog` with addresses inside a page (`paging.c:131`), and two descriptors of one clock, if
   the repository comes to say what they should do.
