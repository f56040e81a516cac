---------------------------- MODULE Descriptors ----------------------------
(***************************************************************************)
(* What a process holds: its descriptors and its argument (PCB.c and       *)
(* syscall.c), and the clock it reads through a descriptor (the virtual    *)
(* RTC of rtc_handler.c).  Each terminal has one chain of processes, of    *)
(* which the last runs, and one virtual clock.                             *)
(*                                                                         *)
(* Descriptors and arguments belong to one terminal, so that a system call *)
(* is one step, except where it waits for the RTC's interrupt or the       *)
(* interrupt may come between two of its statements.  exec_terminal is the *)
(* terminal of the flow that runs (RunsOwnProcess of ProcessControl), and  *)
(* the terminal that executes is taken to be the displayed one.            *)
(***************************************************************************)
EXTENDS Integers

CONSTANTS NUM_TERMINAL,   \* terminals (3)
          PCB_SIZE,       \* slots of the process table (6)
          FDT_SIZE,       \* descriptors of a process (8)
          Frequencies,    \* the HZ_ constants (2, 4, ... 1024)
          HZ_2, HZ_1024,  \* the lowest and the highest of them
          Requested,      \* frequencies programs ask for
          Arguments,      \* arguments of commands
          OneClock        \* programs open the RTC once at a time

Terminals == 0 .. NUM_TERMINAL - 1
Pids == 0 .. PCB_SIZE - 1
NoPid == -1
Fds == 2 .. FDT_SIZE - 1          \* 0 and 1 are the terminal
FirstClosed == 3                  \* where the loop of halt begins

NoArgument == "none"              \* argument[0] is NUL
Garbage == "garbage"              \* the stack of create_process
Stored == Arguments \cup {NoArgument, Garbage}

(* RTC_R1 .. RTC_R512: interrupts between two ticks of a frequency.        *)
Rate(h) == HZ_1024 \div h
SlowestRate == Rate(HZ_2)
Rates == {Rate(h) : h \in Frequencies}
NoRate == -1

ASSUME SizesAssumption ==
    /\ NUM_TERMINAL \in Nat \ {0}
    /\ PCB_SIZE \in Nat /\ PCB_SIZE >= NUM_TERMINAL
    /\ FDT_SIZE \in Nat
    /\ Requested \subseteq Nat
    /\ OneClock \in BOOLEAN
    /\ {NoArgument, Garbage} \cap Arguments = {}

ASSUME FrequenciesAssumption ==
    /\ HZ_2 \in Frequencies /\ HZ_1024 \in Frequencies
    /\ \A h \in Frequencies : /\ h \in Nat \ {0}
                              /\ HZ_2 <= h /\ h <= HZ_1024
                              /\ Rate(h) \in 1 .. SlowestRate

VARIABLES
    flags,          \* pcb[p].flags is PCB_EXISTS
    parent,         \* pcb[p].parent
    fd_table,       \* pcb[p].fd_table[f]: what it is open for, or "absent"
    argument,       \* pcb[p].argument
    active_process, \* tmnl_block[t].active_process
    client, rate, count, ticked,   \* rtc_block[t]; ticked: flags is RTC_TICK
    pc              \* where the flow of terminal t is

(* History: the argument of the command that started a process.            *)
VARIABLE given

pcbVars == <<flags, parent, fd_table, argument, active_process, given>>
rtcVars == <<client, rate, count, ticked>>
vars == <<pcbVars, rtcVars, pc>>

Kinds == {"rtc", "file"}
NoFds == [f \in Fds |-> "absent"]
Running(t) == active_process[t]
Open(p) == {f \in Fds : fd_table[p][f] # "absent"}
Clocks(p) == {f \in Fds : fd_table[p][f] = "rtc"}

(* The base shells are booted, nothing else is.                            *)
Init ==
    /\ flags = [p \in Pids |-> p \in Terminals]
    /\ parent = [p \in Pids |-> NoPid]
    /\ fd_table = [p \in Pids |-> NoFds]
    /\ argument = [p \in Pids |-> IF p \in Terminals THEN Garbage ELSE NoArgument]
    /\ active_process = [t \in Terminals |-> t]
    /\ client = [t \in Terminals |-> NoPid]
    /\ rate = [t \in Terminals |-> NoRate]
    /\ count = [t \in Terminals |-> 0]
    /\ ticked = [t \in Terminals |-> FALSE]
    /\ pc = [t \in Terminals |-> "user"]
    /\ given = [p \in Pids |-> NoArgument]

-----------------------------------------------------------------------------
(* open, close and the clock.                                              *)

(* The loop of add_fd, and that of create_process.                         *)
Free(p) == {f \in Fds : fd_table[p][f] = "absent"}
Lowest(f, F) == f \in F /\ \A g \in F : f <= g

OpenFails(t) ==
    /\ pc[t] = "user" /\ Free(Running(t)) = {}
    /\ UNCHANGED vars

(* rtc_open publishes the client before it sets the rate.                  *)
OpenFd(t, kind, f) ==
    LET p == Running(t) IN
    /\ pc[t] = "user" /\ Lowest(f, Free(p))
    /\ fd_table' = [fd_table EXCEPT ![p][f] = kind]
    /\ IF kind = "rtc"
         THEN /\ Clocks(p) = {} \/ ~OneClock
              /\ client' = [client EXCEPT ![t] = p]
              /\ pc' = [pc EXCEPT ![t] = "open"]
         ELSE UNCHANGED <<client, pc>>
    /\ UNCHANGED <<flags, parent, argument, active_process, given, rate, count, ticked>>

OpenRate(t) ==
    /\ pc[t] = "open"
    /\ rate' = [rate EXCEPT ![t] = Rate(HZ_2)]
    /\ pc' = [pc EXCEPT ![t] = "user"]
    /\ UNCHANGED <<pcbVars, client, count, ticked>>

(* rtc_write: the highest frequency of the table that is not above the one *)
(* asked for; below the lowest one it changes nothing.                     *)
Selected(h, freq) == h <= freq /\ \A g \in Frequencies : g <= freq => g <= h

WriteRtc(t, freq) ==
    /\ pc[t] = "user" /\ Clocks(Running(t)) # {}
    /\ \/ freq < HZ_2 /\ UNCHANGED rate
       \/ \E h \in Frequencies :
            Selected(h, freq) /\ rate' = [rate EXCEPT ![t] = Rate(h)]
    /\ UNCHANGED <<pcbVars, client, count, ticked, pc>>

ReadRtc(t) ==
    /\ pc[t] = "user" /\ Clocks(Running(t)) # {}
    /\ pc' = [pc EXCEPT ![t] = "wait"]
    /\ UNCHANGED <<pcbVars, rtcVars>>

(* The loop of rtc_read ends, then the flag is reset: a tick between the   *)
(* two is lost.                                                            *)
ReadSeen(t) ==
    /\ pc[t] = "wait" /\ ticked[t]
    /\ pc' = [pc EXCEPT ![t] = "seen"]
    /\ UNCHANGED <<pcbVars, rtcVars>>

ReadReset(t) ==
    /\ pc[t] = "seen"
    /\ ticked' = [ticked EXCEPT ![t] = FALSE]
    /\ pc' = [pc EXCEPT ![t] = "user"]
    /\ UNCHANGED <<pcbVars, client, rate, count>>

(* rtc_close, for any of the descriptors F that is an RTC's: the client    *)
(* goes first, and without it the interrupt leaves the rest alone.         *)
RtcClose(t, F) ==
    IF \E f \in F : fd_table[Running(t)][f] = "rtc"
      THEN /\ client' = [client EXCEPT ![t] = NoPid]
           /\ rate' = [rate EXCEPT ![t] = NoRate]
           /\ count' = [count EXCEPT ![t] = 0]
           /\ ticked' = [ticked EXCEPT ![t] = FALSE]
      ELSE UNCHANGED rtcVars

Close(t, f) ==
    /\ pc[t] = "user" /\ f \in Open(Running(t))
    /\ fd_table' = [fd_table EXCEPT ![Running(t)][f] = "absent"]
    /\ RtcClose(t, {f})
    /\ UNCHANGED <<flags, parent, argument, active_process, given, pc>>

-----------------------------------------------------------------------------
(* rtc_handler.                                                            *)

RtcHandler_Equal ==                 \* mutant: count == rate
    LET due(t) == count[t] + 1 = rate[t]
        counts(t) == client[t] # NoPid IN
    /\ count' = [t \in Terminals |-> IF counts(t) THEN IF due(t) THEN 0 ELSE count[t] + 1
                                     ELSE count[t]]
    /\ ticked' = [t \in Terminals |-> ticked[t] \/ (counts(t) /\ due(t))]
    /\ UNCHANGED <<pcbVars, client, rate, pc>>

RtcHandler_SkipsLast ==             \* mutant: i < RTC_SIZE - 1
    LET due(t) == count[t] + 1 >= rate[t]
        counts(t) == client[t] # NoPid /\ t # NUM_TERMINAL - 1 IN
    /\ count' = [t \in Terminals |-> IF counts(t) THEN IF due(t) THEN 0 ELSE count[t] + 1
                                     ELSE count[t]]
    /\ ticked' = [t \in Terminals |-> ticked[t] \/ (counts(t) /\ due(t))]
    /\ UNCHANGED <<pcbVars, client, rate, pc>>

RtcHandler ==
    LET due(t) == count[t] + 1 >= rate[t]
        counts(t) == client[t] # NoPid IN
    /\ count' = [t \in Terminals |-> IF counts(t) THEN IF due(t) THEN 0 ELSE count[t] + 1
                                     ELSE count[t]]
    /\ ticked' = [t \in Terminals |-> ticked[t] \/ (counts(t) /\ due(t))]
    /\ UNCHANGED <<pcbVars, client, rate, pc>>

-----------------------------------------------------------------------------
(* execute and halt.                                                       *)

(* A command: its argument, and what ends it when it has none.  A newline  *)
(* is taken for an argument (an empty one), a NUL is not, and then what    *)
(* argument holds stays.                                                   *)
Commands == [text : Arguments] \cup [ends : {"newline", "nul"}]
TextOf(cmd) == IF "text" \in DOMAIN cmd THEN cmd.text ELSE NoArgument
Ambiguous(cmd) == "text" \notin DOMAIN cmd /\ cmd.ends = "nul"

ParseCmd_Newline(p, cmd) ==         \* mutant: a newline is no argument either
    IF TextOf(cmd) = NoArgument THEN argument ELSE [argument EXCEPT ![p] = TextOf(cmd)]

ParseCmd(p, cmd) ==
    IF Ambiguous(cmd) THEN argument ELSE [argument EXCEPT ![p] = TextOf(cmd)]

(* No such file, not an executable, or no slot.                            *)
ExecuteFails(t, cmd) ==
    /\ pc[t] = "user"
    /\ argument' = ParseCmd(Running(t), cmd)
    /\ UNCHANGED <<flags, parent, fd_table, active_process, given, rtcVars, pc>>

FreeSlots == {p \in Pids : ~flags[p]}

(* create_process fills the lowest slot; new_process.argument is not       *)
(* initialised.                                                            *)
Execute(t, cmd, new) ==
    /\ pc[t] = "user" /\ Lowest(new, FreeSlots)
    /\ flags' = [flags EXCEPT ![new] = TRUE]
    /\ parent' = [parent EXCEPT ![new] = Running(t)]
    /\ fd_table' = [fd_table EXCEPT ![new] = NoFds]
    /\ argument' = [ParseCmd(Running(t), cmd) EXCEPT ![new] = Garbage]
    /\ active_process' = [active_process EXCEPT ![t] = new]
    /\ given' = [given EXCEPT ![new] = IF Ambiguous(cmd) THEN Garbage ELSE TextOf(cmd)]
    /\ UNCHANGED <<rtcVars, pc>>

(* end_process removes descriptors through rem_fd, which looks up the      *)
(* process that is active by then: the parent.                             *)
EndedTables_Own(p) ==               \* mutant: before the terminal's process is changed
    [fd_table EXCEPT ![p] = NoFds]

EndedTables(p) == [fd_table EXCEPT ![parent[p]] = NoFds,
                                   ![p] = [f \in Fds |-> IF f < FirstClosed THEN @[f]
                                                         ELSE "absent"]]

(* halt, of a program or for an exception; the base shells stay.           *)
Halt(t) ==
    LET p == Running(t) IN
    /\ pc[t] = "user" /\ parent[p] # NoPid
    /\ RtcClose(t, {f \in Fds : f >= FirstClosed})
    /\ active_process' = [active_process EXCEPT ![t] = parent[p]]
    /\ flags' = [flags EXCEPT ![p] = FALSE]
    /\ argument' = [argument EXCEPT ![p] = NoArgument]
    /\ fd_table' = EndedTables(p)
    /\ given' = [given EXCEPT ![p] = NoArgument]
    /\ UNCHANGED <<parent, pc>>

-----------------------------------------------------------------------------
Flow(t) ==
    \/ OpenFails(t) \/ \E kind \in Kinds, f \in Fds : OpenFd(t, kind, f)
    \/ OpenRate(t)
    \/ \E freq \in Requested : WriteRtc(t, freq)
    \/ ReadRtc(t) \/ ReadSeen(t) \/ ReadReset(t)
    \/ \E f \in Fds : Close(t, f)
    \/ \E cmd \in Commands : ExecuteFails(t, cmd)
    \/ \E cmd \in Commands, new \in Pids : Execute(t, cmd, new)
    \/ Halt(t)

Next == RtcHandler \/ \E t \in Terminals : Flow(t)

Spec == Init /\ [][Next]_vars

(* The RTC interrupts forever, and a flow in the kernel is scheduled again *)
(* and again (EveryTerminalScheduled of ProcessControl).                   *)
FairSpec == Spec /\ WF_vars(RtcHandler)
                 /\ \A t \in Terminals : WF_vars(OpenRate(t) \/ ReadSeen(t) \/ ReadReset(t))

-----------------------------------------------------------------------------
(* Properties.                                                             *)

(* The types: descriptors, clocks and processes of the system; a process   *)
(* runs on every terminal (halt leaves the base shells, syscall.c:94), and *)
(* the count of a clock stays below the longest period, also when a rate   *)
(* is lowered under it (rtc_handler.c:70).                                 *)
TypeOK ==
    /\ flags \in [Pids -> BOOLEAN]
    /\ parent \in [Pids -> Pids \cup {NoPid}]
    /\ fd_table \in [Pids -> [Fds -> Kinds \cup {"absent"}]]
    /\ argument \in [Pids -> Stored] /\ given \in [Pids -> Stored]
    /\ active_process \in [Terminals -> Pids]
    /\ \A t \in Terminals : flags[active_process[t]]
    /\ client \in [Terminals -> Pids \cup {NoPid}]
    /\ rate \in [Terminals -> Rates \cup {NoRate}]
    /\ count \in [Terminals -> 0 .. SlowestRate - 1]
    /\ ticked \in [Terminals -> BOOLEAN]
    /\ pc \in [Terminals -> {"user", "open", "wait", "seen"}]

(* The tree: a process that waits is the parent of one process, and runs   *)
(* on no terminal; no process runs on two.                                 *)
OneChild ==
    /\ \A t, u \in Terminals : Running(t) = Running(u) => t = u
    /\ \A p \in Pids : flags[p] /\ parent[p] # NoPid =>
         /\ flags[parent[p]]
         /\ \A t \in Terminals : Running(t) # parent[p]
         /\ \A q \in Pids : flags[q] /\ parent[q] = parent[p] => q = p

OneClockEach ==
    OneClock => \A p \in Pids, f, g \in Fds :
      flags[p] /\ f \in Clocks(p) /\ g \in Clocks(p) => f = g

(* A process that runs and has the RTC open has a client that the          *)
(* interrupt counts for, and a rate once open has returned: whatever its   *)
(* children opened, closed or left open when they ended.  (It holds        *)
(* because end_process takes the parent's descriptors away: a parent that  *)
(* kept its own would read a clock that its child's close has stopped.)    *)
ClockServed ==
    OneClock => \A t \in Terminals :
      /\ Clocks(Running(t)) # {} =>
           client[t] # NoPid /\ (pc[t] # "open" => rate[t] # NoRate)
      /\ pc[t] # "user" => Clocks(Running(t)) # {}

(* getargs (syscall.c:343), which reads the parent's argument, finds what  *)
(* the command that started the process said: nothing that runs, fails to  *)
(* start or ends in between, on this terminal or another, disturbs it.     *)
(* What a command without argument that ends in NUL leaves is not covered. *)
ArgumentsArrive ==
    \A p \in Pids : flags[p] /\ parent[p] # NoPid /\ given[p] # Garbage =>
        flags[parent[p]] /\ argument[parent[p]] = given[p]

(* The inductive invariant of the proofs.                                  *)
DescInv == TypeOK /\ OneChild /\ OneClockEach /\ ClockServed /\ ArgumentsArrive

(* A read of the RTC ends: whatever rates are set and whenever the         *)
(* interrupt comes, also when it is lost between the loop of rtc_read and  *)
(* the reset of the flag (rtc_handler.c:87).                               *)
RtcReadEnds ==
    OneClock => \A t \in Terminals : pc[t] = "wait" ~> pc[t] = "user"

(* The descriptors of a process that waits for its child are its own: they *)
(* are there when the child has ended.  ("Remove a file descriptor from    *)
(* the PCB", PCB.c:170, and "Ends process in pcb", PCB.c:107, of the pid   *)
(* given.)                                                                 *)
ParentsKeepDescriptors ==
    [][\A p \in Pids :
         flags[p] /\ flags'[p] /\ (\A t \in Terminals : Running(t) # p) =>
             fd_table'[p] = fd_table[p]]_vars
=============================================================================
