--------------------------- MODULE ProcessControl ---------------------------
(***************************************************************************)
(* Processes, terminals and the scheduler of the kernel: execute and halt  *)
(* of syscall.c, create_process and end_process of PCB.c, sched_handler    *)
(* and change_context of scheduler.c, switch_terminal of terminal.c and    *)
(* create_process_page of paging.c.                                        *)
(*                                                                         *)
(* A FLOW is one flow of control: change_context boots one per terminal    *)
(* (the shell it executes and whatever that shell executes in turn), and   *)
(* the flow of kernel.c that boots the machine is BootFlow.  System calls  *)
(* enter through a trap gate, so the timer can preempt them between any    *)
(* two statements: each statement of execute and halt that touches shared  *)
(* state is an action.  The timer, the keyboard and the exceptions use     *)
(* interrupt gates: their handlers are single actions.                     *)
(*                                                                         *)
(* A kernel stack, a page of user memory and a PCB slot are all named by   *)
(* the pid whose they are: OFF_8MB - OFF_8KB * pid, OFF_8MB + OFF_4MB*pid. *)
(***************************************************************************)
EXTENDS Integers

CONSTANTS NUM_TERMINAL,   \* terminals, each with a base shell (3 in terminal.h)
          PCB_SIZE        \* slots of the process table (6 in PCB.h)

ASSUME SizesAssumption ==
    /\ NUM_TERMINAL \in Nat \ {0}
    /\ PCB_SIZE \in Nat
    /\ NUM_TERMINAL <= PCB_SIZE

Terminals == 0 .. NUM_TERMINAL - 1
Pids      == 0 .. PCB_SIZE - 1
NoPid     == -1          \* the code's -1: no process, no parent
NoTerminal == -1         \* the code's -1: no terminal yet

BootFlow == -1           \* the flow that runs kernel.c's entry
Crashed  == -2           \* the processor jumped to garbage
NoFlow   == -1           \* a prev_sp no context was saved in
Current  == -1           \* the context of the running flow is in the registers
Lost     == -2           \* the stack that held the context was overwritten

VARIABLES
    present,          \* slots whose flags are PCB_EXISTS
    parent,           \* pcb[p].parent
    stack_ptr,        \* pcb[p].stack_ptr: the kernel stack execute saved
    prev_sp,          \* pcb[p].prev_sp: the flow whose context is saved there
    booted,           \* terminals whose flags are TMNL_RUN
    active_process,   \* tmnl_block[t].active_process
    active_terminal,  \* the terminal on the screen
    exec_terminal,    \* the terminal being scheduled
    user_page,        \* the process whose page page_directory[32] maps
    esp0,             \* the process whose kernel stack tss.esp0 points at
    running,          \* the flow on the processor
    pc,               \* where each flow stands in execute or halt
    kstack,           \* the kernel stack each flow is on (NoPid in user mode)
    proc,             \* the process whose program the flow runs
    pid, par, ret,    \* the locals of execute and halt
    frames            \* frames[q] = c: stack q holds the frame of the execute
                      \* that started c, to which halting c returns

(* History variables: nothing in the code reads them.                      *)
VARIABLES
    ctx,              \* the slot holding the latest context of each flow
    owner,            \* the flow that created each process
    hazards           \* what went against the code's unstated assumptions

pcbVars   == <<present, parent, stack_ptr, prev_sp, owner>>
tmnlVars  == <<booted, active_process, active_terminal, exec_terminal>>
cpuVars   == <<user_page, esp0, running>>
localVars == <<pid, par, ret>>
flowVars  == <<pc, kstack, proc, localVars>>
vars == <<pcbVars, tmnlVars, cpuVars, flowVars, frames, ctx, hazards>>

ExecLabels == {"exec_parent", "exec_scan", "exec_insert", "exec_active",
               "exec_page", "exec_load", "exec_frame", "exec_tss", "exec_iret"}
HaltLabels == {"halt_read", "halt_active", "halt_end", "halt_page",
               "halt_tss", "halt_jump"}
Labels == {"idle", "user"} \cup ExecLabels \cup HaltLabels

Hazards == {"early_exec",       \* a command got the pid of a base shell
            "background_exec",  \* execute ran off the displayed terminal
            "slot_race",        \* two executes took the same free slot
            "stack_reuse",      \* a slot was reused while its last process
                                \* still ran on its kernel stack
            "load_failed",      \* load_prog failed after the process was made
            "base_fault"}       \* a base shell raised an exception

TypeOK ==
    /\ present \subseteq Pids
    /\ parent \in [Pids -> Pids \cup {NoPid}]
    /\ stack_ptr \in [Pids -> Pids \cup {NoPid}]
    /\ prev_sp \in [Pids -> Terminals \cup {NoFlow}]
    /\ booted \subseteq Terminals
    /\ active_process \in [Terminals -> Pids \cup {NoPid}]
    /\ active_terminal \in Terminals \cup {NoTerminal}
    /\ exec_terminal \in Terminals \cup {NoTerminal}
    /\ user_page \in Pids \cup {NoPid}
    /\ esp0 \in Pids
    /\ running \in Terminals \cup {BootFlow, Crashed}
    /\ pc \in [Terminals -> Labels]
    /\ kstack \in [Terminals -> Pids \cup {NoPid}]
    /\ proc \in [Terminals -> Pids \cup {NoPid}]
    /\ pid \in [Terminals -> Pids \cup {NoPid}]
    /\ par \in [Terminals -> Pids \cup {NoPid}]
    /\ ret \in [Terminals -> Pids \cup {NoPid}]
    /\ frames \in [Pids -> Pids \cup {NoPid}]
    /\ ctx \in [Terminals -> Pids \cup {Current, Lost}]
    /\ owner \in [Pids -> Terminals \cup {NoFlow}]
    /\ hazards \subseteq Hazards

(* init_pcb and init_terminal have run, interrupts were just enabled.      *)
Init ==
    /\ present = {}
    /\ parent = [p \in Pids |-> NoPid]
    /\ stack_ptr = [p \in Pids |-> NoPid]
    /\ prev_sp = [p \in Pids |-> NoFlow]
    /\ booted = {}
    /\ active_process = [t \in Terminals |-> NoPid]
    /\ active_terminal = NoTerminal
    /\ exec_terminal = NoTerminal
    /\ user_page = NoPid
    /\ esp0 = 0                     \* tss.esp0 = 0x800000, the top of stack 0
    /\ running = BootFlow
    /\ pc = [t \in Terminals |-> "idle"]
    /\ kstack = [t \in Terminals |-> NoPid]
    /\ proc = [t \in Terminals |-> NoPid]
    /\ pid = [t \in Terminals |-> NoPid]
    /\ par = [t \in Terminals |-> NoPid]
    /\ ret = [t \in Terminals |-> NoPid]
    /\ frames = [p \in Pids |-> NoPid]
    /\ ctx = [t \in Terminals |-> Current]
    /\ owner = [p \in Pids |-> NoFlow]
    /\ hazards = {}

-----------------------------------------------------------------------------
(* Entering the kernel from user mode, by a system call or an interrupt,   *)
(* pushes on the stack esp0 points at, from its top: whatever was there is *)
(* overwritten.  From kernel mode it pushes below what is there.           *)

Entered(t) == [kstack EXCEPT ![t] = IF pc[t] = "user" THEN esp0 ELSE @]

FramesAfterEntry(t) ==
    IF pc[t] = "user" THEN [frames EXCEPT ![esp0] = NoPid] ELSE frames

CtxAfterEntry(t) ==
    [u \in Terminals |-> IF pc[t] = "user" /\ u # t /\ kstack[u] = esp0
                         THEN Lost ELSE ctx[u]]

(* Flow t is on the processor and stands at label l.                       *)
At(t, l) == running = t /\ pc[t] = l

Goto(t, l) == pc' = [pc EXCEPT ![t] = l]

(* Flow t goes back to user mode, its locals dead.                         *)
ToUser(t) ==
    /\ Goto(t, "user")
    /\ kstack' = [kstack EXCEPT ![t] = NoPid]
    /\ pid' = [pid EXCEPT ![t] = NoPid]
    /\ par' = [par EXCEPT ![t] = NoPid]
    /\ ret' = [ret EXCEPT ![t] = NoPid]

SystemCall(t, l) ==
    /\ At(t, "user")
    /\ Goto(t, l)
    /\ kstack' = Entered(t)
    /\ frames' = FramesAfterEntry(t)
    /\ ctx' = CtxAfterEntry(t)
    /\ UNCHANGED <<pcbVars, tmnlVars, cpuVars, proc, localVars, hazards>>

(* A hazard is recorded when its condition holds.                          *)
Record(h, condition) == hazards' = hazards \cup (IF condition THEN {h} ELSE {})

-----------------------------------------------------------------------------
(* execute, called by flow t for a command that is not "exit".             *)

ExecCall(t) == SystemCall(t, "exec_parent")

(* No command, no such file, not an executable: return -1.                 *)
ExecReject(t) ==
    /\ At(t, "exec_parent")
    /\ ToUser(t)
    /\ UNCHANGED <<pcbVars, tmnlVars, cpuVars, proc, frames, ctx, hazards>>

(* The argument of create_process is read from the displayed terminal.     *)
ExecParent(t) ==
    /\ At(t, "exec_parent")
    /\ par' = [par EXCEPT ![t] = active_process[active_terminal]]
    /\ pid' = [pid EXCEPT ![t] = 0]
    /\ Goto(t, "exec_scan")
    /\ Record("background_exec", active_terminal # exec_terminal)
    /\ UNCHANGED <<pcbVars, tmnlVars, cpuVars, kstack, proc, ret, frames, ctx>>

(* Variants of a definition that forget or confuse something stand next to *)
(* it: each breaks one of the properties below.                            *)

(* create_process with a loop that starts over when the table is full.     *)
ExecScan_Forever(t) ==
    /\ At(t, "exec_scan")
    /\ IF pid[t] \in present
       THEN pid' = [pid EXCEPT ![t] = (@ + 1) % PCB_SIZE] /\ UNCHANGED pc
       ELSE Goto(t, "exec_insert") /\ UNCHANGED pid
    /\ UNCHANGED <<pcbVars, tmnlVars, cpuVars, kstack, proc, par, ret, frames, ctx, hazards>>

(* create_process tests slot pid[t]: free, taken, or taken and the last.   *)
ExecScan(t) ==
    /\ At(t, "exec_scan")
    /\ \/ /\ pid[t] \notin present
          /\ Goto(t, "exec_insert")
          /\ UNCHANGED <<kstack, localVars>>
       \/ /\ pid[t] \in present
          /\ pid[t] + 1 \in Pids
          /\ pid' = [pid EXCEPT ![t] = @ + 1]
          /\ UNCHANGED <<pc, kstack, par, ret>>
       \/ /\ pid[t] \in present
          /\ pid[t] + 1 \notin Pids
          /\ ToUser(t)
    /\ UNCHANGED <<pcbVars, tmnlVars, cpuVars, proc, frames, ctx, hazards>>

(* pcb[i] = new_process, with prev_sp never initialised.                   *)
ExecInsert(t) ==
    /\ At(t, "exec_insert")
    /\ present' = present \cup {pid[t]}
    /\ parent' = [parent EXCEPT ![pid[t]] = par[t]]
    /\ stack_ptr' = [stack_ptr EXCEPT ![pid[t]] = NoPid]
    /\ prev_sp' = [prev_sp EXCEPT ![pid[t]] = NoFlow]
    /\ owner' = [owner EXCEPT ![pid[t]] = t]
    /\ hazards' = hazards
         \cup (IF pid[t] \in present THEN {"slot_race"} ELSE {})
         \cup (IF pid[t] \in Terminals THEN {"early_exec"} ELSE {})
         \cup (IF \E u \in Terminals \ {t} : kstack[u] = pid[t]
               THEN {"stack_reuse"} ELSE {})
    /\ Goto(t, "exec_active")
    /\ UNCHANGED <<tmnlVars, cpuVars, kstack, proc, localVars, frames, ctx>>

(* The pids of the base shells are the terminals' own numbers.             *)
ExecActive(t) ==
    /\ At(t, "exec_active")
    /\ \/ /\ pid[t] \in Terminals
          /\ parent' = [parent EXCEPT ![pid[t]] = NoPid]
          /\ exec_terminal' = pid[t]
          /\ active_process' = [active_process EXCEPT ![pid[t]] = pid[t]]
          /\ UNCHANGED hazards
       \/ /\ pid[t] \notin Terminals
          /\ active_process' = [active_process EXCEPT ![active_terminal] = pid[t]]
          /\ Record("background_exec", active_terminal # exec_terminal)
          /\ UNCHANGED <<parent, exec_terminal>>
    /\ Goto(t, "exec_page")
    /\ UNCHANGED <<present, stack_ptr, prev_sp, owner, booted, active_terminal,
                   cpuVars, kstack, proc, localVars, frames, ctx>>

ExecPage(t) ==
    /\ At(t, "exec_page")
    /\ user_page' = pid[t]
    /\ Goto(t, "exec_load")
    /\ UNCHANGED <<pcbVars, tmnlVars, esp0, running, kstack, proc, localVars,
                   frames, ctx, hazards>>

(* load_prog copies the program to the page mapped at 128 MB; on failure   *)
(* execute returns -1 and takes nothing back.                              *)
ExecLoad(t) ==
    /\ At(t, "exec_load")
    /\ \/ /\ Goto(t, "exec_frame")
          /\ UNCHANGED <<kstack, localVars, hazards>>
       \/ /\ ToUser(t)
          /\ Record("load_failed", TRUE)
    /\ UNCHANGED <<pcbVars, tmnlVars, cpuVars, proc, frames, ctx>>

(* The frame is not saved, or taken for one on the child's stack.          *)
ExecFrame_NotSaved(t) ==
    /\ At(t, "exec_frame")
    /\ frames' = [frames EXCEPT ![kstack[t]] = pid[t]]
    /\ Goto(t, "exec_tss")
    /\ UNCHANGED <<pcbVars, tmnlVars, cpuVars, kstack, proc, localVars, ctx, hazards>>

ExecFrame_OnChildStack(t) ==
    /\ At(t, "exec_frame")
    /\ stack_ptr' = [stack_ptr EXCEPT ![pid[t]] = pid[t]]
    /\ frames' = [frames EXCEPT ![kstack[t]] = pid[t]]
    /\ Goto(t, "exec_tss")
    /\ UNCHANGED <<present, parent, prev_sp, owner, tmnlVars, cpuVars, kstack,
                   proc, localVars, ctx, hazards>>

ExecFrame(t) ==
    /\ At(t, "exec_frame")
    /\ stack_ptr' = [stack_ptr EXCEPT ![pid[t]] = kstack[t]]
    /\ frames' = [frames EXCEPT ![kstack[t]] = pid[t]]
    /\ Goto(t, "exec_tss")
    /\ UNCHANGED <<present, parent, prev_sp, owner, tmnlVars, cpuVars, kstack,
                   proc, localVars, ctx, hazards>>

ExecTss(t) ==
    /\ At(t, "exec_tss")
    /\ esp0' = pid[t]
    /\ Goto(t, "exec_iret")
    /\ UNCHANGED <<pcbVars, tmnlVars, user_page, running, kstack, proc,
                   localVars, frames, ctx, hazards>>

ExecIret(t) ==
    /\ At(t, "exec_iret")
    /\ proc' = [proc EXCEPT ![t] = pid[t]]
    /\ ToUser(t)
    /\ UNCHANGED <<pcbVars, tmnlVars, cpuVars, frames, ctx, hazards>>

-----------------------------------------------------------------------------
(* halt, called by flow t or by execute("exit").                           *)

HaltCall(t) == SystemCall(t, "halt_read")

(* Whether stack q holds the frame of the execute that started process p:  *)
(* jumping there, a flow returns to user mode as the process whose stack   *)
(* it is.                                                                  *)
Returnable(stacks, q, p) == q \in Pids /\ stacks[q] = p

(* Halting a base process does nothing.                                    *)
HaltBase(t) ==
    /\ At(t, "halt_read")
    /\ active_process[exec_terminal] # NoPid
    /\ parent[active_process[exec_terminal]] = NoPid
    /\ ToUser(t)
    /\ UNCHANGED <<pcbVars, tmnlVars, cpuVars, proc, frames, ctx, hazards>>

(* Without the check for a base process.                                   *)
HaltRead_NoBaseCheck(t) ==
    /\ At(t, "halt_read")
    /\ LET sched_process == active_process[exec_terminal] IN
       /\ sched_process # NoPid
       /\ pid' = [pid EXCEPT ![t] = sched_process]
       /\ par' = [par EXCEPT ![t] = parent[sched_process]]
       /\ ret' = [ret EXCEPT ![t] = stack_ptr[sched_process]]
    /\ Goto(t, "halt_active")
    /\ UNCHANGED <<pcbVars, tmnlVars, cpuVars, kstack, proc, frames, ctx, hazards>>

HaltRead(t) ==
    /\ At(t, "halt_read")
    /\ LET sched_process == active_process[exec_terminal] IN
       /\ sched_process # NoPid
       /\ parent[sched_process] # NoPid
       /\ pid' = [pid EXCEPT ![t] = sched_process]
       /\ par' = [par EXCEPT ![t] = parent[sched_process]]
       /\ ret' = [ret EXCEPT ![t] = stack_ptr[sched_process]]
    /\ Goto(t, "halt_active")
    /\ UNCHANGED <<pcbVars, tmnlVars, cpuVars, kstack, proc, frames, ctx, hazards>>

(* Back to the base shell, not to the program that started this one.       *)
HaltActive_ToShell(t) ==
    /\ At(t, "halt_active")
    /\ active_process' = [active_process EXCEPT ![exec_terminal] = exec_terminal]
    /\ Goto(t, "halt_end")
    /\ UNCHANGED <<pcbVars, booted, active_terminal, exec_terminal, cpuVars,
                   kstack, proc, localVars, frames, ctx, hazards>>

HaltActive(t) ==
    /\ At(t, "halt_active")
    /\ active_process' = [active_process EXCEPT ![exec_terminal] = par[t]]
    /\ Goto(t, "halt_end")
    /\ UNCHANGED <<pcbVars, booted, active_terminal, exec_terminal, cpuVars,
                   kstack, proc, localVars, frames, ctx, hazards>>

(* The parent's slot is freed.                                             *)
HaltEnd_Parent(t) ==
    /\ At(t, "halt_end")
    /\ present' = present \ {par[t]}
    /\ Goto(t, "halt_page")
    /\ UNCHANGED <<parent, stack_ptr, prev_sp, owner, tmnlVars, cpuVars, kstack,
                   proc, localVars, frames, ctx, hazards>>

(* end_process frees the slot while flow t is still on its kernel stack.   *)
HaltEnd(t) ==
    /\ At(t, "halt_end")
    /\ present' = present \ {pid[t]}
    /\ Goto(t, "halt_page")
    /\ UNCHANGED <<parent, stack_ptr, prev_sp, owner, tmnlVars, cpuVars, kstack,
                   proc, localVars, frames, ctx, hazards>>

(* The parent's page is not mapped again.                                  *)
HaltPage_Forgotten(t) ==
    /\ At(t, "halt_page")
    /\ Goto(t, "halt_tss")
    /\ UNCHANGED <<pcbVars, tmnlVars, cpuVars, kstack, proc, localVars, frames, ctx, hazards>>

HaltPage(t) ==
    /\ At(t, "halt_page")
    /\ user_page' = par[t]
    /\ Goto(t, "halt_tss")
    /\ UNCHANGED <<pcbVars, tmnlVars, esp0, running, kstack, proc, localVars,
                   frames, ctx, hazards>>

HaltTss(t) ==
    /\ At(t, "halt_tss")
    /\ esp0' = par[t]
    /\ Goto(t, "halt_jump")
    /\ UNCHANGED <<pcbVars, tmnlVars, user_page, running, kstack, proc, localVars,
                   frames, ctx, hazards>>

HaltJump(t) ==
    /\ At(t, "halt_jump")
    /\ Returnable(frames, ret[t], pid[t])
    /\ proc' = [proc EXCEPT ![t] = ret[t]]
    /\ frames' = [frames EXCEPT ![ret[t]] = NoPid]
    /\ ToUser(t)
    /\ UNCHANGED <<pcbVars, tmnlVars, cpuVars, ctx, hazards>>

(* halt read a pcb[-1], or jumped into a frame that is no longer there.    *)
HaltCrash(t) ==
    /\ \/ At(t, "halt_read") /\ active_process[exec_terminal] = NoPid
       \/ At(t, "halt_jump") /\ ~Returnable(frames, ret[t], pid[t])
    /\ running' = Crashed
    /\ UNCHANGED <<pcbVars, tmnlVars, user_page, esp0, flowVars, frames, ctx, hazards>>

(* An exception in the user program: the handler calls halt(0) with        *)
(* interrupts off, which ends the process.                                 *)
Fault(t) ==
    /\ At(t, "user")
    /\ LET sched_process == active_process[exec_terminal] IN
       /\ sched_process # NoPid
       /\ LET prev_process == parent[sched_process]
              child_stack == stack_ptr[sched_process] IN
          /\ prev_process # NoPid
          /\ Returnable(FramesAfterEntry(t), child_stack, sched_process)
          /\ active_process' = [active_process EXCEPT ![exec_terminal] = prev_process]
          /\ present' = present \ {sched_process}
          /\ user_page' = prev_process
          /\ esp0' = prev_process
          /\ proc' = [proc EXCEPT ![t] = child_stack]
          /\ frames' = [FramesAfterEntry(t) EXCEPT ![child_stack] = NoPid]
    /\ ctx' = CtxAfterEntry(t)
    /\ UNCHANGED <<parent, stack_ptr, prev_sp, owner, booted, active_terminal,
                   exec_terminal, running, pc, kstack, localVars, hazards>>

(* For a base process halt returns, and so does the handler: a C function, *)
(* with ret where an interrupt needs iret.                                 *)
FaultBase(t) ==
    /\ At(t, "user")
    /\ active_process[exec_terminal] # NoPid
    /\ parent[active_process[exec_terminal]] = NoPid
    /\ Record("base_fault", TRUE)
    /\ running' = Crashed
    /\ UNCHANGED <<pcbVars, tmnlVars, user_page, esp0, flowVars, frames, ctx>>

FaultCrash(t) ==
    /\ At(t, "user")
    /\ LET sched_process == active_process[exec_terminal] IN
       \/ sched_process = NoPid
       \/ /\ sched_process # NoPid
          /\ parent[sched_process] # NoPid
          /\ ~Returnable(FramesAfterEntry(t), stack_ptr[sched_process], sched_process)
    /\ running' = Crashed
    /\ UNCHANGED <<pcbVars, tmnlVars, user_page, esp0, flowVars, frames, ctx, hazards>>

-----------------------------------------------------------------------------
(* The timer: sched_handler and change_context, interrupts off.            *)

NextTerminal_SkipsLast == (exec_terminal + 1) % (NUM_TERMINAL - 1)

NextTerminal == (exec_terminal + 1) % NUM_TERMINAL

(* curr_pb->prev_sp: the interrupted flow's context goes to the slot of    *)
(* the active process of exec_terminal.  What BootFlow saves in pcb[0] on  *)
(* the first tick create_process overwrites before anybody can read it.    *)

(* The context is saved in the slot of the terminal to be scheduled.       *)
PrevSpAfterSave_InNextSlot ==
    IF running \in Terminals /\ active_process[NextTerminal] # NoPid
    THEN [prev_sp EXCEPT ![active_process[NextTerminal]] = running]
    ELSE prev_sp
PrevSpAfterSave == IF running \in Terminals
                   THEN [prev_sp EXCEPT ![active_process[exec_terminal]] = running]
                   ELSE prev_sp
CtxAfterSave == IF running \in Terminals
                THEN [CtxAfterEntry(running) EXCEPT ![running] = active_process[exec_terminal]]
                ELSE ctx
StackAfterSave == IF running \in Terminals THEN Entered(running) ELSE kstack
FramesAfterSave == IF running \in Terminals THEN FramesAfterEntry(running) ELSE frames

(* Running on a terminal without an active process, the handler would save *)
(* the context in pcb[-1].                                                 *)
CanSave == running \in Terminals => active_process[exec_terminal] # NoPid

(* The next terminal runs: map its process and resume the context in its   *)
(* slot.  It must be the latest context of a flow whose stack is intact.   *)
Resumable(p) == /\ p # NoPid
                /\ PrevSpAfterSave[p] # NoFlow
                /\ CtxAfterSave[PrevSpAfterSave[p]] = p

(* tss.esp0 follows the process that is scheduled, or is forgotten.        *)
SetTss_Forgotten(p) == UNCHANGED esp0

SetTss(p) == esp0' = p

TickResume ==
    LET n == NextTerminal
        p == active_process[n]
        u == PrevSpAfterSave[p]
    IN  /\ running # Crashed
        /\ CanSave
        /\ n \in booted
        /\ Resumable(p)
        /\ user_page' = p
        /\ SetTss(p)
        /\ exec_terminal' = n
        /\ prev_sp' = PrevSpAfterSave
        /\ running' = u
        /\ ctx' = [CtxAfterSave EXCEPT ![u] = Current]
        /\ kstack' = [StackAfterSave EXCEPT ![u] = IF pc[u] = "user" THEN NoPid ELSE @]
        /\ frames' = FramesAfterSave
        /\ UNCHANGED <<present, parent, stack_ptr, owner, booted, active_process,
                       active_terminal, pc, proc, localVars, hazards>>

(* The next terminal is idle: the handler runs all of execute("shell") for *)
(* it, on the kernel stack of the process it interrupted, and enters the   *)
(* shell.                                                                  *)
FirstFree_Any(i) == i \in Pids \ present

FirstFree(i) == i \in Pids \ present /\ \A j \in Pids \ present : i <= j

ShellParent(i) == IF i \in Terminals \/ active_terminal = NoTerminal
                  THEN NoPid ELSE active_process[active_terminal]

(* execute sets active_terminal on the first boot.                         *)
Shown == IF active_terminal = NoTerminal THEN 0 ELSE active_terminal

BootInto(i, n) ==
    /\ FirstFree(i)
    /\ present' = present \cup {i}
    /\ parent' = [parent EXCEPT ![i] = ShellParent(i)]
    /\ stack_ptr' = [stack_ptr EXCEPT ![i] = IF running \in Terminals
                                             THEN StackAfterSave[running] ELSE 0]
    /\ prev_sp' = [PrevSpAfterSave EXCEPT ![i] = NoFlow]
    /\ owner' = [owner EXCEPT ![i] = n]
    /\ active_process' = [active_process EXCEPT ![IF i \in Terminals THEN i ELSE Shown] = i]
    /\ exec_terminal' = IF i \in Terminals THEN i ELSE n
    /\ user_page' = i
    /\ esp0' = i
    /\ proc' = [proc EXCEPT ![n] = i]
    /\ Record("stack_reuse", \E u \in Terminals : StackAfterSave[u] = i)

TickBoot ==
    LET n == NextTerminal
    IN  /\ running # Crashed
        /\ CanSave
        /\ n \notin booted
        /\ \E i \in Pids : BootInto(i, n)
        /\ booted' = booted \cup {n}
        /\ active_terminal' = Shown
        /\ running' = n
        /\ Goto(n, "user")
        /\ kstack' = StackAfterSave
        /\ ctx' = CtxAfterSave
        /\ frames' = FramesAfterSave
        /\ UNCHANGED localVars

(* No slot for the shell, or no context to resume: the handler loads esp   *)
(* with garbage.                                                           *)
TickCrash ==
    /\ running # Crashed
    /\ \/ ~CanSave
       \/ NextTerminal \notin booted /\ Pids \subseteq present
       \/ /\ CanSave
          /\ NextTerminal \in booted
          /\ ~Resumable(active_process[NextTerminal])
    /\ running' = Crashed
    /\ UNCHANGED <<pcbVars, tmnlVars, user_page, esp0, flowVars, frames, ctx, hazards>>

Tick == TickResume \/ TickBoot \/ TickCrash

-----------------------------------------------------------------------------
(* Alt and a function key: the keyboard handler calls switch_terminal.     *)
SwitchTerminal(n) ==
    /\ running # Crashed
    /\ n # active_terminal
    /\ n \in booted
    /\ active_terminal' = n
    /\ UNCHANGED <<pcbVars, booted, active_process, exec_terminal, cpuVars,
                   flowVars, frames, ctx, hazards>>

-----------------------------------------------------------------------------
Execute(t) == \/ ExecReject(t) \/ ExecParent(t) \/ ExecScan(t) \/ ExecInsert(t)
              \/ ExecActive(t) \/ ExecPage(t) \/ ExecLoad(t) \/ ExecFrame(t)
              \/ ExecTss(t) \/ ExecIret(t)

Halt(t) == \/ HaltBase(t) \/ HaltRead(t) \/ HaltActive(t) \/ HaltEnd(t)
           \/ HaltPage(t) \/ HaltTss(t) \/ HaltJump(t)

(* The steps of kernel code, and what user programs may ask for.           *)
Kernel(t) == Execute(t) \/ Halt(t) \/ HaltCrash(t)
User(t) == ExecCall(t) \/ HaltCall(t) \/ Fault(t) \/ FaultBase(t) \/ FaultCrash(t)

Next == \/ Tick
        \/ \E t \in Terminals : Kernel(t) \/ User(t) \/ SwitchTerminal(t)

Spec == Init /\ [][Next]_vars

(* The PIT keeps interrupting, and a quantum of 10 ms is far longer than   *)
(* any one statement: a flow that is scheduled again and again goes on.    *)
FairSpec == /\ Spec
            /\ WF_vars(Tick)
            /\ \A t \in Terminals : SF_vars(Kernel(t))

-----------------------------------------------------------------------------
(* Properties.  The safety properties hold as long as none of the hazards  *)
(* has happened: a hazard is a step of the code whose consequences the     *)
(* code does not guard against.                                            *)

Clean == hazards = {}

(* The kernel never resumes a context that was overwritten or superseded,  *)
(* never halts into a stack frame that is gone, and never indexes pcb[-1]  *)
(* (change_context, scheduler.c:101-106; halt, syscall.c:119-128).         *)
NoCrash == Clean => running # Crashed

(* What runs is the process the kernel takes for the current one: while a  *)
(* flow is on the processor exec_terminal is its terminal, in user mode    *)
(* its program is the active process of that terminal, with its own page   *)
(* mapped and its own kernel stack in the TSS; a system call still finds   *)
(* its caller's page mapped; and load_prog writes into the page of the new *)
(* process, however often the timer remapped page_directory[32] meanwhile. *)
RunsOwnProcess ==
    \A t \in Terminals : Clean /\ running = t =>
        /\ exec_terminal = t
        /\ pc[t] = "user" => /\ active_process[t] = proc[t]
                             /\ user_page = proc[t]
                             /\ esp0 = proc[t]
        /\ pc[t] \in {"exec_parent", "halt_read"} => user_page = proc[t]
        /\ pc[t] = "exec_load" => user_page = pid[t]

(* The latest context of every flow that is not on the processor is in the *)
(* slot where change_context will look for it, the one of its terminal's   *)
(* active process, although execute and halt change that process in the    *)
(* middle of the flow (scheduler.c:84-106, syscall.c:108 and 199).         *)
Suspended(t) == /\ active_process[t] \in present
                /\ prev_sp[active_process[t]] = t
                /\ ctx[t] = active_process[t]

SuspendedResumable == Clean => \A t \in booted \ {running} : Suspended(t)

(* execute inserted p and has not made it active, or halt made its parent  *)
(* active and has not freed it.                                            *)
Between(p) == p = pid[owner[p]] /\ pc[owner[p]] \in {"exec_active", "halt_end"}

(* The processes of a terminal form one chain from its base shell to its   *)
(* active process: a parent outlives its children, belongs to the same     *)
(* flow and has one child; and a process is the active one, or waits for a *)
(* child, or is being created or ended by its flow.  No slot leaks.        *)
ProcessTree ==
    Clean =>
      /\ \A t \in booted : active_process[t] \in present /\ owner[active_process[t]] = t
      /\ \A p \in present :
           \/ p \in booted /\ parent[p] = NoPid /\ owner[p] = p
           \/ /\ p \notin Terminals
              /\ parent[p] \in present
              /\ owner[parent[p]] = owner[p]
      /\ \A p, q \in present : parent[p] = parent[q] /\ parent[p] # NoPid => p = q
      /\ \A p \in present : \/ p = active_process[owner[p]]
                            \/ Between(p)
                            \/ \E c \in present : parent[c] = p

(* No two flows ever stand on the same kernel stack.                       *)
OwnStacks ==
    Clean => \A t, u \in Terminals : t # u /\ kstack[t] # NoPid => kstack[t] # kstack[u]

(* Past create_process and before it saved its frame, execute is still     *)
(* making process p.                                                       *)
Making(p) == \E t \in Terminals :
                pid[t] = p /\ pc[t] \in {"exec_active", "exec_page", "exec_load", "exec_frame"}

(* A process that runs a child still has the frame of its execute on its   *)
(* own kernel stack, and the child's stack_ptr leads there: halt comes     *)
(* back to the caller of execute (syscall.c:215-221 and 119-128).          *)
Awaited(p) == stack_ptr[p] = parent[p] /\ frames[parent[p]] = p

ParentsWait == Clean => \A p \in present \ Terminals : Making(p) \/ Awaited(p)

(* Only the flow that made a process frees its slot, and the slot of a     *)
(* base shell is never freed (halt, syscall.c:93-97 and 111).              *)
FreesOwnSlot ==
    [][Clean => \A p \in present \ present' : running = owner[p] /\ p \notin Terminals]_vars

(* No process of a base shell is ever ended, whatever hazard happens, as   *)
(* long as no command got a base shell's pid (halt, syscall.c:93-97).      *)
BaseShellsStay ==
    []["early_exec" \notin hazards => present \cap Terminals \subseteq present']_vars

(* Round robin: every terminal is scheduled again and again.               *)
EveryTerminalScheduled ==
    \A t \in Terminals : []<>(running = t) \/ <>~Clean

(* Every execute and every halt reaches user mode again, in the caller, in *)
(* the new process or in the parent.                                       *)
CallsComplete ==
    \A t \in Terminals :
        pc[t] \in ExecLabels \cup HaltLabels ~> pc[t] = "user" \/ ~Clean

-----------------------------------------------------------------------------
(* The abstract state.  Between the two statements that insert a process   *)
(* and make it active, or make its parent active and free it, a process is *)
(* not a program of its terminal: it is not yet, or no longer, there.      *)
Live == {p \in present : ~Between(p)}

TS == INSTANCE TimeSharing WITH
        Terminal <- Terminals, Program <- Pids, None <- NoPid,
        live <- Live, below <- [p \in Live |-> parent[p]],
        top <- active_process, turn <- exec_terminal, shown <- active_terminal

(* As long as no hazard happens, what the kernel does in many preemptible  *)
(* statements is one step of TimeSharing, seen from every other terminal:  *)
(* a program is started or ended at once, on top of its own terminal's     *)
(* stack, in its own turn, and nobody ever observes a half made or a half  *)
(* ended process (execute and halt, syscall.c:81-245).                     *)
ImplementsTimeSharing == TS!Init /\ [][Clean' => [TS!Next]_(TS!vars)]_vars

-----------------------------------------------------------------------------
(* The inductive invariant behind them.                                    *)

(* What the locals are when the code uses them.                            *)
LocalsOK ==
    /\ running \in Terminals => active_terminal \in Terminals /\ exec_terminal \in Terminals
    /\ running = BootFlow => booted = {}
    /\ \A t \in Terminals :
         /\ pc[t] \in ExecLabels \ {"exec_parent"} => pid[t] \in Pids
         /\ pc[t] \in HaltLabels \ {"halt_read"} => pid[t] \in Pids /\ par[t] \in Pids

(* The terminals are booted in order, the base shells take the first slots.*)
BootOrder ==
    /\ running \in booted \cup {BootFlow}
    /\ booted = {} => running = BootFlow
    /\ booted = Terminals \/ booted = 0 .. exec_terminal
    /\ running # BootFlow => running = exec_terminal /\ active_terminal \in booted
    /\ present \cap Terminals = booted
    /\ running = BootFlow => active_terminal = NoTerminal
    /\ \A t \in Terminals \ booted : pc[t] = "idle" /\ kstack[t] = NoPid /\ pid[t] = NoPid

ChildOf(p) == {c \in present : parent[c] = p}

Starting == {"exec_scan", "exec_insert"}
Loading  == {"exec_page", "exec_load", "exec_frame"}
Entering == {"exec_tss", "exec_iret"}
Leaving  == {"halt_page", "halt_tss", "halt_jump"}

(* Where flow t stands, and what it made of its terminal so far.           *)
FlowOK(t) ==
    LET a == active_process[t] IN
    /\ pc[t] # "idle"
    /\ a \in present /\ owner[a] = t
    /\ kstack[t] = IF running = t /\ pc[t] = "user" THEN NoPid ELSE proc[t]
    /\ pc[t] \in {"user", "exec_parent", "halt_read"} =>
         proc[t] = a /\ ChildOf(a) = {} /\ pid[t] = NoPid
    /\ pc[t] \in Starting => proc[t] = a /\ par[t] = a /\ ChildOf(a) = {}
    /\ pc[t] = "exec_active" =>
         /\ proc[t] = a /\ par[t] = a
         /\ pid[t] \in present \ Terminals /\ owner[pid[t]] = t
         /\ parent[pid[t]] = a /\ ChildOf(pid[t]) = {}
    /\ pc[t] \in Loading \cup Entering =>
         /\ a = pid[t] /\ a \notin Terminals
         /\ parent[a] = proc[t] /\ proc[t] \in present /\ ChildOf(a) = {}
    /\ pc[t] \in {"halt_active", "halt_end"} =>
         /\ pid[t] \in present \ Terminals /\ owner[pid[t]] = t
         /\ proc[t] = pid[t] /\ par[t] = parent[pid[t]] /\ ret[t] = par[t]
         /\ ChildOf(pid[t]) = {}
    /\ pc[t] = "halt_active" => a = pid[t]
    /\ pc[t] = "halt_end" => a = par[t]
    /\ pc[t] \in Leaving =>
         /\ a = par[t] /\ ret[t] = par[t] /\ ChildOf(a) = {}
         /\ proc[t] = pid[t] /\ pid[t] \notin present /\ frames[ret[t]] = pid[t]

(* What the page directory and the TSS hold while flow t runs.             *)
MappingOK(t) ==
    LET a == active_process[t] IN
    /\ user_page = a \/ (pc[t] = "exec_page" /\ user_page = proc[t])
                     \/ (pc[t] \in {"halt_end", "halt_page"} /\ user_page = pid[t])
    /\ esp0 = a \/ (pc[t] \in Loading \cup {"exec_tss"} /\ esp0 = proc[t])
                \/ (pc[t] \in {"halt_end", "halt_page", "halt_tss"} /\ esp0 = pid[t])

Families ==
    /\ \A p \in present :
         \/ p \in booted /\ parent[p] = NoPid /\ owner[p] = p
         \/ /\ p \notin Terminals /\ owner[p] \in booted
            /\ parent[p] \in present /\ owner[parent[p]] = owner[p]
    /\ \A p, q \in present : parent[p] = parent[q] /\ parent[p] # NoPid => p = q
    /\ \A p \in present : \/ p = active_process[owner[p]]
                          \/ Between(p)
                          \/ ChildOf(p) # {}

Coherent ==
    /\ BootOrder
    /\ Families
    /\ \A t \in booted : FlowOK(t)
    /\ \A t, u \in booted : t # u => proc[t] # proc[u]
    /\ running \in booted => MappingOK(running)
    /\ \A t \in booted \ {running} : Suspended(t)
    /\ \A p \in present \ Terminals : Making(p) \/ Awaited(p)

IInv == TypeOK /\ LocalsOK /\ (Clean => Coherent)

=============================================================================
