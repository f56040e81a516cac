----------------------------- MODULE Interrupts -----------------------------
(***************************************************************************)
(* How the processor gets from one piece of code to another: the pair of   *)
(* 8259 controllers (i8259.c), the gates of the descriptor table           *)
(* (set_idt.c), the wrappers of as_wrapper.S and the order in which the    *)
(* handlers acknowledge their device and their interrupt.  What handlers   *)
(* and system calls compute is left to the other modules.                  *)
(*                                                                         *)
(* A flow of control is the kernel's entry() or a terminal with the        *)
(* programs it has executed; code says what it does, and would do next if  *)
(* it were on the processor, frames what its kernel stacks hold for iret.  *)
(***************************************************************************)
EXTENDS Naturals, Sequences

CONSTANTS NUM_TERMINAL,
          MaxDepth        \* bound: the programs executed on top of a shell

ASSUME InterruptsAssumption == NUM_TERMINAL \in Nat \ {0} /\ MaxDepth \in Nat

Terminals == 0 .. NUM_TERMINAL - 1
BootFlow == NUM_TERMINAL
Flows == Terminals \cup {BootFlow}

IRQ_SCHED == 0
IRQ1 == 1
IRQ_SLAVE == 2
IRQ8 == 8
Devices == {IRQ_SCHED, IRQ1, IRQ8}

ICW2_MASTER == 32
ICW2_SLAVE == 40
PAGE_FAULT == 14
PIT_IDT == 32
KB_IDT == 33
RTC_IDT == 40
SYS_IDT == 128

(* Code that is interrupted; the rest runs with interrupts off.            *)
Interruptible == {"spin", "user", "kernel"}
SchedCode == {"sched_eoi", "change_context", "sched_done"}

VARIABLES
    idt,          \* the gates: what a vector enters, and whether as a trap
    imr, irr, isr,    \* the controllers: masked, requested, in service
    sources,      \* the devices that raise interrupts at all
    unread,       \* those that raise none until their register is read
    enabled,      \* the interrupt flag
    flow,         \* the flow on the processor
    code, frames, depth,
    booted        \* the terminals that run

picVars == <<idt, imr, irr, isr, sources>>
flowVars == <<code, frames, depth, booted>>
vars == <<picVars, unread, enabled, flow, flowVars>>

At(c) == code[flow] = c
Goto(c) == code' = [code EXCEPT ![flow] = c]

(* The slave's interrupt is not acknowledged to the master.                *)
EOI_SlaveOnly(i) == isr' = isr \ {i}

(* send_eoi: a specific one, and for the slave's lines the cascade's too.  *)
EOI(i) == isr' = isr \ (IF i < 8 THEN {i} ELSE {i, IRQ_SLAVE})

(* An 8259 serves its lines in the order of their numbers, and holds back  *)
(* those that come after one in service; the slave is behind line 2.       *)
Vector(i) == IF i < 8 THEN ICW2_MASTER + i ELSE ICW2_SLAVE + i - 8
Line(i) == IF i < 8 THEN i ELSE IRQ_SLAVE
Waiting == {i \in irr \ imr : i < 8 \/ IRQ_SLAVE \notin imr}
Accepted(i) == /\ i \in Waiting
               /\ \A j \in Waiting : Line(i) <= Line(j)
               /\ \A j \in isr : Line(i) < Line(j)

-----------------------------------------------------------------------------
(* The devices.  The timer has a period longer than its handler.  The      *)
(* keyboard's line stays up until its port is read, the clock's until      *)
(* register C is, and a line that is up raises nothing.                    *)
Raise(d) ==
    /\ d \in sources \ unread
    /\ d = IRQ_SCHED => code[flow] \notin SchedCode
    /\ irr' = irr \cup {d}
    /\ unread' = unread \cup ({d} \ {IRQ_SCHED})
    /\ UNCHANGED <<idt, imr, isr, sources, enabled, flow, flowVars>>

(* Through a gate: the processor saves what it leaves, and an interrupt    *)
(* gate turns the flag off.                                                *)
Enter(v) ==
    /\ v \in DOMAIN idt
    /\ Goto(idt[v].entry)
    /\ frames' = [frames EXCEPT ![flow] = Append(@, [code |-> code[flow], enabled |-> enabled])]
    /\ enabled' = (enabled /\ idt[v].trap)
    /\ UNCHANGED <<flow, depth, booted>>

Top == frames[flow][Len(frames[flow])]

Iret == /\ frames[flow] # <<>>
        /\ Goto(Top.code)
        /\ enabled' = Top.enabled
        /\ frames' = [frames EXCEPT ![flow] = SubSeq(@, 1, Len(@) - 1)]
        /\ UNCHANGED <<picVars, unread, flow, depth, booted>>

Interrupt(i) ==
    /\ enabled /\ Accepted(i)
    /\ irr' = irr \ {i}
    /\ isr' = isr \cup {i, Line(i)}
    /\ Enter(Vector(i))
    /\ UNCHANGED <<idt, imr, sources, unread>>

-----------------------------------------------------------------------------
(* The handlers: each acknowledges the controller first, then its device.  *)
Acknowledge(i, from, to) ==
    /\ At(from)
    /\ EOI(i)
    /\ Goto(to)
    /\ UNCHANGED <<idt, imr, irr, sources, unread, enabled, flow, frames, depth, booted>>

SchedEoi == Acknowledge(IRQ_SCHED, "sched_eoi", "change_context")
KbEoi == Acknowledge(IRQ1, "kb_eoi", "kb_port")
RtcEoi == Acknowledge(IRQ8, "rtc_eoi", "rtc_regc")

ReadDevice(d, from, to) ==
    /\ At(from)
    /\ unread' = unread \ {d}
    /\ Goto(to)
    /\ UNCHANGED <<picVars, enabled, flow, frames, depth, booted>>

(* A key that comes before there is a terminal is written to the line and  *)
(* the screen of terminal -1, wherever they are.                           *)
KbWild == /\ At("kb_port") /\ booted = {}
          /\ Goto("lost")
          /\ UNCHANGED <<picVars, unread, enabled, flow, frames, depth, booted>>

(* Register C is not read.                                                 *)
RtcRegC_NotRead == At("rtc_regc") /\ Goto("rtc_done") /\
    UNCHANGED <<picVars, unread, enabled, flow, frames, depth, booted>>

KbPort == ReadDevice(IRQ1, "kb_port", "kb_done")
RtcRegC == ReadDevice(IRQ8, "rtc_regc", "rtc_done")

(* change_context: the flow stays where it is until its turn comes; a      *)
(* terminal that has not run yet executes its shell, whose iret frame is   *)
(* made by execute with the interrupt flag set.                            *)
NextFlow == IF flow \in Terminals THEN (flow + 1) % NUM_TERMINAL ELSE 0

ChangeContext ==
    /\ At("change_context")
    /\ flow' = NextFlow
    /\ IF NextFlow \in booted
       THEN /\ Goto("sched_done")
            /\ UNCHANGED <<enabled, booted>>
       ELSE /\ code' = [code EXCEPT ![flow] = "sched_done", ![NextFlow] = "user"]
            /\ enabled' = TRUE
            /\ booted' = booted \cup {NextFlow}
    /\ UNCHANGED <<picVars, unread, frames, depth>>

HandlerIret == (At("sched_done") \/ At("kb_done") \/ At("rtc_done")) /\ Iret

-----------------------------------------------------------------------------
(* System calls.                                                           *)
Trap == At("user") /\ Enter(SYS_IDT) /\ UNCHANGED <<picVars, unread>>

Return == At("kernel") /\ Iret

Execute ==
    /\ At("kernel")
    /\ depth[flow] < MaxDepth
    /\ depth' = [depth EXCEPT ![flow] = @ + 1]
    /\ Goto("user")
    /\ enabled' = TRUE
    /\ UNCHANGED <<picVars, unread, flow, frames, booted>>

(* The child's stack is left, the parent goes on inside its execute.       *)
Halt == /\ At("kernel")
        /\ depth[flow] > 0
        /\ depth' = [depth EXCEPT ![flow] = @ - 1]
        /\ frames' = [frames EXCEPT ![flow] = SubSeq(@, 1, depth[flow])]
        /\ UNCHANGED <<picVars, unread, enabled, flow, code, booted>>

(* terminal_read and terminal_write turn interrupts off, twice at most.    *)
(* Their return with interrupts off when they are given no buffer is not   *)
(* reached: read and write have refused it (syscall.c:256, 275).           *)
SetFlag(from, to, on) ==
    /\ At(from)
    /\ Goto(to)
    /\ enabled' = on
    /\ UNCHANGED <<picVars, unread, flow, frames, depth, booted>>

Cli == SetFlag("kernel", "cli", FALSE)
Sti == SetFlag("cli", "kernel", TRUE)

(* An exception of a program, or of the kernel on its behalf: a bad        *)
(* pointer, or a call of number 9 or 10, which the wrapper lets through to *)
(* a table of nine (what lies behind it is no mapped address).  Handlers   *)
(* of exceptions halt the program; that of a base shell, which cannot be   *)
(* halted, is in ProcessControl.                                           *)
Fault == /\ At("user") \/ At("kernel") \/ At("cli")
         /\ depth[flow] > 0
         /\ Enter(PAGE_FAULT)
         /\ UNCHANGED <<picVars, unread>>

(* The parent returns from its execute with interrupts still off, to the   *)
(* frame of its own system call.                                           *)
FaultHalt ==
    /\ At("fault")
    /\ LET caller == frames[flow][depth[flow]]
       IN  Goto(caller.code) /\ enabled' = caller.enabled
    /\ frames' = [frames EXCEPT ![flow] = SubSeq(@, 1, depth[flow] - 1)]
    /\ depth' = [depth EXCEPT ![flow] = @ - 1]
    /\ UNCHANGED <<picVars, unread, flow, booted>>

SystemCall == \/ Trap \/ Return \/ Execute \/ Halt
              \/ Cli \/ Sti \/ Fault \/ FaultHalt
=============================================================================
