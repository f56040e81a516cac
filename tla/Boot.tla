-------------------------------- MODULE Boot --------------------------------
(***************************************************************************)
(* From the boot loader to running programs: entry() of kernel.c, which    *)
(* initialises one thing after another with interrupts off and then spins, *)
(* and the machine it leaves behind (Interrupts), with the memory programs *)
(* reach in it (Paging) and what the kernel reports of the loader          *)
(* (Strings).                                                              *)
(***************************************************************************)
EXTENDS Interrupts, Paging, Strings

VARIABLES loader,     \* what the boot loader hands over
          fs_addr,    \* where the file system is
          printed     \* the last number printed

(* History: the devices that waited for their register to be read when the *)
(* controllers were initialised.                                           *)
VARIABLE early

bootVars == <<loader, fs_addr, printed, early>>
allVars == <<vars, pageVars, bootVars>>

Conversions == {"%x", "%#x", "%u", "%d"}
Quiet == [conversion |-> "", word |-> 0, text |-> Text(FALSE, <<>>)]

(* Interrupts are off from boot.S on.  The timer runs already, and a key   *)
(* may be pressed; the boot loader has read those of before, and uses no   *)
(* clock.                                                                  *)
Init ==
    /\ idt = [v \in {} |-> 0]
    /\ imr = Devices \cup {IRQ_SLAVE} /\ irr = {} /\ isr = {}
    /\ sources = {IRQ_SCHED, IRQ1} /\ unread = {}
    /\ enabled = FALSE /\ flow = BootFlow
    /\ code = [f \in Flows |-> IF f = BootFlow THEN "entry" ELSE "idle"]
    /\ frames = [f \in Flows |-> <<>>]
    /\ depth = [f \in Flows |-> 0]
    /\ booted = {}
    /\ Unmapped
    /\ loader \in [magic : BOOLEAN, flags : SUBSET {3, 4, 5}]
    /\ fs_addr = "null"
    /\ printed = Quiet
    /\ early = {}

Step(from, to) == At(from) /\ Goto(to) /\ UNCHANGED <<flow, frames, depth, booted>>
Machine == <<picVars, unread, enabled>>

-----------------------------------------------------------------------------
(* entry().  Where it returns, boot.S halts the machine.                   *)
BadMagic == /\ ~loader.magic
            /\ Step("entry", "refused")
            /\ UNCHANGED <<Machine, pageVars, bootVars>>

Magic == /\ loader.magic
         /\ Step("entry", "report")
         /\ UNCHANGED <<Machine, pageVars, bootVars>>

(* The loader's words are printed, each in the conversion of its line.     *)
(* Bound: one word of the report is followed, any one.                     *)
Report(conversion, w) ==
    /\ At("report") /\ printed = Quiet
    /\ printed' = [conversion |-> conversion, word |-> w, text |-> printf(conversion, w)]
    /\ UNCHANGED <<vars, pageVars, loader, fs_addr, early>>

(* Bit 3: there are modules, and the first one is the file system.         *)
Modules == /\ fs_addr' = IF 3 \in loader.flags THEN "module" ELSE "null"
           /\ Step("report", IF {4, 5} \subseteq loader.flags THEN "refused" ELSE "init_idt")
           /\ printed' = Quiet
           /\ UNCHANGED <<Machine, pageVars, loader, early>>

Gate(entry, trap) == [entry |-> entry, trap |-> trap]
InterruptGates == {PAGE_FAULT, PIT_IDT, KB_IDT, RTC_IDT}

Gates == [v \in InterruptGates \cup {SYS_IDT} |->
            CASE v = PAGE_FAULT -> Gate("fault", FALSE)
              [] v = PIT_IDT -> Gate("sched_eoi", FALSE)
              [] v = KB_IDT -> Gate("kb_eoi", FALSE)
              [] v = RTC_IDT -> Gate("rtc_eoi", FALSE)
              [] v = SYS_IDT -> Gate("kernel", TRUE)]

(* The timer's gate is a trap gate.                                        *)
InitIdt_TrapGate ==
    /\ Step("init_idt", "i8259_init")
    /\ idt' = [Gates EXCEPT ![PIT_IDT] = Gate("sched_eoi", TRUE)]
    /\ UNCHANGED <<imr, irr, isr, sources, unread, enabled, pageVars, bootVars>>

InitIdt ==
    /\ Step("init_idt", "i8259_init")
    /\ idt' = Gates
    /\ UNCHANGED <<imr, irr, isr, sources, unread, enabled, pageVars, bootVars>>

enable_irq(i) == imr' = imr \ {i}

(* The first command word clears what was requested: a line that is up     *)
(* then is not seen until it falls and rises again.                        *)
I8259Init ==
    /\ Step("i8259_init", "init_paging")
    /\ irr' = {} /\ isr' = {}
    /\ enable_irq(IRQ_SLAVE)
    /\ early' = unread
    /\ UNCHANGED <<idt, sources, unread, enabled, pageVars, loader, fs_addr, printed>>

InitPaging ==
    /\ Step("init_paging", "init_rtc")
    /\ create_pages
    /\ UNCHANGED <<Machine, bootVars>>

InitRtc ==
    /\ Step("init_rtc", "init_keyboard")
    /\ sources' = sources \cup {IRQ8}
    /\ enable_irq(IRQ8)
    /\ UNCHANGED <<idt, irr, isr, unread, enabled, pageVars, bootVars>>

InitKeyboard ==
    /\ Step("init_keyboard", "init_fs")
    /\ enable_irq(IRQ1)
    /\ UNCHANGED <<idt, irr, isr, sources, unread, enabled, pageVars, bootVars>>

(* Page 0 is not mapped: reading the number of inodes there faults, and    *)
(* the handler halts a process that does not exist.                        *)
InitFs ==
    /\ Step("init_fs", IF fs_addr = "null" THEN "lost" ELSE "init_scheduler")
    /\ UNCHANGED <<Machine, pageVars, bootVars>>

InitScheduler ==
    /\ Step("init_scheduler", "sti")
    /\ enable_irq(IRQ_SCHED)
    /\ UNCHANGED <<idt, irr, isr, sources, unread, enabled, pageVars, bootVars>>

BootSti == /\ Step("sti", "spin")
           /\ enabled' = TRUE
           /\ UNCHANGED <<picVars, unread, pageVars, bootVars>>

Entry_ == \/ BadMagic \/ Magic \/ Modules \/ InitIdt \/ I8259Init \/ InitPaging
          \/ InitRtc \/ InitKeyboard \/ InitFs \/ InitScheduler \/ BootSti

-----------------------------------------------------------------------------
(* The page of the program that runs next is mapped by change_context,     *)
(* execute and halt.  The d-th program on terminal t has the page <<t, d>>.*)
Mapping(t, d) == create_process_page(<<t, d>>)

(* The video page is that of the next terminal, or the screen if that is   *)
(* displayed.                                                              *)
SwitchMapped == /\ ChangeContext
                /\ \E process \in {-1, flow'} : remap_vidmem(process, <<flow', depth'[flow']>>)
CallMapped == /\ SystemCall
              /\ IF depth' = depth THEN UNCHANGED pageVars ELSE Mapping(flow, depth'[flow])

Vidmap == At("kernel") /\ vidmap_helper /\ UNCHANGED vars

Running == \/ SwitchMapped \/ CallMapped \/ Vidmap
           \/ /\ UNCHANGED pageVars
              /\ \/ \E d \in Devices : Raise(d)
                 \/ \E i \in Devices : Interrupt(i)
                 \/ SchedEoi \/ KbEoi \/ KbPort \/ KbWild \/ RtcEoi \/ RtcRegC \/ HandlerIret

Next == \/ Entry_
        \/ \E c \in Conversions, w \in Words : Report(c, w)
        \/ Running /\ UNCHANGED bootVars

Spec == Init /\ [][Next]_allVars

(* The processor goes on, and takes a request it accepts.                  *)
Alone(A) == A /\ UNCHANGED <<pageVars, bootVars>>
FairSpec ==
    /\ Spec
    /\ WF_allVars(Entry_)
    /\ WF_allVars(Alone(SchedEoi \/ KbEoi \/ KbPort \/ RtcEoi \/ RtcRegC \/ HandlerIret))
    /\ WF_allVars(SwitchMapped /\ UNCHANGED bootVars)
    /\ WF_allVars(Alone(Sti))
    /\ WF_allVars(At("fault") /\ CallMapped /\ UNCHANGED bootVars)
    /\ WF_allVars(Alone(Raise(IRQ_SCHED)))
    /\ \A i \in Devices : SF_allVars(Alone(Interrupt(i)))

-----------------------------------------------------------------------------
(* A handler is never interrupted, not even by the interrupt it has        *)
(* acknowledged before its work is done: what iret goes back to is a       *)
(* program, a system call or the spinning kernel, and a flow that is off   *)
(* the processor left it in change_context, with such a frame beneath.     *)
HandlersAtomic ==
    /\ \A f \in Flows : \A n \in 1 .. Len(frames[f]) : frames[f][n].code \in Interruptible \cup {"cli"}
    /\ \A f \in booted \ {flow} : code[f] = "sched_done" /\ frames[f] # <<>>

(* Whatever is left with interrupts off by a handler, an exception in the  *)
(* middle of a system call or the boot of a shell, code that is to be      *)
(* interrupted never runs without being so, and then no interrupt in       *)
(* service holds back another.                                             *)
UsersInterruptible ==
    /\ code[flow] \in Interruptible => enabled
    /\ enabled => isr = {}

(* A program reaches the page of its own; besides that at most the screen  *)
(* and the page of its own terminal, once some program has asked for them; *)
(* and nothing else, through whichever entry and whatever the overrun of   *)
(* page_table has hit.  The kernel reaches itself, the screen and the      *)
(* terminals' pages.                                                       *)
OwnPages == LET own == Page("program", <<flow, depth[flow]>>)
            IN  /\ own \in Reached(TRUE)
                /\ Reached(TRUE) \subseteq {own, Page("frame", VM_ADDR), Page("frame", VM_ADDR + flow + 1)}

ProgramReach ==
    /\ At("user") => OwnPages
    /\ idt # [v \in {} |-> 0] /\ page_directory[KernelMemory].present =>
         {Page("kernel", 0)} \cup {Page("frame", k) : k \in VideoPages} \subseteq Reached(FALSE)

(* What is printed reads as the number it was printed from, in as many     *)
(* digits as a word has for %#x and with no zero in front otherwise.       *)
Reads(digits, radix) ==
    LET upTo[n \in 0 .. Len(digits)] == IF n = 0 THEN 0 ELSE radix * upTo[n - 1] + digits[n]
    IN  upTo[Len(digits)]
PrintsValues == printed # Quiet =>
    LET radix == IF printed.conversion \in {"%x", "%#x"} THEN 16 ELSE 10
        read == Reads(printed.text.digits, radix)
    IN  /\ printed.word = IF printed.text.minus THEN WORD - read ELSE read
        /\ printed.text.minus <=> printed.conversion = "%d" /\ printed.word >= WORD \div 2
        /\ IF printed.conversion = "%#x" THEN Len(printed.text.digits) = HEX_DIGITS
           ELSE printed.text.digits[1] = 0 => printed.word = 0

(* Unless the machine has stopped the scheduler runs again and again, a    *)
(* key is fetched and, if keys and ticks leave the processor a moment, the *)
(* clock is: no request is lost at boot but that of a key pressed before   *)
(* i8259_init, none is held back for ever by one that was not              *)
(* acknowledged.                                                           *)
Stopped == code[flow] \in {"refused", "lost"}
Moment == enabled /\ irr \cap {IRQ_SCHED, IRQ1} = {}
DevicesAnswered ==
    /\ []<>(At("change_context") \/ Stopped)
    /\ (IRQ1 \in unread) ~> (IRQ1 \notin unread \/ IRQ1 \in early \/ Stopped)
    /\ []<>Moment => ((IRQ8 \in unread) ~> (IRQ8 \notin unread \/ Stopped))

(* init_keyboard "Enables the keyboard IRQ" (keyboard_handler.c:75): from  *)
(* then on every key is fetched, whenever it was pressed.                  *)
KeysFetched == (IRQ1 \in unread) ~> (IRQ1 \notin unread \/ Stopped)

-----------------------------------------------------------------------------
(* The inductive invariant of the proofs: what stands on the stacks of a   *)
(* flow when it runs each piece of code.                                   *)
HandlerCode == SchedCode \cup {"kb_eoi", "kb_port", "kb_done", "rtc_eoi", "rtc_regc", "rtc_done"}
SystemCode == {"kernel", "cli"}
EarlyCode == {"entry", "report", "init_idt"}
BootCode == EarlyCode \cup {"i8259_init", "init_paging", "init_rtc", "init_keyboard", "init_fs",
                            "init_scheduler", "sti", "refused"}
Codes == HandlerCode \cup SystemCode \cup BootCode \cup {"spin", "user", "fault", "lost", "idle"}
Frames == [code : Interruptible \cup {"cli"}, enabled : BOOLEAN]
UserFrame == [code |-> "user", enabled |-> TRUE]

TypesOK ==
    /\ flow \in Flows /\ booted \subseteq Terminals
    /\ code \in [Flows -> Codes] /\ depth \in [Flows -> Nat]
    /\ frames \in [Flows -> Seq(Frames)]
    /\ enabled \in BOOLEAN
    /\ code[BootFlow] \notin EarlyCode \cup {"refused", "lost"} =>
         idt = Gates

(* The frames of running c with d programs below, and n frames to it:      *)
(* each program below is inside a system call.                             *)
Calls(f, c) == depth[f] + IF c \in SystemCode THEN 1 ELSE 0
Below(f, c, n) ==
    /\ n = IF c = "spin" THEN 0 ELSE Calls(f, c)
    /\ c = "spin" <=> f = BootFlow
    /\ \A k \in 1 .. n : frames[f][k] = UserFrame

Stack(f) ==
    LET n == Len(frames[f])
    IN  /\ code[f] \in HandlerCode => /\ n > 0 /\ frames[f][n].enabled
                                      /\ frames[f][n].code \in Interruptible
                                      /\ Below(f, frames[f][n].code, n - 1)
        /\ code[f] \in {"spin", "user"} \cup SystemCode => Below(f, code[f], n)
        /\ code[f] = "fault" => /\ f \in Terminals /\ n > depth[f] /\ depth[f] > 0
                                /\ \A k \in 1 .. depth[f] : frames[f][k] = UserFrame
        /\ code[f] \in BootCode => n = 0 /\ f = BootFlow

InService(c) == CASE c = "sched_eoi" -> {IRQ_SCHED}
                  [] c = "kb_eoi" -> {IRQ1}
                  [] c = "rtc_eoi" -> {IRQ8, IRQ_SLAVE}
                  [] OTHER -> {}

IInv ==
    /\ TypesOK
    /\ IF flow = BootFlow THEN booted = {} ELSE flow \in booted /\ code[BootFlow] = "sched_done"
    /\ \A f \in booted \cup {flow} : Stack(f)
    /\ \A f \in booted \ {flow} : code[f] = "sched_done"
    /\ \A f \in Terminals \ booted : frames[f] = <<>> /\ depth[f] = 0
    /\ frames[BootFlow] # <<>> => code[BootFlow] \in HandlerCode \cup {"lost"}
    /\ depth[BootFlow] = 0
    /\ code[flow] # "idle"
    /\ enabled <=> code[flow] \in Interruptible
    /\ isr = InService(code[flow])
=============================================================================
