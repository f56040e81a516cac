---------------------------- MODULE Boot_proofs ----------------------------
(***************************************************************************)
(* Theorems about Boot for any number of terminals and any depth of        *)
(* executed programs: no handler is interrupted, what is to be interrupted *)
(* runs with interrupts on and none in service, programs reach their page  *)
(* and nothing else, and what is printed reads as the number it was.       *)
(***************************************************************************)
EXTENDS Boot, Induction, SequenceTheorems, TLAPS

USE InterruptsAssumption DEF Terminals, Flows, BootFlow

-----------------------------------------------------------------------------
(* A frame put on a stack, and a stack cut back to its first n frames.     *)
LEMMA Pushed ==
    ASSUME NEW s \in Seq(Frames), NEW x \in Frames
    PROVE  /\ Append(s, x) \in Seq(Frames)
           /\ Len(s) \in Nat /\ Len(Append(s, x)) = Len(s) + 1
           /\ \A k \in 1 .. Len(s) : Append(s, x)[k] = s[k]
           /\ Append(s, x)[Len(s) + 1] = x
BY AppendProperties

LEMMA Cut ==
    ASSUME NEW s \in Seq(Frames), NEW n \in Nat, n <= Len(s)
    PROVE  /\ SubSeq(s, 1, n) \in Seq(Frames)
           /\ Len(SubSeq(s, 1, n)) = n
           /\ \A k \in 1 .. n : SubSeq(s, 1, n)[k] = s[k]
<1>1. \A i \in 1 .. n : i \in 1 .. Len(s)
    BY LenProperties
<1>2. \A i \in 1 .. n : s[i] \in Frames
    BY <1>1, ElementOfSeq
<1> QED
    BY <1>1, <1>2, SubSeqProperties, LenProperties, SMTT(30)

LEMMA NextIsTerminal ==
    ASSUME flow \in Flows
    PROVE  NextFlow \in Terminals
BY DEF NextFlow

(* The flow on the processor and its code.                                 *)
Running_(f, c) == f \in Flows /\ c \in Codes /\ flow = f /\ code[f] = c

LEMMA RunningExists == IInv => \E f \in Flows, c \in Codes : Running_(f, c)
BY DEF IInv, TypesOK, Running_

(* A step of the flow on the processor that leaves the others alone.       *)
LEMMA OwnStep ==
    ASSUME IInv, TypesOK', NEW f \in Flows, NEW c \in Codes, flow = f, flow' = f, booted' = booted,
           code' = [code EXCEPT ![f] = c],
           \A g \in Flows \ {f} : frames'[g] = frames[g] /\ depth'[g] = depth[g],
           Stack(f)',
           f = BootFlow => depth'[f] = depth[f],
           f = BootFlow /\ frames'[f] # <<>> => c \in HandlerCode \cup {"lost"},
           c # "idle",
           enabled' <=> c \in Interruptible,
           isr' = InService(c)
    PROVE  IInv'
<1>1. code'[f] = c /\ \A g \in Flows \ {f} : code'[g] = code[g]
    BY DEF IInv, TypesOK
<1>2. \A g \in booted \ {f} : g \in Flows \ {f}
    BY DEF IInv, TypesOK
<1>3. \A g \in booted \ {f} : Stack(g)'
    <2> TAKE g \in booted \ {f}
    <2>1. Stack(g) BY DEF IInv
    <2>2. code'[g] = code[g] /\ frames'[g] = frames[g] /\ depth'[g] = depth[g]
        BY <1>1, <1>2
    <2> QED BY <2>1, <2>2 DEF Stack, Below, Calls
<1>4. IF f = BootFlow THEN booted' = {} ELSE f \in booted' /\ code'[BootFlow] = "sched_done"
    BY <1>1 DEF IInv, TypesOK
<1>5. \A g \in booted' \ {f} : code'[g] = "sched_done"
    BY <1>1, <1>2 DEF IInv
<1>6. \A g \in Terminals \ booted' : frames'[g] = <<>> /\ depth'[g] = 0
    BY <1>4 DEF IInv, TypesOK
<1>7. frames'[BootFlow] # <<>> => code'[BootFlow] \in HandlerCode \cup {"lost"}
    BY <1>1 DEF IInv, TypesOK
<1>8. depth'[BootFlow] = 0
    BY DEF IInv, TypesOK
<1> QED BY <1>1, <1>3, <1>4, <1>5, <1>6, <1>7, <1>8 DEF IInv

(* Frames further down that are not touched still stand for the same calls.*)
LEMMA BelowKept ==
    ASSUME NEW f, NEW c, NEW n \in Nat, Below(f, c, n), depth'[f] = depth[f],
           \A k \in 1 .. n : frames'[f][k] = frames[f][k]
    PROVE  Below(f, c, n)'
BY DEF Below, Calls

-----------------------------------------------------------------------------
(* Every action that starts in a piece of code says where it goes.         *)
USE DEF At, Goto

LEMMA InitInv == Init => IInv
<1> SUFFICES ASSUME Init PROVE IInv
    OBVIOUS
<1>1. TypesOK
    <2>1. code \in [Flows -> Codes] /\ code[BootFlow] = "entry"
        BY DEF Init, Codes, BootCode, EarlyCode
    <2>2. <<>> \in Seq(Frames)
        OBVIOUS
    <2>3. flow \in Flows /\ booted \subseteq Terminals /\ depth \in [Flows -> Nat] /\ enabled \in BOOLEAN
        BY DEF Init
    <2>4. frames \in [Flows -> Seq(Frames)]
        BY <2>2 DEF Init
    <2> QED
        BY <2>1, <2>3, <2>4 DEF TypesOK, EarlyCode
<1>2. Stack(flow)
    BY DEF Init, Stack, HandlerCode, SchedCode, SystemCode, BootCode, EarlyCode
<1> QED
    BY <1>1, <1>2 DEF Init, IInv, InService, Interruptible, HandlerCode

(* Through a gate: the frame of the interrupted code is on top.            *)
Pushes(f, c, n, v) ==
    /\ n \in Nat /\ Len(frames'[f]) = n + 1
    /\ \A k \in 1 .. n : frames'[f][k] = frames[f][k]
    /\ frames'[f][n + 1] = [code |-> c, enabled |-> enabled]
    /\ code' = [code EXCEPT ![f] = Gates[v].entry]
    /\ enabled' \in BOOLEAN /\ (enabled' <=> enabled /\ Gates[v].trap)
    /\ frames' \in [Flows -> Seq(Frames)]
    /\ \A g \in Flows \ {f} : frames'[g] = frames[g]

LEMMA Entering ==
    ASSUME IInv, NEW v \in InterruptGates \cup {SYS_IDT}, Enter(v),
           NEW f \in Flows, NEW c \in Interruptible \cup {"cli"}, flow = f, code[f] = c,
           NEW n, n = Len(frames[f])
    PROVE  Pushes(f, c, n, v)
<1> DEFINE x == [code |-> c, enabled |-> enabled]
<1>1. x \in Frames
    BY DEF IInv, TypesOK, Frames
<1>2. idt = Gates
    BY DEF IInv, TypesOK, EarlyCode, Interruptible
<1>3. frames' = [frames EXCEPT ![f] = Append(frames[f], x)]
    BY DEF Enter
<1>4. frames[f] \in Seq(Frames) /\ frames \in [Flows -> Seq(Frames)]
    BY DEF IInv, TypesOK
<1> HIDE DEF x
<1>5. /\ Append(frames[f], x) \in Seq(Frames)
      /\ n \in Nat /\ Len(Append(frames[f], x)) = n + 1
      /\ \A k \in 1 .. n : Append(frames[f], x)[k] = frames[f][k]
      /\ Append(frames[f], x)[n + 1] = x
    BY <1>1, <1>4, Pushed
<1>6. frames'[f] = Append(frames[f], x)
    BY <1>3, <1>4
<1>7. frames' \in [Flows -> Seq(Frames)] /\ \A g \in Flows \ {f} : frames'[g] = frames[g]
    BY <1>3, <1>4, <1>5
<1> QED
    BY <1>2, <1>5, <1>6, <1>7 DEF Enter, x, Pushes, IInv, TypesOK

(* The gates lead to handlers, with interrupts off, or to system calls.    *)
LEMMA GateEntries ==
    /\ Gates[PAGE_FAULT].entry = "fault" /\ ~Gates[PAGE_FAULT].trap
    /\ Gates[PIT_IDT].entry = "sched_eoi" /\ ~Gates[PIT_IDT].trap
    /\ Gates[KB_IDT].entry = "kb_eoi" /\ ~Gates[KB_IDT].trap
    /\ Gates[RTC_IDT].entry = "rtc_eoi" /\ ~Gates[RTC_IDT].trap
    /\ Gates[SYS_IDT].entry = "kernel" /\ Gates[SYS_IDT].trap
BY DEF Gates, Gate, InterruptGates, PAGE_FAULT, PIT_IDT, KB_IDT, RTC_IDT, SYS_IDT

LEMMA GatesSet ==
    ASSUME IInv, code[flow] \notin BootCode \cup {"lost"}
    PROVE  idt = Gates
BY DEF IInv, TypesOK, BootCode, EarlyCode

LEMMA InterruptStep ==
    ASSUME IInv, NEW i \in Devices, Interrupt(i)
    PROVE  IInv'
<1> PICK f \in Flows, c \in Codes : Running_(f, c)
    BY RunningExists
<1> DEFINE h == CASE i = IRQ_SCHED -> "sched_eoi" [] i = IRQ1 -> "kb_eoi" [] i = IRQ8 -> "rtc_eoi"
<1> USE DEF Running_
<1>1. enabled = TRUE /\ c \in Interruptible
    BY DEF Interrupt, IInv, TypesOK
<1>2. /\ Vector(i) \in InterruptGates
      /\ Gates[Vector(i)].entry = h /\ ~Gates[Vector(i)].trap
    BY GateEntries DEF Vector, Devices, IRQ_SCHED, IRQ1, IRQ8, ICW2_MASTER, ICW2_SLAVE,
                       InterruptGates, PIT_IDT, KB_IDT, RTC_IDT
<1> HIDE DEF h
<1> PICK m : m = Len(frames[f])
    OBVIOUS
<1> PICK v \in InterruptGates : v = Vector(i)
    BY <1>2
<1>3. Enter(v)
    BY DEF Interrupt, Enter
<1>a. Pushes(f, c, m, v)
    BY <1>1, <1>3, Entering
<1>4. /\ m \in Nat /\ Len(frames'[f]) = m + 1
      /\ \A k \in 1 .. m : frames'[f][k] = frames[f][k]
      /\ frames'[f][m + 1] = [code |-> c, enabled |-> enabled]
      /\ code' = [code EXCEPT ![f] = h]
      /\ enabled' = FALSE
      /\ frames' \in [Flows -> Seq(Frames)]
      /\ \A g \in Flows \ {f} : frames'[g] = frames[g]
    BY <1>a, <1>2 DEF Pushes
<1>5. flow' = flow /\ booted' = booted /\ depth' = depth /\ idt' = idt
    BY DEF Interrupt, Enter
<1>6. h \in HandlerCode /\ h \in Codes /\ h \notin Interruptible /\ h # "idle"
    BY DEF HandlerCode, SchedCode, Devices, Codes, Interruptible, h
<1>7. TypesOK'
    <2>1. idt' = Gates
        BY <1>1, <1>5, GatesSet DEF Interruptible, BootCode, EarlyCode
    <2>2. code' \in [Flows -> Codes]
        BY <1>4, <1>6 DEF IInv, TypesOK
    <2> QED
        BY <1>4, <1>5, <2>1, <2>2 DEF IInv, TypesOK
<1>8. isr' = InService(h)
    <2>1. isr = {}
        BY <1>1 DEF IInv, InService, Interruptible
    <2> QED
        BY <2>1 DEF Interrupt, InService, Line, Devices, IRQ_SCHED, IRQ1, IRQ8, IRQ_SLAVE, h
<1>9. Stack(f)'
    <2>1. Below(f, c, m)
        BY <1>1 DEF IInv, Stack, Interruptible, SystemCode
    <2>2. Below(f, c, m)'
        BY <2>1, <1>4, <1>5, BelowKept
    <2>3. code'[f] = h /\ h \notin {"spin", "user"} \cup SystemCode /\ h # "fault" /\ h \notin BootCode
        BY <1>4, <1>6 DEF HandlerCode, SchedCode, SystemCode, BootCode, EarlyCode, IInv, TypesOK
    <2>4. frames'[f][m + 1].enabled /\ frames'[f][m + 1].code = c /\ m + 1 > 0 /\ m + 1 - 1 = m
        BY <1>1, <1>4
    <2> QED
        BY <1>1, <1>4, <1>6, <2>2, <2>3, <2>4 DEF Stack
<1> QED
    BY <1>4, <1>5, <1>6, <1>7, <1>8, <1>9, OwnStep DEF IInv, Interruptible

LEMMA TypesKept ==
    ASSUME IInv, NEW f \in Flows, NEW c \in Codes, NEW h \in Codes \ EarlyCode, Running_(f, c),
           c \notin BootCode \cup {"lost"},
           code' = [code EXCEPT ![f] = h], frames' \in [Flows -> Seq(Frames)],
           depth' \in [Flows -> Nat], enabled' \in BOOLEAN,
           flow' = flow, booted' = booted, idt' = idt
    PROVE  TypesOK'
<1>1. idt = Gates
    BY GatesSet DEF Running_
<1> QED
    BY <1>1 DEF TypesOK, IInv

(* A handler goes on.                                                      *)
LEMMA HandlerStep ==
    ASSUME IInv, NEW c \in HandlerCode, NEW h \in HandlerCode, At(c), Goto(h),
           UNCHANGED <<idt, enabled, flow, frames, depth, booted>>,
           isr' = InService(h)
    PROVE  IInv'
<1> PICK f \in Flows : f = flow
    BY DEF IInv, TypesOK
<1>1. /\ HandlerCode \subseteq Codes \ EarlyCode
      /\ HandlerCode \cap (BootCode \cup {"lost", "idle"} \cup Interruptible) = {}
    BY DEF HandlerCode, SchedCode, Codes, BootCode, EarlyCode, Interruptible
<1>2. TypesOK'
    BY <1>1, TypesKept DEF Running_, IInv, TypesOK
<1>3. Stack(f)'
    <2>1. Stack(f)
        BY DEF IInv
    <2>2. code'[f] = h /\ code[f] = c
        BY DEF IInv, TypesOK
    <2>3. h \notin {"spin", "user"} \cup SystemCode /\ h # "fault" /\ h \notin BootCode
        BY DEF HandlerCode, SchedCode, SystemCode, BootCode, EarlyCode
    <2> QED
        BY <2>1, <2>2, <2>3 DEF Stack, Below, Calls
<1> QED
    BY <1>1, <1>2, <1>3, OwnStep DEF IInv

LEMMA HandlersStep ==
    ASSUME IInv, SchedEoi \/ KbEoi \/ RtcEoi \/ KbPort \/ RtcRegC
    PROVE  IInv'
<1> USE DEF Acknowledge, ReadDevice, picVars
<1> DEFINE Cs == {"sched_eoi", "change_context", "kb_eoi", "kb_port", "kb_done",
                  "rtc_eoi", "rtc_regc", "rtc_done"}
<1>1. Cs \subseteq HandlerCode
    BY DEF HandlerCode, SchedCode
<1>2. isr = InService(code[flow])
    BY DEF IInv
<1>3. CASE SchedEoi
    <2>1. isr' = InService("change_context")
        BY <1>2, <1>3 DEF SchedEoi, EOI, InService, IRQ_SCHED
    <2> QED
        BY <1>1, <1>3, <2>1, HandlerStep DEF SchedEoi
<1>4. CASE KbEoi
    <2>1. isr' = InService("kb_port")
        BY <1>2, <1>4 DEF KbEoi, EOI, InService, IRQ1
    <2> QED
        BY <1>1, <1>4, <2>1, HandlerStep DEF KbEoi
<1>5. CASE RtcEoi
    <2>1. isr' = InService("rtc_regc")
        BY <1>2, <1>5 DEF RtcEoi, EOI, InService, IRQ8, IRQ_SLAVE
    <2> QED
        BY <1>1, <1>5, <2>1, HandlerStep DEF RtcEoi
<1>6. CASE KbPort
    <2>1. isr' = InService("kb_done")
        BY <1>2, <1>6 DEF KbPort, InService
    <2> QED
        BY <1>1, <1>6, <2>1, HandlerStep DEF KbPort
<1>7. CASE RtcRegC
    <2>1. isr' = InService("rtc_done")
        BY <1>2, <1>7 DEF RtcRegC, InService
    <2> QED
        BY <1>1, <1>7, <2>1, HandlerStep DEF RtcRegC
<1> QED
    BY <1>3, <1>4, <1>5, <1>6, <1>7

LEMMA KbWildStep ==
    ASSUME IInv, KbWild
    PROVE  IInv'
<1> PICK f \in Flows : f = flow
    BY DEF IInv, TypesOK
<1> USE DEF KbWild, picVars
<1>1. code[f] = "kb_port" /\ code'[f] = "lost"
    BY DEF IInv, TypesOK
<1>2. TypesOK'
    BY TypesKept DEF Running_, IInv, TypesOK, Codes, BootCode, EarlyCode
<1>3. Stack(f)'
    BY <1>1 DEF Stack, HandlerCode, SchedCode, SystemCode, BootCode, EarlyCode
<1>4. isr' = InService("lost") /\ ~enabled'
    BY <1>1 DEF IInv, InService, Interruptible
<1>5. "lost" \in Codes /\ "lost" \notin Interruptible
    BY DEF Codes, Interruptible
<1> QED
    BY <1>2, <1>3, <1>4, <1>5, OwnStep DEF IInv

(* iret to code c from a stack that holds m frames below the one of c.     *)
LEMMA Returning ==
    ASSUME IInv, Iret, NEW f \in Flows, f = flow, code[f] \in HandlerCode \cup SystemCode,
           NEW m \in Nat, Len(frames[f]) = m + 1,
           NEW c \in Interruptible, frames[f][m + 1].code = c, frames[f][m + 1].enabled,
           Below(f, c, m), isr = {}
    PROVE  IInv'
<1>1. /\ frames[f] \in Seq(Frames) /\ frames \in [Flows -> Seq(Frames)]
      /\ frames' = [frames EXCEPT ![f] = SubSeq(frames[f], 1, m)]
    BY DEF IInv, TypesOK, Iret
<1>2. /\ SubSeq(frames[f], 1, m) \in Seq(Frames) /\ Len(SubSeq(frames[f], 1, m)) = m
      /\ \A k \in 1 .. m : SubSeq(frames[f], 1, m)[k] = frames[f][k]
    BY <1>1, Cut
<1>3. /\ frames' \in [Flows -> Seq(Frames)] /\ Len(frames'[f]) = m
      /\ \A k \in 1 .. m : frames'[f][k] = frames[f][k]
      /\ \A g \in Flows \ {f} : frames'[g] = frames[g]
    BY <1>1, <1>2
<1>4. /\ code' = [code EXCEPT ![f] = c]
      /\ enabled' = frames[f][m + 1].enabled /\ frames[f][m + 1] \in Frames
      /\ depth' = depth /\ booted' = booted /\ flow' = flow /\ idt' = idt /\ isr' = isr
    <2>1. m + 1 \in 1 .. Len(frames[f])
        OBVIOUS
    <2>2. frames[f][m + 1] \in Frames
        BY <1>1, <2>1, ElementOfSeq
    <2> QED
        BY <2>2 DEF Iret, Top, picVars
<1>5. enabled' = TRUE
    BY <1>4 DEF Frames
<1>6. c \in Codes \ EarlyCode /\ c # "idle" /\ c \notin BootCode /\ c \notin HandlerCode /\ c # "fault"
    BY DEF Interruptible, Codes, EarlyCode, BootCode, HandlerCode, SchedCode, SystemCode
<1>7. TypesOK'
    <2>1. code[f] \in Codes /\ code[f] \notin BootCode \cup {"lost"}
        BY DEF Codes, HandlerCode, SchedCode, SystemCode, BootCode, EarlyCode
    <2>2. depth' \in [Flows -> Nat]
        BY <1>4 DEF IInv, TypesOK
    <2> QED
        BY <1>3, <1>4, <1>5, <1>6, <2>1, <2>2, TypesKept DEF Running_
<1>8. Stack(f)'
    <2>1. Below(f, c, m)'
        BY <1>3, <1>4, BelowKept
    <2>2. code'[f] = c
        BY <1>4 DEF IInv, TypesOK
    <2> QED
        BY <1>3, <1>6, <2>1, <2>2 DEF Stack
<1>9. f = BootFlow => frames'[f] = <<>>
    BY <1>3 DEF Below, Calls, IInv, SystemCode
<1>10. isr' = InService(c)
    BY <1>4 DEF InService, Interruptible
<1> QED
    BY <1>3, <1>4, <1>5, <1>6, <1>7, <1>8, <1>9, <1>10, OwnStep DEF IInv

LEMMA HandlerIretStep ==
    ASSUME IInv, HandlerIret
    PROVE  IInv'
<1> PICK f \in Flows : f = flow
    BY DEF IInv, TypesOK
<1>1. code[f] \in {"sched_done", "kb_done", "rtc_done"} /\ Iret
    BY DEF HandlerIret
<1>2. Stack(f) /\ isr = {}
    BY <1>1 DEF IInv, InService
<1>3. code[f] \in HandlerCode
    BY <1>1 DEF HandlerCode, SchedCode
<1> PICK n : n = Len(frames[f])
    OBVIOUS
<1>4. n \in Nat
    BY LenProperties DEF IInv, TypesOK
<1> PICK c : c = frames[f][n].code
    OBVIOUS
<1> PICK m : m = n - 1
    OBVIOUS
<1>5. m \in Nat /\ n = m + 1 /\ c \in Interruptible /\ frames[f][m + 1].enabled /\ Below(f, c, m)
    BY <1>2, <1>3, <1>4 DEF Stack
<1> QED
    BY <1>1, <1>2, <1>3, <1>5, Returning

LEMMA ReturnStep ==
    ASSUME IInv, Return
    PROVE  IInv'
<1> PICK f \in Flows : f = flow
    BY DEF IInv, TypesOK
<1>1. code[f] = "kernel" /\ Iret
    BY DEF Return
<1>2. Stack(f) /\ isr = {}
    BY <1>1 DEF IInv, InService
<1>3. code[f] \in SystemCode
    BY <1>1 DEF SystemCode
<1> PICK n : n = Len(frames[f])
    OBVIOUS
<1> PICK m : m = depth[f]
    OBVIOUS
<1>4. m \in Nat /\ n = m + 1 /\ frames[f][m + 1] = UserFrame /\ Below(f, "user", m)
    BY <1>1, <1>2, <1>3 DEF IInv, TypesOK, Stack, Below, Calls, SystemCode
<1>5. frames[f][m + 1].code = "user" /\ frames[f][m + 1].enabled /\ "user" \in Interruptible
    BY <1>4 DEF UserFrame, Interruptible
<1> QED
    BY <1>1, <1>2, <1>3, <1>4, <1>5, Returning

LEMMA TrapStep ==
    ASSUME IInv, Trap
    PROVE  IInv'
<1> PICK f \in Flows : f = flow
    BY DEF IInv, TypesOK
<1> PICK n : n = Len(frames[f])
    OBVIOUS
<1>1. code[f] = "user" /\ "user" \in Interruptible /\ Enter(SYS_IDT)
    BY DEF Trap, Interruptible
<1>2. Pushes(f, "user", n, SYS_IDT)
    BY <1>1, Entering
<1>3. enabled = TRUE
    BY <1>1 DEF IInv, TypesOK
<1>4. /\ n \in Nat /\ Len(frames'[f]) = n + 1
      /\ \A k \in 1 .. n : frames'[f][k] = frames[f][k]
      /\ frames'[f][n + 1] = UserFrame
      /\ code' = [code EXCEPT ![f] = "kernel"]
      /\ enabled' = TRUE
      /\ frames' \in [Flows -> Seq(Frames)]
      /\ \A g \in Flows \ {f} : frames'[g] = frames[g]
    BY <1>2, <1>3, GateEntries DEF Pushes, UserFrame
<1>5. flow' = flow /\ booted' = booted /\ depth' = depth /\ idt' = idt /\ isr' = isr
    BY DEF Trap, Enter, picVars
<1>6. Below(f, "user", n)
    BY <1>1 DEF IInv, Stack
<1>7. Below(f, "kernel", n + 1)'
    <2>1. n = depth[f] /\ f # BootFlow /\ \A k \in 1 .. n : frames[f][k] = UserFrame
        BY <1>4, <1>6 DEF Below, Calls, SystemCode, IInv, TypesOK
    <2>2. \A k \in 1 .. n + 1 : frames'[f][k] = UserFrame
        <3> SUFFICES ASSUME NEW k \in 1 .. n + 1 PROVE frames'[f][k] = UserFrame
            OBVIOUS
        <3>1. CASE k \in 1 .. n
            BY <3>1, <1>4, <2>1
        <3>2. CASE k = n + 1
            BY <3>2, <1>4
        <3> QED
            BY <3>1, <3>2, <1>4
    <2>3. Calls(f, "kernel")' = n + 1
        BY <1>5, <2>1 DEF Calls, SystemCode
    <2> QED
        BY <2>1, <2>2, <2>3 DEF Below
<1>8. Stack(f)'
    <2>1. code'[f] = "kernel"
        BY <1>4 DEF IInv, TypesOK
    <2> QED
        BY <1>4, <1>7, <2>1 DEF Stack, HandlerCode, SchedCode, BootCode, EarlyCode, SystemCode
<1>9. TypesOK'
    <2>1. "kernel" \in Codes \ EarlyCode /\ "user" \in Codes /\ "user" \notin BootCode
        BY DEF Codes, EarlyCode, SystemCode, BootCode
    <2> QED
        BY <1>1, <1>4, <1>5, <2>1, TypesKept DEF Running_, IInv, TypesOK
<1>10. isr' = InService("kernel") /\ "kernel" \in Interruptible /\ "kernel" \in Codes
    BY <1>1, <1>5 DEF IInv, InService, Interruptible, Codes, SystemCode
<1>11. f # BootFlow
    BY <1>6 DEF Below
<1> QED
    BY <1>4, <1>5, <1>8, <1>9, <1>10, <1>11, OwnStep

LEMMA FaultStep ==
    ASSUME IInv, Fault
    PROVE  IInv'
<1> PICK f \in Flows : f = flow
    BY DEF IInv, TypesOK
<1> PICK n : n = Len(frames[f])
    OBVIOUS
<1> PICK c \in {"user", "kernel", "cli"} : c = code[f]
    BY DEF Fault
<1>1. Enter(PAGE_FAULT) /\ c \in Interruptible \cup {"cli"} /\ depth[f] > 0
    BY DEF Fault, Interruptible
<1>2. PAGE_FAULT \in InterruptGates \cup {SYS_IDT}
    BY DEF InterruptGates
<1>3. Pushes(f, c, n, PAGE_FAULT)
    BY <1>1, <1>2, Entering
<1>4. /\ n \in Nat /\ Len(frames'[f]) = n + 1
      /\ \A k \in 1 .. n : frames'[f][k] = frames[f][k]
      /\ code' = [code EXCEPT ![f] = "fault"]
      /\ enabled' = FALSE
      /\ frames' \in [Flows -> Seq(Frames)]
      /\ \A g \in Flows \ {f} : frames'[g] = frames[g]
    BY <1>3, GateEntries DEF Pushes
<1>5. flow' = flow /\ booted' = booted /\ depth' = depth /\ idt' = idt /\ isr' = isr
    BY DEF Fault, Enter, picVars
<1>6. Below(f, c, n)
    BY DEF IInv, Stack, SystemCode
<1>7. f \in Terminals /\ depth[f] \in Nat /\ n >= depth[f]
    BY <1>6 DEF Below, Calls, IInv, TypesOK, SystemCode
<1>8. Stack(f)'
    <2>1. code'[f] = "fault"
        BY <1>4 DEF IInv, TypesOK
    <2>2. \A k \in 1 .. depth[f] : frames'[f][k] = UserFrame
        BY <1>4, <1>6, <1>7, SMTT(30) DEF Below
    <2> QED
        BY <1>1, <1>4, <1>5, <1>7, <2>1, <2>2
        DEF Stack, HandlerCode, SchedCode, BootCode, EarlyCode, SystemCode
<1>9. TypesOK'
    <2>1. "fault" \in Codes \ EarlyCode /\ c \in Codes /\ c \notin BootCode \cup {"lost"}
        BY DEF Codes, EarlyCode, SystemCode, BootCode
    <2> QED
        BY <1>4, <1>5, <2>1, TypesKept DEF Running_, IInv, TypesOK
<1>10. isr' = InService("fault") /\ "fault" \notin Interruptible /\ "fault" \in Codes
    BY <1>5 DEF IInv, InService, Interruptible, Codes
<1>11. f # BootFlow
    BY <1>7
<1> QED
    BY <1>4, <1>5, <1>11, <1>8, <1>9, <1>10, OwnStep

(* The steps that leave the stack as it is or cut it back to m calls.      *)
LEMMA CallStep ==
    ASSUME IInv, NEW f \in Terminals, f = flow,
           NEW c \in SystemCode \cup {"user", "fault"}, code[f] = c,
           NEW h \in SystemCode \cup {"user"}, code' = [code EXCEPT ![f] = h],
           NEW d \in Nat, depth' = [depth EXCEPT ![f] = d],
           NEW m \in Nat, m <= Len(frames[f]), frames' = [frames EXCEPT ![f] = SubSeq(frames[f], 1, m)],
           m = d + (IF h = "user" THEN 0 ELSE 1),
           \A k \in 1 .. m : frames[f][k] = UserFrame,
           enabled' \in BOOLEAN, enabled' <=> h \in Interruptible,
           flow' = flow, booted' = booted, idt' = idt, isr' = isr
    PROVE  IInv'
<1>0. f \in Flows /\ f # BootFlow
    OBVIOUS
<1>1. /\ frames[f] \in Seq(Frames) /\ frames \in [Flows -> Seq(Frames)]
      /\ code \in [Flows -> Codes] /\ depth \in [Flows -> Nat]
    BY DEF IInv, TypesOK
<1>2. /\ SubSeq(frames[f], 1, m) \in Seq(Frames) /\ Len(SubSeq(frames[f], 1, m)) = m
      /\ \A k \in 1 .. m : SubSeq(frames[f], 1, m)[k] = frames[f][k]
    BY <1>0, <1>1, Cut
<1>3. /\ frames' \in [Flows -> Seq(Frames)] /\ Len(frames'[f]) = m
      /\ \A k \in 1 .. m : frames'[f][k] = UserFrame
      /\ \A g \in Flows \ {f} : frames'[g] = frames[g] /\ depth'[g] = depth[g]
      /\ depth' \in [Flows -> Nat] /\ depth'[f] = d /\ code'[f] = h
    BY <1>0, <1>1, <1>2
<1>4. /\ h \in Codes \ EarlyCode /\ h # "idle" /\ h \notin BootCode /\ h \notin HandlerCode /\ h # "fault"
      /\ c \in Codes /\ c \notin BootCode \cup {"lost"} /\ h # "spin"
      /\ (h = "user" <=> h \notin SystemCode)
    BY DEF Codes, EarlyCode, BootCode, HandlerCode, SchedCode, SystemCode
<1>5. TypesOK'
    BY <1>0, <1>3, <1>4, TypesKept DEF Running_
<1>6. Stack(f)'
    <2>1. Below(f, h, m)'
        BY <1>0, <1>3, <1>4 DEF Below, Calls
    <2> QED
        BY <1>3, <1>4, <2>1 DEF Stack
<1>7. isr' = InService(h)
    BY DEF IInv, InService, SystemCode
<1> QED
    BY <1>0, <1>3, <1>4, <1>5, <1>6, <1>7, OwnStep

(* What the stack of a terminal in a system call or its program holds.     *)
InCall_(f, n, d) ==
    /\ f = flow /\ n = Len(frames[f]) /\ d = depth[f]
    /\ n = d + IF code[f] = "user" THEN 0 ELSE 1
    /\ \A k \in 1 .. n : frames[f][k] = UserFrame
    /\ frames[f] \in Seq(Frames) /\ frames = [frames EXCEPT ![f] = SubSeq(frames[f], 1, n)]
    /\ depth = [depth EXCEPT ![f] = d]

LEMMA InCall ==
    ASSUME IInv, code[flow] \in SystemCode \cup {"user"}
    PROVE  \E f \in Terminals, n, d \in Nat : InCall_(f, n, d)
<1> PICK f \in Flows : f = flow
    BY DEF IInv, TypesOK
<1> PICK n : n = Len(frames[f])
    OBVIOUS
<1>1. Below(f, code[f], n)
    BY DEF IInv, Stack
<1>2. f \in Terminals /\ n = depth[f] + (IF code[f] = "user" THEN 0 ELSE 1) /\ depth[f] \in Nat
    BY <1>1 DEF Below, Calls, SystemCode, IInv, TypesOK
<1>3. frames[f] \in Seq(Frames) /\ frames = [frames EXCEPT ![f] = SubSeq(frames[f], 1, n)]
    <2>1. frames[f] \in Seq(Frames) /\ frames \in [Flows -> Seq(Frames)]
        BY DEF IInv, TypesOK
    <2>2. SubSeq(frames[f], 1, n) = frames[f]
        BY <2>1, SubSeqFull
    <2> QED
        BY <2>1, <2>2
<1> PICK d \in Nat : d = depth[f]
    BY <1>2
<1>4. depth = [depth EXCEPT ![f] = d]
    BY DEF IInv, TypesOK
<1>5. n \in Nat /\ \A k \in 1 .. n : frames[f][k] = UserFrame
    BY <1>1, <1>2 DEF Below
<1>6. f \in Terminals /\ InCall_(f, n, d)
    BY <1>2, <1>3, <1>4, <1>5 DEF InCall_
<1> QED
    BY <1>5, <1>6

LEMMA ExecuteStep ==
    ASSUME IInv, Execute
    PROVE  IInv'
<1>1. code[flow] = "kernel" /\ "kernel" \in SystemCode
    BY DEF Execute, SystemCode
<1> PICK f \in Terminals, n, d \in Nat : InCall_(f, n, d)
    BY <1>1, InCall
<1> USE DEF InCall_
<1> PICK e \in Nat : e = d + 1
    OBVIOUS
<1>2. /\ code' = [code EXCEPT ![f] = "user"] /\ depth' = [depth EXCEPT ![f] = e]
      /\ frames' = [frames EXCEPT ![f] = SubSeq(frames[f], 1, n)]
      /\ enabled' = TRUE /\ flow' = flow /\ booted' = booted /\ idt' = idt /\ isr' = isr
    BY DEF Execute, picVars
<1>3. n \in Nat /\ n = e + (IF "user" = "user" THEN 0 ELSE 1) /\ n <= Len(frames[f])
    BY <1>1
<1>4. "user" \in Interruptible
    BY DEF Interruptible
<1> QED
    BY <1>1, <1>2, <1>3, <1>4, CallStep

LEMMA HaltStep ==
    ASSUME IInv, Halt
    PROVE  IInv'
<1>1. code[flow] = "kernel" /\ "kernel" \in SystemCode /\ "kernel" \in Interruptible
    BY DEF Halt, SystemCode, Interruptible
<1> PICK f \in Terminals, n, d \in Nat : InCall_(f, n, d)
    BY <1>1, InCall
<1> USE DEF InCall_
<1>2. /\ code \in [Flows -> Codes] /\ enabled \in BOOLEAN /\ enabled
      /\ code = [code EXCEPT ![f] = "kernel"]
    BY <1>1 DEF IInv, TypesOK
<1>3. /\ code' = [code EXCEPT ![f] = "kernel"] /\ depth' = [depth EXCEPT ![f] = d - 1]
      /\ frames' = [frames EXCEPT ![f] = SubSeq(frames[f], 1, d)]
      /\ enabled' = enabled /\ flow' = flow /\ booted' = booted /\ idt' = idt /\ isr' = isr
      /\ d > 0
    BY <1>2 DEF Halt, picVars
<1>4. n = d + 1 /\ d - 1 \in Nat /\ d <= Len(frames[f]) /\ d = (d - 1) + 1
    BY <1>1, <1>3
<1>5. \A k \in 1 .. d : frames[f][k] = UserFrame
    BY <1>4
<1> PICK e \in Nat : e = d - 1
    BY <1>4
<1> QED
    BY <1>1, <1>2, <1>3, <1>4, <1>5, CallStep

LEMMA FaultHaltStep ==
    ASSUME IInv, FaultHalt
    PROVE  IInv'
<1> PICK f \in Flows : f = flow
    BY DEF IInv, TypesOK
<1> PICK d : d = depth[f]
    OBVIOUS
<1>1. /\ code[f] = "fault" /\ f \in Terminals /\ d \in Nat /\ d > 0 /\ Len(frames[f]) > d
      /\ \A k \in 1 .. d : frames[f][k] = UserFrame
    BY DEF FaultHalt, IInv, TypesOK, Stack
<1>2. frames[f][d] = UserFrame /\ d - 1 \in Nat /\ Len(frames[f]) \in Nat
    BY <1>1, LenProperties DEF IInv, TypesOK
<1> PICK e \in Nat : e = d - 1
    BY <1>2
<1>3. /\ code' = [code EXCEPT ![f] = "user"] /\ depth' = [depth EXCEPT ![f] = e]
      /\ frames' = [frames EXCEPT ![f] = SubSeq(frames[f], 1, e)]
      /\ enabled' = TRUE /\ flow' = flow /\ booted' = booted /\ idt' = idt /\ isr' = isr
    BY <1>1, <1>2 DEF FaultHalt, picVars, UserFrame
<1>4. "user" \in Interruptible
    BY DEF Interruptible
<1>5. /\ e <= Len(frames[f]) /\ e = e + (IF "user" = "user" THEN 0 ELSE 1)
      /\ \A k \in 1 .. e : frames[f][k] = UserFrame
    BY <1>1, <1>2
<1> QED
    BY <1>1, <1>3, <1>4, <1>5, CallStep

LEMMA FlagStep ==
    ASSUME IInv, Cli \/ Sti
    PROVE  IInv'
<1> PICK h \in SystemCode, on \in BOOLEAN :
        /\ on <=> h \in Interruptible
        /\ code[flow] \in SystemCode
        /\ SetFlag(code[flow], h, on)
    BY DEF Cli, Sti, SetFlag, SystemCode, Interruptible
<1> PICK f \in Terminals, n, d \in Nat : InCall_(f, n, d)
    BY InCall
<1> USE DEF InCall_
<1>1. /\ code' = [code EXCEPT ![f] = h] /\ depth' = [depth EXCEPT ![f] = d]
      /\ frames' = [frames EXCEPT ![f] = SubSeq(frames[f], 1, n)]
      /\ enabled' = on /\ flow' = flow /\ booted' = booted /\ idt' = idt /\ isr' = isr
    BY DEF SetFlag, picVars
<1> PICK c \in SystemCode : code[f] = c
    OBVIOUS
<1>2. n = d + (IF h = "user" THEN 0 ELSE 1) /\ n <= Len(frames[f])
    BY DEF SystemCode
<1> QED
    BY <1>1, <1>2, CallStep

-----------------------------------------------------------------------------
(* A device raises its line: nothing the invariant speaks of changes.      *)
LEMMA SameStep ==
    ASSUME IInv,
           UNCHANGED <<idt, isr, enabled, flow, code, frames, depth, booted>>
    PROVE  IInv'
<1>1. TypesOK'
    BY DEF IInv, TypesOK
<1>2. \A f \in booted \cup {flow} : Stack(f)'
    BY DEF IInv, Stack, Below, Calls
<1> QED
    BY <1>1, <1>2 DEF IInv

LEMMA RaiseStep ==
    ASSUME IInv, NEW d \in Devices, Raise(d)
    PROVE  IInv'
BY SameStep DEF Raise, flowVars

(* The processor is given to the next flow, which left it in the same      *)
(* place, or which starts.                                                 *)
LEMMA ChangeContextStep ==
    ASSUME IInv, ChangeContext
    PROVE  IInv'
<1> PICK f \in Flows : f = flow
    BY DEF IInv, TypesOK
<1> PICK g \in Terminals : g = NextFlow
    BY NextIsTerminal
<1>0. g \in Flows /\ g # BootFlow
    OBVIOUS
<1>1. /\ code[f] = "change_context" /\ code \in [Flows -> Codes]
      /\ enabled = FALSE /\ isr = {} /\ idt = Gates
    BY GatesSet DEF ChangeContext, IInv, TypesOK, InService, Interruptible, BootCode, EarlyCode
<1>2. flow' = g /\ frames' = frames /\ depth' = depth /\ isr' = {} /\ idt' = Gates
    BY <1>1 DEF ChangeContext, picVars
<1>3. /\ "sched_done" \in HandlerCode /\ "sched_done" \in Codes /\ "change_context" \in HandlerCode
      /\ "user" \in Codes
    BY DEF HandlerCode, SchedCode, Codes
<1>4. f = BootFlow => booted = {}
    BY DEF IInv
<1>5. CASE g \in booted
    <2>1. enabled' = FALSE /\ booted' = booted /\ code' = [code EXCEPT ![f] = "sched_done"]
        BY <1>1, <1>5 DEF ChangeContext
    <2>2. f \in booted /\ f # BootFlow
        BY <1>4, <1>5 DEF IInv, TypesOK
    <2>3. /\ code' \in [Flows -> Codes] /\ code'[f] = "sched_done"
          /\ \A h \in Flows \ {f} : code'[h] = code[h]
        BY <1>1, <1>3, <2>1
    <2>4. \A h \in booted : h \in Flows /\ code'[h] = "sched_done"
        BY <2>3 DEF IInv, TypesOK
    <2>5. TypesOK'
        BY <1>0, <1>2, <2>1, <2>3 DEF IInv, TypesOK
    <2>6. \A h \in booted : Stack(h)'
        <3> TAKE h \in booted
        <3>1. Stack(h) /\ code[h] \in HandlerCode
            BY <1>1, <1>3 DEF IInv
        <3>2. code'[h] = "sched_done"
            BY <2>4
        <3> QED
            BY <1>2, <1>3, <3>1, <3>2
            DEF Stack, Below, Calls, HandlerCode, SchedCode, SystemCode, BootCode, EarlyCode
    <2>7. code'[BootFlow] = code[BootFlow] /\ code[BootFlow] = "sched_done"
        BY <2>2, <2>3 DEF IInv
    <2>8. code'[g] = "sched_done" /\ "sched_done" \notin Interruptible
        BY <1>5, <2>4 DEF Interruptible
    <2>9. isr' = InService("sched_done")
        BY <1>2 DEF InService
    <2> QED
        BY <1>0, <1>2, <1>5, <2>1, <2>4, <2>5, <2>6, <2>7, <2>8, <2>9 DEF IInv
<1>6. CASE g \notin booted
    <2>1. /\ enabled' = TRUE /\ booted' = booted \cup {g}
          /\ code' = [code EXCEPT ![f] = "sched_done", ![g] = "user"]
        BY <1>1, <1>6 DEF ChangeContext
    <2>2. f # g
        BY <1>0, <1>6 DEF IInv
    <2>3. /\ code' \in [Flows -> Codes] /\ code'[f] = "sched_done" /\ code'[g] = "user"
          /\ \A h \in Flows \ {f, g} : code'[h] = code[h]
        BY <1>0, <1>1, <1>3, <2>1, <2>2
    <2>4. code'[BootFlow] = "sched_done"
        BY <1>0, <2>3 DEF IInv
    <2>5. TypesOK'
        BY <1>0, <1>2, <2>1, <2>3 DEF IInv, TypesOK
    <2>6. \A h \in booted : Stack(h)' /\ code'[h] = "sched_done"
        <3> TAKE h \in booted
        <3>1. Stack(h) /\ code[h] \in HandlerCode /\ h \in Flows /\ h # g
            BY <1>1, <1>3, <1>6 DEF IInv, TypesOK
        <3>2. code'[h] = "sched_done"
            BY <2>3, <3>1 DEF IInv
        <3> QED
            BY <1>2, <1>3, <3>1, <3>2
            DEF Stack, Below, Calls, HandlerCode, SchedCode, SystemCode, BootCode, EarlyCode
    <2>7. frames[g] = <<>> /\ depth[g] = 0
        BY <1>6 DEF IInv
    <2>8. Stack(g)'
        <3>1. Len(frames'[g]) = 0
            BY <1>2, <2>7
        <3>2. Below(g, "user", 0)'
            BY <1>0, <1>2, <2>7 DEF Below, Calls, SystemCode
        <3> QED
            BY <2>3, <3>1, <3>2 DEF Stack, HandlerCode, SchedCode, SystemCode, BootCode, EarlyCode
    <2>9. isr' = InService("user") /\ "user" \in Interruptible /\ "sched_done" \in HandlerCode
        BY <1>2, <1>3 DEF InService, Interruptible
    <2>10. \A h \in Terminals \ booted' : frames'[h] = <<>> /\ depth'[h] = 0
        BY <1>2, <2>1 DEF IInv
    <2>11. depth'[BootFlow] = 0
        BY <1>2 DEF IInv
    <2> QED
        BY <1>0, <1>2, <2>1, <2>3, <2>4, <2>5, <2>6, <2>8, <2>9, <2>10, <2>11 DEF IInv
<1> QED
    BY <1>5, <1>6

(* The kernel initialises: one piece of it after the other, on the boot    *)
(* stack, which holds no frame.                                            *)
LEMMA BootStep ==
    ASSUME IInv, NEW from \in BootCode \ {"refused"}, NEW to \in BootCode \cup {"spin", "lost"},
           Step(from, to),
           idt' = (IF from = "init_idt" THEN Gates ELSE idt),
           to \in EarlyCode \cup {"refused", "lost"} \/ from \notin EarlyCode \ {"init_idt"},
           isr' \in {isr, {}}, enabled' = (IF to = "spin" THEN TRUE ELSE enabled)
    PROVE  IInv'
<1> PICK f \in Flows : f = flow
    BY DEF IInv, TypesOK
<1> USE DEF Step
<1>1. f = BootFlow /\ frames[f] = <<>> /\ Len(frames[f]) = 0 /\ booted = {} /\ code[f] = from
    <2>1. Stack(f) /\ code[f] = from
        BY DEF IInv
    <2>2. f = BootFlow
        BY <2>1 DEF Stack
    <2>3. from \notin HandlerCode /\ from # "lost"
        BY DEF HandlerCode, SchedCode, BootCode, EarlyCode
    <2> QED
        BY <2>1, <2>2, <2>3 DEF IInv
<1>0. isr' = {} /\ enabled' \in BOOLEAN /\ (enabled' <=> to = "spin")
    BY <1>1 DEF IInv, TypesOK, InService, BootCode, EarlyCode, Interruptible
<1>2. to \in Codes /\ to # "idle" /\ to \notin HandlerCode /\ to \notin SystemCode /\ to # "fault" /\ to # "user"
    BY DEF Codes, HandlerCode, SchedCode, SystemCode, BootCode, EarlyCode
<1>3. code'[f] = to /\ code' \in [Flows -> Codes]
    BY <1>2 DEF IInv, TypesOK
<1>4. TypesOK'
    <2>1. to \notin EarlyCode \cup {"refused", "lost"} => idt' = Gates
        <3>1. from # "lost" /\ code[BootFlow] = from
            BY <1>1 DEF BootCode, EarlyCode
        <3> QED
            BY <3>1 DEF IInv, TypesOK
    <2> QED
        BY <1>0, <1>1, <1>3, <2>1 DEF IInv, TypesOK
<1>5. Stack(f)'
    <2>1. Len(frames'[f]) = 0
        BY <1>1
    <2>2. to = "spin" => Below(f, to, 0)'
        BY <1>1 DEF Below
    <2> QED
        BY <1>1, <1>2, <1>3, <2>1, <2>2 DEF Stack
<1>6. enabled' <=> to \in Interruptible
    BY <1>0, <1>2 DEF Interruptible, SystemCode
<1>7. isr' = InService(to)
    BY <1>0, <1>2 DEF InService, HandlerCode, SchedCode
<1> QED
    BY <1>0, <1>1, <1>2, <1>4, <1>5, <1>6, <1>7, OwnStep

LEMMA EntryStep ==
    ASSUME IInv, Entry_ \/ \E c \in Conversions, w \in Words : Report(c, w)
    PROVE  IInv'
<1> USE DEF Machine, picVars
<1>1. CASE BadMagic
    <2>1. "entry" \in BootCode \ {"refused"} /\ "refused" \in BootCode \cup {"spin", "lost"}
        BY DEF BootCode, EarlyCode
    <2>2. Step("entry", "refused")
        BY <1>1 DEF BadMagic
    <2> QED
        BY <1>1, <2>1, <2>2, BootStep DEF BadMagic, EarlyCode
<1>2. CASE Magic
    <2>1. "entry" \in BootCode \ {"refused"} /\ "report" \in BootCode \cup {"spin", "lost"}
        BY DEF BootCode, EarlyCode
    <2>2. Step("entry", "report")
        BY <1>2 DEF Magic
    <2> QED
        BY <1>2, <2>1, <2>2, BootStep DEF Magic, EarlyCode
<1>3. CASE Modules
    <2> PICK to \in {"refused", "init_idt"} : Step("report", to)
        BY <1>3 DEF Modules
    <2>1. "report" \in BootCode \ {"refused"} /\ to \in BootCode \cup {"spin", "lost"}
        BY DEF BootCode, EarlyCode
    <2> QED
        BY <1>3, <2>1, BootStep DEF Modules, EarlyCode
<1>4. CASE InitIdt
    <2>1. "init_idt" \in BootCode \ {"refused"} /\ "i8259_init" \in BootCode \cup {"spin", "lost"}
        BY DEF BootCode, EarlyCode
    <2>2. Step("init_idt", "i8259_init")
        BY <1>4 DEF InitIdt
    <2> QED
        BY <1>4, <2>1, <2>2, BootStep DEF InitIdt, EarlyCode
<1>5. CASE I8259Init
    <2>1. "i8259_init" \in BootCode \ {"refused"} /\ "init_paging" \in BootCode \cup {"spin", "lost"}
        BY DEF BootCode, EarlyCode
    <2>2. Step("i8259_init", "init_paging")
        BY <1>5 DEF I8259Init
    <2> QED
        BY <1>5, <2>1, <2>2, BootStep DEF I8259Init, EarlyCode
<1>6. CASE InitPaging
    <2>1. "init_paging" \in BootCode \ {"refused"} /\ "init_rtc" \in BootCode \cup {"spin", "lost"}
        BY DEF BootCode, EarlyCode
    <2>2. Step("init_paging", "init_rtc")
        BY <1>6 DEF InitPaging
    <2> QED
        BY <1>6, <2>1, <2>2, BootStep DEF InitPaging, EarlyCode
<1>7. CASE InitRtc
    <2>1. "init_rtc" \in BootCode \ {"refused"} /\ "init_keyboard" \in BootCode \cup {"spin", "lost"}
        BY DEF BootCode, EarlyCode
    <2>2. Step("init_rtc", "init_keyboard")
        BY <1>7 DEF InitRtc
    <2> QED
        BY <1>7, <2>1, <2>2, BootStep DEF InitRtc, EarlyCode
<1>8. CASE InitKeyboard
    <2>1. "init_keyboard" \in BootCode \ {"refused"} /\ "init_fs" \in BootCode \cup {"spin", "lost"}
        BY DEF BootCode, EarlyCode
    <2>2. Step("init_keyboard", "init_fs")
        BY <1>8 DEF InitKeyboard
    <2> QED
        BY <1>8, <2>1, <2>2, BootStep DEF InitKeyboard, EarlyCode
<1>9. CASE InitFs
    <2> PICK to \in {"lost", "init_scheduler"} : Step("init_fs", to)
        BY <1>9 DEF InitFs
    <2>1. "init_fs" \in BootCode \ {"refused"} /\ to \in BootCode \cup {"spin", "lost"}
        BY DEF BootCode, EarlyCode
    <2> QED
        BY <1>9, <2>1, BootStep DEF InitFs, EarlyCode
<1>10. CASE InitScheduler
    <2>1. "init_scheduler" \in BootCode \ {"refused"} /\ "sti" \in BootCode \cup {"spin", "lost"}
        BY DEF BootCode, EarlyCode
    <2>2. Step("init_scheduler", "sti")
        BY <1>10 DEF InitScheduler
    <2> QED
        BY <1>10, <2>1, <2>2, BootStep DEF InitScheduler, EarlyCode
<1>11. CASE BootSti
    <2>1. "sti" \in BootCode \ {"refused"} /\ "spin" \in BootCode \cup {"spin", "lost"}
        BY DEF BootCode, EarlyCode
    <2>2. Step("sti", "spin")
        BY <1>11 DEF BootSti
    <2> QED
        BY <1>11, <2>1, <2>2, BootStep DEF BootSti, EarlyCode
<1>12. CASE \E c \in Conversions, w \in Words : Report(c, w)
    BY <1>12, SameStep DEF Report, vars, flowVars
<1> QED
    BY <1>1, <1>2, <1>3, <1>4, <1>5, <1>6, <1>7, <1>8, <1>9, <1>10, <1>11, <1>12 DEF Entry_

LEMMA SystemCallStep ==
    ASSUME IInv, SystemCall
    PROVE  IInv'
<1>1. CASE Trap
    BY <1>1, TrapStep
<1>2. CASE Return
    BY <1>2, ReturnStep
<1>3. CASE Execute
    BY <1>3, ExecuteStep
<1>4. CASE Halt
    BY <1>4, HaltStep
<1>5. CASE Cli \/ Sti
    BY <1>5, FlagStep
<1>6. CASE Fault
    BY <1>6, FaultStep
<1>7. CASE FaultHalt
    BY <1>7, FaultHaltStep
<1> QED
    BY <1>1, <1>2, <1>3, <1>4, <1>5, <1>6, <1>7 DEF SystemCall

LEMMA RunningStep ==
    ASSUME IInv, Running
    PROVE  IInv'
<1>1. CASE SwitchMapped
    BY <1>1, ChangeContextStep DEF SwitchMapped
<1>8. CASE Vidmap
    BY <1>8, SameStep DEF Vidmap, vars, picVars, flowVars
<1>2. CASE CallMapped
    BY <1>2, SystemCallStep DEF CallMapped
<1>3. CASE \E d \in Devices : Raise(d)
    BY <1>3, RaiseStep
<1>4. CASE \E i \in Devices : Interrupt(i)
    BY <1>4, InterruptStep
<1>5. CASE SchedEoi \/ KbEoi \/ RtcEoi \/ KbPort \/ RtcRegC
    BY <1>5, HandlersStep
<1>6. CASE KbWild
    BY <1>6, KbWildStep
<1>7. CASE HandlerIret
    BY <1>7, HandlerIretStep
<1> QED
    BY <1>1, <1>2, <1>3, <1>4, <1>5, <1>6, <1>7, <1>8 DEF Running

LEMMA NextStep ==
    ASSUME IInv, [Next]_allVars
    PROVE  IInv'
<1>1. CASE UNCHANGED allVars
    BY <1>1, SameStep DEF allVars, vars, picVars, flowVars
<1>2. CASE Next
    BY <1>2, EntryStep, RunningStep DEF Next
<1> QED
    BY <1>1, <1>2

(* The inductive invariant holds.                                          *)
LEMMA Inductive == Spec => []IInv
BY InitInv, NextStep, PTL DEF Spec

(* Whatever the programs do and whenever the devices ask, every frame a    *)
(* kernel stack holds is one of a program, of a system call or of the      *)
(* spinning kernel, and a terminal off the processor left it at the end of *)
(* change_context, with such a frame to go back to: the handlers of        *)
(* set_idt.c never interrupt each other.                                   *)
THEOREM HandlersNeverInterrupted == Spec => []HandlersAtomic
<1>1. IInv => HandlersAtomic
    <2> SUFFICES ASSUME IInv PROVE HandlersAtomic
        OBVIOUS
    <2>1. ASSUME NEW f \in Flows, NEW n \in 1 .. Len(frames[f])
          PROVE  frames[f][n].code \in Interruptible \cup {"cli"}
        <3>1. frames[f] \in Seq(Frames)
            BY DEF IInv, TypesOK
        <3>2. frames[f][n] \in Frames
            BY <3>1, ElementOfSeq
        <3> QED
            BY <3>2 DEF Frames
    <2>2. ASSUME NEW f \in booted \ {flow}
          PROVE  code[f] = "sched_done" /\ frames[f] # <<>>
        <3>1. code[f] = "sched_done" /\ Stack(f)
            BY DEF IInv
        <3>2. Len(frames[f]) > 0
            BY <3>1 DEF Stack, HandlerCode, SchedCode
        <3> QED
            BY <3>1, <3>2
    <2> QED
        BY <2>1, <2>2 DEF HandlersAtomic
<1> QED
    BY <1>1, Inductive, PTL

(* However a program, a system call or the spinning kernel has come to run *)
(* - from a handler, from an exception between cli and sti, as a           *)
(* terminal's first shell - it runs with interrupts on, and no interrupt   *)
(* that still counts as in service holds others back.                      *)
THEOREM InterruptsComeBack == Spec => []UsersInterruptible
<1>1. IInv => UsersInterruptible
    BY DEF IInv, UsersInterruptible, InService, Interruptible
<1> QED
    BY <1>1, Inductive, PTL

-----------------------------------------------------------------------------
(* The directory is empty or maps low memory and the kernel closed to      *)
(* programs, and the program that runs, or is inside a system call or is   *)
(* interrupted, open to it.  Once a terminal runs, what vidmap's table     *)
(* leads to is the screen or the terminal's page.                          *)
OwnPage == IF flow = BootFlow THEN Absent
           ELSE Entry(TRUE, TRUE, Page("program", <<flow, depth[flow]>>))
Directory(own) == /\ DOMAIN page_directory = Entries
                  /\ page_directory[LowMemory] = Entry(TRUE, FALSE, Table)
                  /\ page_directory[KernelMemory] = Entry(TRUE, FALSE, Page("kernel", 0))
                  /\ page_directory[ProgramMemory] = own
                  /\ page_directory[VidmapMemory] \in {Absent, Entry(TRUE, TRUE, Table2)}
VideoAllowed == IF flow = BootFlow THEN page_directory[VidmapMemory] = Absent
                ELSE page_table_2 \in {VideoEntry(-1), VideoEntry(flow)}
VideoMapped == \A k \in VideoPages : /\ k \in DOMAIN page_table
                                     /\ page_table[k] = Entry(TRUE, TRUE, Page("frame", k))
Unpaged == EarlyCode \cup {"i8259_init", "init_paging", "refused"}
PagesOK == /\ DOMAIN page_table = 0 .. VM_ADDR + 4
           /\ code[flow] \in Unpaged => /\ page_directory = [e \in Entries |-> Absent]
                                       /\ flow = BootFlow
           /\ code[flow] \notin Unpaged => /\ Directory(OwnPage)
                                          /\ VideoMapped
                                          /\ VideoAllowed

USE DEF Entries, LowMemory, KernelMemory, ProgramMemory, VidmapMemory

(* A directory with one entry changed.                                     *)
LEMMA EntryPut ==
    ASSUME NEW t, DOMAIN t = Entries, NEW k \in Entries, NEW x
    PROVE  /\ DOMAIN [t EXCEPT ![k] = x] = Entries
           /\ [t EXCEPT ![k] = x][k] = x
           /\ \A e \in Entries \ {k} : [t EXCEPT ![k] = x][e] = t[e]
<1>1. DOMAIN [t EXCEPT ![k] = x] = Entries
    OBVIOUS
<1>2. [t EXCEPT ![k] = x][k] = x
    OBVIOUS
<1>3. \A e \in Entries \ {k} : [t EXCEPT ![k] = x][e] = t[e]
    OBVIOUS
<1> QED
    BY <1>1, <1>2, <1>3

(* Steps that leave the pages, the flow and its depth.                     *)
LEMMA PagesKept ==
    ASSUME PagesOK, UNCHANGED <<pageVars, flow, depth>>,
           code'[flow] \in Unpaged <=> code[flow] \in Unpaged
    PROVE  PagesOK'
<1>1. OwnPage' = OwnPage
    BY DEF OwnPage
<1>2. /\ page_directory' = page_directory /\ page_table' = page_table /\ flow' = flow
      /\ page_table_2' = page_table_2
    BY DEF pageVars
<1>3. Directory(OwnPage)' <=> Directory(OwnPage)
    BY <1>1, <1>2 DEF Directory
<1>4. VideoAllowed' <=> VideoAllowed
    BY <1>2 DEF VideoAllowed
<1> QED
    BY <1>2, <1>3, <1>4 DEF PagesOK, VideoMapped

(* A program's page put in.                                                *)
LEMMA PagesMapped ==
    ASSUME IInv, PagesOK, code[flow] \notin Unpaged, code'[flow'] \notin Unpaged,
           NEW t, t = flow', t # BootFlow, NEW d, d = depth'[t], UNCHANGED page_table,
           page_directory' = [page_directory EXCEPT ![ProgramMemory]
                                = Entry(TRUE, TRUE, Page("program", <<t, d>>))],
           page_table_2' \in {VideoEntry(-1), VideoEntry(t)}
    PROVE  PagesOK'
<1> PICK x : x = Entry(TRUE, TRUE, Page("program", <<t, d>>))
    OBVIOUS
<1>1. OwnPage' = x
    BY DEF OwnPage
<1>2. page_directory' = [page_directory EXCEPT ![ProgramMemory] = x]
    OBVIOUS
<1>3. Directory(OwnPage)'
    <2> PICK low, kernel : low = Entry(TRUE, FALSE, Table) /\ kernel = Entry(TRUE, FALSE, Page("kernel", 0))
        OBVIOUS
    <2>1. /\ DOMAIN page_directory = Entries
          /\ page_directory[LowMemory] = low /\ page_directory[KernelMemory] = kernel
          /\ page_directory[VidmapMemory] \in {Absent, Entry(TRUE, TRUE, Table2)}
        BY DEF PagesOK, Directory
    <2>a. /\ ProgramMemory \in Entries /\ LowMemory \in Entries \ {ProgramMemory}
          /\ KernelMemory \in Entries \ {ProgramMemory} /\ VidmapMemory \in Entries \ {ProgramMemory}
        OBVIOUS
    <2> HIDE DEF LowMemory, KernelMemory, ProgramMemory, VidmapMemory, Entries
    <2>2. /\ DOMAIN page_directory' = Entries /\ page_directory'[ProgramMemory] = x
          /\ \A e \in Entries \ {ProgramMemory} : page_directory'[e] = page_directory[e]
        BY <1>2, <2>1, <2>a, EntryPut
    <2>3. /\ page_directory'[LowMemory] = low /\ page_directory'[KernelMemory] = kernel
          /\ page_directory'[VidmapMemory] \in {Absent, Entry(TRUE, TRUE, Table2)}
        BY <2>1, <2>2, <2>a
    <2> QED
        BY <1>1, <2>2, <2>3 DEF Directory
<1>4. VideoAllowed'
    BY DEF VideoAllowed
<1> QED
    BY <1>3, <1>4 DEF PagesOK, VideoMapped

(* vidmap, of a program on a terminal.                                     *)
LEMMA PagesOpened ==
    ASSUME IInv, PagesOK, flow # BootFlow, code[flow] \notin Unpaged, Vidmap
    PROVE  PagesOK'
<1> PICK x : x = Entry(TRUE, TRUE, Table2)
    OBVIOUS
<1>1. /\ page_directory' = [page_directory EXCEPT ![VidmapMemory] = x]
      /\ page_table_2' = VideoEntry(-1) /\ UNCHANGED <<page_table, flow, depth, code>>
    BY DEF Vidmap, vidmap_helper, vars, flowVars
<1>2. OwnPage' = OwnPage
    BY <1>1 DEF OwnPage
<1>3. Directory(OwnPage)'
    <2> PICK low, kernel, own : /\ low = Entry(TRUE, FALSE, Table)
                                /\ kernel = Entry(TRUE, FALSE, Page("kernel", 0)) /\ own = OwnPage
        OBVIOUS
    <2>1. /\ DOMAIN page_directory = Entries /\ page_directory[ProgramMemory] = own
          /\ page_directory[LowMemory] = low /\ page_directory[KernelMemory] = kernel
        BY DEF PagesOK, Directory
    <2>a. /\ VidmapMemory \in Entries /\ LowMemory \in Entries \ {VidmapMemory}
          /\ KernelMemory \in Entries \ {VidmapMemory} /\ ProgramMemory \in Entries \ {VidmapMemory}
        OBVIOUS
    <2> HIDE DEF LowMemory, KernelMemory, ProgramMemory, VidmapMemory, Entries
    <2>2. /\ DOMAIN page_directory' = Entries /\ page_directory'[VidmapMemory] = x
          /\ \A e \in Entries \ {VidmapMemory} : page_directory'[e] = page_directory[e]
        BY <1>1, <2>1, <2>a, EntryPut
    <2>3. /\ page_directory'[LowMemory] = low /\ page_directory'[KernelMemory] = kernel
          /\ page_directory'[ProgramMemory] = own
        BY <2>1, <2>2, <2>a
    <2> QED
        BY <1>2, <2>2, <2>3 DEF Directory
<1>4. VideoAllowed'
    BY <1>1 DEF VideoAllowed
<1> QED
    BY <1>1, <1>3, <1>4 DEF PagesOK, VideoMapped

LEMMA PagesCreated ==
    ASSUME IInv, PagesOK, flow = BootFlow, flow' = flow, code'[flow] \notin Unpaged, create_pages
    PROVE  PagesOK'
<1> DEFINE Cleared(after) == [e \in Entries |-> IF e = LowMemory /\ after = "page_directory"
                                                 THEN Overrun ELSE Absent]
           low == Entry(TRUE, FALSE, Table)
           kernel == Entry(TRUE, FALSE, Page("kernel", 0))
<1> PICK after \in Neighbours :
        page_directory' = [Cleared(after) EXCEPT ![LowMemory] = low, ![KernelMemory] = kernel]
    BY DEF create_pages
<1> PICK cleared : cleared = Cleared(after)
    OBVIOUS
<1> PICK one : one = [cleared EXCEPT ![LowMemory] = low]
    OBVIOUS
<1>1. OwnPage' = Absent
    BY DEF OwnPage
<1>2. Directory(OwnPage)' /\ VideoAllowed'
    <2>1. DOMAIN cleared = Entries /\ cleared[ProgramMemory] = Absent /\ cleared[VidmapMemory] = Absent
        OBVIOUS
    <2>2. page_directory' = [one EXCEPT ![KernelMemory] = kernel]
        OBVIOUS
    <2>3. /\ LowMemory \in Entries \ {KernelMemory} /\ KernelMemory \in Entries
          /\ VidmapMemory \in Entries \ {LowMemory, KernelMemory}
          /\ ProgramMemory \in Entries \ {LowMemory, KernelMemory} /\ LowMemory \in Entries
        OBVIOUS
    <2> HIDE DEF LowMemory, KernelMemory, ProgramMemory, VidmapMemory, Entries, Cleared, low, kernel
    <2>4. /\ DOMAIN one = Entries /\ one[LowMemory] = low /\ one[ProgramMemory] = Absent
          /\ one[VidmapMemory] = Absent
        BY <2>1, <2>3, EntryPut
    <2>5. /\ DOMAIN page_directory' = Entries /\ page_directory'[KernelMemory] = kernel
          /\ \A e \in Entries \ {KernelMemory} : page_directory'[e] = one[e]
        BY <2>2, <2>3, <2>4, EntryPut
    <2>6. /\ page_directory'[LowMemory] = low /\ page_directory'[ProgramMemory] = Absent
          /\ page_directory'[VidmapMemory] = Absent
        BY <2>3, <2>4, <2>5
    <2> QED
        BY <1>1, <2>5, <2>6 DEF Directory, VideoAllowed, low, kernel
<1>3. VideoPages \subseteq 0 .. VM_ADDR + 4
    BY DEF VideoPages, VM_ADDR
<1>4. DOMAIN page_table' = DOMAIN page_table /\ VideoMapped'
    BY <1>3 DEF create_pages, VideoMapped, PagesOK
<1> QED
    BY <1>2, <1>4 DEF PagesOK

-----------------------------------------------------------------------------
LEMMA PagesInit == Init => PagesOK
BY DEF Init, Unmapped, PagesOK, Unpaged, EarlyCode

LEMMA PagesBootStep ==
    ASSUME IInv, IInv', PagesOK, Entry_
    PROVE  PagesOK'
<1> USE DEF Step
<1>1. flow' = flow /\ depth' = depth
    BY DEF Entry_, BadMagic, Magic, Modules, InitIdt, I8259Init, InitPaging, InitRtc,
           InitKeyboard, InitFs, InitScheduler, BootSti
<1>2. code \in [Flows -> Codes] /\ flow \in Flows
    BY DEF IInv, TypesOK
<1>3. CASE InitPaging
    <2>1. flow = BootFlow /\ code'[flow] \notin Unpaged
        BY <1>2, <1>3 DEF InitPaging, PagesOK, Unpaged, EarlyCode
    <2> QED
        BY <1>1, <1>3, <2>1, PagesCreated DEF InitPaging
<1>4. CASE ~InitPaging
    <2>1. UNCHANGED pageVars
        BY <1>4 DEF Entry_, BadMagic, Magic, Modules, InitIdt, I8259Init, InitRtc,
                    InitKeyboard, InitFs, InitScheduler, BootSti
    <2>2. code'[flow] \in Unpaged <=> code[flow] \in Unpaged
        BY <1>2, <1>4 DEF Entry_, BadMagic, Magic, Modules, InitIdt, I8259Init, InitRtc,
                          InitKeyboard, InitFs, InitScheduler, BootSti, Unpaged, EarlyCode
    <2> QED
        BY <1>1, <2>1, <2>2, PagesKept
<1> QED
    BY <1>3, <1>4

(* Only the boot flow runs the kernel's start.                             *)
LEMMA TerminalsStarted ==
    ASSUME IInv, flow # BootFlow
    PROVE  code[flow] \notin Unpaged
BY DEF IInv, Stack, Unpaged, BootCode

LEMMA CallsTerminal ==
    ASSUME IInv, SystemCall
    PROVE  flow \in Terminals /\ flow' = flow
<1> USE DEF SystemCode
<1>1. flow' = flow
    BY DEF SystemCall, Trap, Return, Execute, Halt, Cli, Sti, SetFlag, Fault, FaultHalt,
           Enter, Iret
<1>2. code[flow] \in SystemCode \cup {"user", "fault"}
    BY DEF SystemCall, Trap, Return, Execute, Halt, Cli, Sti, SetFlag, Fault, FaultHalt
<1>3. flow \in Flows /\ Stack(flow)
    BY DEF IInv, TypesOK
<1> QED
    BY <1>1, <1>2, <1>3 DEF Stack, Below

LEMMA PagesRunningStep ==
    ASSUME IInv, IInv', PagesOK, Running
    PROVE  PagesOK'
<1>0. code \in [Flows -> Codes] /\ flow \in Flows
    BY DEF IInv, TypesOK
<1>1. CASE SwitchMapped
    <2> PICK t \in Terminals : t = flow' /\ t # BootFlow
        BY <1>0, <1>1, NextIsTerminal DEF SwitchMapped, ChangeContext
    <2>1. code[flow] \notin Unpaged
        BY <1>1 DEF SwitchMapped, ChangeContext, Unpaged, EarlyCode
    <2>2. code'[flow'] \notin Unpaged
        BY DEF IInv, Stack, Unpaged, BootCode
    <2> PICK d : d = depth'[t]
        OBVIOUS
    <2>3. /\ page_directory' = [page_directory EXCEPT ![ProgramMemory]
                                   = Entry(TRUE, TRUE, Page("program", <<t, d>>))]
          /\ page_table_2' \in {VideoEntry(-1), VideoEntry(t)} /\ UNCHANGED page_table
        BY <1>1 DEF SwitchMapped, remap_vidmem
    <2> QED
        BY <2>1, <2>2, <2>3, PagesMapped
<1>2. CASE CallMapped
    <2> PICK t \in Terminals : t = flow /\ flow' = t /\ t # BootFlow
        BY <1>2, CallsTerminal DEF CallMapped
    <2>1. code[flow] \notin Unpaged
        BY TerminalsStarted
    <2>2. code'[flow'] \notin Unpaged
        BY DEF IInv, Stack, Unpaged, BootCode
    <2> PICK d : d = depth'[t]
        OBVIOUS
    <2>3. CASE depth' = depth
        BY <1>2, <2>1, <2>2, <2>3, PagesKept DEF CallMapped
    <2>4. CASE depth' # depth
        <3>1. create_process_page(<<t, d>>)
            BY <1>2, <2>4 DEF CallMapped, Mapping
        <3>2. page_table_2 \in {VideoEntry(-1), VideoEntry(t)}
            BY <2>1 DEF PagesOK, VideoAllowed
        <3> QED
            BY <2>1, <2>2, <3>1, <3>2, PagesMapped DEF create_process_page
    <2> QED
        BY <2>3, <2>4
<1>3. CASE \E d \in Devices : Raise(d) /\ UNCHANGED pageVars
    BY <1>3, PagesKept DEF Raise, flowVars
<1>4. CASE \E i \in Devices : Interrupt(i) /\ UNCHANGED pageVars
    <2>1. code[flow] \notin Unpaged /\ flow' = flow /\ depth' = depth
        BY <1>4 DEF Interrupt, Enter, IInv, TypesOK, Interruptible, Unpaged, EarlyCode
    <2>2. code'[flow] \notin Unpaged
        <3>1. PICK i \in Devices : Interrupt(i)
            BY <1>4
        <3>2. code[flow] \in Interruptible
            BY <3>1 DEF Interrupt, IInv
        <3>3. idt = Gates
            BY <3>2, GatesSet DEF Interruptible, BootCode, EarlyCode
        <3>4. idt[Vector(i)].entry \in {"sched_eoi", "kb_eoi", "rtc_eoi"}
            BY <3>3, GateEntries DEF Vector, Devices, IRQ_SCHED, IRQ1, IRQ8, ICW2_MASTER, ICW2_SLAVE,
                                     PIT_IDT, KB_IDT, RTC_IDT
        <3> QED
            BY <1>0, <3>1, <3>4 DEF Interrupt, Enter, Goto, Unpaged, EarlyCode
    <2> QED
        BY <1>4, <2>1, <2>2, PagesKept
<1>5. CASE (SchedEoi \/ KbEoi \/ RtcEoi \/ KbPort \/ RtcRegC \/ KbWild) /\ UNCHANGED pageVars
    <2>1. code[flow] \notin Unpaged /\ flow' = flow /\ depth' = depth /\ code'[flow] \notin Unpaged
        BY <1>0, <1>5 DEF SchedEoi, KbEoi, RtcEoi, KbPort, RtcRegC, KbWild, Acknowledge, ReadDevice,
                          Unpaged, EarlyCode
    <2> QED
        BY <1>5, <2>1, PagesKept
<1>6. CASE HandlerIret /\ UNCHANGED pageVars
    <2>1. code[flow] \notin Unpaged /\ flow' = flow /\ depth' = depth
        BY <1>6 DEF HandlerIret, Iret, Unpaged, EarlyCode
    <2> PICK n : n = Len(frames[flow])
        OBVIOUS
    <2>2. frames[flow][n].code \in Interruptible
        BY <1>0, <1>6 DEF HandlerIret, IInv, Stack, HandlerCode, SchedCode
    <2>3. code'[flow] \notin Unpaged
        BY <1>0, <1>6, <2>2 DEF HandlerIret, Iret, Top, Interruptible, Unpaged, EarlyCode
    <2> QED
        BY <1>6, <2>1, <2>3, PagesKept
<1>7. CASE Vidmap
    <2>1. flow # BootFlow
        BY <1>0, <1>7 DEF Vidmap, IInv, Stack, Below, SystemCode
    <2> QED
        BY <1>7, <2>1, TerminalsStarted, PagesOpened
<1> QED
    BY <1>1, <1>2, <1>3, <1>4, <1>5, <1>6, <1>7 DEF Running

LEMMA PagesAlways == Spec => []PagesOK
<1>1. IInv /\ IInv' /\ PagesOK /\ [Next]_allVars => PagesOK'
    <2> SUFFICES ASSUME IInv, IInv', PagesOK, [Next]_allVars PROVE PagesOK'
        OBVIOUS
    <2>1. CASE UNCHANGED allVars
        BY <2>1, PagesKept DEF allVars, vars, flowVars
    <2>2. CASE \E c \in Conversions, w \in Words : Report(c, w)
        BY <2>2, PagesKept DEF Report, vars, flowVars
    <2> QED
        BY <2>1, <2>2, PagesBootStep, PagesRunningStep DEF Next
<1> QED
    BY <1>1, PagesInit, Inductive, PTL DEF Spec

(* Whatever create_pages has overrun and however the program was reached,  *)
(* a program reaches the page of its own and, after a vidmap, of video     *)
(* memory the screen or its terminal's page and no other terminal's; the   *)
(* kernel reaches itself, the screen and the terminals' pages.             *)
THEOREM ProgramsConfined == Spec => []ProgramReach
<1>1. IInv /\ PagesOK => ProgramReach
    <2> SUFFICES ASSUME IInv, PagesOK PROVE ProgramReach
        OBVIOUS
    <2> USE DEF Opens, Entry
    <2>1. ASSUME At("user")
          PROVE  OwnPages
        <3>1. flow # BootFlow /\ code[flow] \notin Unpaged
            BY <2>1 DEF IInv, Stack, Below, Unpaged, EarlyCode
        <3> PICK p : p = Page("program", <<flow, depth[flow]>>)
            OBVIOUS
        <3> DEFINE open == {f \in Entries : Opens(page_directory[f], TRUE)}
                   direct == {page_directory[e].to : e \in open}
        <3>2. /\ page_directory[ProgramMemory] = Entry(TRUE, TRUE, p)
              /\ ~page_directory[LowMemory].user /\ ~page_directory[KernelMemory].user
              /\ page_directory[VidmapMemory] \in {Absent, Entry(TRUE, TRUE, Table2)}
            BY <3>1 DEF PagesOK, Directory, OwnPage
        <3>3. p # Table /\ p # Table2 /\ Table # Table2
            BY DEF Page, Table, Table2
        <3>4. ProgramMemory \in open /\ open \subseteq {ProgramMemory, VidmapMemory}
            BY <3>2
        <3>5. VidmapMemory \in open => page_directory[VidmapMemory].to = Table2
            BY <3>2 DEF Absent
        <3>6. page_directory[ProgramMemory].to = p
            BY <3>2
        <3> HIDE DEF Opens, open, Entries, ProgramMemory, VidmapMemory
        <3>7. p \in direct /\ direct \subseteq {p, Table2}
            BY <3>4, <3>5, <3>6
        <3>8. page_table_2.to \in {Page("frame", VM_ADDR), Page("frame", VM_ADDR + flow + 1)}
            <4>1. page_table_2 \in {VideoEntry(-1), VideoEntry(flow)}
                BY <3>1 DEF PagesOK, VideoAllowed
            <4>2. VM_ADDR + (-1) + 1 = VM_ADDR
                BY DEF VM_ADDR
            <4>3. VideoEntry(-1).to = Page("frame", VM_ADDR)
                BY <4>2 DEF VideoEntry
            <4>4. VideoEntry(flow).to = Page("frame", VM_ADDR + flow + 1)
                BY DEF VideoEntry
            <4> QED
                BY <4>1, <4>3, <4>4
        <3> DEFINE inTable2 == IF Opens(page_table_2, TRUE) THEN {page_table_2.to} ELSE {}
        <3>9. Reached(TRUE) = (direct \ {Table, Table2}) \cup (IF Table2 \in direct THEN inTable2 ELSE {})
            BY <3>3, <3>7 DEF Reached, open
        <3> HIDE DEF direct
        <3> QED
            BY <3>3, <3>7, <3>8, <3>9 DEF OwnPages
    <2>2. ASSUME page_directory[KernelMemory].present
          PROVE  {Page("kernel", 0)} \cup {Page("frame", k) : k \in VideoPages} \subseteq Reached(FALSE)
        <3>1. code[flow] \notin Unpaged
            BY <2>2 DEF PagesOK, Absent
        <3>2. /\ page_directory[LowMemory].present /\ page_directory[LowMemory].to = Table
              /\ page_directory[KernelMemory].present
              /\ page_directory[KernelMemory].to = Page("kernel", 0)
            BY <3>1 DEF PagesOK, Directory
        <3>3. \A k \in VideoPages : /\ k \in DOMAIN page_table /\ page_table[k].present
                                    /\ page_table[k].to = Page("frame", k)
            <4> TAKE k \in VideoPages
            <4>1. k \in DOMAIN page_table /\ page_table[k] = Entry(TRUE, TRUE, Page("frame", k))
                BY <3>1 DEF PagesOK, VideoMapped
            <4> QED
                BY <4>1
        <3>4. Page("kernel", 0) # Table /\ Page("kernel", 0) # Table2
            BY DEF Page, Table, Table2
        <3> QED
            BY <3>2, <3>3, <3>4 DEF Reached
    <2> QED
        BY <2>1, <2>2 DEF ProgramReach
<1> QED
    BY <1>1, Inductive, PagesAlways, PTL

-----------------------------------------------------------------------------
(* What printf prints of a number reads as the number: the digits of itoa  *)
(* are those of its value, without a 0 in front, and a word's fit.         *)
Radices == {10, 16}

Quotient(n, r) == n \div r
Remainder(n, r) == n % r

LEMMA Quotients ==
    ASSUME NEW r \in Radices, NEW n \in Nat
    PROVE  /\ Quotient(n, r) \in Nat /\ Remainder(n, r) \in Nat
           /\ n = r * Quotient(n, r) + Remainder(n, r)
           /\ n > 0 => Quotient(n, r) \in 0 .. n - 1
           /\ n > 0 /\ Quotient(n, r) = 0 => Remainder(n, r) # 0
<1> USE DEF Quotient, Remainder
<1>1. CASE r = 10
  BY <1>1
<1>2. CASE r = 16
  BY <1>2
<1> QED
  BY <1>1, <1>2 DEF Radices

(* The digits of the numbers up to v, the lowest first.                    *)
Found(g, v, r) ==
    /\ g \in [0 .. v -> Seq(Nat)]
    /\ g[0] = <<>>
    /\ \A n \in 1 .. v : g[n] = <<Remainder(n, r)>> \o g[Quotient(n, r)]

LEMMA LowFirstFound ==
    ASSUME NEW v \in Nat, NEW r \in Radices
    PROVE  \E g : Found(g, v, r) /\ LowFirst(v, r) = g[v]
<1> DEFINE prev == [n \in 1 .. v |-> Quotient(n, r)]
           step == [p \in Seq(Nat) \X (1 .. v) |-> <<Remainder(p[2], r)>> \o p[1]]
           Digits(f) == f = [n \in 0 .. v |-> IF n = 0 THEN <<>> ELSE <<Remainder(n, r)>> \o f[Quotient(n, r)]]
<1>0. \A n \in Nat : /\ Quotient(n, r) \in Nat /\ Remainder(n, r) \in Nat
                     /\ n > 0 => Quotient(n, r) \in 0 .. n - 1
  BY Quotients
<1>1. prev \in [1 .. v -> Nat] /\ \A n \in 1 .. v : prev[n] < n /\ prev[n] = Quotient(n, r)
  BY <1>0
<1>2. step \in [Seq(Nat) \X (1 .. v) -> Seq(Nat)]
  <2> SUFFICES ASSUME NEW s \in Seq(Nat), NEW n \in 1 .. v PROVE <<Remainder(n, r)>> \o s \in Seq(Nat)
    OBVIOUS
  <2>0. n \in Nat
    OBVIOUS
  <2>1. Remainder(n, r) \in Nat
    BY <2>0, Quotients
  <2> QED
    BY <2>1
<1>3. <<>> \in Seq(Nat)
  OBVIOUS
<1>4. \A s \in Seq(Nat), n \in 1 .. v : step[<<s, n>>] = <<Remainder(n, r)>> \o s
  OBVIOUS
<1> HIDE DEF prev, step
<1>5. PICK g \in [0 .. v -> Seq(Nat)] : Steps(g, <<>>, v, prev, step)
  BY <1>1, <1>2, <1>3, RecursionExists, Zenon
<1>6. ASSUME NEW n \in 1 .. v PROVE g[n] = <<Remainder(n, r)>> \o g[Quotient(n, r)]
  <2>0. n \in Nat /\ n > 0
    OBVIOUS
  <2>1. Quotient(n, r) \in 0 .. n - 1
    BY <2>0, Quotients
  <2>2. g[n] = step[<<g[prev[n]], n>>] /\ prev[n] = Quotient(n, r)
    BY <1>1, <1>5 DEF Steps
  <2>3. g[Quotient(n, r)] \in Seq(Nat)
    <3>1. Quotient(n, r) \in 0 .. v
      BY <2>1
    <3> QED
      BY <1>5, <3>1
  <2> QED
    BY <1>4, <2>2, <2>3
<1>7. Digits(g)
  BY <1>5, <1>6, SMTT(30) DEF Steps
<1> DEFINE h == CHOOSE f : Digits(f)
<1>8. Digits(h)
  BY <1>7
<1>9. LowFirst(v, r) = h[v]
  BY Zenon DEF LowFirst, Quotient, Remainder
<1> HIDE DEF h
<1>10. /\ h[0] = <<>>
       /\ \A n \in 1 .. v : h[n] = <<Remainder(n, r)>> \o h[Quotient(n, r)]
  <2>1. h = [n \in 0 .. v |-> IF n = 0 THEN <<>> ELSE <<Remainder(n, r)>> \o h[Quotient(n, r)]]
    BY <1>8
  <2> HIDE DEF Digits
  <2>2. ASSUME NEW n \in 0 .. v
        PROVE  h[n] = IF n = 0 THEN <<>> ELSE <<Remainder(n, r)>> \o h[Quotient(n, r)]
    <3> DEFINE F == [m \in 0 .. v |-> IF m = 0 THEN <<>> ELSE <<Remainder(m, r)>> \o h[Quotient(m, r)]]
    <3>1. F[n] = IF n = 0 THEN <<>> ELSE <<Remainder(n, r)>> \o h[Quotient(n, r)]
      OBVIOUS
    <3>2. h[n] = F[n]
      BY <2>1, Zenon
    <3> QED
      BY <3>1, <3>2, Zenon
  <2>3. 0 \in 0 .. v /\ \A n \in 1 .. v : n \in 0 .. v /\ n # 0
    OBVIOUS
  <2> QED
    BY <2>2, <2>3, Zenon
<1>11. \A n \in 0 .. v : n \in {m \in 0 .. v : h[m] = g[m]}
  <2> DEFINE T == {m \in 0 .. v : h[m] = g[m]}
  <2>1. ASSUME NEW n \in 0 .. v, \A k \in 0 .. n - 1 : k \in T PROVE n \in T
    <3>1. CASE n = 0
      BY <1>5, <1>10, <3>1 DEF Steps
    <3>2. CASE n > 0
      <4>1. Quotient(n, r) \in 0 .. n - 1
        <5>1. n \in Nat
          OBVIOUS
        <5> QED
          BY <3>2, <5>1, Quotients
      <4>2. h[Quotient(n, r)] = g[Quotient(n, r)]
        BY <2>1, <4>1 DEF T
      <4>3. g[n] = <<Remainder(n, r)>> \o g[Quotient(n, r)] /\ h[n] = <<Remainder(n, r)>> \o h[Quotient(n, r)]
        BY <1>6, <1>10, <3>2
      <4> QED
        BY <4>2, <4>3 DEF T
    <3> QED
      BY <3>1, <3>2
  <2> HIDE DEF T
  <2> QED
    BY <2>1, StrongInduction DEF T
<1>12. h = g
  BY <1>8, <1>11
<1> QED
  BY <1>5, <1>6, <1>9, <1>12 DEF Found, Steps

(* What Reads adds up on its way through a sequence of digits.             *)
Sums(h, s, r) ==
    /\ h \in [0 .. Len(s) -> Nat]
    /\ h[0] = 0
    /\ \A n \in 1 .. Len(s) : h[n] = r * h[n - 1] + s[n]

LEMMA ReadsSums ==
    ASSUME NEW s \in Seq(Nat), NEW r \in Radices
    PROVE  \E h : Sums(h, s, r) /\ Reads(s, r) = h[Len(s)]
<1> DEFINE N == Len(s)
           step == [p \in Nat \X (1 .. N) |-> r * p[1] + s[p[2]]]
           Upto(f) == f = [n \in 0 .. N |-> IF n = 0 THEN 0 ELSE r * f[n - 1] + s[n]]
           h == CHOOSE f : Upto(f)
<1>1. N \in Nat /\ \A n \in 1 .. N : s[n] \in Nat
  OBVIOUS
<1>2. \A x \in Nat, n \in 1 .. N : r * x + s[n] \in Nat
  BY <1>1, SMT DEF Radices
<1>3. step \in [Nat \X (1 .. N) -> Nat]
  BY <1>2
<1>4. \A x \in Nat, n \in 1 .. N : step[<<x, n>>] = r * x + s[n]
  OBVIOUS
<1>5. Reads(s, r) = h[N]
  BY Zenon DEF Reads
<1> HIDE DEF N, step
<1>6. PICK g \in [0 .. N -> Nat] : Primitive(g, 0, N, step)
  BY <1>1, <1>3, 0 \in Nat, PrimitiveRecursion, Zenon
<1>7. ASSUME NEW n \in 1 .. N PROVE g[n] = r * g[n - 1] + s[n]
  <2>1. n - 1 \in 0 .. N
    BY <1>1
  <2> QED
    BY <1>4, <1>6, <2>1 DEF Primitive
<1>8. Upto(g)
  BY <1>6, <1>7 DEF Primitive
<1>9. Upto(h)
  BY <1>8
<1> HIDE DEF h
<1>10. h[0] = 0 /\ \A n \in 1 .. N : h[n] = r * h[n - 1] + s[n]
  BY <1>1, <1>9
<1>11. \A n \in 0 .. N : n \in {m \in 0 .. N : h[m] \in Nat}
  <2> DEFINE T == {m \in 0 .. N : h[m] \in Nat}
  <2>1. 0 \in T
    BY <1>1, <1>10
  <2>2. ASSUME NEW n \in 0 .. N - 1, n \in T PROVE n + 1 \in T
    <3>1. n + 1 \in 1 .. N /\ n + 1 - 1 = n /\ n + 1 \in 0 .. N
      BY <1>1
    <3>2. h[n + 1] = r * h[n] + s[n + 1]
      BY <1>10, <3>1
    <3> QED
      BY <1>2, <2>2, <3>1, <3>2
  <2> HIDE DEF T
  <2> QED
    BY <1>1, <2>1, <2>2, BoundedInduction DEF T
<1>12. h \in [0 .. N -> Nat]
  BY <1>9, <1>11
<1> QED
  BY <1>5, <1>10, <1>12 DEF Sums, N

(* The first digits of a longer sequence add up to the same.               *)
LEMMA SumsAgree ==
    ASSUME NEW r \in Radices, NEW s \in Seq(Nat), NEW q \in Seq(Nat),
           NEW h, Sums(h, s, r), NEW k, Sums(k, q, r),
           Len(s) <= Len(q), \A i \in 1 .. Len(s) : s[i] = q[i]
    PROVE  h[Len(s)] = k[Len(s)]
<1> DEFINE n == Len(s)
           T == {m \in 0 .. n : h[m] = k[m]}
<1>1. 0 \in T
  BY DEF Sums
<1>2. ASSUME NEW m \in 0 .. n - 1, m \in T PROVE m + 1 \in T
  <2>1. m + 1 \in 1 .. Len(s) /\ m + 1 \in 1 .. Len(q) /\ m + 1 - 1 = m /\ m + 1 \in 1 .. n
    OBVIOUS
  <2>2. h[m + 1] = r * h[m] + s[m + 1] /\ k[m + 1] = r * k[m] + q[m + 1]
    BY <2>1 DEF Sums
  <2> QED
    BY <1>2, <2>1, <2>2
<1> HIDE DEF T
<1>3. n \in Nat /\ n \in 0 .. n
  OBVIOUS
<1>4. h[n] = k[n]
  <2> HIDE DEF n
  <2>1. \A m \in 0 .. n : m \in T
    BY <1>1, <1>2, <1>3, BoundedInduction
  <2> QED
    BY <1>3, <2>1 DEF T
<1> QED
  BY <1>4

(* One more digit, and digits that are 0 in front.                         *)
LEMMA ReadsAppend ==
    ASSUME NEW r \in Radices, NEW s \in Seq(Nat), NEW x \in Nat
    PROVE  Reads(Append(s, x), r) = r * Reads(s, r) + x
<1> DEFINE q == Append(s, x)
<1>1. q \in Seq(Nat) /\ Len(q) = Len(s) + 1 /\ q[Len(s) + 1] = x /\ Len(s) \in Nat
  OBVIOUS
<1>2. \A i \in 1 .. Len(s) : s[i] = q[i]
  OBVIOUS
<1> HIDE DEF q
<1>3. PICK h : Sums(h, s, r) /\ Reads(s, r) = h[Len(s)]
  BY ReadsSums
<1>4. PICK k : Sums(k, q, r) /\ Reads(q, r) = k[Len(q)]
  BY <1>1, ReadsSums
<1>5. h[Len(s)] = k[Len(s)]
  <2>1. Len(s) <= Len(q)
    BY <1>1
  <2> QED
    BY <1>1, <1>2, <1>3, <1>4, <2>1, SumsAgree
<1>6. k[Len(s) + 1] = r * k[Len(s)] + q[Len(s) + 1]
  <2>1. Len(s) + 1 \in 1 .. Len(q) /\ Len(s) + 1 - 1 = Len(s)
    BY <1>1
  <2> QED
    BY <1>4, <2>1 DEF Sums
<1> QED
  BY <1>1, <1>3, <1>4, <1>5, <1>6 DEF q

(* Zeros in front of the digits change nothing of what is read.            *)
Zeros(n) == [i \in 1 .. n |-> 0]

LEMMA ReadsZeros ==
    ASSUME NEW r \in Radices, NEW s \in Seq(Nat), NEW z \in Nat
    PROVE  Reads(Zeros(z) \o s, r) = Reads(s, r)
<1> DEFINE q == Zeros(z) \o s
<1>1. /\ q \in Seq(Nat) /\ Len(q) = z + Len(s) /\ Len(s) \in Nat
      /\ \A i \in 1 .. z : q[i] = 0
      /\ \A i \in 1 .. Len(s) : q[z + i] = s[i]
  BY DEF Zeros
<1> HIDE DEF q
<1>2. PICK h : Sums(h, s, r) /\ Reads(s, r) = h[Len(s)]
  BY ReadsSums
<1>3. PICK k : Sums(k, q, r) /\ Reads(q, r) = k[Len(q)]
  BY <1>1, ReadsSums
<1>4. \A m \in 0 .. z : m \in {n \in 0 .. z : k[n] = 0}
  <2> DEFINE T == {n \in 0 .. z : k[n] = 0}
  <2>1. 0 \in T
    BY <1>3 DEF Sums
  <2>2. ASSUME NEW m \in 0 .. z - 1, m \in T PROVE m + 1 \in T
    <3>1. m + 1 \in 1 .. Len(q) /\ m + 1 - 1 = m /\ m + 1 \in 1 .. z
      BY <1>1
    <3>2. k[m + 1] = r * k[m] + q[m + 1]
      BY <1>3, <3>1 DEF Sums
    <3>3. r * 0 = 0
      BY DEF Radices
    <3> QED
      BY <1>1, <2>2, <3>1, <3>2, <3>3
  <2> HIDE DEF T
  <2> QED
    BY <2>1, <2>2, BoundedInduction DEF T
<1>5. \A m \in 0 .. Len(s) : m \in {n \in 0 .. Len(s) : k[z + n] = h[n]}
  <2> DEFINE T == {n \in 0 .. Len(s) : k[z + n] = h[n]}
  <2>1. 0 \in T
    BY <1>1, <1>2, <1>4 DEF Sums
  <2>2. ASSUME NEW m \in 0 .. Len(s) - 1, m \in T PROVE m + 1 \in T
    <3>1. /\ z + m + 1 \in 1 .. Len(q) /\ z + m + 1 - 1 = z + m
          /\ m + 1 \in 1 .. Len(s) /\ m + 1 - 1 = m
      BY <1>1
    <3>2. k[z + m + 1] = r * k[z + m] + q[z + m + 1]
      BY <1>3, <3>1 DEF Sums
    <3>3. h[m + 1] = r * h[m] + s[m + 1]
      BY <1>2, <3>1 DEF Sums
    <3>4. z + (m + 1) = z + m + 1
      OBVIOUS
    <3> QED
      BY <1>1, <2>2, <3>1, <3>2, <3>3, <3>4
  <2> HIDE DEF T
  <2> QED
    BY <1>1, <2>1, <2>2, BoundedInduction DEF T
<1> QED
  BY <1>1, <1>2, <1>3, <1>5 DEF q

(* The digits of a number, the highest first.                              *)
LEMMA Reversed ==
    ASSUME NEW s \in Seq(Nat)
    PROVE  /\ strrev(s) \in Seq(Nat) /\ Len(strrev(s)) = Len(s)
           /\ s # <<>> => strrev(s)[1] = s[Len(s)]
BY DEF strrev

LEMMA ReversedLonger ==
    ASSUME NEW s \in Seq(Nat), NEW x \in Nat
    PROVE  strrev(<<x>> \o s) = Append(strrev(s), x)
BY Reversed DEF strrev

LEMMA DigitsRead ==
    ASSUME NEW v \in Nat, NEW r \in Radices, NEW g, Found(g, v, r)
    PROVE  \A n \in 0 .. v : Reads(strrev(g[n]), r) = n
<1> DEFINE Value(m) == Reads(strrev(g[m]), r)
           T == {m \in 0 .. v : Value(m) = m}
<1>1. \A m \in 0 .. v : g[m] \in Seq(Nat)
  BY DEF Found
<1>2. ASSUME NEW m \in 0 .. v, \A k \in 0 .. m - 1 : k \in T PROVE Value(m) = m
  <2>1. CASE m = 0
    <3>1. g[0] = <<>> /\ strrev(<<>>) = <<>>
      BY DEF Found, strrev
    <3>2. <<>> \in Seq(Nat) /\ Len(<<>>) = 0
      OBVIOUS
    <3>3. PICK h : Sums(h, <<>>, r) /\ Reads(<<>>, r) = h[Len(<<>>)]
      BY <3>2, ReadsSums
    <3> QED
      BY <2>1, <3>1, <3>2, <3>3 DEF Sums
  <2>2. CASE m > 0
    <3> DEFINE k == Quotient(m, r)
    <3>1. m \in Nat /\ m \in 1 .. v
      BY <2>2
    <3>2. k \in 0 .. m - 1 /\ Remainder(m, r) \in Nat /\ m = r * k + Remainder(m, r)
      BY <2>2, <3>1, Quotients
    <3>3. g[m] = <<Remainder(m, r)>> \o g[k]
      BY <3>1 DEF Found
    <3> HIDE DEF k
    <3>4. g[k] \in Seq(Nat)
      BY <1>1, <3>2
    <3>5. strrev(g[m]) = Append(strrev(g[k]), Remainder(m, r)) /\ strrev(g[k]) \in Seq(Nat)
      BY <3>2, <3>3, <3>4, Reversed, ReversedLonger
    <3>6. Reads(strrev(g[m]), r) = r * Reads(strrev(g[k]), r) + Remainder(m, r)
      BY <3>2, <3>5, ReadsAppend
    <3>7. Reads(strrev(g[k]), r) = k
      BY <1>2, <3>2
    <3> QED
      BY <3>2, <3>6, <3>7
  <2> QED
    BY <2>1, <2>2
<1> HIDE DEF Value
<1>3. \A m \in 0 .. v : m \in T
  <2>1. \A m \in 0 .. v : (\A k \in 0 .. m - 1 : k \in T) => m \in T
    BY <1>2
  <2> HIDE DEF T
  <2> QED
    BY <2>1, StrongInduction
<1> QED
  BY <1>3 DEF Value

(* The highest digit is not 0.                                             *)
LEMMA HighestDigit ==
    ASSUME NEW v \in Nat, NEW r \in Radices, NEW g, Found(g, v, r)
    PROVE  \A n \in 1 .. v : g[n] # <<>> /\ g[n][Len(g[n])] # 0
<1> DEFINE Good(m) == g[m] # <<>> /\ g[m][Len(g[m])] # 0
           T == {m \in 0 .. v : m # 0 => Good(m)}
<1>1. \A m \in 0 .. v : g[m] \in Seq(Nat)
  BY DEF Found
<1>2. ASSUME NEW m \in 0 .. v, \A k \in 0 .. m - 1 : k \in T, m # 0 PROVE Good(m)
  <2> DEFINE k == Quotient(m, r)
             x == Remainder(m, r)
  <2>1. m \in Nat /\ m > 0 /\ m \in 1 .. v
    BY <1>2
  <2>2. k \in 0 .. m - 1 /\ x \in Nat /\ (k = 0 => x # 0)
    BY <2>1, Quotients
  <2>3. g[m] = <<x>> \o g[k] /\ g[0] = <<>>
    BY <2>1 DEF Found
  <2> HIDE DEF k, x
  <2>4. g[k] \in Seq(Nat)
    BY <1>1, <2>2
  <2>5. CASE k = 0
    BY <2>2, <2>3, <2>5
  <2>6. CASE k # 0
    <3>1. g[k] # <<>> /\ g[k][Len(g[k])] # 0
      BY <1>2, <2>2, <2>6
    <3>2. Len(g[m]) = 1 + Len(g[k]) /\ g[m][1 + Len(g[k])] = g[k][Len(g[k])]
      BY <2>2, <2>3, <2>4, <3>1
    <3> QED
      BY <2>4, <3>1, <3>2
  <2> QED
    BY <2>5, <2>6
<1> HIDE DEF Good
<1>3. \A m \in 0 .. v : m \in T
  <2>1. \A m \in 0 .. v : (\A k \in 0 .. m - 1 : k \in T) => m \in T
    BY <1>2
  <2> HIDE DEF T
  <2> QED
    BY <2>1, StrongInduction
<1> QED
  BY <1>3 DEF Good

(* The powers of 16 WORD is the last of.                                   *)
Powers(p) == /\ p \in [0 .. HEX_DIGITS -> Nat]
             /\ p[0] = 1
             /\ \A k \in 1 .. HEX_DIGITS : p[k] = 16 * p[k - 1]

LEMMA WordPower == \E p : Powers(p) /\ WORD = p[HEX_DIGITS]
<1> DEFINE N == HEX_DIGITS
           step == [q \in Nat \X (1 .. N) |-> 16 * q[1]]
           Upto(f) == f = [n \in 0 .. N |-> IF n = 0 THEN 1 ELSE 16 * f[n - 1]]
           h == CHOOSE f : Upto(f)
<1>1. N \in Nat /\ 1 \in Nat
  BY StringsAssumption
<1>2. step \in [Nat \X (1 .. N) -> Nat]
  OBVIOUS
<1>3. \A x \in Nat, n \in 1 .. N : step[<<x, n>>] = 16 * x
  OBVIOUS
<1>4. WORD = h[N]
  BY Zenon DEF WORD
<1> HIDE DEF N, step
<1>5. PICK g \in [0 .. N -> Nat] : Primitive(g, 1, N, step)
  BY <1>1, <1>2, PrimitiveRecursion, Zenon
<1>6. ASSUME NEW n \in 1 .. N PROVE g[n] = 16 * g[n - 1]
  <2>1. n - 1 \in 0 .. N
    BY <1>1
  <2> QED
    BY <1>3, <1>5, <2>1 DEF Primitive
<1>7. Upto(g)
  BY <1>5, <1>6 DEF Primitive
<1>8. Upto(h)
  BY <1>7
<1> HIDE DEF h
<1>9. h[0] = 1 /\ \A n \in 1 .. N : h[n] = 16 * h[n - 1]
  BY <1>1, <1>8
<1>10. \A n \in 0 .. N : n \in {m \in 0 .. N : h[m] \in Nat}
  <2> DEFINE T == {m \in 0 .. N : h[m] \in Nat}
  <2>1. 0 \in T
    BY <1>1, <1>9
  <2>2. ASSUME NEW n \in 0 .. N - 1, n \in T PROVE n + 1 \in T
    <3>1. n + 1 \in 1 .. N /\ n + 1 - 1 = n /\ n + 1 \in 0 .. N
      BY <1>1
    <3>2. h[n + 1] = 16 * h[n]
      BY <1>9, <3>1
    <3> QED
      BY <2>2, <3>1, <3>2
  <2> HIDE DEF T
  <2> QED
    BY <1>1, <2>1, <2>2, BoundedInduction DEF T
<1>11. h \in [0 .. N -> Nat]
  BY <1>8, <1>10
<1> QED
  BY <1>4, <1>9, <1>11 DEF Powers, N

(* A word has no more hexadecimal digits than HEX_DIGITS.                  *)
LEMMA DigitsFit ==
    ASSUME NEW p, Powers(p), NEW v \in Nat, NEW g, Found(g, v, 16)
    PROVE  \A n \in 0 .. v : \A k \in 0 .. HEX_DIGITS : n < p[k] => Len(g[n]) <= k
<1> DEFINE Fits(m) == \A k \in 0 .. HEX_DIGITS : m < p[k] => Len(g[m]) <= k
           T == {m \in 0 .. v : Fits(m)}
<1>1. \A m \in 0 .. v : g[m] \in Seq(Nat)
  BY DEF Found
<1>2. ASSUME NEW m \in 0 .. v, \A j \in 0 .. m - 1 : j \in T PROVE Fits(m)
  <2> SUFFICES ASSUME NEW k \in 0 .. HEX_DIGITS, m < p[k] PROVE Len(g[m]) <= k
    OBVIOUS
  <2>1. CASE m = 0
    BY <2>1 DEF Found
  <2>2. CASE m # 0
    <3> DEFINE j == Quotient(m, 16)
               x == Remainder(m, 16)
    <3>1. m \in Nat /\ m > 0 /\ m \in 1 .. v /\ 16 \in Radices
      BY <2>2 DEF Radices
    <3>2. j \in 0 .. m - 1 /\ x \in Nat /\ m = 16 * j + x
      BY <3>1, Quotients
    <3>3. g[m] = <<x>> \o g[j]
      BY <3>1 DEF Found
    <3> HIDE DEF j, x
    <3>4. k # 0
      BY <3>1 DEF Powers
    <3>5. p[k] = 16 * p[k - 1] /\ k - 1 \in 0 .. HEX_DIGITS /\ p[k - 1] \in Nat
      BY <3>4, StringsAssumption DEF Powers
    <3>6. j < p[k - 1]
      BY <3>2, <3>5
    <3>7. Len(g[j]) <= k - 1
      BY <1>2, <3>2, <3>5, <3>6
    <3>8. g[j] \in Seq(Nat)
      BY <1>1, <3>2
    <3> QED
      BY <3>2, <3>3, <3>7, <3>8
  <2> QED
    BY <2>1, <2>2
<1> HIDE DEF Fits
<1>3. \A m \in 0 .. v : m \in T
  <2>1. \A m \in 0 .. v : (\A k \in 0 .. m - 1 : k \in T) => m \in T
    BY <1>2
  <2> HIDE DEF T
  <2> QED
    BY <2>1, StrongInduction
<1> QED
  BY <1>3 DEF Fits

(* itoa gives the digits of its value, without a 0 in front.               *)
LEMMA ItoaReads ==
    ASSUME NEW w \in Nat, NEW r \in Radices
    PROVE  /\ itoa(w, r) \in Seq(Nat) /\ Reads(itoa(w, r), r) = w
           /\ itoa(w, r)[1] = 0 => w = 0
<1>1. CASE w = 0
  <2>1. itoa(w, r) = <<0>>
    BY <1>1 DEF itoa
  <2>2. <<0>> \in Seq(Nat) /\ Len(<<0>>) = 1 /\ <<0>>[1] = 0
    OBVIOUS
  <2>3. PICK h : Sums(h, <<0>>, r) /\ Reads(<<0>>, r) = h[Len(<<0>>)]
    BY <2>2, ReadsSums
  <2>4. h[0] = 0 /\ h[1] = r * h[1 - 1] + 0
    BY <2>2, <2>3 DEF Sums
  <2>5. r * 0 = 0 /\ 1 - 1 = 0
    BY DEF Radices
  <2>6. Reads(<<0>>, r) = 0
    BY <2>2, <2>3, <2>4, <2>5
  <2> QED
    BY <1>1, <2>1, <2>2, <2>6
<1>2. CASE w # 0
  <2>1. PICK g : Found(g, w, r) /\ LowFirst(w, r) = g[w]
    BY LowFirstFound
  <2>2. itoa(w, r) = strrev(g[w])
    BY <1>2, <2>1 DEF itoa
  <2>3. g[w] \in Seq(Nat) /\ w \in 0 .. w /\ w \in 1 .. w
    BY <1>2, <2>1 DEF Found
  <2>4. strrev(g[w]) \in Seq(Nat) /\ strrev(g[w])[1] # 0
    <3>1. g[w] # <<>> /\ g[w][Len(g[w])] # 0
      BY <2>1, <2>3, HighestDigit
    <3> QED
      BY <2>3, <3>1, Reversed
  <2>5. Reads(strrev(g[w]), r) = w
    BY <2>1, <2>3, DigitsRead
  <2> QED
    BY <2>2, <2>4, <2>5
<1> QED
  BY <1>1, <1>2

(* What the buffer of printf holds from the number of digits on.           *)
LEMMA PaddedFills ==
    ASSUME NEW d \in Seq(Nat), Len(d) \in 0 .. HEX_DIGITS
    PROVE  Padded(d) = Zeros(HEX_DIGITS - Len(d)) \o d
<1> DEFINE n == Len(d)
           N == HEX_DIGITS
           s == Zeros(N - n) \o d
           buf == Filled(d)
<1>1. n \in Nat /\ N \in Nat /\ n <= N
  BY StringsAssumption
<1>2. Padded(d) = [k \in 1 .. N |-> buf[n + k - 1]]
  BY DEF Padded
<1>3. /\ Zeros(N - n) \in Seq(Nat) /\ Len(Zeros(N - n)) = N - n
      /\ \A k \in 1 .. N - n : Zeros(N - n)[k] = 0
  BY <1>1 DEF Zeros
<1>4. \A i \in n .. N + n - 1 : buf[i] = IF i < N THEN 0 ELSE d[i - N + 1]
  BY DEF Filled
<1> HIDE DEF N, buf
<1>5. s \in Seq(Nat) /\ Len(s) = N
  BY <1>1, <1>3
<1>6. ASSUME NEW k \in 1 .. N PROVE buf[n + k - 1] = s[k]
  <2>1. n + k - 1 \in n .. N + n - 1
    BY <1>1
  <2>2. CASE k <= N - n
    <3>1. n + k - 1 < N /\ k \in 1 .. N - n
      BY <1>1, <2>2
    <3>2. s[k] = 0
      BY <1>3, <3>1
    <3>3. buf[n + k - 1] = 0
      BY <1>4, <2>1, <3>1
    <3> QED
      BY <3>2, <3>3
  <2>3. CASE k > N - n
    <3>1. ~(n + k - 1 < N) /\ n + k - 1 - N + 1 = k - (N - n) /\ k - (N - n) \in 1 .. n
      BY <1>1, <2>3
    <3>2. s[k] = d[k - (N - n)]
      BY <1>1, <1>3, <2>3
    <3>3. PICK i \in n .. N + n - 1 : i = n + k - 1
      BY <2>1
    <3>4. ~(i < N) /\ i - N + 1 = k - (N - n)
      BY <1>1, <2>3, <3>3
    <3>5. buf[i] = d[i - N + 1]
      BY <1>4, <3>3, <3>4, Zenon
    <3> QED
      BY <3>2, <3>3, <3>4, <3>5
  <2>4. k <= N - n \/ k > N - n
    BY <1>1
  <2> HIDE DEF s
  <2> QED
    BY <2>2, <2>3, <2>4
<1>7. s = [k \in 1 .. N |-> s[k]]
  BY <1>5
<1> QED
  BY <1>2, <1>6, <1>7 DEF N

LEMMA ItoaFits ==
    ASSUME NEW w \in Words
    PROVE  Len(itoa(w, 16)) \in 0 .. HEX_DIGITS
<1>1. PICK p : Powers(p) /\ WORD = p[HEX_DIGITS]
  BY WordPower
<1>2. HEX_DIGITS \in Nat \ {0} /\ WORD \in Nat
  BY <1>1, StringsAssumption DEF Powers
<1>3. w \in Nat /\ w < WORD /\ 16 \in Radices
  BY <1>2 DEF Words, Radices
<1>4. itoa(w, 16) \in Seq(Nat)
  BY <1>3, ItoaReads
<1>5. CASE w = 0
  BY <1>2, <1>5 DEF itoa
<1>6. CASE w # 0
  <2>1. PICK g : Found(g, w, 16) /\ LowFirst(w, 16) = g[w]
    BY <1>3, LowFirstFound
  <2>2. itoa(w, 16) = strrev(g[w])
    BY <1>6, <2>1 DEF itoa
  <2>3. g[w] \in Seq(Nat) /\ w \in 0 .. w /\ HEX_DIGITS \in 0 .. HEX_DIGITS
    BY <1>2, <1>3, <2>1 DEF Found
  <2>4. Len(g[w]) <= HEX_DIGITS
    BY <1>1, <1>3, <2>1, <2>3, DigitsFit
  <2>5. Len(strrev(g[w])) = Len(g[w])
    BY <2>3, Reversed
  <2> QED
    BY <1>2, <2>2, <2>3, <2>4, <2>5
<1> QED
  BY <1>5, <1>6

(* WORD is even, and not 0.                                                *)
LEMMA WordEven == WORD \in Nat /\ WORD > 0 /\ WORD \div 2 \in Nat /\ WORD \div 2 > 0
<1>1. PICK p : Powers(p) /\ WORD = p[HEX_DIGITS]
  BY WordPower
<1>2. HEX_DIGITS \in 1 .. HEX_DIGITS /\ HEX_DIGITS - 1 \in 0 .. HEX_DIGITS
  BY StringsAssumption
<1>3. p[HEX_DIGITS - 1] \in Nat /\ WORD = 16 * p[HEX_DIGITS - 1]
  BY <1>1, <1>2 DEF Powers
<1> DEFINE T == {m \in 0 .. HEX_DIGITS : p[m] > 0}
<1>4. \A m \in 0 .. HEX_DIGITS : m \in T
  <2>1. 0 \in T
    BY <1>1, StringsAssumption DEF Powers
  <2>2. ASSUME NEW m \in 0 .. HEX_DIGITS - 1, m \in T PROVE m + 1 \in T
    <3>1. m + 1 \in 1 .. HEX_DIGITS /\ m + 1 - 1 = m /\ m \in 0 .. HEX_DIGITS
      BY StringsAssumption
    <3>2. p[m + 1] = 16 * p[m] /\ p[m] \in Nat
      BY <1>1, <3>1 DEF Powers
    <3> QED
      BY <2>2, <3>1, <3>2
  <2> HIDE DEF T
  <2> QED
    BY <2>1, <2>2, StringsAssumption, BoundedInduction
<1>5. p[HEX_DIGITS - 1] > 0
  BY <1>2, <1>4
<1> HIDE DEF T
<1>6. \A x \in Nat : x > 0 => (16 * x) \div 2 = 8 * x
  OBVIOUS
<1> QED
  BY <1>3, <1>5, <1>6

(* What was printed last is what printf gives.                             *)
PrintedOK == printed = Quiet \/ \E c \in Conversions, w \in Words :
                printed = [conversion |-> c, word |-> w, text |-> printf(c, w)]

LEMMA PrintedAlways == Spec => []PrintedOK
<1>1. Init => PrintedOK
  BY DEF Init, PrintedOK
<1>2. PrintedOK /\ [Next]_allVars => PrintedOK'
  <2> SUFFICES ASSUME PrintedOK, [Next]_allVars PROVE PrintedOK'
    OBVIOUS
  <2>1. CASE \E c \in Conversions, w \in Words : Report(c, w)
    BY <2>1 DEF Report, PrintedOK
  <2>2. CASE Modules
    BY <2>2 DEF Modules, PrintedOK
  <2>3. CASE UNCHANGED printed
    BY <2>3 DEF PrintedOK
  <2>4. CASE Entry_ /\ ~Modules
    BY <2>3, <2>4 DEF Entry_, BadMagic, Magic, InitIdt, I8259Init, InitPaging, InitRtc, InitKeyboard,
       InitFs, InitScheduler, BootSti, bootVars
  <2> QED
    BY <2>1, <2>2, <2>3, <2>4 DEF Next, bootVars, allVars
<1> QED
  BY <1>1, <1>2, PTL DEF Spec

(* A word and its text, in the four conversions.                           *)
Radix(c) == IF c \in {"%x", "%#x"} THEN 16 ELSE 10
DigitsOK(c, w, digits) ==
    IF c = "%#x" THEN Len(digits) = HEX_DIGITS ELSE digits[1] = 0 => w = 0
ReadsAs(c, w, text) ==
    /\ w = IF text.minus THEN WORD - Reads(text.digits, Radix(c)) ELSE Reads(text.digits, Radix(c))
    /\ text.minus <=> c = "%d" /\ w >= WORD \div 2
    /\ DigitsOK(c, w, text.digits)

LEMMA WithoutSign ==
    ASSUME NEW c, NEW w \in Nat, NEW digits,
           Reads(digits, Radix(c)) = w,
           ~(c = "%d" /\ w >= WORD \div 2), DigitsOK(c, w, digits)
    PROVE  ReadsAs(c, w, Text(FALSE, digits))
<1>1. Text(FALSE, digits).minus = FALSE /\ Text(FALSE, digits).digits = digits
  BY DEF Text
<1> QED
  BY <1>1, Zenon DEF ReadsAs

LEMMA WithSign ==
    ASSUME NEW c, NEW w \in Nat, NEW digits,
           w = WORD - Reads(digits, Radix(c)),
           c = "%d" /\ w >= WORD \div 2, DigitsOK(c, w, digits)
    PROVE  ReadsAs(c, w, Text(TRUE, digits))
<1>1. Text(TRUE, digits).minus = TRUE /\ Text(TRUE, digits).digits = digits
  BY DEF Text
<1> QED
  BY <1>1, Zenon DEF ReadsAs

LEMMA PrintfReads ==
    ASSUME NEW c \in Conversions, NEW w \in Words
    PROVE  ReadsAs(c, w, printf(c, w))
<1>1. w \in Nat /\ w < WORD /\ WORD \in Nat /\ 16 \in Radices /\ 10 \in Radices
  BY WordEven DEF Words, Radices
<1>2. CASE c = "%x"
  <2>1. printf(c, w) = Text(FALSE, itoa(w, 16)) /\ Radix(c) = 16
    BY <1>2 DEF printf, Radix
  <2>2. Reads(itoa(w, 16), 16) = w /\ (itoa(w, 16)[1] = 0 => w = 0)
    BY <1>1, ItoaReads
  <2>3. ~(c = "%d" /\ w >= WORD \div 2) /\ DigitsOK(c, w, itoa(w, 16))
    BY <1>2, <2>2 DEF DigitsOK
  <2> QED
    BY <1>1, <2>1, <2>2, <2>3, WithoutSign
<1>3. CASE c = "%#x"
  <2> DEFINE z == HEX_DIGITS - Len(itoa(w, 16))
  <2>0. itoa(w, 16) \in Seq(Nat) /\ Len(itoa(w, 16)) \in 0 .. HEX_DIGITS
    BY <1>1, ItoaReads, ItoaFits DEF Radices
  <2>1. printf(c, w) = Text(FALSE, Zeros(z) \o itoa(w, 16)) /\ Radix(c) = 16
    <3>1. printf(c, w) = Text(FALSE, Padded(itoa(w, 16)))
      BY <1>3 DEF printf
    <3> QED
      BY <1>3, <2>0, <3>1, PaddedFills DEF Radix
  <2>2. Reads(itoa(w, 16), 16) = w /\ itoa(w, 16) \in Seq(Nat)
    BY <1>1, ItoaReads
  <2>3. z \in Nat /\ z + Len(itoa(w, 16)) = HEX_DIGITS
    BY <2>2, ItoaFits, StringsAssumption
  <2> HIDE DEF z
  <2>4. Zeros(z) \in Seq(Nat) /\ Len(Zeros(z)) = z
    BY <2>3 DEF Zeros
  <2>5. Len(Zeros(z) \o itoa(w, 16)) = HEX_DIGITS
    BY <2>2, <2>3, <2>4
  <2>6. Reads(Zeros(z) \o itoa(w, 16), 16) = w
    BY <1>1, <2>2, <2>3, ReadsZeros
  <2>7. ~(c = "%d" /\ w >= WORD \div 2) /\ DigitsOK(c, w, Zeros(z) \o itoa(w, 16))
    BY <1>3, <2>5 DEF DigitsOK
  <2> QED
    BY <1>1, <2>1, <2>6, <2>7, WithoutSign
<1>4. CASE c = "%u" \/ (c = "%d" /\ w < WORD \div 2)
  <2>1. printf(c, w) = Text(FALSE, itoa(w, 10)) /\ Radix(c) = 10
    <3>1. CASE c = "%u"
      BY <3>1 DEF printf, Radix
    <3>2. CASE c = "%d" /\ w < WORD \div 2
      <4>1. ~(w >= WORD \div 2)
        BY <1>1, <3>2, WordEven
      <4> QED
        BY <3>2, <4>1 DEF printf, Radix
    <3> QED
      BY <1>4, <3>1, <3>2
  <2>2. Reads(itoa(w, 10), 10) = w /\ (itoa(w, 10)[1] = 0 => w = 0)
    BY <1>1, ItoaReads
  <2>3. ~(c = "%d" /\ w >= WORD \div 2) /\ c # "%#x"
    BY <1>1, <1>4, WordEven
  <2>4. DigitsOK(c, w, itoa(w, 10))
    BY <2>2, <2>3 DEF DigitsOK
  <2> QED
    BY <1>1, <2>1, <2>2, <2>3, <2>4, WithoutSign
<1>5. CASE c = "%d" /\ w >= WORD \div 2
  <2> DEFINE n == (WORD - w) % WORD
  <2>1. printf(c, w) = Text(TRUE, itoa(n, 10)) /\ Radix(c) = 10
    <3>1. ~(w < WORD \div 2)
      BY <1>1, <1>5, WordEven
    <3> QED
      BY <1>5, <3>1 DEF printf, Radix
  <2>2. n = WORD - w /\ n \in Nat /\ n # 0
    <3>1. WORD - w \in 1 .. WORD - 1
      BY <1>1, <1>5, WordEven
    <3>2. \A m \in Nat \ {0} : \A k \in 1 .. m - 1 : k % m = k
      OBVIOUS
    <3> QED
      BY <1>1, <3>1, <3>2, WordEven
  <2> HIDE DEF n
  <2>3. Reads(itoa(n, 10), 10) = n /\ itoa(n, 10)[1] # 0
    BY <1>1, <2>2, ItoaReads
  <2>4. w = WORD - n
    BY <1>1, <2>2
  <2>5. DigitsOK(c, w, itoa(n, 10))
    BY <1>5, <2>3 DEF DigitsOK
  <2> QED
    BY <1>1, <1>5, <2>1, <2>3, <2>4, <2>5, WithSign
<1> QED
  <2>1. w < WORD \div 2 \/ w >= WORD \div 2
    BY <1>1, WordEven
  <2> QED
    BY <1>2, <1>3, <1>4, <1>5, <2>1 DEF Conversions

(* What the loader's report prints reads as the number it was printed      *)
(* from, whatever the word and its width (itoa, strrev and printf, lib.c). *)
THEOREM PrintsRight == Spec => []PrintsValues
<1>1. PrintedOK => PrintsValues
  <2> SUFFICES ASSUME NEW c \in Conversions, NEW w \in Words,
                      printed = [conversion |-> c, word |-> w, text |-> printf(c, w)]
               PROVE  PrintsValues
    BY DEF PrintedOK, PrintsValues
  <2>1. printed.conversion = c /\ printed.word = w /\ printed.text = printf(c, w)
    OBVIOUS
  <2> QED
    BY <2>1, PrintfReads DEF PrintsValues, ReadsAs, DigitsOK, Radix
<1> QED
  BY <1>1, PrintedAlways, PTL
=============================================================================
