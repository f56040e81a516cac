----------------------- MODULE ProcessControl_proofs -----------------------
(***************************************************************************)
(* Proofs about ProcessControl, for any NUM_TERMINAL and PCB_SIZE: its     *)
(* types, the inductive invariant IInv, and the properties that follow.    *)
(* Each action has a lemma: from a coherent state in which no hazard has   *)
(* happened it leads to a coherent state.                                  *)
(***************************************************************************)
EXTENDS ProcessControl, TLAPS

(* The round robin's arithmetic.                                           *)
LEMMA NextTerminalCycles ==
    ASSUME exec_terminal \in Terminals \cup {NoTerminal}
    PROVE  NextTerminal = IF exec_terminal = NUM_TERMINAL - 1 THEN 0 ELSE exec_terminal + 1
BY SizesAssumption, SMT DEF NextTerminal, Terminals, NoTerminal

(* sched_handler never schedules a terminal that does not exist.           *)
LEMMA NextTerminalType ==
    ASSUME exec_terminal \in Terminals \cup {NoTerminal}
    PROVE  NextTerminal \in Terminals
BY SizesAssumption, NextTerminalCycles DEF Terminals, NoTerminal

TypeInv == TypeOK /\ LocalsOK

USE DEF NoPid, NoTerminal, NoFlow, Current, Lost, BootFlow, Crashed

(* The machine boots with the types of TypeOK.                             *)
LEMMA TypeInit == Init => TypeInv
BY SizesAssumption DEF Init, TypeInv, TypeOK, LocalsOK, Terminals, Pids, Labels,
   ExecLabels, HaltLabels, Hazards

(* Recording a hazard leaves a set of hazards.                             *)
LEMMA RecordType ==
    ASSUME hazards \subseteq Hazards, NEW h \in Hazards, NEW c \in BOOLEAN, Record(h, c)
    PROVE  hazards' \subseteq Hazards
BY DEF Record

(* A failed load records a hazard and nothing else.                        *)
LEMMA LoadHazards ==
    ASSUME NEW t \in Terminals, hazards \subseteq Hazards, ExecLoad(t)
    PROVE  hazards' \subseteq Hazards
<1>1. "load_failed" \in Hazards
  BY DEF Hazards
<1>2. CASE Record("load_failed", TRUE)
  BY <1>1, <1>2, RecordType
<1>3. CASE UNCHANGED hazards
  BY <1>3
<1> QED
  BY <1>2, <1>3 DEF ExecLoad

(* No step, whatever hazards happened, leaves the types.                   *)
LEMMA TypeStep == TypeInv /\ [Next]_vars => TypeInv'
<1> SUFFICES ASSUME TypeInv, [Next]_vars PROVE TypeInv'
  OBVIOUS
<1> USE DEF TypeInv, TypeOK, LocalsOK, Labels, ExecLabels, HaltLabels, Hazards,
        pcbVars, tmnlVars, cpuVars, localVars, flowVars
<1>1. ASSUME NEW t \in Terminals, ExecCall(t) PROVE TypeInv'
  BY <1>1 DEF ExecCall, SystemCall, At, Goto, Entered, FramesAfterEntry, CtxAfterEntry
<1>2. ASSUME NEW t \in Terminals, HaltCall(t) PROVE TypeInv'
  BY <1>2 DEF HaltCall, SystemCall, At, Goto, Entered, FramesAfterEntry, CtxAfterEntry
<1>3. ASSUME NEW t \in Terminals, Fault(t) PROVE TypeInv'
  BY <1>3 DEF Fault, At, Returnable, FramesAfterEntry, CtxAfterEntry
<1>4. ASSUME NEW t \in Terminals, FaultBase(t) \/ FaultCrash(t) PROVE TypeInv'
  <2>1. CASE FaultBase(t)
    <3>1. hazards' \subseteq Hazards
      BY <2>1, RecordType DEF FaultBase
    <3> QED
      BY <2>1, <3>1 DEF FaultBase, Terminals
  <2>2. CASE FaultCrash(t)
    BY <2>2 DEF FaultCrash, Terminals
  <2> QED
    BY <1>4, <2>1, <2>2
<1>5. ASSUME NEW t \in Terminals, ExecReject(t) PROVE TypeInv'
  BY <1>5 DEF ExecReject, At, ToUser, Goto
<1>6. ASSUME NEW t \in Terminals, ExecParent(t) PROVE TypeInv'
  BY <1>6, SizesAssumption DEF ExecParent, At, Goto, Record, Pids
<1>7. ASSUME NEW t \in Terminals, ExecScan(t) PROVE TypeInv'
  BY <1>7 DEF ExecScan, At, ToUser, Goto
<1>8. ASSUME NEW t \in Terminals, ExecInsert(t) PROVE TypeInv'
  BY <1>8 DEF ExecInsert, At, Goto
<1>9. ASSUME NEW t \in Terminals, ExecActive(t) PROVE TypeInv'
  <2>1. CASE UNCHANGED hazards
    BY <1>9, <2>1 DEF ExecActive, At, Goto
  <2>2. CASE Record("background_exec", active_terminal # exec_terminal)
    <3>1. hazards' \subseteq Hazards
      BY <2>2, RecordType
    <3>2. pid[t] \in Terminals \/ UNCHANGED <<parent, exec_terminal>>
      BY <1>9 DEF ExecActive
    <3> QED
      BY <1>9, <3>1, <3>2 DEF ExecActive, At, Goto
  <2> QED
    BY <1>9, <2>1, <2>2 DEF ExecActive
<1>10. ASSUME NEW t \in Terminals, ExecPage(t) PROVE TypeInv'
  BY <1>10 DEF ExecPage, At, Goto
<1>11. ASSUME NEW t \in Terminals, ExecLoad(t) PROVE TypeInv'
  <2>1. hazards' \subseteq Hazards
    BY <1>11, LoadHazards
  <2>2. CASE Goto(t, "exec_frame") /\ UNCHANGED <<kstack, localVars, hazards>>
    BY <1>11, <2>1, <2>2 DEF ExecLoad, At, Goto
  <2>3. CASE ToUser(t)
    BY <1>11, <2>1, <2>3 DEF ExecLoad, At, ToUser, Goto
  <2> QED
    BY <1>11, <2>2, <2>3 DEF ExecLoad
<1>12. ASSUME NEW t \in Terminals, ExecFrame(t) PROVE TypeInv'
  BY <1>12 DEF ExecFrame, At, Goto
<1>13. ASSUME NEW t \in Terminals, ExecTss(t) PROVE TypeInv'
  BY <1>13 DEF ExecTss, At, Goto
<1>14. ASSUME NEW t \in Terminals, ExecIret(t) PROVE TypeInv'
  BY <1>14 DEF ExecIret, At, ToUser, Goto
<1>15. ASSUME NEW t \in Terminals, HaltBase(t) PROVE TypeInv'
  BY <1>15 DEF HaltBase, At, ToUser, Goto
<1>16. ASSUME NEW t \in Terminals, HaltRead(t) PROVE TypeInv'
  BY <1>16 DEF HaltRead, At, Goto
<1>17. ASSUME NEW t \in Terminals, HaltActive(t) PROVE TypeInv'
  BY <1>17 DEF HaltActive, At, Goto
<1>18. ASSUME NEW t \in Terminals, HaltEnd(t) PROVE TypeInv'
  BY <1>18 DEF HaltEnd, At, Goto
<1>19. ASSUME NEW t \in Terminals, HaltPage(t) PROVE TypeInv'
  BY <1>19 DEF HaltPage, At, Goto
<1>20. ASSUME NEW t \in Terminals, HaltTss(t) PROVE TypeInv'
  BY <1>20 DEF HaltTss, At, Goto
<1>21. ASSUME NEW t \in Terminals, HaltJump(t) PROVE TypeInv'
  BY <1>21 DEF HaltJump, At, ToUser, Goto, Returnable
<1>22. ASSUME NEW t \in Terminals, HaltCrash(t) PROVE TypeInv'
  BY <1>22 DEF HaltCrash, Terminals
<1>23. ASSUME NEW n \in Terminals, SwitchTerminal(n) PROVE TypeInv'
  BY <1>23 DEF SwitchTerminal
<1>24. ASSUME TickResume PROVE TypeInv'
  BY <1>24, NextTerminalType DEF TickResume, SetTss, Resumable, CanSave, PrevSpAfterSave,
     CtxAfterSave, StackAfterSave, FramesAfterSave, Entered, FramesAfterEntry, CtxAfterEntry
<1>25. ASSUME TickBoot PROVE TypeInv'
  <2>1. NextTerminal \in Terminals /\ Shown \in Terminals /\ CanSave
    BY <1>25, NextTerminalType, SizesAssumption DEF TickBoot, Terminals, Shown
  <2>2. /\ PrevSpAfterSave \in [Pids -> Terminals \cup {NoFlow}]
        /\ StackAfterSave \in [Terminals -> Pids \cup {NoPid}]
        /\ FramesAfterSave \in [Pids -> Pids \cup {NoPid}]
        /\ CtxAfterSave \in [Terminals -> Pids \cup {Current, Lost}]
    BY <2>1 DEF PrevSpAfterSave, StackAfterSave, FramesAfterSave, CtxAfterSave, CanSave,
       Entered, FramesAfterEntry, CtxAfterEntry
  <2>3. PICK i \in Pids : BootInto(i, NextTerminal)
    BY <1>25 DEF TickBoot
  <2>4. 0 \in Pids /\ hazards' \subseteq Hazards
    BY <2>3, SizesAssumption DEF Pids, BootInto, Record
  <2>5. LocalsOK'
    BY <1>25, <2>1, <2>2, <2>3 DEF TickBoot, BootInto, Goto, Terminals
  <2>6. TypeOK'
    <3>1. /\ present' \subseteq Pids
          /\ parent' \in [Pids -> Pids \cup {NoPid}]
          /\ stack_ptr' \in [Pids -> Pids \cup {NoPid}]
          /\ prev_sp' \in [Pids -> Terminals \cup {NoFlow}]
          /\ owner' \in [Pids -> Terminals \cup {NoFlow}]
      <4>1. ShellParent(i) \in Pids \cup {NoPid}
        BY DEF ShellParent
      <4>2. (IF running \in Terminals THEN StackAfterSave[running] ELSE 0) \in Pids \cup {NoPid}
        BY <2>2, <2>4
      <4> QED
        BY <2>1, <2>2, <2>3, <4>1, <4>2 DEF BootInto
    <3>2. /\ active_process' \in [Terminals -> Pids \cup {NoPid}]
          /\ exec_terminal' \in Terminals
          /\ user_page' \in Pids
          /\ esp0' \in Pids
          /\ proc' \in [Terminals -> Pids \cup {NoPid}]
      BY <2>1, <2>3 DEF BootInto
    <3> QED
      BY <1>25, <2>1, <2>2, <2>4, <3>1, <3>2 DEF TickBoot, Goto
  <2> QED
    BY <2>5, <2>6
<1>26. ASSUME TickCrash PROVE TypeInv'
  BY <1>26 DEF TickCrash, Terminals
<1>27. ASSUME UNCHANGED vars PROVE TypeInv'
  BY <1>27 DEF vars
<1> QED
  BY <1>1, <1>2, <1>3, <1>4, <1>5, <1>6, <1>7, <1>8, <1>9, <1>10, <1>11, <1>12, <1>13,
     <1>14, <1>15, <1>16, <1>17, <1>18, <1>19, <1>20, <1>21, <1>22, <1>23, <1>24, <1>25,
     <1>26, <1>27 DEF Next, Tick, Kernel, User, Execute, Halt

(* Every variable keeps its type, whatever hazards happened: no pid leaves *)
(* the process table (create_process, PCB.c:54-73) and exec_terminal stays *)
(* a terminal (sched_handler, scheduler.c:46-47).                          *)
THEOREM TypeCorrect == Spec => []TypeOK
<1>1. Init => TypeInv
  BY TypeInit
<1>2. TypeInv /\ [Next]_vars => TypeInv'
  BY TypeStep
<1>3. TypeInv => TypeOK
  BY DEF TypeInv
<1> QED
  BY <1>1, <1>2, <1>3, PTL DEF Spec
-----------------------------------------------------------------------------
(* The flow on the processor is the one of exec_terminal, and its          *)
(* invariant and the one of the page and TSS hold.                         *)
LEMMA RunningFlow ==
    ASSUME TypeInv, Coherent, NEW t \in Terminals, running = t
    PROVE  /\ t \in booted /\ exec_terminal = t /\ active_terminal \in booted
           /\ FlowOK(t) /\ MappingOK(t)
BY DEF Coherent, BootOrder, Terminals

(* The process whose program a booted flow runs is a slot.                 *)
LEMMA ProcOwner ==
    ASSUME TypeInv, Coherent, NEW u \in booted, proc[u] \in present
    PROVE  owner[proc[u]] = u
<1>1. FlowOK(u) /\ pc[u] \in Labels
  BY DEF Coherent, TypeInv, TypeOK
<1> QED
  BY <1>1 DEF Coherent, Families, FlowOK, Labels, ExecLabels, HaltLabels, Starting, Loading,
     Entering, Leaving, TypeInv, TypeOK

(* Only its owner is making a process.                                     *)
LEMMA MakingOwner ==
    ASSUME TypeInv, Coherent, NEW p \in present, Making(p)
    PROVE  /\ owner[p] \in booted
           /\ pc[owner[p]] \in {"exec_active", "exec_page", "exec_load", "exec_frame"}
<1>1. PICK t \in Terminals : pid[t] = p /\ pc[t] \in {"exec_active", "exec_page", "exec_load", "exec_frame"}
  BY DEF Making
<1>2. t \in booted /\ FlowOK(t)
  BY <1>1 DEF Coherent, BootOrder
<1> QED
  BY <1>1, <1>2 DEF FlowOK, Loading

(* -1 is no slot of the table.                                             *)
LEMMA NoPidNoSlot == NoPid \notin Pids
BY DEF Pids

(* A parent outlives its children.                                         *)
LEMMA ParentPresent ==
    ASSUME Coherent, NEW p \in present
    PROVE  parent[p] = NoPid \/ parent[p] \in present
BY DEF Coherent, Families

(* A process has one child.                                                *)
LEMMA OnlyChild ==
    ASSUME Coherent, NEW p \in present, NEW q \in present,
           parent[p] = parent[q], parent[q] \in Pids
    PROVE  p = q
BY NoPidNoSlot DEF Coherent, Families

(* The base shells take the first slots.                                   *)
LEMMA TerminalNumbers ==
    ASSUME NEW t \in Terminals
    PROVE  t \in Nat /\ t # BootFlow /\ t # Crashed /\ t # NoFlow /\ t # NoTerminal
BY SizesAssumption DEF Terminals

-----------------------------------------------------------------------------
(* Execute and halt, one lemma per action.                                 *)

(* Entering the kernel by a system call, on the caller's own stack.        *)
LEMMA SystemCallCoherent ==
    ASSUME TypeInv, Coherent, NEW t \in Terminals,
           NEW l \in {"exec_parent", "halt_read"}, SystemCall(t, l)
    PROVE  Coherent'
<1> USE DEF SystemCall, At, Goto, Entered, pcbVars, tmnlVars, cpuVars, localVars, flowVars
<1>1. /\ running = t /\ t \in booted /\ FlowOK(t) /\ MappingOK(t)
  BY RunningFlow
<1>2. /\ esp0 = active_process[t] /\ proc[t] = active_process[t]
      /\ pc[t] = "user" /\ ChildOf(active_process[t]) = {}
      /\ active_process[t] \in present /\ owner[active_process[t]] = t
  BY <1>1 DEF FlowOK, MappingOK, Loading
<1>3. BootOrder'
  BY <1>1 DEF Coherent, BootOrder, TypeInv, TypeOK
<1>4. Families'
  BY <1>1, <1>2 DEF Coherent, Families, ChildOf, Between, TypeInv, TypeOK
<1>5. ASSUME NEW u \in booted' PROVE FlowOK(u)'
  <2>1. \A p : ChildOf(p)' = ChildOf(p)
    BY DEF ChildOf
  <2>2. FlowOK(u)
    BY <1>5 DEF Coherent
  <2>3. CASE u = t
    BY <1>1, <1>2, <2>1, <2>2, <2>3 DEF FlowOK, TypeInv, TypeOK, Starting, Loading, Entering, Leaving
  <2>4. CASE u # t
    <3>1. pc[u] \in Leaving => frames'[ret[u]] = frames[ret[u]]
      BY <1>2, <2>2, <2>4 DEF FlowOK, FramesAfterEntry, TypeInv, TypeOK
    <3> QED
      BY <1>1, <2>1, <2>2, <2>4, <3>1 DEF FlowOK, TypeInv, TypeOK
  <2> QED
    BY <2>3, <2>4
<1>6. ASSUME NEW u \in booted', NEW v \in booted', u # v PROVE (proc[u] # proc[v])'
  BY <1>6 DEF Coherent
<1>7. MappingOK(t)' /\ running' = t
  BY <1>1, <1>2 DEF MappingOK, TypeInv, TypeOK
<1>8. ASSUME NEW u \in booted' \ {running'} PROVE Suspended(u)'
  <2>1. u \in booted /\ u # t /\ FlowOK(u) /\ Suspended(u)
    BY <1>1, <1>8 DEF Coherent
  <2>2. kstack[u] # esp0
    BY <1>1, <1>2, <2>1 DEF FlowOK, Coherent
  <2> QED
    BY <1>2, <2>1, <2>2 DEF Suspended, CtxAfterEntry, TypeInv, TypeOK
<1>9. ASSUME NEW p \in present' \ Terminals PROVE Making(p)' \/ Awaited(p)'
  <2>1. CASE Making(p)
    BY <1>2, <2>1 DEF Making, TypeInv, TypeOK
  <2>2. CASE Awaited(p)
    <3>1. parent[p] # esp0
      BY <1>2 DEF ChildOf
    <3> QED
      BY <1>2, <2>2, <3>1 DEF Awaited, FramesAfterEntry, TypeInv, TypeOK
  <2> QED
    BY <2>1, <2>2, <1>9 DEF Coherent
<1> QED
  BY <1>1, <1>3, <1>4, <1>5, <1>6, <1>7, <1>8, <1>9 DEF Coherent

(* A step of flow t that leaves the process table, the terminals and the   *)
(* stacks alone.                                                           *)
LEMMA OwnStep ==
    ASSUME TypeInv, Coherent, NEW t \in Terminals, running = t,
           UNCHANGED <<pcbVars, tmnlVars, running, frames, ctx, proc>>,
           \A u \in Terminals \ {t} : UNCHANGED <<pc[u], kstack[u], pid[u], par[u], ret[u]>>,
           FlowOK(t)', MappingOK(t)',
           pc[t] \notin {"exec_active", "exec_frame", "halt_end"},
           pc[t] \in {"exec_page", "exec_load"} =>
               pc'[t] \in {"exec_load", "exec_frame"} /\ pid'[t] = pid[t]
    PROVE  Coherent'
<1> USE DEF pcbVars, tmnlVars
<1>1. t \in booted
  BY RunningFlow
<1>2. BootOrder'
  BY <1>1 DEF Coherent, BootOrder
<1>3. Families'
  BY DEF Coherent, Families, ChildOf, Between, TypeInv, TypeOK
<1>4. ASSUME NEW u \in booted' PROVE FlowOK(u)'
  <2>1. CASE u # t
    BY <1>4, <2>1 DEF Coherent, FlowOK, ChildOf, TypeInv, TypeOK
  <2> QED
    BY <2>1
<1>5. ASSUME NEW u \in booted', NEW v \in booted', u # v PROVE (proc[u] # proc[v])'
  BY <1>5 DEF Coherent
<1>6. ASSUME NEW u \in booted' \ {running'} PROVE Suspended(u)'
  BY <1>6 DEF Coherent, Suspended
<1>7. ASSUME NEW p \in present' \ Terminals PROVE Making(p)' \/ Awaited(p)'
  BY <1>7 DEF Coherent, Making, Awaited
<1> QED
  BY <1>2, <1>3, <1>4, <1>5, <1>6, <1>7 DEF Coherent

(* execute refuses its command and returns to its caller.                  *)
LEMMA ExecRejectCoherent ==
    ASSUME TypeInv, Coherent, Clean, NEW t \in Terminals, ExecReject(t), Clean'
    PROVE  Coherent'
<1> USE DEF ExecReject, At, Goto, ToUser, pcbVars, tmnlVars, cpuVars, localVars,
        TypeInv, TypeOK, Starting, Loading, Entering, Leaving, Clean
<1>1. /\ running = t /\ exec_terminal = t /\ active_terminal \in booted
      /\ FlowOK(t) /\ MappingOK(t)
  BY RunningFlow
<1>2. FlowOK(t)' /\ MappingOK(t)'
  BY <1>1 DEF FlowOK, MappingOK, ChildOf
<1> QED
  BY <1>1, <1>2, OwnStep

(* execute reads its parent: without hazard it is the caller.              *)
LEMMA ExecParentCoherent ==
    ASSUME TypeInv, Coherent, Clean, NEW t \in Terminals, ExecParent(t), Clean'
    PROVE  Coherent'
<1> USE DEF ExecParent, At, Goto, pcbVars, tmnlVars, cpuVars, localVars,
        TypeInv, TypeOK, Starting, Loading, Entering, Leaving, Clean
<1>1. /\ running = t /\ exec_terminal = t /\ active_terminal \in booted
      /\ FlowOK(t) /\ MappingOK(t)
  BY RunningFlow
<1>2. FlowOK(t)' /\ MappingOK(t)'
  <2>1. active_terminal = t
    BY <1>1 DEF Record
  <2>2. par'[t] = active_process[t] /\ pc'[t] = "exec_scan"
    BY <1>1, <2>1
  <2> QED
    BY <1>1, <2>2 DEF FlowOK, MappingOK, ChildOf
<1> QED
  BY <1>1, <1>2, OwnStep

(* create_process looks at one slot.                                       *)
LEMMA ExecScanCoherent ==
    ASSUME TypeInv, Coherent, Clean, NEW t \in Terminals, ExecScan(t), Clean'
    PROVE  Coherent'
<1> USE DEF ExecScan, At, Goto, ToUser, pcbVars, tmnlVars, cpuVars, localVars,
        TypeInv, TypeOK, Starting, Loading, Entering, Leaving, Clean
<1>1. /\ running = t /\ exec_terminal = t /\ active_terminal \in booted
      /\ FlowOK(t) /\ MappingOK(t)
  BY RunningFlow
<1>2. FlowOK(t)' /\ MappingOK(t)'
  BY <1>1 DEF FlowOK, MappingOK, ChildOf
<1> QED
  BY <1>1, <1>2, OwnStep

(* create_process fills a slot that is free and on whose stack nobody      *)
(* runs.                                                                   *)
LEMMA ExecInsertCoherent ==
    ASSUME TypeInv, Coherent, Clean, NEW t \in Terminals, ExecInsert(t), Clean'
    PROVE  Coherent'
<1> USE DEF ExecInsert, At, Goto, pcbVars, tmnlVars, cpuVars, localVars, flowVars,
        TypeInv, TypeOK, Starting, Loading, Entering, Leaving, Clean
<1>1. /\ running = t /\ t \in booted /\ exec_terminal = t /\ active_terminal \in booted
      /\ FlowOK(t) /\ MappingOK(t)
  BY RunningFlow
<1>a. /\ pid[t] \in Pids \ (present \cup Terminals)
      /\ \A u \in Terminals \ {t} : kstack[u] # pid[t]
  BY <1>1 DEF LocalsOK, ExecLabels
<1>b. /\ active_process[t] \in present /\ owner[active_process[t]] = t
      /\ proc[t] = active_process[t] /\ par[t] = active_process[t]
      /\ ChildOf(active_process[t]) = {}
  BY <1>1 DEF FlowOK
<1>c. /\ present' = present \cup {pid[t]}
      /\ \A p \in present : parent'[p] = parent[p] /\ owner'[p] = owner[p]
                            /\ prev_sp'[p] = prev_sp[p] /\ stack_ptr'[p] = stack_ptr[p]
      /\ parent'[pid[t]] = active_process[t] /\ owner'[pid[t]] = t
  BY <1>a, <1>b
<1>d. /\ ChildOf(active_process[t])' = {pid[t]} /\ ChildOf(pid[t])' = {}
      /\ \A p : p # active_process[t] => ChildOf(p)' = ChildOf(p)
  <2>1. \A c \in present : parent[c] # pid[t]
    BY <1>a, ParentPresent, NoPidNoSlot
  <2> QED
    BY <1>a, <1>b, <1>c, <2>1 DEF ChildOf
<1>2. BootOrder'
  BY <1>1, <1>a, <1>c DEF Coherent, BootOrder
<1>3. Families'
  <2>1. ASSUME NEW p \in present'
        PROVE  \/ p \in booted /\ parent'[p] = NoPid /\ owner'[p] = p
               \/ /\ p \notin Terminals /\ owner'[p] \in booted
                  /\ parent'[p] \in present' /\ owner'[parent'[p]] = owner'[p]
    <3>1. CASE p = pid[t]
      BY <1>1, <1>a, <1>b, <1>c, <3>1
    <3>2. CASE p \in present
      BY <1>c, <3>2 DEF Coherent, Families
    <3> QED
      BY <1>c, <2>1, <3>1, <3>2
  <2>2. ASSUME NEW p \in present', NEW q \in present', parent'[p] = parent'[q], parent'[p] # NoPid
        PROVE  p = q
    BY <1>a, <1>b, <1>c, <2>2 DEF Coherent, Families, ChildOf
  <2>3. ASSUME NEW p \in present'
        PROVE  \/ p = active_process[owner'[p]]
               \/ Between(p)'
               \/ ChildOf(p)' # {}
    <3>1. CASE p = pid[t]
      BY <1>a, <1>c, <3>1 DEF Between
    <3>2. CASE p \in present /\ p = active_process[t]
      BY <1>d, <3>2
    <3>3. CASE p \in present /\ p # active_process[t]
      BY <1>1, <1>c, <1>d, <3>3 DEF Coherent, Families, Between
    <3> QED
      BY <1>c, <2>3, <3>1, <3>2, <3>3
  <2> QED
    BY <2>1, <2>2, <2>3 DEF Families
<1>4. ASSUME NEW u \in booted' PROVE FlowOK(u)'
  <2>1. FlowOK(u) /\ u \in booted /\ u \in Terminals
    BY <1>4 DEF Coherent
  <2>2. CASE u = t
    BY <1>1, <1>a, <1>b, <1>c, <1>d, <2>1, <2>2 DEF FlowOK
  <2>3. CASE u # t
    <3>1. /\ active_process[u] # active_process[t]
          /\ active_process[u] \in present
      BY <1>b, <2>1, <2>3 DEF FlowOK
    <3>2. pc[u] \in Leaving => pid[u] \notin present'
      BY <1>1, <1>a, <1>c, <2>1, <2>3 DEF FlowOK
    <3>3. pid[u] \in present /\ owner[pid[u]] = u => pid[u] # active_process[t]
      BY <1>b, <2>3
    <3>4. UNCHANGED <<pc[u], pid[u], par[u], ret[u], proc[u], kstack[u], active_process[u], frames>>
      BY <2>1, <2>3
    <3> QED
      BY <1>1, <1>c, <1>d, <2>1, <2>3, <3>1, <3>2, <3>3, <3>4 DEF FlowOK
  <2> QED
    BY <2>2, <2>3
<1>5. ASSUME NEW u \in booted', NEW v \in booted', u # v PROVE (proc[u] # proc[v])'
  BY <1>1, <1>5 DEF Coherent, Families, FlowOK
<1>6. MappingOK(t)' /\ running' = t
  BY <1>1 DEF FlowOK, MappingOK
<1>7. ASSUME NEW u \in booted' \ {running'} PROVE Suspended(u)'
  BY <1>1, <1>c, <1>7 DEF Coherent, Suspended
<1>8. ASSUME NEW p \in present' \ Terminals PROVE Making(p)' \/ Awaited(p)'
  BY <1>1, <1>8 DEF Coherent, FlowOK, Families, ChildOf, Making, Awaited
<1> QED
  BY <1>2, <1>3, <1>4, <1>5, <1>6, <1>7, <1>8 DEF Coherent

(* The new process becomes its terminal's active one.                      *)
LEMMA ExecActiveCoherent ==
    ASSUME TypeInv, Coherent, Clean, NEW t \in Terminals, ExecActive(t), Clean'
    PROVE  Coherent'
<1> USE DEF ExecActive, At, Goto, Record, pcbVars, tmnlVars, cpuVars, localVars, flowVars,
        TypeInv, TypeOK, Starting, Loading, Entering, Leaving, Clean
<1>1. /\ running = t /\ t \in booted /\ exec_terminal = t /\ active_terminal \in booted
      /\ FlowOK(t) /\ MappingOK(t)
  BY RunningFlow
<1>2. BootOrder'
  BY <1>1 DEF Coherent, BootOrder, FlowOK
<1>3. Families'
  BY <1>1 DEF Coherent, Families, FlowOK, ChildOf, Between
<1>4. ASSUME NEW u \in booted' PROVE FlowOK(u)'
  BY <1>1, <1>4 DEF Coherent, Families, FlowOK, ChildOf
<1>5. ASSUME NEW u \in booted', NEW v \in booted', u # v PROVE (proc[u] # proc[v])'
  BY <1>1, <1>5 DEF Coherent, Families, FlowOK
<1>6. MappingOK(t)' /\ running' = t
  BY <1>1 DEF FlowOK, MappingOK
<1>7. ASSUME NEW u \in booted' \ {running'} PROVE Suspended(u)'
  BY <1>1, <1>7 DEF Coherent, FlowOK, Suspended
<1>8. ASSUME NEW p \in present' \ Terminals PROVE Making(p)' \/ Awaited(p)'
  BY <1>1, <1>8 DEF Coherent, FlowOK, Families, ChildOf, Making, Awaited
<1> QED
  BY <1>2, <1>3, <1>4, <1>5, <1>6, <1>7, <1>8 DEF Coherent

(* The new process's page is mapped.                                       *)
LEMMA ExecPageCoherent ==
    ASSUME TypeInv, Coherent, Clean, NEW t \in Terminals, ExecPage(t), Clean'
    PROVE  Coherent'
<1> USE DEF ExecPage, At, Goto, pcbVars, tmnlVars, cpuVars, localVars,
        TypeInv, TypeOK, Starting, Loading, Entering, Leaving, Clean
<1>1. /\ running = t /\ exec_terminal = t /\ active_terminal \in booted
      /\ FlowOK(t) /\ MappingOK(t)
  BY RunningFlow
<1>2. FlowOK(t)' /\ MappingOK(t)'
  BY <1>1 DEF FlowOK, MappingOK, ChildOf
<1> QED
  BY <1>1, <1>2, OwnStep

(* Its program is loaded.                                                  *)
LEMMA ExecLoadCoherent ==
    ASSUME TypeInv, Coherent, Clean, NEW t \in Terminals, ExecLoad(t), Clean'
    PROVE  Coherent'
<1> USE DEF ExecLoad, At, Goto, ToUser, Record, pcbVars, tmnlVars, cpuVars, localVars,
        TypeInv, TypeOK, Starting, Loading, Entering, Leaving, Clean
<1>1. /\ running = t /\ exec_terminal = t /\ active_terminal \in booted
      /\ FlowOK(t) /\ MappingOK(t)
  BY RunningFlow
<1>2. FlowOK(t)' /\ MappingOK(t)'
  BY <1>1 DEF FlowOK, MappingOK, ChildOf
<1> QED
  BY <1>1, <1>2, OwnStep

(* The caller's frame is saved for halt.                                   *)
LEMMA ExecFrameCoherent ==
    ASSUME TypeInv, Coherent, Clean, NEW t \in Terminals, ExecFrame(t), Clean'
    PROVE  Coherent'
<1> USE DEF ExecFrame, At, Goto, pcbVars, tmnlVars, cpuVars, localVars, flowVars,
        TypeInv, TypeOK, Starting, Loading, Entering, Leaving, Clean
<1>1. /\ running = t /\ t \in booted /\ exec_terminal = t /\ active_terminal \in booted
      /\ FlowOK(t) /\ MappingOK(t)
  BY RunningFlow
<1>2. BootOrder'
  BY <1>1 DEF Coherent, BootOrder
<1>3. Families'
  BY <1>1 DEF Coherent, Families, FlowOK, ChildOf, Between
<1>4. ASSUME NEW u \in booted' PROVE FlowOK(u)'
  BY <1>1, <1>4 DEF Coherent, Families, FlowOK, ChildOf
<1>5. ASSUME NEW u \in booted', NEW v \in booted', u # v PROVE (proc[u] # proc[v])'
  BY <1>1, <1>5 DEF Coherent, Families, FlowOK
<1>6. MappingOK(t)' /\ running' = t
  BY <1>1 DEF FlowOK, MappingOK
<1>7. ASSUME NEW u \in booted' \ {running'} PROVE Suspended(u)'
  BY <1>1, <1>7 DEF Coherent, FlowOK, Suspended
<1>8. ASSUME NEW p \in present' \ Terminals PROVE Making(p)' \/ Awaited(p)'
  <2>1. /\ pid[t] \in present /\ kstack[t] = parent[pid[t]] /\ kstack[t] \in Pids
        /\ owner[pid[t]] = t /\ parent[pid[t]] \in present
    BY <1>1 DEF FlowOK
  <2>2. CASE p = pid[t]
    BY <1>1, <2>1, <2>2 DEF Awaited
  <2>3. CASE p # pid[t] /\ Making(p)
    BY <2>3 DEF Making
  <2>4. CASE p # pid[t] /\ Awaited(p)
    <3>1. parent[p] # kstack[t]
      BY <1>8, <2>1, <2>4, OnlyChild
    <3> QED
      BY <2>1, <2>4, <3>1 DEF Awaited
  <2> QED
    BY <1>8, <2>2, <2>3, <2>4 DEF Coherent
<1> QED
  BY <1>2, <1>3, <1>4, <1>5, <1>6, <1>7, <1>8 DEF Coherent

(* The TSS gets the new process's kernel stack.                            *)
LEMMA ExecTssCoherent ==
    ASSUME TypeInv, Coherent, Clean, NEW t \in Terminals, ExecTss(t), Clean'
    PROVE  Coherent'
<1> USE DEF ExecTss, At, Goto, pcbVars, tmnlVars, cpuVars, localVars,
        TypeInv, TypeOK, Starting, Loading, Entering, Leaving, Clean
<1>1. /\ running = t /\ exec_terminal = t /\ active_terminal \in booted
      /\ FlowOK(t) /\ MappingOK(t)
  BY RunningFlow
<1>2. FlowOK(t)' /\ MappingOK(t)'
  BY <1>1 DEF FlowOK, MappingOK, ChildOf
<1> QED
  BY <1>1, <1>2, OwnStep

(* The flow enters the program.                                            *)
LEMMA ExecIretCoherent ==
    ASSUME TypeInv, Coherent, Clean, NEW t \in Terminals, ExecIret(t), Clean'
    PROVE  Coherent'
<1> USE DEF ExecIret, At, Goto, ToUser, pcbVars, tmnlVars, cpuVars, localVars, flowVars,
        TypeInv, TypeOK, Starting, Loading, Entering, Leaving, Clean
<1>1. /\ running = t /\ t \in booted /\ exec_terminal = t /\ active_terminal \in booted
      /\ FlowOK(t) /\ MappingOK(t)
  BY RunningFlow
<1>2. BootOrder'
  BY <1>1 DEF Coherent, BootOrder
<1>3. Families'
  BY <1>1 DEF Coherent, Families, FlowOK, ChildOf, Between
<1>4. ASSUME NEW u \in booted' PROVE FlowOK(u)'
  BY <1>1, <1>4 DEF Coherent, Families, FlowOK, ChildOf
<1>5. ASSUME NEW u \in booted', NEW v \in booted', u # v PROVE (proc[u] # proc[v])'
  <2>1. pid[t] \in present /\ owner[pid[t]] = t
    BY <1>1 DEF FlowOK
  <2> QED
    BY <1>1, <1>5, <2>1, ProcOwner DEF Coherent
<1>6. MappingOK(t)' /\ running' = t
  BY <1>1 DEF FlowOK, MappingOK
<1>7. ASSUME NEW u \in booted' \ {running'} PROVE Suspended(u)'
  BY <1>1, <1>7 DEF Coherent, FlowOK, Suspended
<1>8. ASSUME NEW p \in present' \ Terminals PROVE Making(p)' \/ Awaited(p)'
  BY <1>1, <1>8 DEF Coherent, FlowOK, Families, ChildOf, Making, Awaited
<1> QED
  BY <1>2, <1>3, <1>4, <1>5, <1>6, <1>7, <1>8 DEF Coherent

(* A base shell that halts goes on.                                        *)
LEMMA HaltBaseCoherent ==
    ASSUME TypeInv, Coherent, Clean, NEW t \in Terminals, HaltBase(t), Clean'
    PROVE  Coherent'
<1> USE DEF HaltBase, At, Goto, ToUser, pcbVars, tmnlVars, cpuVars, localVars,
        TypeInv, TypeOK, Starting, Loading, Entering, Leaving, Clean
<1>1. /\ running = t /\ exec_terminal = t /\ active_terminal \in booted
      /\ FlowOK(t) /\ MappingOK(t)
  BY RunningFlow
<1>2. FlowOK(t)' /\ MappingOK(t)'
  BY <1>1 DEF FlowOK, MappingOK, ChildOf
<1> QED
  BY <1>1, <1>2, OwnStep

(* halt reads the process, its parent and the frame to return to.          *)
LEMMA HaltReadCoherent ==
    ASSUME TypeInv, Coherent, Clean, NEW t \in Terminals, HaltRead(t), Clean'
    PROVE  Coherent'
<1> USE DEF HaltRead, At, Goto, pcbVars, tmnlVars, cpuVars, localVars,
        TypeInv, TypeOK, Starting, Loading, Entering, Leaving, Clean
<1>1. /\ running = t /\ exec_terminal = t /\ active_terminal \in booted
      /\ FlowOK(t) /\ MappingOK(t)
  BY RunningFlow
<1>2. FlowOK(t)' /\ MappingOK(t)'
  <2>1. /\ proc[t] = active_process[t] /\ active_process[t] \in present
        /\ ChildOf(active_process[t]) = {} /\ owner[active_process[t]] = t
    BY <1>1 DEF FlowOK
  <2>2. active_process[t] \notin Terminals
    BY <1>1, <2>1 DEF Coherent, Families, BootOrder
  <2>3. Awaited(active_process[t])
    BY <1>1, <2>1, <2>2, MakingOwner DEF Coherent
  <2> QED
    BY <1>1, <2>1, <2>2, <2>3 DEF FlowOK, MappingOK, ChildOf, Awaited
<1> QED
  BY <1>1, <1>2, OwnStep

(* The parent becomes the active process.                                  *)
LEMMA HaltActiveCoherent ==
    ASSUME TypeInv, Coherent, Clean, NEW t \in Terminals, HaltActive(t), Clean'
    PROVE  Coherent'
<1> USE DEF HaltActive, At, Goto, pcbVars, tmnlVars, cpuVars, localVars, flowVars,
        TypeInv, TypeOK, Starting, Loading, Entering, Leaving, Clean
<1>1. /\ running = t /\ t \in booted /\ exec_terminal = t /\ active_terminal \in booted
      /\ FlowOK(t) /\ MappingOK(t)
  BY RunningFlow
<1>2. BootOrder'
  BY <1>1 DEF Coherent, BootOrder
<1>3. Families'
  BY <1>1 DEF Coherent, Families, FlowOK, ChildOf, Between
<1>4. ASSUME NEW u \in booted' PROVE FlowOK(u)'
  BY <1>1, <1>4 DEF Coherent, Families, FlowOK, ChildOf
<1>5. ASSUME NEW u \in booted', NEW v \in booted', u # v PROVE (proc[u] # proc[v])'
  BY <1>1, <1>5 DEF Coherent, Families, FlowOK
<1>6. MappingOK(t)' /\ running' = t
  BY <1>1 DEF FlowOK, MappingOK
<1>7. ASSUME NEW u \in booted' \ {running'} PROVE Suspended(u)'
  BY <1>1, <1>7 DEF Coherent, FlowOK, Suspended
<1>8. ASSUME NEW p \in present' \ Terminals PROVE Making(p)' \/ Awaited(p)'
  BY <1>1, <1>8 DEF Coherent, FlowOK, Families, ChildOf, Making, Awaited
<1> QED
  BY <1>2, <1>3, <1>4, <1>5, <1>6, <1>7, <1>8 DEF Coherent

(* end_process frees the slot, whose process is a leaf of the tree.        *)
LEMMA HaltEndCoherent ==
    ASSUME TypeInv, Coherent, Clean, NEW t \in Terminals, HaltEnd(t), Clean'
    PROVE  Coherent'
<1> USE DEF HaltEnd, At, Goto, pcbVars, tmnlVars, cpuVars, localVars, flowVars,
        TypeInv, TypeOK, Starting, Loading, Entering, Leaving, Clean
<1>1. /\ running = t /\ t \in booted /\ exec_terminal = t /\ active_terminal \in booted
      /\ FlowOK(t) /\ MappingOK(t)
  BY RunningFlow
<1>a. /\ pid[t] \in present \ Terminals /\ owner[pid[t]] = t /\ proc[t] = pid[t]
      /\ par[t] = parent[pid[t]] /\ ret[t] = par[t] /\ ChildOf(pid[t]) = {}
      /\ active_process[t] = par[t] /\ active_process[t] \in present
      /\ owner[active_process[t]] = t
  BY <1>1 DEF FlowOK
<1>b. /\ ChildOf(par[t])' = {} /\ par[t] # pid[t] /\ par[t] \in present'
      /\ \A p : p # par[t] => ChildOf(p)' = ChildOf(p)
  <2>1. \A c \in present : parent[c] = par[t] => c = pid[t]
    BY <1>a, OnlyChild
  <2>2. present' = present \ {pid[t]} /\ parent' = parent
    OBVIOUS
  <2> QED
    BY <1>a, <2>1, <2>2 DEF ChildOf
<1>2. BootOrder'
  BY <1>1, <1>a DEF Coherent, BootOrder
<1>3. Families'
  BY <1>1 DEF Coherent, Families, FlowOK, ChildOf, Between
<1>4. ASSUME NEW u \in booted' PROVE FlowOK(u)'
  <2>1. FlowOK(u) /\ u \in booted /\ u \in Terminals
    BY <1>4 DEF Coherent
  <2>2. CASE u = t
    <3>1. frames[par[t]] = pid[t]
      <4>1. ~Making(pid[t])
        BY <1>1, <1>a, MakingOwner
      <4> QED
        BY <1>a, <4>1 DEF Coherent, Awaited
    <3> QED
      BY <1>1, <1>a, <1>b, <2>1, <2>2, <3>1 DEF FlowOK
  <2>3. CASE u # t
    <3>1. active_process[u] # par[t] /\ active_process[u] # pid[t]
      BY <1>a, <2>1, <2>3 DEF FlowOK
    <3>2. \A p \in present : owner[p] = u => p \in present' /\ ChildOf(p)' = ChildOf(p)
      BY <1>a, <1>b, <2>3
    <3>3. pc[u] \in Loading \cup Entering => proc[u] \in present'
      BY <1>a, <2>1, <2>3 DEF FlowOK, Coherent, Families
    <3>4. UNCHANGED <<pc[u], pid[u], par[u], ret[u], proc[u], kstack[u], active_process, frames, parent, owner>>
      BY <2>1, <2>3
    <3>5. active_process[u] \in present' /\ present' \subseteq present /\ running' = running
      BY <2>1, <3>2 DEF FlowOK
    <3> QED
      BY <1>1, <2>1, <2>3, <3>1, <3>2, <3>3, <3>4, <3>5 DEF FlowOK
  <2> QED
    BY <2>2, <2>3
<1>5. ASSUME NEW u \in booted', NEW v \in booted', u # v PROVE (proc[u] # proc[v])'
  BY <1>1, <1>5 DEF Coherent, Families, FlowOK
<1>6. MappingOK(t)' /\ running' = t
  BY <1>1 DEF FlowOK, MappingOK
<1>7. ASSUME NEW u \in booted' \ {running'} PROVE Suspended(u)'
  BY <1>1, <1>7 DEF Coherent, FlowOK, Suspended
<1>8. ASSUME NEW p \in present' \ Terminals PROVE Making(p)' \/ Awaited(p)'
  BY <1>1, <1>8 DEF Coherent, FlowOK, Families, ChildOf, Making, Awaited
<1> QED
  BY <1>2, <1>3, <1>4, <1>5, <1>6, <1>7, <1>8 DEF Coherent

(* The parent's page is mapped.                                            *)
LEMMA HaltPageCoherent ==
    ASSUME TypeInv, Coherent, Clean, NEW t \in Terminals, HaltPage(t), Clean'
    PROVE  Coherent'
<1> USE DEF HaltPage, At, Goto, pcbVars, tmnlVars, cpuVars, localVars,
        TypeInv, TypeOK, Starting, Loading, Entering, Leaving, Clean
<1>1. /\ running = t /\ exec_terminal = t /\ active_terminal \in booted
      /\ FlowOK(t) /\ MappingOK(t)
  BY RunningFlow
<1>2. FlowOK(t)' /\ MappingOK(t)'
  BY <1>1 DEF FlowOK, MappingOK, ChildOf
<1> QED
  BY <1>1, <1>2, OwnStep

(* The TSS gets the parent's kernel stack.                                 *)
LEMMA HaltTssCoherent ==
    ASSUME TypeInv, Coherent, Clean, NEW t \in Terminals, HaltTss(t), Clean'
    PROVE  Coherent'
<1> USE DEF HaltTss, At, Goto, pcbVars, tmnlVars, cpuVars, localVars,
        TypeInv, TypeOK, Starting, Loading, Entering, Leaving, Clean
<1>1. /\ running = t /\ exec_terminal = t /\ active_terminal \in booted
      /\ FlowOK(t) /\ MappingOK(t)
  BY RunningFlow
<1>2. FlowOK(t)' /\ MappingOK(t)'
  BY <1>1 DEF FlowOK, MappingOK, ChildOf
<1> QED
  BY <1>1, <1>2, OwnStep

(* The flow jumps into the parent's frame.                                 *)
LEMMA HaltJumpCoherent ==
    ASSUME TypeInv, Coherent, Clean, NEW t \in Terminals, HaltJump(t), Clean'
    PROVE  Coherent'
<1> USE DEF HaltJump, At, Goto, ToUser, Returnable, pcbVars, tmnlVars, cpuVars, localVars, flowVars,
        TypeInv, TypeOK, Starting, Loading, Entering, Leaving, Clean
<1>1. /\ running = t /\ t \in booted /\ exec_terminal = t /\ active_terminal \in booted
      /\ FlowOK(t) /\ MappingOK(t)
  BY RunningFlow
<1>2. BootOrder'
  BY <1>1 DEF Coherent, BootOrder
<1>3. Families'
  BY <1>1 DEF Coherent, Families, FlowOK, ChildOf, Between
<1>4. ASSUME NEW u \in booted' PROVE FlowOK(u)'
  BY <1>1, <1>4 DEF Coherent, Families, FlowOK, ChildOf
<1>5. ASSUME NEW u \in booted', NEW v \in booted', u # v PROVE (proc[u] # proc[v])'
  <2>1. ret[t] \in present /\ owner[ret[t]] = t
    BY <1>1 DEF FlowOK
  <2> QED
    BY <1>1, <1>5, <2>1, ProcOwner DEF Coherent
<1>6. MappingOK(t)' /\ running' = t
  BY <1>1 DEF FlowOK, MappingOK
<1>7. ASSUME NEW u \in booted' \ {running'} PROVE Suspended(u)'
  BY <1>1, <1>7 DEF Coherent, FlowOK, Suspended
<1>8. ASSUME NEW p \in present' \ Terminals PROVE Making(p)' \/ Awaited(p)'
  BY <1>1, <1>8 DEF Coherent, FlowOK, Families, ChildOf, Making, Awaited
<1> QED
  BY <1>2, <1>3, <1>4, <1>5, <1>6, <1>7, <1>8 DEF Coherent

-----------------------------------------------------------------------------
(* Exceptions and the keyboard.                                            *)

(* halt never jumps where no frame is.                                     *)
LEMMA NoHaltCrash ==
    ASSUME TypeInv, Coherent, NEW t \in Terminals
    PROVE  ~HaltCrash(t)
<1> SUFFICES ASSUME HaltCrash(t) PROVE FALSE
  OBVIOUS
<1>1. t \in booted /\ exec_terminal = t /\ FlowOK(t)
  BY RunningFlow DEF HaltCrash, At
<1>2. active_process[t] \in Pids
  BY <1>1 DEF FlowOK, TypeInv, TypeOK
<1>3. CASE At(t, "halt_read")
  BY <1>1, <1>2, <1>3, NoPidNoSlot DEF HaltCrash, At
<1>4. CASE At(t, "halt_jump")
  BY <1>1, <1>2, <1>4 DEF HaltCrash, At, FlowOK, Leaving, Returnable
<1> QED
  BY <1>3, <1>4 DEF HaltCrash

(* The frame to which an exception in a child process returns.             *)
LEMMA FaultReturns ==
    ASSUME TypeInv, Coherent, NEW t \in Terminals, At(t, "user"),
           parent[active_process[t]] # NoPid
    PROVE  LET a == active_process[t] IN
           /\ a \in present \ Terminals /\ esp0 = a /\ ChildOf(a) = {}
           /\ parent[a] \in present /\ owner[parent[a]] = t /\ parent[a] # a
           /\ stack_ptr[a] = parent[a]
           /\ FramesAfterEntry(t)[parent[a]] = a
<1> DEFINE a == active_process[t]
<1>1. t \in booted /\ FlowOK(t) /\ MappingOK(t) /\ pc[t] = "user"
  BY RunningFlow DEF At
<1>2. a \in present /\ owner[a] = t /\ ChildOf(a) = {} /\ esp0 = a
  BY <1>1 DEF FlowOK, MappingOK, Loading
<1>3. a \notin Terminals /\ parent[a] \in present /\ owner[parent[a]] = t
  BY <1>2 DEF Coherent, Families
<1>4. parent[a] # a
  BY <1>2, <1>3 DEF ChildOf
<1>5. Awaited(a)
  BY <1>1, <1>2, <1>3, MakingOwner DEF Coherent
<1> QED
  BY <1>1, <1>2, <1>3, <1>4, <1>5 DEF Awaited, FramesAfterEntry, TypeInv, TypeOK

(* Nor does an exception handler.                                          *)
LEMMA NoFaultCrash ==
    ASSUME TypeInv, Coherent, NEW t \in Terminals
    PROVE  ~FaultCrash(t)
<1> SUFFICES ASSUME FaultCrash(t) PROVE FALSE
  OBVIOUS
<1>1. At(t, "user") /\ exec_terminal = t /\ FlowOK(t)
  BY RunningFlow DEF FaultCrash, At
<1>2. active_process[t] \in Pids /\ active_process[t] # NoPid
  BY <1>1, NoPidNoSlot DEF FlowOK, TypeInv, TypeOK
<1> QED
  BY <1>1, <1>2, FaultReturns DEF FaultCrash, Returnable, TypeInv, TypeOK

(* An exception runs all of halt at once.                                  *)
LEMMA FaultCoherent ==
    ASSUME TypeInv, Coherent, NEW t \in Terminals, Fault(t)
    PROVE  Coherent'
<1>a. PICK a : a = active_process[t]
  OBVIOUS
<1>b. PICK b : b = parent[a]
  OBVIOUS
<1> USE DEF Goto, pcbVars, tmnlVars, cpuVars, localVars, flowVars, TypeInv, TypeOK
<1>1. /\ At(t, "user") /\ running = t /\ pc[t] = "user" /\ t \in booted /\ exec_terminal = t
      /\ active_terminal \in booted /\ FlowOK(t)
  BY RunningFlow DEF Fault, At
<1>2. b # NoPid
  BY <1>1, <1>a, <1>b DEF Fault
<1>3. /\ a \in present \ Terminals /\ esp0 = a /\ ChildOf(a) = {}
      /\ b \in present /\ owner[b] = t /\ b # a
      /\ stack_ptr[a] = b /\ FramesAfterEntry(t)[b] = a
  BY <1>1, <1>2, <1>a, <1>b, FaultReturns
<1>4. /\ active_process' = [active_process EXCEPT ![t] = b]
      /\ present' = present \ {a} /\ user_page' = b /\ esp0' = b
      /\ proc' = [proc EXCEPT ![t] = b]
      /\ frames' = [FramesAfterEntry(t) EXCEPT ![b] = NoPid]
      /\ ctx' = CtxAfterEntry(t)
      /\ UNCHANGED <<parent, stack_ptr, prev_sp, owner, booted, active_terminal,
                     exec_terminal, running, pc, kstack, localVars>>
  BY <1>1, <1>3, <1>a, <1>b DEF Fault
<1>5. proc[t] = a /\ kstack[t] = NoPid /\ pid[t] = NoPid /\ owner[a] = t
  BY <1>1, <1>a DEF FlowOK
<1>6. /\ ChildOf(b)' = {} /\ b \in present'
      /\ \A p : p # b => ChildOf(p)' = ChildOf(p)
  <2>1. \A c \in present : parent[c] = b => c = a
    BY <1>3, <1>b, OnlyChild
  <2> QED
    BY <1>3, <1>4, <1>b, <2>1 DEF ChildOf
<1>7. BootOrder'
  BY <1>1, <1>3, <1>4, <1>a DEF Coherent, BootOrder
<1>8. Families'
  BY <1>1, <1>3, <1>4, <1>5, <1>6, <1>a, <1>b DEF Coherent, Families, ChildOf, Between
<1>9. ASSUME NEW u \in booted', u # t
      PROVE  /\ FlowOK(u) /\ u \in booted /\ Suspended(u)
             /\ proc[u] # a /\ proc[u] # b
             /\ active_process[u] \in present' /\ active_process[u] # a /\ active_process[u] # b
  <2>1. FlowOK(u) /\ u \in booted /\ Suspended(u)
    BY <1>1, <1>4, <1>9 DEF Coherent
  <2> QED
    BY <1>3, <1>4, <1>5, <1>9, <2>1, ProcOwner DEF FlowOK
<1>10. ASSUME NEW u \in booted' PROVE FlowOK(u)'
  <2>1. CASE u = t
    BY <1>1, <1>3, <1>4, <1>5, <1>6, <2>1 DEF FlowOK, Starting, Loading, Entering, Leaving
  <2>2. CASE u # t
    <3>1. /\ FlowOK(u) /\ u \in booted /\ proc[u] # a /\ proc[u] # b
          /\ active_process[u] \in present' /\ active_process[u] # a /\ active_process[u] # b
      BY <1>9, <2>2
    <3>2. \A p \in present : owner[p] = u => p \in present' /\ ChildOf(p)' = ChildOf(p)
      BY <1>3, <1>4, <1>5, <1>6, <2>2
    <3>3. pc[u] \in Leaving => frames'[ret[u]] = frames[ret[u]]
      BY <1>1, <1>3, <1>4, <3>1 DEF FlowOK, FramesAfterEntry
    <3>4. /\ UNCHANGED <<pc[u], pid[u], par[u], ret[u], kstack[u], parent, owner, running>>
          /\ active_process'[u] = active_process[u] /\ proc'[u] = proc[u] /\ present' \subseteq present
      BY <1>4, <2>2
    <3>5. pc[u] \in Loading \cup Entering => proc[u] \in present'
      BY <1>4, <3>1 DEF FlowOK
    <3>6. ChildOf(active_process[u])' = ChildOf(active_process[u])
      BY <1>6, <3>1, <3>4
    <3>7. \A p \in present : owner[p] = u => ChildOf(p)' = ChildOf(p)
      BY <3>2
    <3>8. pid[u] \in present /\ owner[pid[u]] = u =>
             pid[u] \in present' /\ ChildOf(pid[u])' = ChildOf(pid[u])
      BY <3>2, <3>4
    <3>9. pid[u] \notin present => pid[u] \notin present'
      BY <3>4
    <3> HIDE DEF TypeInv, TypeOK
    <3> QED
      BY <1>1, <2>2, <3>1, <3>3, <3>4, <3>5, <3>6, <3>8, <3>9 DEF FlowOK
  <2> QED
    BY <2>1, <2>2
<1>11. ASSUME NEW u \in booted', NEW v \in booted', u # v PROVE (proc[u] # proc[v])'
  BY <1>1, <1>4, <1>9, <1>11 DEF Coherent
<1>12. MappingOK(t)' /\ running' = t
  BY <1>1, <1>4 DEF MappingOK
<1>13. ASSUME NEW u \in booted' \ {running'} PROVE Suspended(u)'
  <2>1. u \in booted' /\ u # t
    BY <1>12, <1>13
  <2>2. kstack[u] = proc[u]
    BY <1>1, <1>9, <2>1 DEF FlowOK
  <2> QED
    BY <1>1, <1>3, <1>4, <1>9, <2>1, <2>2 DEF Suspended, CtxAfterEntry
<1>14. ASSUME NEW p \in present' \ Terminals PROVE Making(p)' \/ Awaited(p)'
  <2>1. CASE Making(p)
    BY <1>4, <2>1 DEF Making
  <2>2. CASE Awaited(p)
    <3>1. parent[p] # a /\ parent[p] # b
      BY <1>3, <1>4, <1>14, <1>b, OnlyChild DEF ChildOf
    <3>2. parent[p] \in Pids
      BY <1>4, <1>14 DEF Coherent, Families
    <3> QED
      BY <1>1, <1>3, <1>4, <2>2, <3>1, <3>2 DEF Awaited, FramesAfterEntry
  <2> QED
    BY <1>4, <1>14, <2>1, <2>2 DEF Coherent
<1> QED
  BY <1>1, <1>7, <1>8, <1>10, <1>11, <1>12, <1>13, <1>14 DEF Coherent

(* Showing another terminal disturbs no process.                           *)
LEMMA SwitchTerminalCoherent ==
    ASSUME TypeInv, Coherent, NEW n \in Terminals, SwitchTerminal(n)
    PROVE  Coherent'
<1> USE DEF SwitchTerminal, pcbVars, cpuVars, flowVars, localVars
<1>1. BootOrder'
  BY DEF Coherent, BootOrder, TypeInv, LocalsOK
<1>2. Families'
  BY DEF Coherent, Families, Between, ChildOf
<1>3. \A u : FlowOK(u)' <=> FlowOK(u)
  BY DEF FlowOK, ChildOf
<1>4. \A u : (Suspended(u)' <=> Suspended(u)) /\ (MappingOK(u)' <=> MappingOK(u))
  BY DEF Suspended, MappingOK
<1>5. \A p : (Making(p)' <=> Making(p)) /\ (Awaited(p)' <=> Awaited(p))
  BY DEF Making, Awaited
<1> QED
  BY <1>1, <1>2, <1>3, <1>4, <1>5 DEF Coherent

-----------------------------------------------------------------------------
(* The timer.                                                              *)

(* After the timer saved the interrupted flow every flow is suspended, and *)
(* nothing but its own stack has changed.                                  *)
AllSaved ==
    /\ CanSave
    /\ \A u \in booted : /\ PrevSpAfterSave[active_process[u]] = u
                         /\ CtxAfterSave[u] = active_process[u]
                         /\ StackAfterSave[u] = proc[u]
                         /\ pc[u] \in Leaving => FramesAfterSave[ret[u]] = pid[u]
    /\ \A u \in Terminals \ booted : StackAfterSave[u] = NoPid
    /\ \A p \in present \ Terminals :
          Making(p) \/ (stack_ptr[p] = parent[p] /\ FramesAfterSave[parent[p]] = p)

(* Saving the interrupted flow's context leaves every flow resumable.      *)
LEMMA SaveFlow ==
    ASSUME TypeInv, Coherent
    PROVE  AllSaved
<1> USE DEF CanSave, PrevSpAfterSave, CtxAfterSave, StackAfterSave, FramesAfterSave
<1>1. CASE running \notin Terminals
  <2>1. booted = {} /\ present = {}
    BY <1>1 DEF Coherent, BootOrder, Families, LocalsOK, TypeInv, TypeOK
  <2> QED
    BY <1>1, <2>1 DEF AllSaved, Coherent, BootOrder
<1>2. CASE running \in Terminals
  <2>1. PICK r \in Terminals : r = running
    BY <1>2
  <2>2. /\ r \in booted /\ exec_terminal = r /\ FlowOK(r)
        /\ pc[r] = "user" => esp0 = active_process[r]
    BY <2>1, RunningFlow DEF MappingOK, Loading
  <2>3. PICK a \in Pids : a = active_process[r]
    BY <2>2 DEF FlowOK, TypeInv, TypeOK
  <2>4. a \in present /\ owner[a] = r /\ a # NoPid
    BY <2>2, <2>3, NoPidNoSlot DEF FlowOK
  <2>5. pc[r] = "user" => esp0 = a /\ proc[r] = a /\ ChildOf(a) = {}
    BY <2>2, <2>3 DEF FlowOK
  <2>6. ASSUME NEW u \in booted, u # r
        PROVE  /\ FlowOK(u) /\ Suspended(u) /\ active_process[u] # a
               /\ kstack[u] = proc[u] /\ proc[u] # proc[r]
    BY <2>1, <2>2, <2>4, <2>6 DEF Coherent, FlowOK
  <2>7. ASSUME NEW u \in booted PROVE PrevSpAfterSave[active_process[u]] = u
    BY <2>1, <2>2, <2>3, <2>6, <2>7 DEF Suspended, TypeInv, TypeOK
  <2>8. ASSUME NEW u \in booted PROVE CtxAfterSave[u] = active_process[u]
    BY <2>1, <2>2, <2>3, <2>5, <2>6, <2>8 DEF Suspended, CtxAfterEntry, TypeInv, TypeOK
  <2>9. ASSUME NEW u \in booted PROVE StackAfterSave[u] = proc[u]
    BY <2>1, <2>2, <2>5, <2>6, <2>9 DEF Entered, FlowOK, TypeInv, TypeOK
  <2>10. ASSUME NEW u \in booted, pc[u] \in Leaving PROVE FramesAfterSave[ret[u]] = pid[u]
    BY <2>1, <2>2, <2>5, <2>6, <2>10 DEF FlowOK, FramesAfterEntry, Leaving, TypeInv, TypeOK
  <2>11. ASSUME NEW u \in Terminals \ booted PROVE StackAfterSave[u] = NoPid
    BY <2>1, <2>2, <2>11 DEF Coherent, BootOrder, Entered, TypeInv, TypeOK
  <2>12. ASSUME NEW p \in present \ Terminals, ~Making(p)
         PROVE  stack_ptr[p] = parent[p] /\ FramesAfterSave[parent[p]] = p
    <3>1. Awaited(p) /\ parent[p] \in Pids
      BY <2>12 DEF Coherent, Families, TypeInv, TypeOK
    <3>2. pc[r] = "user" => parent[p] # esp0
      BY <2>5 DEF ChildOf
    <3> QED
      BY <2>1, <3>1, <3>2 DEF Awaited, FramesAfterEntry, TypeInv, TypeOK
  <2>13. CanSave
    BY <2>1, <2>2, <2>3, <2>4
  <2> QED
    BY <2>7, <2>8, <2>9, <2>10, <2>11, <2>12, <2>13 DEF AllSaved
<1> QED
  BY <1>1, <1>2

(* The timer resumes the next terminal.                                    *)
LEMMA TickResumeCoherent ==
    ASSUME TypeInv, Coherent, TickResume
    PROVE  Coherent'
<1> USE DEF localVars
<1>1. PICK n \in Terminals : n = NextTerminal
  BY NextTerminalType DEF TypeInv, TypeOK
<1>2. PICK p : p = active_process[n]
  OBVIOUS
<1>3. n \in booted /\ AllSaved /\ FlowOK(n)
  BY <1>1, SaveFlow DEF TickResume, Coherent
<1>4. /\ user_page' = p /\ esp0' = p /\ exec_terminal' = n /\ running' = n
      /\ prev_sp' = PrevSpAfterSave
      /\ ctx' = [CtxAfterSave EXCEPT ![n] = Current]
      /\ kstack' = [StackAfterSave EXCEPT ![n] = IF pc[n] = "user" THEN NoPid ELSE @]
      /\ frames' = FramesAfterSave
      /\ UNCHANGED <<present, parent, stack_ptr, owner, booted, active_process,
                     active_terminal, pc, proc, pid, par, ret, hazards>>
  BY <1>1, <1>2, <1>3 DEF TickResume, SetTss, AllSaved
<1>5. BootOrder'
  <2>1. running # BootFlow
    BY <1>3 DEF TypeInv, LocalsOK
  <2>2. booted = Terminals \/ (booted = 0 .. exec_terminal /\ n = 0 /\ exec_terminal = NUM_TERMINAL - 1)
    BY <1>1, <1>3, NextTerminalCycles DEF Coherent, BootOrder, TypeInv, TypeOK, Terminals
  <2>3. booted = Terminals
    BY <2>2 DEF Terminals
  <2>4. ASSUME NEW t \in Terminals \ booted PROVE FALSE
    BY <2>3, <2>4
  <2> QED
    BY <1>3, <1>4, <2>1, <2>3, <2>4, TerminalNumbers DEF Coherent, BootOrder
<1>6. Families'
  BY <1>4 DEF Coherent, Families, Between, ChildOf
<1>7. ASSUME NEW u \in booted' PROVE FlowOK(u)'
  <2>1. FlowOK(u) /\ \A q : ChildOf(q)' = ChildOf(q)
    BY <1>4, <1>7 DEF Coherent, ChildOf
  <2>2. kstack'[u] = IF running' = u /\ pc'[u] = "user" THEN NoPid ELSE proc'[u]
    BY <1>3, <1>4, <1>7 DEF AllSaved, StackAfterSave, Entered, TypeInv, TypeOK
  <2>3. pc[u] \in Leaving => frames'[ret[u]] = pid[u]
    BY <1>3, <1>4, <1>7 DEF AllSaved
  <2> QED
    BY <1>4, <2>1, <2>2, <2>3 DEF FlowOK
<1>8. ASSUME NEW u \in booted', NEW v \in booted', u # v PROVE (proc[u] # proc[v])'
  BY <1>4, <1>8 DEF Coherent
<1>9. MappingOK(n)'
  BY <1>2, <1>4 DEF MappingOK
<1>10. ASSUME NEW u \in booted' \ {running'} PROVE Suspended(u)'
  <2>1. u \in booted /\ u # n /\ active_process[u] \in present
    BY <1>4, <1>10 DEF Coherent, FlowOK
  <2> QED
    BY <1>3, <1>4, <2>1 DEF AllSaved, Suspended, CtxAfterSave, CtxAfterEntry, TypeInv, TypeOK
<1>11. ASSUME NEW q \in present' \ Terminals PROVE Making(q)' \/ Awaited(q)'
  BY <1>3, <1>4, <1>11 DEF AllSaved, Making, Awaited
<1> QED
  BY <1>4, <1>5, <1>6, <1>7, <1>8, <1>9, <1>10, <1>11 DEF Coherent

(* The timer always finds a context to resume or a slot for a shell.       *)
LEMMA NoTickCrash ==
    ASSUME TypeInv, Coherent
    PROVE  ~TickCrash
<1> SUFFICES ASSUME TickCrash PROVE FALSE
  OBVIOUS
<1>1. PICK n \in Terminals : n = NextTerminal
  BY NextTerminalType DEF TypeInv, TypeOK
<1>2. AllSaved
  BY SaveFlow
<1>3. CASE n \in booted
  <2>1. active_process[n] \in Pids
    BY <1>3 DEF Coherent, FlowOK, TypeInv, TypeOK
  <2>2. PrevSpAfterSave[active_process[n]] = n /\ CtxAfterSave[n] = active_process[n] /\ CanSave
    BY <1>2, <1>3 DEF AllSaved
  <2>3. n # NoFlow /\ active_process[n] # NoPid
    BY <2>1, NoPidNoSlot, TerminalNumbers
  <2>4. Resumable(active_process[n])
    BY <2>2, <2>3 DEF Resumable
  <2> QED
    BY <1>1, <1>3, <2>2, <2>4 DEF TickCrash
<1>4. CASE n \notin booted
  <2>1. n \in Pids /\ n \notin present
    BY <1>4, SizesAssumption DEF Coherent, BootOrder, Terminals, Pids
  <2> QED
    BY <1>1, <1>2, <1>4, <2>1 DEF TickCrash, AllSaved
<1> QED
  BY <1>3, <1>4

(* The timer boots the next terminal.                                      *)
LEMMA TickBootCoherent ==
    ASSUME TypeInv, Coherent, Clean, TickBoot, Clean'
    PROVE  Coherent'
<1>1. PICK n \in Terminals : n = NextTerminal
  BY NextTerminalType DEF TypeInv, TypeOK
<1>2. AllSaved
  BY SaveFlow
<1>3. /\ n \notin booted /\ n \in Pids \ present
      /\ n = exec_terminal + 1 /\ booted = 0 .. exec_terminal
      /\ exec_terminal \in Int /\ exec_terminal >= -1
  <2>1. n \notin booted
    BY <1>1 DEF TickBoot
  <2>2. n \in Pids \ present
    BY <2>1, SizesAssumption DEF Coherent, BootOrder, Terminals, Pids
  <2>3. booted = 0 .. exec_terminal
    BY <2>1 DEF Coherent, BootOrder
  <2>4. exec_terminal # NUM_TERMINAL - 1
    BY <2>1, <2>3 DEF Terminals
  <2> QED
    BY <1>1, <2>1, <2>2, <2>3, <2>4, NextTerminalCycles, SizesAssumption DEF TypeInv, TypeOK, Terminals
<1>4. PICK i \in Pids : BootInto(i, n)
  BY <1>1 DEF TickBoot
<1>5. i = n
  <2>1. i \notin present /\ i <= n
    BY <1>3, <1>4 DEF BootInto, FirstFree
  <2>2. \A b \in booted : b \in present
    BY DEF Coherent, BootOrder
  <2> QED
    BY <1>3, <2>1, <2>2 DEF Pids
<1>6. /\ present' = present \cup {n}
      /\ parent' = [parent EXCEPT ![n] = NoPid]
      /\ owner' = [owner EXCEPT ![n] = n]
      /\ prev_sp' = [PrevSpAfterSave EXCEPT ![n] = NoFlow]
      /\ active_process' = [active_process EXCEPT ![n] = n]
      /\ proc' = [proc EXCEPT ![n] = n]
      /\ pc' = [pc EXCEPT ![n] = "user"]
      /\ exec_terminal' = n /\ user_page' = n /\ esp0' = n /\ running' = n
      /\ booted' = booted \cup {n} /\ active_terminal' = Shown
      /\ kstack' = StackAfterSave /\ ctx' = CtxAfterSave /\ frames' = FramesAfterSave
      /\ UNCHANGED <<pid, par, ret>>
  BY <1>1, <1>4, <1>5 DEF TickBoot, BootInto, ShellParent, Goto, localVars
<1>7. \A p \in present : stack_ptr'[p] = stack_ptr[p] /\ p # n
  BY <1>3, <1>4, <1>5 DEF BootInto, TypeInv, TypeOK
<1>8. /\ \A u \in Terminals : StackAfterSave[u] # n
      /\ pid[n] = NoPid
  <2>1. \A u \in Terminals : StackAfterSave[u] # n
    BY <1>4, <1>5 DEF BootInto, Record, Clean
  <2>2. pid[n] = NoPid
    BY <1>3 DEF Coherent, BootOrder
  <2> QED
    BY <2>1, <2>2
<1>9. \A q : q # NoPid => ChildOf(q)' = ChildOf(q)
  BY <1>3, <1>6, <1>7 DEF ChildOf, TypeInv, TypeOK
<1>10. ChildOf(n)' = {}
  <2>1. \A c \in present : parent[c] # n
    BY <1>3, ParentPresent, NoPidNoSlot
  <2> QED
    BY <1>3, <1>9, <2>1, NoPidNoSlot DEF ChildOf
<1>11. ASSUME NEW u \in booted
       PROVE  /\ u # n /\ u \in Terminals /\ FlowOK(u) /\ active_process[u] \in present
              /\ proc[u] # n
  <2>1. u # n /\ u \in Terminals /\ FlowOK(u)
    BY <1>3, <1>11 DEF Coherent, TypeInv, TypeOK
  <2>2. active_process[u] \in present
    BY <2>1 DEF FlowOK
  <2>3. StackAfterSave[u] = proc[u]
    BY <1>2, <1>11 DEF AllSaved
  <2> QED
    BY <1>8, <2>1, <2>2, <2>3
<1>12. BootOrder'
  <2>1. booted' = 0 .. exec_terminal'
    BY <1>3, <1>6
  <2>2. Shown \in booted'
    BY <1>3, <1>6 DEF Shown, Coherent, BootOrder, TypeInv, TypeOK, Terminals
  <2>3. present' \cap Terminals = booted'
    BY <1>6 DEF Coherent, BootOrder
  <2>4. \A t \in Terminals \ booted' : pc'[t] = "idle" /\ kstack'[t] = NoPid /\ pid'[t] = NoPid
    BY <1>2, <1>6 DEF AllSaved, Coherent, BootOrder, TypeInv, TypeOK
  <2> QED
    BY <1>6, <2>1, <2>2, <2>3, <2>4, TerminalNumbers DEF BootOrder
<1>13. Families'
  <2>1. \A p \in present : /\ parent'[p] = parent[p] /\ owner'[p] = owner[p]
                           /\ owner[p] \in booted
    BY <1>6, <1>7 DEF Coherent, Families, TypeInv, TypeOK
  <2>2. parent'[n] = NoPid /\ owner'[n] = n /\ active_process'[n] = n
    BY <1>3, <1>6 DEF TypeInv, TypeOK
  <2>3. \A p \in present : \/ p = active_process'[owner'[p]]
                            \/ Between(p)'
                            \/ ChildOf(p)' # {}
    BY <1>6, <1>9, <1>11, <2>1, NoPidNoSlot DEF Coherent, Families, Between, TypeInv, TypeOK
  <2>4. \A p, q \in present' : parent'[p] = parent'[q] /\ parent'[p] # NoPid => p = q
    BY <1>6, <2>1, <2>2 DEF Coherent, Families
  <2>5. \A p \in present :
         \/ p \in booted' /\ parent'[p] = NoPid /\ owner'[p] = p
         \/ /\ p \notin Terminals /\ owner'[p] \in booted'
            /\ parent'[p] \in present' /\ owner'[parent'[p]] = owner'[p]
    BY <1>6, <2>1 DEF Coherent, Families
  <2> QED
    BY <1>6, <2>2, <2>3, <2>4, <2>5 DEF Families
<1>14. ASSUME NEW u \in booted' PROVE FlowOK(u)'
  <2>1. CASE u = n
    <3>1. pc'[n] = "user" /\ active_process'[n] = n /\ proc'[n] = n /\ owner'[n] = n
      BY <1>3, <1>6 DEF TypeInv, TypeOK
    <3>2. kstack'[n] = NoPid /\ pid'[n] = NoPid /\ running' = n /\ n \in present'
      BY <1>2, <1>3, <1>6, <1>8 DEF AllSaved
    <3> QED
      BY <1>10, <2>1, <3>1, <3>2 DEF FlowOK, Starting, Loading, Entering, Leaving
  <2>2. CASE u # n
    <3>1. u \in booted /\ FlowOK(u) /\ active_process[u] \in present /\ proc[u] # n
      BY <1>6, <1>11, <1>14, <2>2
    <3>2. /\ UNCHANGED <<pc[u], pid[u], par[u], ret[u], active_process[u], proc[u]>>
          /\ kstack'[u] = proc[u] /\ running' # u
          /\ pc[u] \in Leaving => frames'[ret[u]] = pid[u]
      BY <1>2, <1>6, <2>2, <3>1 DEF AllSaved, TypeInv, TypeOK
    <3>3. \A p \in present : /\ p \in present' /\ ChildOf(p)' = ChildOf(p)
                             /\ parent'[p] = parent[p] /\ owner'[p] = owner[p]
      BY <1>3, <1>6, <1>7, <1>9, NoPidNoSlot DEF TypeInv, TypeOK
    <3>4. pc[u] \in Leaving => pid[u] \notin present'
      BY <1>6, <3>1 DEF FlowOK
    <3> QED
      BY <3>1, <3>2, <3>3, <3>4 DEF FlowOK
  <2> QED
    BY <2>1, <2>2
<1>15. ASSUME NEW u \in booted', NEW v \in booted', u # v PROVE (proc[u] # proc[v])'
  BY <1>6, <1>11, <1>15 DEF Coherent, TypeInv, TypeOK
<1>16. MappingOK(n)'
  BY <1>6 DEF MappingOK, TypeInv, TypeOK
<1>17. ASSUME NEW u \in booted' \ {running'} PROVE Suspended(u)'
  <2>1. u \in booted /\ u # n /\ active_process[u] \in present /\ active_process[u] # n
    BY <1>3, <1>6, <1>11, <1>17
  <2>2. active_process'[u] = active_process[u] /\ active_process[u] \in present'
    BY <1>6, <2>1
  <2>3. prev_sp'[active_process[u]] = PrevSpAfterSave[active_process[u]]
    BY <1>6, <2>1
  <2> QED
    BY <1>2, <1>6, <2>1, <2>2, <2>3 DEF AllSaved, Suspended
<1>18. ASSUME NEW p \in present' \ Terminals PROVE Making(p)' \/ Awaited(p)'
  <2>1. p \in present /\ parent'[p] = parent[p] /\ stack_ptr'[p] = stack_ptr[p]
    BY <1>6, <1>7, <1>18 DEF TypeInv, TypeOK
  <2>2. pc[n] = "idle"
    BY <1>3 DEF Coherent, BootOrder
  <2> QED
    BY <1>2, <1>6, <1>18, <2>1, <2>2 DEF AllSaved, Making, Awaited, TypeInv, TypeOK
<1> QED
  BY <1>6, <1>12, <1>13, <1>14, <1>15, <1>16, <1>17, <1>18 DEF Coherent

-----------------------------------------------------------------------------
(* The machine boots coherent.                                             *)
LEMMA InitIInv == Init => IInv
<1> SUFFICES ASSUME Init PROVE IInv
  OBVIOUS
<1>1. TypeOK /\ LocalsOK
  BY TypeInit DEF TypeInv
<1>2. BootOrder
  BY DEF Init, BootOrder
<1>3. Coherent
  BY <1>2, TerminalNumbers DEF Init, Coherent, Families
<1> QED
  BY <1>1, <1>3 DEF IInv

(* A hazard once recorded stays recorded.                                  *)
LEMMA CleanBefore == [Next]_vars /\ Clean' => Clean
<1> SUFFICES ASSUME [Next]_vars PROVE hazards \subseteq hazards'
  BY DEF Clean
<1>1. CASE Tick
  BY <1>1 DEF Tick, TickResume, TickBoot, TickCrash, BootInto, Record
<1>2. ASSUME NEW t \in Terminals, Execute(t) PROVE hazards \subseteq hazards'
  BY <1>2 DEF Execute, ExecReject, ExecParent, ExecScan, ExecInsert, ExecActive, ExecPage,
     ExecLoad, ExecFrame, ExecTss, ExecIret, Record
<1>3. ASSUME NEW t \in Terminals, Halt(t) \/ HaltCrash(t) PROVE hazards \subseteq hazards'
  BY <1>3 DEF Halt, HaltBase, HaltRead, HaltActive, HaltEnd, HaltPage, HaltTss, HaltJump,
     HaltCrash
<1>4. ASSUME NEW t \in Terminals, User(t) \/ SwitchTerminal(t) PROVE hazards \subseteq hazards'
  BY <1>4 DEF User, ExecCall, HaltCall, SystemCall, Fault, FaultBase, FaultCrash, Record,
     SwitchTerminal
<1>5. CASE UNCHANGED vars
  BY <1>5 DEF vars
<1> QED
  BY <1>1, <1>2, <1>3, <1>4, <1>5 DEF Next, Kernel

(* Every step that records no hazard keeps the kernel coherent.            *)
LEMMA StepCoherent ==
    ASSUME TypeInv, Coherent, Clean, Clean', [Next]_vars
    PROVE  Coherent'
<1>1. CASE Tick
  BY <1>1, TickResumeCoherent, TickBootCoherent, NoTickCrash DEF Tick
<1>2. ASSUME NEW t \in Terminals, Execute(t) PROVE Coherent'
  BY <1>2, ExecRejectCoherent, ExecParentCoherent, ExecScanCoherent, ExecInsertCoherent,
     ExecActiveCoherent, ExecPageCoherent, ExecLoadCoherent, ExecFrameCoherent,
     ExecTssCoherent, ExecIretCoherent DEF Execute
<1>3. ASSUME NEW t \in Terminals, Halt(t) PROVE Coherent'
  BY <1>3, HaltBaseCoherent, HaltReadCoherent, HaltActiveCoherent, HaltEndCoherent,
     HaltPageCoherent, HaltTssCoherent, HaltJumpCoherent DEF Halt
<1>4. ASSUME NEW t \in Terminals, User(t) \/ HaltCrash(t) PROVE Coherent'
  <2>1. ~FaultBase(t)
    BY DEF FaultBase, Record, Clean
  <2> QED
    BY <1>4, <2>1, SystemCallCoherent, FaultCoherent, NoFaultCrash, NoHaltCrash
       DEF User, ExecCall, HaltCall
<1>5. ASSUME NEW t \in Terminals, SwitchTerminal(t) PROVE Coherent'
  BY <1>5, SwitchTerminalCoherent
<1>6. CASE UNCHANGED vars
  <2> USE <1>6 DEF vars, pcbVars, tmnlVars, cpuVars, localVars, flowVars
  <2>1. (BootOrder' <=> BootOrder) /\ (Families' <=> Families)
    BY DEF BootOrder, Families, Between, ChildOf
  <2>2. \A u : FlowOK(u)' <=> FlowOK(u)
    BY DEF FlowOK, ChildOf
  <2>3. \A u : (Suspended(u)' <=> Suspended(u)) /\ (MappingOK(u)' <=> MappingOK(u))
    BY DEF Suspended, MappingOK
  <2>4. \A p : (Making(p)' <=> Making(p)) /\ (Awaited(p)' <=> Awaited(p))
    BY DEF Making, Awaited
  <2>5. MappingOK(running)' <=> MappingOK(running)
    BY DEF MappingOK
  <2> QED
    BY <2>1, <2>2, <2>3, <2>4, <2>5 DEF Coherent
<1> QED
  BY <1>1, <1>2, <1>3, <1>4, <1>5, <1>6 DEF Next, Kernel

(* The kernel stays coherent as long as no hazard happens: IInv is an      *)
(* invariant, for any number of terminals and any size of process table.   *)
THEOREM CoherentAlways == Spec => []IInv
<1>1. Init => IInv
  BY InitIInv
<1>2. IInv /\ [Next]_vars => IInv'
  BY TypeStep, CleanBefore, StepCoherent DEF IInv, TypeInv
<1> QED
  BY <1>1, <1>2, PTL DEF Spec

(* No context or stack frame that is gone is ever resumed.                 *)
THEOREM NeverCrashes == Spec => []NoCrash
<1>1. IInv => NoCrash
  BY TerminalNumbers DEF IInv, NoCrash, Coherent, BootOrder, TypeOK
<1> QED
  BY <1>1, CoherentAlways, PTL

(* exec_terminal, page_directory[32] and tss.esp0 agree with what runs.    *)
THEOREM AlwaysRunsOwnProcess == Spec => []RunsOwnProcess
<1>1. IInv => RunsOwnProcess
  <2> SUFFICES ASSUME IInv, Clean, NEW t \in Terminals, running = t
               PROVE  /\ exec_terminal = t
                      /\ pc[t] = "user" => /\ active_process[t] = proc[t]
                                           /\ user_page = proc[t]
                                           /\ esp0 = proc[t]
                      /\ pc[t] \in {"exec_parent", "halt_read"} => user_page = proc[t]
                      /\ pc[t] = "exec_load" => user_page = pid[t]
    BY DEF RunsOwnProcess
  <2>1. exec_terminal = t /\ FlowOK(t) /\ MappingOK(t)
    BY RunningFlow DEF IInv, TypeInv
  <2> QED
    BY <2>1 DEF FlowOK, MappingOK, Loading
<1> QED
  BY <1>1, CoherentAlways, PTL

(* Every suspended flow can be resumed where change_context looks for it.  *)
THEOREM AlwaysResumable == Spec => []SuspendedResumable
<1>1. IInv => SuspendedResumable
  BY DEF IInv, Coherent, SuspendedResumable
<1> QED
  BY <1>1, CoherentAlways, PTL

(* Each terminal's processes form a chain, and no slot leaks.              *)
THEOREM AlwaysTree == Spec => []ProcessTree
<1>1. IInv => ProcessTree
  <2> SUFFICES ASSUME IInv, Clean PROVE ProcessTree
    BY DEF ProcessTree
  <2>1. Families /\ \A t \in booted : FlowOK(t)
    BY DEF IInv, Coherent
  <2>2. \A t \in booted : active_process[t] \in present /\ owner[active_process[t]] = t
    BY <2>1 DEF FlowOK
  <2> QED
    BY <2>1, <2>2 DEF ProcessTree, Families, ChildOf
<1> QED
  BY <1>1, CoherentAlways, PTL

(* No two flows share a kernel stack.                                      *)
THEOREM AlwaysOwnStacks == Spec => []OwnStacks
<1>1. IInv => OwnStacks
  <2> SUFFICES ASSUME IInv, Clean, NEW t \in Terminals, NEW u \in Terminals,
                      t # u, kstack[t] # NoPid
               PROVE  kstack[t] # kstack[u]
    BY DEF OwnStacks
  <2>1. t \in booted /\ FlowOK(t)
    BY DEF IInv, Coherent, BootOrder
  <2>2. kstack[t] = proc[t]
    BY <2>1 DEF FlowOK
  <2>3. CASE u \in booted
    BY <2>1, <2>2, <2>3 DEF IInv, Coherent, FlowOK
  <2>4. CASE u \notin booted
    BY <2>4 DEF IInv, Coherent, BootOrder
  <2> QED
    BY <2>3, <2>4
<1> QED
  BY <1>1, CoherentAlways, PTL

(* halt finds the frame of the execute that started the process.           *)
THEOREM ParentsAlwaysWait == Spec => []ParentsWait
<1>1. IInv => ParentsWait
  BY DEF IInv, Coherent, ParentsWait
<1> QED
  BY <1>1, CoherentAlways, PTL

(* Only the flow that made a process frees its slot; base shells stay.     *)
THEOREM OnlyOwnSlotsFreed == Spec => FreesOwnSlot
<1>1. IInv /\ [Next]_vars =>
        (Clean => \A p \in present \ present' : running = owner[p] /\ p \notin Terminals)
  <2> SUFFICES ASSUME IInv, [Next]_vars, Clean, NEW p \in present \ present'
               PROVE  running = owner[p] /\ p \notin Terminals
    OBVIOUS
  <2> USE DEF pcbVars, tmnlVars, cpuVars, localVars, flowVars
  <2>1. PICK t \in Terminals : HaltEnd(t) \/ Fault(t)
    <3>1. ~Tick
      BY DEF Tick, TickResume, TickBoot, TickCrash, BootInto
    <3>2. \A t \in Terminals : ~Execute(t) /\ ~SwitchTerminal(t) /\ ~HaltCrash(t)
      BY DEF Execute, ExecReject, ExecParent, ExecScan, ExecInsert, ExecActive, ExecPage,
         ExecLoad, ExecFrame, ExecTss, ExecIret, SwitchTerminal, HaltCrash
    <3>3. \A t \in Terminals : Halt(t) => HaltEnd(t)
      BY DEF Halt, HaltBase, HaltRead, HaltActive, HaltPage, HaltTss, HaltJump
    <3>4. \A t \in Terminals : User(t) => Fault(t)
      BY DEF User, ExecCall, HaltCall, SystemCall, FaultBase, FaultCrash
    <3>5. ~UNCHANGED vars
      BY DEF vars
    <3> QED
      BY <3>1, <3>2, <3>3, <3>4, <3>5 DEF Next, Kernel
  <2>2. running = t /\ exec_terminal = t /\ FlowOK(t)
    BY <2>1, RunningFlow DEF HaltEnd, Fault, At, IInv, TypeInv
  <2>3. CASE HaltEnd(t)
    BY <2>2, <2>3 DEF HaltEnd, At, FlowOK
  <2>4. CASE Fault(t)
    <3>1. p = active_process[t] /\ parent[p] # NoPid
      BY <2>2, <2>4 DEF Fault
    <3> QED
      BY <2>2, <2>4, <3>1, FaultReturns DEF Fault, FlowOK, IInv, TypeInv
  <2> QED
    BY <2>1, <2>3, <2>4
<1> QED
  BY <1>1, CoherentAlways, PTL DEF Spec, FreesOwnSlot

-----------------------------------------------------------------------------
(* Whatever hazard happens, as long as no command has got a base shell's   *)
(* pid the base shells have no parent, and a halt that is under way is not *)
(* a base shell's.                                                         *)
Rooted ==
    /\ \A p \in Terminals : parent[p] = NoPid
    /\ \A t \in Terminals : pc[t] \in {"halt_active", "halt_end"} => pid[t] \notin Terminals

BasesKept == "early_exec" \notin hazards => Rooted

(* What went wrong stays on record.                                        *)
LEMMA EarlyExecRemains ==
    ASSUME [Next]_vars, "early_exec" \in hazards
    PROVE  "early_exec" \in hazards'
<1> USE DEF Record, pcbVars, tmnlVars, cpuVars, localVars, flowVars
<1>1. CASE Tick
  BY <1>1 DEF Tick, TickResume, TickBoot, TickCrash, BootInto
<1>2. ASSUME NEW t \in Terminals, Execute(t) PROVE "early_exec" \in hazards'
  BY <1>2 DEF Execute, ExecReject, ExecParent, ExecScan, ExecInsert, ExecActive, ExecPage,
     ExecLoad, ExecFrame, ExecTss, ExecIret
<1>3. ASSUME NEW t \in Terminals, Halt(t) \/ HaltCrash(t) PROVE "early_exec" \in hazards'
  BY <1>3 DEF Halt, HaltBase, HaltRead, HaltActive, HaltEnd, HaltPage, HaltTss, HaltJump, HaltCrash
<1>4. ASSUME NEW t \in Terminals, User(t) \/ SwitchTerminal(t) PROVE "early_exec" \in hazards'
  BY <1>4 DEF User, ExecCall, HaltCall, SystemCall, Fault, FaultBase, FaultCrash, SwitchTerminal
<1>5. CASE UNCHANGED vars
  BY <1>5 DEF vars
<1> QED
  BY <1>1, <1>2, <1>3, <1>4, <1>5 DEF Next, Kernel

(* Only ExecInsert, ExecActive, Fault's halt and a tick that boots touch   *)
(* what Rooted is about, and HaltRead is where a halt takes its process.   *)
LEMMA RootedStep ==
    ASSUME TypeInv, Rooted, [Next]_vars, "early_exec" \notin hazards'
    PROVE  Rooted'
<1> USE DEF TypeInv, TypeOK, Rooted, pcbVars, tmnlVars, cpuVars, localVars, flowVars, At, Goto
<1>1. ASSUME NEW t \in Terminals, ExecInsert(t) PROVE Rooted'
  <2>1. pid[t] \notin Terminals
    BY <1>1 DEF ExecInsert
  <2> QED
    BY <1>1, <2>1 DEF ExecInsert
<1>2. ASSUME NEW t \in Terminals, ExecActive(t) PROVE Rooted'
  BY <1>2 DEF ExecActive
<1>3. ASSUME NEW t \in Terminals, HaltRead(t) PROVE Rooted'
  <2>1. active_process[exec_terminal] \notin Terminals
    BY <1>3 DEF HaltRead
  <2> QED
    BY <1>3, <2>1 DEF HaltRead
<1>4. ASSUME NEW t \in Terminals, Execute(t), ~ExecInsert(t), ~ExecActive(t) PROVE Rooted'
  <2>1. CASE ExecReject(t) \/ ExecIret(t)
    BY <2>1 DEF ExecReject, ExecIret, ToUser
  <2>2. CASE ExecParent(t)
    BY <2>2 DEF ExecParent
  <2>3. CASE ExecScan(t)
    <3>1. CASE pc' = [pc EXCEPT ![t] = "exec_insert"] /\ UNCHANGED localVars
      BY <2>3, <3>1 DEF ExecScan
    <3>2. CASE pid' = [pid EXCEPT ![t] = @ + 1] /\ UNCHANGED pc
      BY <2>3, <3>2 DEF ExecScan
    <3>3. CASE ToUser(t)
      BY <2>3, <3>3 DEF ExecScan, ToUser
    <3> QED
      BY <2>3, <3>1, <3>2, <3>3 DEF ExecScan
  <2>4. CASE ExecLoad(t)
    <3>1. CASE pc' = [pc EXCEPT ![t] = "exec_frame"] /\ UNCHANGED localVars
      BY <2>4, <3>1 DEF ExecLoad
    <3>2. CASE ToUser(t)
      BY <2>4, <3>2 DEF ExecLoad, ToUser
    <3> QED
      BY <2>4, <3>1, <3>2 DEF ExecLoad
  <2>5. CASE ExecPage(t) \/ ExecFrame(t) \/ ExecTss(t)
    BY <2>5 DEF ExecPage, ExecFrame, ExecTss
  <2> QED
    BY <1>4, <2>1, <2>2, <2>3, <2>4, <2>5 DEF Execute
<1>5. ASSUME NEW t \in Terminals, HaltActive(t) PROVE Rooted'
  BY <1>5 DEF HaltActive
<1>6. ASSUME NEW t \in Terminals, Halt(t), ~HaltRead(t), ~HaltActive(t) PROVE Rooted'
  <2>1. UNCHANGED parent /\ pc'[t] \notin {"halt_active", "halt_end"}
    BY <1>6 DEF Halt, HaltBase, HaltEnd, HaltPage, HaltTss, HaltJump, ToUser
  <2>2. \A u \in Terminals \ {t} : pc'[u] = pc[u] /\ pid'[u] = pid[u]
    BY <1>6 DEF Halt, HaltBase, HaltEnd, HaltPage, HaltTss, HaltJump, ToUser
  <2> QED
    BY <2>1, <2>2
<1>7. ASSUME NEW t \in Terminals, User(t) \/ HaltCrash(t) \/ SwitchTerminal(t) PROVE Rooted'
  <2>1. CASE ExecCall(t) \/ HaltCall(t)
    BY <2>1 DEF ExecCall, HaltCall, SystemCall
  <2>2. CASE Fault(t) \/ FaultBase(t) \/ FaultCrash(t)
    <3>1. UNCHANGED <<parent, pc, pid>>
      BY <2>2 DEF Fault, FaultBase, FaultCrash
    <3> QED
      BY <3>1
  <2>3. CASE HaltCrash(t) \/ SwitchTerminal(t)
    BY <2>3 DEF HaltCrash, SwitchTerminal
  <2> QED
    BY <1>7, <2>1, <2>2, <2>3 DEF User
<1>8. CASE TickResume \/ TickCrash
  BY <1>8 DEF TickResume, TickCrash
<1>9. CASE TickBoot
  <2>1. NextTerminal \in Terminals
    BY NextTerminalType
  <2>2. PICK i \in Pids : BootInto(i, NextTerminal)
    BY <1>9 DEF TickBoot
  <2>3. \A p \in Terminals : parent'[p] = NoPid
    BY <2>2 DEF BootInto, ShellParent
  <2> QED
    BY <1>9, <2>1, <2>3 DEF TickBoot
<1>10. CASE UNCHANGED vars
  BY <1>10 DEF vars
<1> QED
  BY <1>1, <1>2, <1>3, <1>4, <1>5, <1>6, <1>7, <1>8, <1>9, <1>10 DEF Next, Tick, Kernel

(* A base shell's slot is never freed, in the presence of every hazard but *)
(* the one (halt, syscall.c:93-97): a halt of it returns, and so does the  *)
(* one an exception makes.                                                 *)
THEOREM BasesNeverEnd == Spec => BaseShellsStay
<1>1. Init => TypeInv /\ BasesKept
  BY TypeInit, SizesAssumption DEF Init, BasesKept, Rooted, Terminals, Pids
<1>2. TypeInv /\ BasesKept /\ [Next]_vars => (TypeInv /\ BasesKept)'
  BY TypeStep, EarlyExecRemains, RootedStep DEF BasesKept
<1>3. TypeInv /\ BasesKept /\ [Next]_vars =>
        ("early_exec" \notin hazards => present \cap Terminals \subseteq present')
  <2> SUFFICES ASSUME TypeInv, Rooted, [Next]_vars PROVE present \cap Terminals \subseteq present'
    BY DEF BasesKept
  <2> USE DEF TypeInv, TypeOK, Rooted, pcbVars, tmnlVars, cpuVars, localVars, flowVars, At
  <2>1. CASE Tick
    BY <2>1 DEF Tick, TickResume, TickBoot, TickCrash, BootInto
  <2>2. ASSUME NEW t \in Terminals, Execute(t) \/ HaltCrash(t) \/ SwitchTerminal(t)
        PROVE  present \subseteq present'
    BY <2>2 DEF Execute, ExecReject, ExecParent, ExecScan, ExecInsert, ExecActive, ExecPage,
       ExecLoad, ExecFrame, ExecTss, ExecIret, HaltCrash, SwitchTerminal
  <2>3. ASSUME NEW t \in Terminals, Halt(t) PROVE present \cap Terminals \subseteq present'
    BY <2>3 DEF Halt, HaltBase, HaltRead, HaltActive, HaltEnd, HaltPage, HaltTss, HaltJump
  <2>4. ASSUME NEW t \in Terminals, User(t) PROVE present \cap Terminals \subseteq present'
    <3>1. CASE Fault(t)
      <4>1. active_process[exec_terminal] \notin Terminals
        BY <3>1 DEF Fault
      <4> QED
        BY <3>1, <4>1 DEF Fault
    <3>2. CASE ~Fault(t)
      BY <2>4, <3>2 DEF User, ExecCall, HaltCall, SystemCall, FaultBase, FaultCrash
    <3> QED
      BY <3>1, <3>2
  <2>5. CASE UNCHANGED vars
    BY <2>5 DEF vars
  <2> QED
    BY <2>1, <2>2, <2>3, <2>4, <2>5 DEF Next, Kernel
<1> QED
  BY <1>1, <1>2, <1>3, PTL DEF Spec, BaseShellsStay

-----------------------------------------------------------------------------
(* ProcessControl implements TimeSharing, for any NUM_TERMINAL and         *)
(* PCB_SIZE, as long as no hazard happens.  The proof goes through the     *)
(* inductive invariant IInv and one more fact: a terminal that has not     *)
(* been booted has no active process.  Each action of ProcessControl is a  *)
(* step of TimeSharing (ExecActive, HaltActive, Fault, TickResume,         *)
(* TickBoot, SwitchTerminal) or a stutter.                                 *)

USE DEF NoPid, NoTerminal, NoFlow, Current, Lost, BootFlow, Crashed

Unbooted == \A t \in Terminals \ booted : active_process[t] = NoPid

(* What the steps below start from and lead to.                            *)
Kept == TypeInv /\ Coherent /\ Unbooted

(* A process is one of the programs unless its flow is between the two     *)
(* statements that put it there or take it away.                           *)
LEMMA LiveOwner ==
    ASSUME TypeInv, Coherent, NEW p \in present
    PROVE  /\ owner[p] \in booted /\ owner[p] \in Terminals
           /\ p \in Live <=> ~(p = pid[owner[p]] /\ pc[owner[p]] \in {"exec_active", "halt_end"})
BY DEF Coherent, Families, BootOrder, TypeInv, TypeOK, Live, Between

(* Nothing TimeSharing knows of changes.                                   *)
LEMMA Stutter ==
    ASSUME Live' = Live, \A p \in Live : parent'[p] = parent[p],
           UNCHANGED <<active_process, exec_terminal, active_terminal>>
    PROVE  UNCHANGED TS!vars
<1>1. [p \in Live |-> parent[p]]' = [p \in Live |-> parent[p]]
  OBVIOUS
<1> QED
  BY <1>1 DEF TS!vars

(* A step of flow t that moves neither from nor to the two statements.     *)
LEMMA OwnStutter ==
    ASSUME TypeInv, Coherent, NEW t \in Terminals,
           UNCHANGED <<present, parent, owner, active_process, exec_terminal, active_terminal>>,
           \A u \in Terminals \ {t} : UNCHANGED <<pc[u], pid[u]>>,
           pc[t] \notin {"exec_active", "halt_end"},
           pc'[t] \notin {"exec_active", "halt_end"}
    PROVE  UNCHANGED TS!vars
<1>1. ASSUME NEW p \in present PROVE Between(p)' <=> Between(p)
  BY LiveOwner DEF Between
<1>2. Live' = Live
  BY <1>1 DEF Live
<1> QED
  BY <1>2, Stutter

(* The statements of execute and halt that TimeSharing does not see.       *)
LEMMA SilentSteps ==
    ASSUME TypeInv, Coherent, NEW t \in Terminals,
           \/ ExecCall(t) \/ ExecReject(t) \/ ExecParent(t) \/ ExecScan(t)
           \/ ExecPage(t) \/ ExecLoad(t) \/ ExecFrame(t) \/ ExecTss(t) \/ ExecIret(t)
           \/ HaltCall(t) \/ HaltBase(t) \/ HaltRead(t) \/ HaltPage(t) \/ HaltTss(t) \/ HaltJump(t)
    PROVE  UNCHANGED TS!vars
<1> USE DEF At, Goto, ToUser, pcbVars, tmnlVars, cpuVars, localVars, TypeInv, TypeOK
<1>1. CASE ExecCall(t) \/ HaltCall(t)
  BY <1>1, OwnStutter DEF ExecCall, HaltCall, SystemCall
<1>2. CASE ExecReject(t) \/ ExecParent(t)
  BY <1>2, OwnStutter DEF ExecReject, ExecParent
<1>3. CASE ExecScan(t)
  BY <1>3, OwnStutter DEF ExecScan
<1>4. CASE ExecPage(t) \/ ExecLoad(t)
  BY <1>4, OwnStutter DEF ExecPage, ExecLoad
<1>5. CASE ExecFrame(t) \/ ExecTss(t) \/ ExecIret(t)
  BY <1>5, OwnStutter DEF ExecFrame, ExecTss, ExecIret
<1>6. CASE HaltBase(t) \/ HaltRead(t)
  BY <1>6, OwnStutter DEF HaltBase, HaltRead
<1>7. CASE HaltPage(t) \/ HaltTss(t) \/ HaltJump(t)
  BY <1>7, OwnStutter DEF HaltPage, HaltTss, HaltJump
<1> QED
  BY <1>1, <1>2, <1>3, <1>4, <1>5, <1>6, <1>7

(* create_process inserts a process that is no program yet.                *)
LEMMA InsertSilent ==
    ASSUME TypeInv, Coherent, NEW t \in Terminals, ExecInsert(t), Clean'
    PROVE  UNCHANGED TS!vars
<1> DEFINE c == pid[t]
<1> USE DEF ExecInsert, At, Goto, pcbVars, tmnlVars, cpuVars, localVars, TypeInv, TypeOK
<1>1. c \in Pids \ present
  BY DEF LocalsOK, ExecLabels, Clean
<1>2. /\ present' = present \cup {c} /\ pid' = pid
      /\ pc' = [pc EXCEPT ![t] = "exec_active"] /\ pc[t] = "exec_insert"
      /\ owner' = [owner EXCEPT ![c] = t]
      /\ parent' = [parent EXCEPT ![c] = par[t]]
  OBVIOUS
<1>3. ASSUME NEW p \in present PROVE Between(p)' <=> Between(p)
  BY <1>1, <1>2, LiveOwner DEF Between
<1>4. Between(c)'
  BY <1>1, <1>2 DEF Between
<1>5. Live' = Live
  BY <1>2, <1>3, <1>4 DEF Live
<1>6. \A p \in Live : parent'[p] = parent[p]
  BY <1>1, <1>2 DEF Live
<1> QED
  BY <1>5, <1>6, Stutter

(* end_process frees a process that is no program any more.                *)
LEMMA EndSilent ==
    ASSUME TypeInv, Coherent, NEW t \in Terminals, HaltEnd(t)
    PROVE  UNCHANGED TS!vars
<1> DEFINE c == pid[t]
<1> USE DEF HaltEnd, At, Goto, pcbVars, tmnlVars, cpuVars, localVars, TypeInv, TypeOK
<1>1. t \in booted /\ c \in present /\ owner[c] = t /\ pc[t] = "halt_end"
  BY RunningFlow DEF FlowOK
<1>2. /\ present' = present \ {c} /\ pid' = pid /\ owner' = owner /\ parent' = parent
      /\ pc' = [pc EXCEPT ![t] = "halt_page"]
  OBVIOUS
<1>3. ASSUME NEW p \in present \ {c} PROVE Between(p)' <=> Between(p)
  BY <1>1, <1>2, LiveOwner DEF Between
<1>4. Between(c)
  BY <1>1 DEF Between
<1>5. Live' = Live
  BY <1>2, <1>3, <1>4 DEF Live
<1> QED
  BY <1>2, <1>5, Stutter

-----------------------------------------------------------------------------
(* execute starts a program at the statement that makes it active.         *)
LEMMA ActiveStarts ==
    ASSUME TypeInv, Coherent, NEW t \in Terminals, ExecActive(t), Clean'
    PROVE  TS!Start(pid[t])
<1> DEFINE c == pid[t]
<1> USE DEF ExecActive, At, Goto, pcbVars, tmnlVars, cpuVars, localVars, TypeInv, TypeOK
<1>1. /\ t \in booted /\ exec_terminal = t
      /\ c \in present \ Terminals /\ owner[c] = t /\ parent[c] = active_process[t]
  BY RunningFlow DEF FlowOK
<1>2. active_terminal = exec_terminal
  BY <1>1 DEF Record, Clean
<1>3. /\ present' = present /\ pid' = pid /\ owner' = owner /\ parent' = parent
      /\ pc' = [pc EXCEPT ![t] = "exec_page"] /\ pc[t] = "exec_active"
      /\ active_process' = [active_process EXCEPT ![t] = c]
      /\ exec_terminal' = exec_terminal /\ active_terminal' = active_terminal
  BY <1>1, <1>2
<1>4. ASSUME NEW p \in present \ {c} PROVE Between(p)' <=> Between(p)
  BY <1>1, <1>3, LiveOwner DEF Between
<1>5. Between(c) /\ ~Between(c)'
  BY <1>1, <1>3 DEF Between
<1>6. Live' = Live \cup {c} /\ c \notin Live
  BY <1>1, <1>3, <1>4, <1>5 DEF Live
<1>7. [p \in Live |-> parent[p]]' =
        [q \in Live \cup {c} |-> IF q = c THEN active_process[t]
                                 ELSE [p \in Live |-> parent[p]][q]]
  BY <1>1, <1>3, <1>6
<1> QED
  BY <1>1, <1>3, <1>6, <1>7, TerminalNumbers DEF TS!Start, TS!Push

(* A step that ends the program on top of the stack of terminal t.         *)
LEMMA Ends ==
    ASSUME TypeInv, Coherent, NEW t \in Terminals, exec_terminal = t,
           NEW c \in present, c = active_process[t], parent[c] # NoPid,
           Live' = Live \ {c}, parent' = parent,
           active_process' = [active_process EXCEPT ![t] = parent[c]],
           c \in Live,
           UNCHANGED <<exec_terminal, active_terminal>>
    PROVE  TS!End
<1>1. [p \in Live |-> parent[p]]' =
        [q \in Live \ {c} |-> [p \in Live |-> parent[p]][q]]
  OBVIOUS
<1>2. [p \in Live |-> parent[p]][c] = parent[c]
  OBVIOUS
<1> QED
  BY <1>1, <1>2, TerminalNumbers DEF TS!End

(* halt ends one at the statement that makes its parent active.            *)
LEMMA HaltEnds ==
    ASSUME TypeInv, Coherent, NEW t \in Terminals, HaltActive(t)
    PROVE  TS!End
<1> DEFINE c == pid[t]
<1> USE DEF HaltActive, At, Goto, pcbVars, tmnlVars, cpuVars, localVars, TypeInv, TypeOK
<1>1. /\ t \in booted /\ exec_terminal = t
      /\ c \in present \ Terminals /\ owner[c] = t
      /\ c = active_process[t] /\ par[t] = parent[c]
  BY RunningFlow DEF FlowOK
<1>2. /\ present' = present /\ pid' = pid /\ owner' = owner /\ parent' = parent
      /\ pc' = [pc EXCEPT ![t] = "halt_end"] /\ pc[t] = "halt_active"
      /\ active_process' = [active_process EXCEPT ![t] = parent[c]]
      /\ exec_terminal' = exec_terminal /\ active_terminal' = active_terminal
  BY <1>1
<1>3. parent[c] # NoPid
  BY <1>1, NoPidNoSlot DEF Coherent, Families
<1>4. ASSUME NEW p \in present \ {c} PROVE Between(p)' <=> Between(p)
  BY <1>1, <1>2, LiveOwner DEF Between
<1>5. Between(c)' /\ ~Between(c)
  BY <1>1, <1>2 DEF Between
<1>6. Live' = Live \ {c} /\ c \in Live
  BY <1>1, <1>2, <1>4, <1>5 DEF Live
<1> QED
  BY <1>1, <1>2, <1>3, <1>6, Ends

(* So does an exception.                                                   *)
LEMMA FaultEnds ==
    ASSUME TypeInv, Coherent, NEW t \in Terminals, Fault(t)
    PROVE  TS!End
<1> DEFINE c == active_process[t]
<1> USE DEF Fault, At, TypeInv, TypeOK
<1>1. t \in booted /\ exec_terminal = t /\ pc[t] = "user" /\ c \in present /\ owner[c] = t
  BY RunningFlow DEF FlowOK
<1>2. /\ present' = present \ {c} /\ pid' = pid /\ owner' = owner /\ parent' = parent
      /\ pc' = pc /\ parent[c] # NoPid
      /\ active_process' = [active_process EXCEPT ![t] = parent[c]]
      /\ exec_terminal' = exec_terminal /\ active_terminal' = active_terminal
  BY <1>1 DEF localVars
<1>3. ASSUME NEW p \in present PROVE Between(p)' <=> Between(p)
  BY <1>2 DEF Between
<1>4. ~Between(c)
  BY <1>1 DEF Between
<1>5. Live' = Live \ {c} /\ c \in Live
  BY <1>1, <1>2, <1>3, <1>4 DEF Live
<1> QED
  BY <1>1, <1>2, <1>5, Ends

-----------------------------------------------------------------------------
(* The round robin of the kernel is that of TimeSharing.                   *)
LEMMA TurnsFollow ==
    ASSUME TypeInv
    PROVE  TS!Following(NextTerminal)
<1>1. exec_terminal \in Terminals \cup {NoTerminal}
  BY DEF TypeInv, TypeOK
<1>2. NextTerminal = IF exec_terminal = NUM_TERMINAL - 1 THEN 0 ELSE exec_terminal + 1
  BY <1>1, NextTerminalCycles
<1> QED
  BY <1>1, <1>2, SizesAssumption DEF TS!Following, Terminals

(* The timer passes the turn on,                                           *)
LEMMA ResumePasses ==
    ASSUME Kept, TickResume
    PROVE  TS!Pass(NextTerminal)
<1> USE DEF Kept, TickResume, TypeInv, TypeOK
<1>1. NextTerminal \in booted /\ active_process[NextTerminal] # NoPid
  BY DEF Resumable
<1>2. \A p \in present : Between(p)' <=> Between(p)
  BY DEF Between, localVars
<1>3. Live' = Live
  BY <1>2 DEF Live
<1>4. [p \in Live |-> parent[p]]' = [p \in Live |-> parent[p]]
  BY <1>3
<1> QED
  BY <1>1, <1>3, <1>4, TurnsFollow DEF TS!Pass

(* or boots the shell of the next terminal.                                *)
LEMMA BootBoots ==
    ASSUME Kept, Clean, TickBoot, Clean'
    PROVE  \E t \in Terminals \ booted : booted' = booted \cup {t} /\ TS!Boot(t)
<1> USE DEF Kept
<1>1. PICK n \in Terminals : n = NextTerminal
  BY NextTerminalType DEF TypeInv, TypeOK
<1>2. n \notin booted /\ n \in Pids \ present /\ booted = 0 .. exec_terminal
      /\ n = exec_terminal + 1
  <2>1. n \notin booted
    BY <1>1 DEF TickBoot
  <2>2. n \in Pids \ present
    BY <2>1, SizesAssumption DEF Coherent, BootOrder, Terminals, Pids
  <2>3. booted = 0 .. exec_terminal
    BY <2>1 DEF Coherent, BootOrder
  <2>4. exec_terminal # NUM_TERMINAL - 1
    BY <2>1, <2>3 DEF Terminals
  <2> QED
    BY <1>1, <2>1, <2>2, <2>3, <2>4, NextTerminalCycles, SizesAssumption DEF TypeInv, TypeOK, Terminals
<1>3. PICK i \in Pids : BootInto(i, n)
  BY <1>1 DEF TickBoot
<1>4. i = n
  <2>1. i \notin present /\ i <= n
    BY <1>2, <1>3 DEF BootInto, FirstFree
  <2>2. \A b \in booted : b \in present
    BY DEF Coherent, BootOrder
  <2> QED
    BY <1>2, <2>1, <2>2 DEF Pids, TypeInv, TypeOK, Terminals
<1>5. /\ present' = present \cup {n}
      /\ parent' = [parent EXCEPT ![n] = NoPid]
      /\ owner' = [owner EXCEPT ![n] = n]
      /\ active_process' = [active_process EXCEPT ![n] = n]
      /\ exec_terminal' = n
      /\ active_terminal' = IF active_terminal = NoTerminal THEN n ELSE active_terminal
      /\ pid' = pid /\ pc' = [pc EXCEPT ![n] = "user"]
  <2>1. active_terminal = NoTerminal => n = 0
    <3> SUFFICES ASSUME active_terminal = NoTerminal PROVE n = 0
      OBVIOUS
    <3>1. active_terminal \notin booted
      BY TerminalNumbers DEF TypeInv, TypeOK
    <3>2. booted = {}
      BY <3>1 DEF Coherent, BootOrder, TypeInv, LocalsOK
    <3>3. 0 \notin 0 .. exec_terminal
      BY <1>2, <3>2
    <3> QED
      BY <1>1, <1>2, <3>3, SizesAssumption DEF TypeInv, TypeOK, Terminals
  <2> QED
    BY <1>1, <1>3, <1>4, <2>1 DEF BootInto, ShellParent, TickBoot, Goto, localVars, Shown
<1>6. active_process[n] = NoPid
  BY <1>2 DEF Unbooted
<1>7. ASSUME NEW p \in present PROVE Between(p)' <=> Between(p)
  BY <1>2, <1>5, <1>7, LiveOwner DEF Between, TypeInv, TypeOK
<1>8. ~Between(n)'
  BY <1>2, <1>5 DEF Between, TypeInv, TypeOK
<1>9. Live' = Live \cup {n} /\ n \notin Live
  BY <1>2, <1>5, <1>7, <1>8 DEF Live
<1>10. [p \in Live |-> parent[p]]' =
        [q \in Live \cup {n} |-> IF q = n THEN active_process[n]
                                 ELSE [p \in Live |-> parent[p]][q]]
  BY <1>2, <1>5, <1>6, <1>9 DEF TypeInv, TypeOK, Live
<1>11. TS!Boot(n)
  BY <1>1, <1>2, <1>5, <1>6, <1>9, <1>10, TurnsFollow DEF TS!Boot, TS!Push
<1> QED
  BY <1>1, <1>2, <1>11 DEF TickBoot

(* Alt and a function key show another terminal.                           *)
LEMMA SwitchShows ==
    ASSUME Kept, NEW t \in Terminals, SwitchTerminal(t)
    PROVE  TS!Show(t)
<1> USE DEF Kept, SwitchTerminal, TypeInv, TypeOK, pcbVars, flowVars, localVars
<1>1. \A p \in present : Between(p)' <=> Between(p)
  BY DEF Between
<1>2. Live' = Live /\ [p \in Live |-> parent[p]]' = [p \in Live |-> parent[p]]
  BY <1>1 DEF Live
<1>3. active_process[t] # NoPid
  BY NoPidNoSlot DEF Coherent, FlowOK
<1> QED
  BY <1>2, <1>3 DEF TS!Show

-----------------------------------------------------------------------------
(* A terminal has an active process only once it was booted.               *)
LEMMA UnbootedStep ==
    ASSUME Kept, Clean, Clean', [Next]_vars
    PROVE  Unbooted'
<1> USE DEF Kept, Unbooted, pcbVars, tmnlVars, cpuVars, localVars, flowVars
<1>1. CASE Tick
  <2>1. CASE TickBoot
    <3>1. PICK n \in Terminals \ booted : booted' = booted \cup {n} /\ TS!Boot(n)
      BY <2>1, BootBoots
    <3> QED
      BY <3>1 DEF TS!Boot, TS!Push, TypeInv, TypeOK
  <2> QED
    BY <1>1, <2>1 DEF Tick, TickResume, TickCrash
<1>2. ASSUME NEW t \in Terminals, Kernel(t) \/ User(t) PROVE Unbooted'
  <2>1. CASE ExecActive(t) \/ HaltActive(t) \/ Fault(t)
    <3>1. t \in booted /\ exec_terminal = t /\ active_terminal \in booted /\ FlowOK(t)
      BY <2>1, RunningFlow DEF ExecActive, HaltActive, Fault, At
    <3>2. booted' = booted
      BY <2>1 DEF ExecActive, HaltActive, Fault
    <3>3. \A u \in Terminals \ booted : active_process'[u] = active_process[u]
      BY <2>1, <3>1 DEF ExecActive, HaltActive, Fault, At, FlowOK, TypeInv, TypeOK
    <3> QED
      BY <3>2, <3>3
  <2> QED
    BY <1>2, <2>1 DEF Kernel, User, Execute, Halt, ExecCall, HaltCall, SystemCall, FaultBase,
       FaultCrash, HaltCrash, ExecReject, ExecParent, ExecScan, ExecInsert, ExecPage, ExecLoad,
       ExecFrame, ExecTss, ExecIret, HaltBase, HaltRead, HaltEnd, HaltPage, HaltTss, HaltJump
<1>3. ASSUME NEW t \in Terminals, SwitchTerminal(t) PROVE Unbooted'
  BY <1>3 DEF SwitchTerminal
<1>4. CASE UNCHANGED vars
  BY <1>4 DEF vars
<1> QED
  BY <1>1, <1>2, <1>3, <1>4 DEF Next

(* Every step without a hazard is a step of TimeSharing or a stutter.      *)
LEMMA StepImplements ==
    ASSUME Kept, Clean, Clean', [Next]_vars
    PROVE  [TS!Next]_(TS!vars)
<1> USE DEF Kept
<1>1. CASE Tick
  <2>1. NextTerminal \in Terminals
    BY NextTerminalType DEF TypeInv, TypeOK
  <2>2. CASE TickResume
    BY <2>1, <2>2, ResumePasses DEF TS!Next
  <2>3. CASE TickBoot
    BY <2>3, BootBoots DEF TS!Next
  <2> QED
    BY <1>1, <2>2, <2>3, NoTickCrash DEF Tick
<1>2. ASSUME NEW t \in Terminals, Execute(t) PROVE [TS!Next]_(TS!vars)
  <2>1. CASE ExecActive(t)
    <3>1. pid[t] \in Pids
      BY <2>1 DEF ExecActive, At, TypeInv, LocalsOK, ExecLabels
    <3> QED
      BY <2>1, <3>1, ActiveStarts DEF TS!Next
  <2> QED
    BY <1>2, <2>1, SilentSteps, InsertSilent DEF Execute
<1>3. ASSUME NEW t \in Terminals, Halt(t) PROVE [TS!Next]_(TS!vars)
  BY <1>3, SilentSteps, HaltEnds, EndSilent DEF Halt, TS!Next
<1>4. ASSUME NEW t \in Terminals, User(t) \/ HaltCrash(t) PROVE [TS!Next]_(TS!vars)
  <2>1. ~FaultBase(t)
    BY DEF FaultBase, Record, Clean
  <2> QED
    BY <1>4, <2>1, SilentSteps, FaultEnds, NoFaultCrash, NoHaltCrash DEF User, TS!Next
<1>5. ASSUME NEW t \in Terminals, SwitchTerminal(t) PROVE [TS!Next]_(TS!vars)
  BY <1>5, SwitchShows DEF TS!Next
<1>6. CASE UNCHANGED vars
  <2>1. Live' = Live
    BY <1>6 DEF vars, pcbVars, flowVars, localVars, Live, Between
  <2> QED
    BY <1>6, <2>1, Stutter DEF vars, pcbVars, tmnlVars
<1> QED
  BY <1>1, <1>2, <1>3, <1>4, <1>5, <1>6 DEF Next, Kernel

(* As long as no hazard happens, every behaviour of the kernel is one of   *)
(* TimeSharing.                                                            *)
THEOREM TimeSharingImplemented == Spec => ImplementsTimeSharing
<1> DEFINE Inv == IInv /\ (Clean => Unbooted)
<1>1. Init => TS!Init /\ Inv
  <2> SUFFICES ASSUME Init PROVE TS!Init /\ Inv
    OBVIOUS
  <2>1. Live = {}
    BY DEF Init, Live
  <2>2. [p \in Live |-> parent[p]] = [p \in Live |-> NoPid]
    BY <2>1
  <2> QED
    BY <2>1, <2>2, InitIInv DEF Init, TS!Init, Unbooted
<1>2. Inv /\ [Next]_vars => Inv'
  BY TypeStep, CleanBefore, StepCoherent, UnbootedStep DEF IInv, TypeInv, Kept
<1>3. Inv /\ [Next]_vars => (Clean' => [TS!Next]_(TS!vars))
  BY CleanBefore, StepImplements DEF IInv, TypeInv, Kept
<1> QED
  BY <1>1, <1>2, <1>3, PTL DEF Spec, ImplementsTimeSharing
============================================================================
