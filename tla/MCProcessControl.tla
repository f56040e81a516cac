------------------------- MODULE MCProcessControl -------------------------
(***************************************************************************)
(* Instances of ProcessControl for TLC.                                    *)
(***************************************************************************)
EXTENDS ProcessControl, FiniteSets

(* State constraints: which behaviours with hazards are explored.  With a  *)
(* slot that a failed load has left behind, they end when no slot is free. *)
MaxHazards == 1
FewHazards == /\ Cardinality(hazards) <= MaxHazards
              /\ hazards \cap {"background_exec", "slot_race"} = {}
              /\ "load_failed" \in hazards => Cardinality(present) < PCB_SIZE
OnlyBackground == hazards \subseteq {"background_exec"}

(* "Get currently scheduled process" (syscall.c:258, 277, 302, 321, 339):  *)
(* the active process of exec_terminal is the process whose program runs.  *)
ScheduledIsRunning ==
    \A t \in Terminals : At(t, "user") => active_process[exec_terminal] = proc[t]
===========================================================================
