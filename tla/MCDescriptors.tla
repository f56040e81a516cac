--------------------------- MODULE MCDescriptors ---------------------------
(***************************************************************************)
(* Bounds of Descriptors for TLC.                                          *)
(***************************************************************************)
EXTENDS Descriptors, FiniteSets

CONSTANT MAX_OPEN   \* descriptors that are open at once

(* Programs of the last terminal alone open anything, MAX_OPEN at most.    *)
(* The shells of the others execute one program at a time, without an      *)
(* argument: they take slots, and give them back.                          *)
FewOpen ==
    /\ \A t \in Terminals \ {NUM_TERMINAL - 1} :
         /\ Open(Running(t)) = {} /\ parent[Running(t)] \in {NoPid, t}
         /\ argument[t] \in {Garbage, NoArgument} /\ argument[Running(t)] = Garbage
    /\ Cardinality({pf \in Pids \X Fds : flags[pf[1]] /\ pf[2] \in Open(pf[1])}) <= MAX_OPEN
=============================================================================
