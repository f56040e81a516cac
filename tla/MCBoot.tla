------------------------------- MODULE MCBoot -------------------------------
(***************************************************************************)
(* The instance of Boot for TLC.                                           *)
(***************************************************************************)
EXTENDS Boot

(* State constraint: what is printed depends neither on the loader nor on  *)
(* the devices, so one loader's words are followed, before a device asks.  *)
OneReport == printed # Quiet => loader.flags = {3} /\ unread = {}
=============================================================================
