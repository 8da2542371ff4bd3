---------------------------- MODULE MCSendToDevice ----------------------------
(***************************************************************************)
(* SendToDevicePipeline for TLC: two devices and two identifiers, so that  *)
(* a delete has rows to leave alone; a buffer of two, so that an insert    *)
(* waits while a delete passes, and a batch of two is bulk-loaded; one     *)
(* restart.                                                                *)
(***************************************************************************)
EXTENDS SendToDevicePipeline

CONSTANTS d1, d2, m1, m2

MCIds == 1..MaxLog
MCTargets == {d1, d2}
MCMacs == {m1, m2}

\* Devices and identifiers are interchangeable in every definition.
Symmetry == Permutations(MCTargets) \cup Permutations(MCMacs)
=============================================================================
