---------------------------- MODULE MCPublicRooms ----------------------------
(***************************************************************************)
(* PublicRoomsPipeline for TLC: two rooms, so that one increment batch     *)
(* holds envelopes of several rooms; a buffer of three, so that a batch is *)
(* flushed both by size and by timer; one restart.                         *)
(***************************************************************************)
EXTENDS PublicRoomsPipeline, TLC

CONSTANTS r1, r2, a1, a2

MCRooms == {r1, r2}
MCAttrValues == {a1, a2}
MCInitJoined == {0}

\* Rooms and attribute values are interchangeable in every definition.
Symmetry == Permutations(MCRooms) \cup Permutations(MCAttrValues)
=============================================================================
