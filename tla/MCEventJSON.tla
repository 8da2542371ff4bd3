----------------------------- MODULE MCEventJSON -----------------------------
(***************************************************************************)
(* EventJSONPipeline for TLC: one event type of each of the four classes   *)
(* (sensitive or not, mirror-eligible or not), two documents, a buffer of  *)
(* three, so that batches of one, two and three rows are processed, and    *)
(* one restart, so that a bulk load meets rows of an earlier delivery.     *)
(***************************************************************************)
EXTENDS EventJSONPipeline

CONSTANTS plain, secret, secretMirrored, mirrorOnly, j1, j2

MCNids == 1..MaxLog
MCEventTypes == {plain, secret, secretMirrored, mirrorOnly}
MCCryptoTypes == {secret, secretMirrored}
MCMirrorTypes == {secretMirrored, mirrorOnly}
MCPayloads == {j1, j2}

\* The documents are interchangeable in every definition.
Symmetry == Permutations(MCPayloads)
=============================================================================
