------------------------------ MODULE MCAccounts ------------------------------
(***************************************************************************)
(* AccountsPipeline for TLC: two users and two hashes, so that a second    *)
(* insert of a user differs from the first; a log of three; one restart.   *)
(***************************************************************************)
EXTENDS AccountsPipeline

CONSTANTS u1, u2, h1, h2

MCUsers == {u1, u2}
MCHashes == {h1, h2}
=============================================================================
