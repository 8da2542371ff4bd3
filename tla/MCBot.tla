-------------------------------- MODULE MCBot --------------------------------
(***************************************************************************)
(* Bot for TLC: up to three bots (none, the first alone, the first and two *)
(* others that log in and join side by side), up to three rooms (none,    *)
(* one, creators that meet in the map, a bot with several rooms to join),  *)
(* and every return of the SDK for the statuses 200 and 403.               *)
(***************************************************************************)
EXTENDS Bot
=============================================================================
