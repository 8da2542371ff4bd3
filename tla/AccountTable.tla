----------------------------- MODULE AccountTable -----------------------------
(***************************************************************************)
(* What the update pipeline of table account_accounts promises to the      *)
(* services that ask for accounts, with the log, the dispatcher, the       *)
(* processor and the crashes of their host left out.                       *)
(*                                                                         *)
(* A service asks for an account.  Later the account is in the table with  *)
(* the hash that was asked for, or the failure to store it is reported.    *)
(* An account in the table is never changed and never removed, however     *)
(* often it is asked for again.                                            *)
(***************************************************************************)
EXTENDS TLC

CONSTANTS
    Users,     \* user ids
    Hashes     \* password hashes

VARIABLES
    requested,   \* the accounts asked for: records of user and hash
    table,       \* user id -> password hash
    reported     \* the users a failure was reported for

avars == <<requested, table, reported>>

AInit ==
    /\ requested = {}
    /\ table = <<>>
    /\ reported = {}

\* A service asks for the account of u with hash h.
Request(u, h) ==
    /\ requested' = requested \cup {[user |-> u, hash |-> h]}
    /\ UNCHANGED <<table, reported>>

\* An account that was asked for is created; u has none yet.
Create(u, h) ==
    /\ [user |-> u, hash |-> h] \in requested
    /\ u \notin DOMAIN table
    /\ table' = table @@ (u :> h)
    /\ UNCHANGED <<requested, reported>>

\* Storing an account that was asked for fails, and that is all that happens.
Report(u) ==
    /\ \E r \in requested : r.user = u
    /\ reported' = reported \cup {u}
    /\ UNCHANGED <<requested, table>>

ANext ==
    \/ \E u \in Users, h \in Hashes : Request(u, h) \/ Create(u, h)
    \/ \E u \in Users : Report(u)

ASpec == AInit /\ [][ANext]_avars
=============================================================================
