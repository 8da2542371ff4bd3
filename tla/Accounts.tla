------------------------------- MODULE Accounts -------------------------------
(***************************************************************************)
(* The processor of table account_accounts                                 *)
(* (src/dbupdates/processors/account/account_accounts.go) and the table it *)
(* writes.  It has one opcode and no BatchKeys method: the dispatcher      *)
(* hands it every envelope alone, and Process makes one OnInsertAccount    *)
(* call per envelope, logging an error and going on.                       *)
(*                                                                         *)
(* The store (storage/model.AccountsDatabase) is not in the sources:       *)
(* OnInsertAccount is written from section 5 of spec.md.                   *)
(***************************************************************************)
EXTENDS Naturals, Sequences, FiniteSets, SequencesExt, TLC

CONSTANTS
    Users,     \* user ids
    Hashes     \* password hashes

\* The opcode of this table (model/dbtypes).
AccountInsertKey == "AccountInsertKey"
\* An opcode of another table, reaching this processor by a routing error.
ForeignKey == "PublicRoomInsertKey"

AccountEnvelopes ==
    [key : {AccountInsertKey}, user : Users, hash : Hashes] \cup [key : {ForeignKey}]

NoDB == "nil"
Connected == "accounts"

VARIABLES
    phase,         \* "Constructed", "Serving" or "Aborted" (the process panicked)
    db,            \* p.db
    accounts,      \* the table: user id -> password hash
    calls,         \* history: the users of the OnInsertAccount calls, in order
    failedUsers    \* history: the users a failed call was about

pvars == <<phase, db, accounts, calls, failedUsers>>

\* NewDBAccountAccountsProcessor: name and cfg are set, db is nil.
PInit ==
    /\ phase = "Constructed"
    /\ db = NoDB
    /\ accounts = <<>>
    /\ calls = <<>>
    /\ failedUsers = {}

\* A mutation of Start: the connection error is logged and not fatal.
StartIgnoringError ==
    /\ phase = "Constructed"
    /\ phase' = "Serving"
    /\ db' \in {Connected, NoDB}
    /\ UNCHANGED <<accounts, calls, failedUsers>>

(***************************************************************************)
(* Start binds the store handle; a connection error is fatal.              *)
(***************************************************************************)
Start ==
    /\ phase = "Constructed"
    /\ \/ db' = Connected /\ phase' = "Serving"
       \/ db' = NoDB /\ phase' = "Aborted"
    /\ UNCHANGED <<accounts, calls, failedUsers>>

\* The processor has no BatchKeys method.
BatchKeys == {}

\* The store: the account is created unless the user has one.
OnInsertAccount(t, msg) ==
    IF msg.user \in DOMAIN t THEN t ELSE t @@ (msg.user :> msg.hash)

\* A mutation of processInsert: a call that failed is made once more.
processInsertRetrying(inputs, bad) ==
    /\ accounts' = FoldLeftDomain(LAMBDA acc, i :
                                      IF i \in bad
                                      THEN acc ELSE OnInsertAccount(acc, inputs[i]),
                                  accounts, inputs)
    /\ calls' = FoldLeftDomain(LAMBDA acc, i :
                                   IF i \in bad
                                   THEN acc \o <<inputs[i].user, inputs[i].user>>
                                   ELSE Append(acc, inputs[i].user),
                               calls, inputs)
    /\ failedUsers' = failedUsers \cup {inputs[i].user : i \in bad}

\* A mutation of processInsert: the error test is inverted, and the calls
\* that succeeded are the ones logged.
processInsertLoggingSuccess(inputs, bad) ==
    /\ accounts' = FoldLeftDomain(LAMBDA acc, i :
                                      IF i \in bad
                                      THEN acc ELSE OnInsertAccount(acc, inputs[i]),
                                  accounts, inputs)
    /\ calls' = calls \o [i \in DOMAIN inputs |-> inputs[i].user]
    /\ failedUsers' = failedUsers \cup {inputs[i].user : i \in DOMAIN inputs \ bad}

(***************************************************************************)
(* processInsert: one call per envelope, in the order of the batch; the    *)
(* calls in bad fail and are logged.                                       *)
(***************************************************************************)
processInsert(inputs, bad) ==
    /\ accounts' = FoldLeftDomain(LAMBDA acc, i :
                                      IF i \in bad
                                      THEN acc ELSE OnInsertAccount(acc, inputs[i]),
                                  accounts, inputs)
    /\ calls' = calls \o [i \in DOMAIN inputs |-> inputs[i].user]
    /\ failedUsers' = failedUsers \cup {inputs[i].user : i \in bad}

\* A mutation of Handled: every opcode takes the default branch.
HandledNever(inputs) == FALSE

\* The switch of Process: the batch is not empty and carries the opcode of
\* the table.
Handled(inputs) == inputs # <<>> /\ inputs[1].key = AccountInsertKey

(***************************************************************************)
(* Process(ctx, inputs).  Which store calls fail is the store's choice.    *)
(* Process does not look at the lifecycle: on a processor whose p.db is    *)
(* still nil the first store call panics.                                  *)
(***************************************************************************)
Process(inputs) ==
    \/ /\ Handled(inputs) /\ db # NoDB
       /\ \E bad \in SUBSET DOMAIN inputs : processInsert(inputs, bad)
       /\ UNCHANGED <<phase, db>>
    \/ /\ Handled(inputs) /\ db = NoDB
       /\ phase' = "Aborted"
       /\ UNCHANGED <<db, accounts, calls, failedUsers>>
    \/ ~Handled(inputs) /\ UNCHANGED pvars

PTypeOK ==
    /\ <<phase, db>> \in {<<"Constructed", NoDB>>, <<"Serving", Connected>>,
                          <<"Aborted", NoDB>>}
    /\ DOMAIN accounts \subseteq Users
    /\ \A u \in DOMAIN accounts : accounts[u] \in Hashes
    /\ calls \in Seq(Users)
    /\ failedUsers \subseteq Users
=============================================================================
