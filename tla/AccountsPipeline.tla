-------------------------- MODULE AccountsPipeline --------------------------
(***************************************************************************)
(* The update pipeline of table account_accounts: the log, the dispatcher  *)
(* and the processor of module Accounts, with the process that hosts them  *)
(* crashing and restarting.  The processor names no batchable opcode, so   *)
(* the dispatcher never buffers.                                           *)
(***************************************************************************)
EXTENDS Accounts

CONSTANTS MaxLog, MaxRestarts

VARIABLES log, next, buffer, restarts   \* the dispatcher's (module Dispatcher)

D == INSTANCE Dispatcher WITH
        Envelopes <- AccountEnvelopes, BatchKeys <- BatchKeys, BatchSize <- 1

dvars == <<log, next, buffer, restarts>>

vars == <<dvars, pvars>>

Inputs(batch) == [i \in DOMAIN batch |-> log[batch[i]]]

Emit == \E e \in AccountEnvelopes : D!Produce(e) /\ UNCHANGED pvars

Boot == Start /\ UNCHANGED dvars

\* The dispatcher serves a processor only after its Start has returned.
Deliver(batch) == phase = "Serving" /\ Process(Inputs(batch))

Single == D!FlushSingleton /\ Deliver(D!SingletonBatch)

\* The hosting process dies and is started again: a new processor.
Crash ==
    /\ D!Restart
    /\ phase' = "Constructed" /\ db' = NoDB
    /\ UNCHANGED <<accounts, calls, failedUsers>>

Init == D!DInit /\ PInit

Next == Emit \/ Boot \/ Single \/ Crash

(***************************************************************************)
(* The worker of the processor is a loop of its own that takes the next    *)
(* envelope whenever there is one, and the hosting process calls Start     *)
(* when it comes up: both are weakly fair.  Nothing is assumed of the      *)
(* producers and of crashes.                                               *)
(***************************************************************************)
Spec == Init /\ [][Next]_vars /\ WF_vars(Boot) /\ WF_vars(Single)

-----------------------------------------------------------------------------
TypeOK == D!DTypeOK /\ PTypeOK

AccountRows(s) == SelectSeq(s, LAMBDA e : e.key = AccountInsertKey)

(***************************************************************************)
(* Accounts are applied once and in log order (spec.md, section 8, first   *)
(* scenario).  While the log is delivered once, the OnInsertAccount calls  *)
(* made so far are the account envelopes consumed so far, one call each,   *)
(* in the order of the log, whichever of them failed and whatever          *)
(* misrouted envelopes Process dropped in between.                         *)
(***************************************************************************)
AppliedOnceInOrder ==
    restarts = 0 =>
        calls = [i \in DOMAIN AccountRows(SubSeq(log, 1, next - 1)) |->
                    AccountRows(SubSeq(log, 1, next - 1))[i].user]

\* The envelope at log position i has been dealt with.
Settled(i) ==
    /\ i \in DOMAIN log
    /\ \/ log[i].key # AccountInsertKey
       \/ log[i].user \in DOMAIN accounts \cup failedUsers

(***************************************************************************)
(* Every account reaches the table.  An envelope of the log is eventually  *)
(* stored, or its store call failed and was logged, unless Start could not *)
(* connect and the process is down.  A crash of the hosting process only   *)
(* delays it: Start runs again, and the loop of Process goes on from an    *)
(* offset that is not behind the envelope.                                 *)
(***************************************************************************)
EventuallySettled ==
    \A i \in 1..MaxLog :
        (i \in DOMAIN log) ~> (Settled(i) \/ phase = "Aborted")

-----------------------------------------------------------------------------
(***************************************************************************)
(* The pipeline implements the account table.  Seen through the accounts   *)
(* asked for in the log, the table and the users of the failed calls,      *)
(* every step of the log, the dispatcher, Start, Process and a crash is a  *)
(* request, the creation of one account that was asked for, the report of  *)
(* one failure, or nothing.  So an envelope that the log delivers again    *)
(* after a crash, or a second envelope for a user, changes no account      *)
(* (OnInsertAccount ignores an existing key), and processInsert logs the   *)
(* calls that failed and no others.                                        *)
(***************************************************************************)
Table == INSTANCE AccountTable WITH
            requested <- {[user |-> e.user, hash |-> e.hash] : e \in Range(AccountRows(log))},
            table <- accounts,
            reported <- failedUsers

ImplementsAccountTable == Table!ASpec
=============================================================================
