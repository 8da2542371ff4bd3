----------------------------- MODULE SendToDevice -----------------------------
(***************************************************************************)
(* The processor of table syncapi_send_to_device                           *)
(* (src/dbupdates/processors/syncapi/syncapi_send_to_device.go) and the    *)
(* table it writes.                                                        *)
(*                                                                         *)
(* Inserts are batched and bulk-loaded in one transaction, with a          *)
(* row-by-row fallback.  The three deletes (by message id, by identifier,  *)
(* by device) are never batched: each envelope makes one call of the store *)
(* method of its predicate.                                                *)
(*                                                                         *)
(* The transaction helper (common) and the store                           *)
(* (storage/model.SyncAPIDatabase) are not in the sources: Commit and      *)
(* StoreApply are written from sections 4.4 and 5 of spec.md.              *)
(***************************************************************************)
EXTENDS Naturals, Sequences, FiniteSets, SequencesExt, Functions, TLC

CONSTANTS
    Ids,        \* message ids
    Targets,    \* target devices (target_user_id, target_device_id)
    Macs        \* identifiers

\* The opcodes of this table (model/dbtypes).
SyncStdEventInertKey == "SyncStdEventInertKey"
SyncStdEventDeleteKey == "SyncStdEventDeleteKey"
SyncMacStdEventDeleteKey == "SyncMacStdEventDeleteKey"
SyncDeviceStdEventDeleteKey == "SyncDeviceStdEventDeleteKey"
\* An opcode of another table, reaching this processor by a routing error.
ForeignKey == "AccountInsertKey"

DeleteKeys ==
    {SyncStdEventDeleteKey, SyncMacStdEventDeleteKey, SyncDeviceStdEventDeleteKey}

\* The envelopes of this table: the opcode and the payload variant it selects.
SendToDeviceEnvelopes ==
    [key : {SyncStdEventInertKey}, id : Ids, target : Targets, mac : Macs]
        \cup [key : {SyncStdEventDeleteKey}, id : Ids, target : Targets]
        \cup [key : {SyncMacStdEventDeleteKey}, mac : Macs, target : Targets]
        \cup [key : {SyncDeviceStdEventDeleteKey}, target : Targets]
        \cup [key : {ForeignKey}]

NoDB == "nil"
Connected == "syncapi"

VARIABLES
    phase,           \* "Constructed", "Serving" or "Aborted" (the process panicked)
    db,              \* p.db
    messages,        \* the table: id -> the target and the identifier of the row
    failedTargets,   \* history: the targets a failed store call was about
    uncommitted      \* history: the ids of the bulk loads whose commit failed

pvars == <<phase, db, messages, failedTargets, uncommitted>>

MessageRows == [target : Targets, mac : Macs]

\* NewDBSyncapiSendToDeviceProcessor: name and cfg are set, db is nil.
PInit ==
    /\ phase = "Constructed"
    /\ db = NoDB
    /\ messages = <<>>
    /\ failedTargets = {}
    /\ uncommitted = {}

\* A mutation of Start: the connection error is logged and not fatal.
StartIgnoringError ==
    /\ phase = "Constructed"
    /\ phase' = "Serving"
    /\ db' \in {Connected, NoDB}
    /\ UNCHANGED <<messages, failedTargets, uncommitted>>

(***************************************************************************)
(* Start binds the store handle; a connection error is fatal.              *)
(***************************************************************************)
Start ==
    /\ phase = "Constructed"
    /\ \/ db' = Connected /\ phase' = "Serving"
       \/ db' = NoDB /\ phase' = "Aborted"
    /\ UNCHANGED <<messages, failedTargets, uncommitted>>

\* BatchKeys(): only the insert is taken in multi-row batches.
BatchKeys == {SyncStdEventInertKey}

-----------------------------------------------------------------------------
(***************************************************************************)
(* The store.  An insert of an id that is there is ignored; a delete       *)
(* removes the rows its predicate names.                                   *)
(***************************************************************************)
Matching(t, c) ==
    {id \in DOMAIN t :
        /\ t[id].target = c.target
        /\ c.op = "OnDeleteStdMessage" => id = c.id
        /\ c.op = "OnDeleteMacStdMessage" => t[id].mac = c.mac}

StoreApply(t, c) ==
    IF c.op = "OnInsertStdMessage"
    THEN IF c.id \in DOMAIN t
         THEN t
         ELSE t @@ (c.id :> [target |-> c.target, mac |-> c.mac])
    ELSE Restrict(t, DOMAIN t \ Matching(t, c))

\* The loop of every handler: the calls in bad fail and are logged, the loop
\* goes on.
ApplyEach(t, cs, bad) ==
    FoldLeftDomain(LAMBDA acc, i :
                       IF i \in bad THEN acc ELSE StoreApply(acc, cs[i]),
                   t, cs)

-----------------------------------------------------------------------------
(***************************************************************************)
(* The delete handlers: the store calls each one makes for a batch, one    *)
(* per envelope, by the predicate of its opcode.                           *)
(***************************************************************************)
processDelete(inputs) ==
    [i \in DOMAIN inputs |->
        [op |-> "OnDeleteStdMessage", id |-> inputs[i].id, target |-> inputs[i].target]]

\* A mutation of processMacDelete: the identifier is left out of the call.
processMacDeleteByDevice(inputs) ==
    [i \in DOMAIN inputs |->
        [op |-> "OnDeleteDeviceStdMessage", target |-> inputs[i].target]]

processMacDelete(inputs) ==
    [i \in DOMAIN inputs |->
        [op |-> "OnDeleteMacStdMessage", mac |-> inputs[i].mac,
         target |-> inputs[i].target]]

processDeviceDelete(inputs) ==
    [i \in DOMAIN inputs |->
        [op |-> "OnDeleteDeviceStdMessage", target |-> inputs[i].target]]

\* The calls of the row-by-row loop of processInsert.
InsertCalls(inputs) ==
    [i \in DOMAIN inputs |->
        [op |-> "OnInsertStdMessage", id |-> inputs[i].id,
         target |-> inputs[i].target, mac |-> inputs[i].mac]]

IdsOf(inputs) == {inputs[i].id : i \in DOMAIN inputs}

TargetsOf(inputs) == {inputs[i].target : i \in DOMAIN inputs}

(***************************************************************************)
(* The bulk load of processInsert: the steps an error can come from.  An   *)
(* error of a step of the callback rolls the transaction back; the commit  *)
(* comes after the callback has set success.  The final exec of the COPY   *)
(* fails when a row of it breaks the primary key.                          *)
(***************************************************************************)
CallbackSteps == {"begin", "prepare", "copy", "exec"}

KeyConflict(inputs) ==
    \/ IdsOf(inputs) \cap DOMAIN messages # {}
    \/ Cardinality(IdsOf(inputs)) # Len(inputs)

BulkOutcomes(inputs) ==
    CallbackSteps \cup (IF KeyConflict(inputs) THEN {} ELSE {"commit", "done"})

\* A mutation of FallsBack: a batch that entered the bulk load is not retried.
FallsBackOnlyIfSingle(inputs, outcome) == Len(inputs) <= 1

\* !success after the if: the bulk load was not entered, or its callback
\* returned an error.
FallsBack(inputs, outcome) ==
    Len(inputs) <= 1 \/ outcome \in CallbackSteps

\* The rows of a committed bulk load.
Commit(t, inputs) == ApplyEach(t, InsertCalls(inputs), {})

processInsert(inputs) ==
    \E outcome \in IF Len(inputs) > 1 THEN BulkOutcomes(inputs) ELSE {"skipped"} :
        \/ /\ ~FallsBack(inputs, outcome)
           /\ outcome = "done"
           /\ messages' = Commit(messages, inputs)
           /\ UNCHANGED <<failedTargets, uncommitted>>
        \/ /\ ~FallsBack(inputs, outcome)
           /\ outcome # "done"
           /\ uncommitted' = IF outcome = "commit"
                             THEN uncommitted \cup IdsOf(inputs)
                             ELSE uncommitted
           /\ UNCHANGED <<messages, failedTargets>>
        \/ /\ FallsBack(inputs, outcome)
           /\ \E bad \in SUBSET DOMAIN inputs :
                 /\ messages' = ApplyEach(messages, InsertCalls(inputs), bad)
                 /\ failedTargets' = failedTargets \cup {inputs[i].target : i \in bad}
           /\ UNCHANGED uncommitted

\* The loop of a delete handler over its calls cs.
DeleteEach(cs) ==
    \E bad \in SUBSET DOMAIN cs :
        /\ messages' = ApplyEach(messages, cs, bad)
        /\ failedTargets' = failedTargets \cup {cs[i].target : i \in bad}
        /\ UNCHANGED uncommitted

(***************************************************************************)
(* Process(ctx, inputs): the switch on the opcode of the first envelope;   *)
(* nothing for an empty batch, a log line for an opcode of another table.  *)
(* Process does not look at the lifecycle: on a processor whose p.db is    *)
(* still nil the handler panics at its first use of the store.             *)
(***************************************************************************)
Handled(inputs) == inputs # <<>> /\ inputs[1].key \in BatchKeys \cup DeleteKeys

Process(inputs) ==
    \/ /\ Handled(inputs) /\ db # NoDB
       /\ \/ inputs[1].key = SyncStdEventInertKey /\ processInsert(inputs)
          \/ /\ inputs[1].key = SyncStdEventDeleteKey
             /\ DeleteEach(processDelete(inputs))
          \/ /\ inputs[1].key = SyncMacStdEventDeleteKey
             /\ DeleteEach(processMacDelete(inputs))
          \/ /\ inputs[1].key = SyncDeviceStdEventDeleteKey
             /\ DeleteEach(processDeviceDelete(inputs))
       /\ UNCHANGED <<phase, db>>
    \/ /\ Handled(inputs) /\ db = NoDB
       /\ phase' = "Aborted"
       /\ UNCHANGED <<db, messages, failedTargets, uncommitted>>
    \/ ~Handled(inputs) /\ UNCHANGED pvars

PTypeOK ==
    /\ <<phase, db>> \in {<<"Constructed", NoDB>>, <<"Serving", Connected>>,
                          <<"Aborted", NoDB>>}
    /\ DOMAIN messages \subseteq Ids
    /\ \A id \in DOMAIN messages : messages[id] \in MessageRows
    /\ failedTargets \subseteq Targets
    /\ uncommitted \subseteq Ids
=============================================================================
