------------------------------ MODULE EventJSON ------------------------------
(***************************************************************************)
(* The processor of table roomserver_event_json                            *)
(* (src/dbupdates/processors/roomserver/roomserver_event_json.go) and the  *)
(* two tables it writes.                                                   *)
(*                                                                         *)
(* A batch of more than one row is bulk-loaded into the primary and the    *)
(* mirror table inside one transaction pair.  The payload of a row whose   *)
(* event type is sensitive is encrypted before it goes to the primary      *)
(* table, and its plaintext goes to the mirror table when the type is also *)
(* mirror-eligible.  When the bulk load did not succeed, or the batch has  *)
(* one row, the rows are inserted one by one.                              *)
(*                                                                         *)
(* The transaction helper (common/sqlutil), the classification             *)
(* (plugins/encryption) and the store (storage/model.RoomServerDatabase)   *)
(* are not in the sources: Commit and InsertEventJSON are written from     *)
(* sections 3, 4.4 and 9 of spec.md.                                       *)
(***************************************************************************)
EXTENDS Naturals, Sequences, FiniteSets, SequencesExt, TLC

CONSTANTS
    Nids,          \* event numeric ids
    EventTypes,    \* event types
    CryptoTypes,   \* the types encryption.CheckCrypto holds of
    MirrorTypes,   \* the types encryption.CheckMirror holds of
    Payloads       \* event JSON documents

ASSUME CryptoTypes \subseteq EventTypes /\ MirrorTypes \subseteq EventTypes

\* The opcode of this table (model/dbtypes).
EventJsonInsertKey == "EventJsonInsertKey"
\* An opcode of another table, reaching this processor by a routing error.
ForeignKey == "AccountInsertKey"

EventJSONEnvelopes ==
    [key : {EventJsonInsertKey}, nid : Nids, type : EventTypes, json : Payloads]
        \cup [key : {ForeignKey}]

NoDB == "nil"
Connected == "roomserver"

\* What a table holds for a row: the document, as it is or encrypted.
Cells == [cipher : BOOLEAN, text : Payloads]

Plain(json) == [cipher |-> FALSE, text |-> json]
Encrypt(json) == [cipher |-> TRUE, text |-> json]
CheckCrypto(type) == type \in CryptoTypes
CheckMirror(type) == type \in MirrorTypes

VARIABLES
    phase,        \* "Constructed", "Serving" or "Aborted" (the process panicked)
    db,           \* p.db
    eventJSON,    \* table roomserver_event_json: event_nid -> event_json
    mirror,       \* table roomserver_event_json_mirror: event_nid -> event_json
    reported,     \* history: the nids a row insert failed for, with a log line
    uncommitted   \* history: the nids of the bulk loads whose commit failed

pvars == <<phase, db, eventJSON, mirror, reported, uncommitted>>

\* NewDBRoomserverEventJSONProcessor: name and cfg are set, db is nil.
PInit ==
    /\ phase = "Constructed"
    /\ db = NoDB
    /\ eventJSON = <<>>
    /\ mirror = <<>>
    /\ reported = {}
    /\ uncommitted = {}

\* A mutation of Start: the connection error is logged and not fatal.
StartIgnoringError ==
    /\ phase = "Constructed"
    /\ phase' = "Serving"
    /\ db' \in {Connected, NoDB}
    /\ UNCHANGED <<eventJSON, mirror, reported, uncommitted>>

(***************************************************************************)
(* Start binds the store handle; a connection error is fatal.              *)
(***************************************************************************)
Start ==
    /\ phase = "Constructed"
    /\ \/ db' = Connected /\ phase' = "Serving"
       \/ db' = NoDB /\ phase' = "Aborted"
    /\ UNCHANGED <<eventJSON, mirror, reported, uncommitted>>

\* BatchKeys(): the one opcode of the table is taken in multi-row batches.
BatchKeys == {EventJsonInsertKey}

-----------------------------------------------------------------------------
NidsOf(inputs) == {inputs[i].nid : i \in DOMAIN inputs}

\* A mutation of PrimaryCell: the document is copied as it came.
PrimaryCellInClear(msg) == Plain(msg.json)

(***************************************************************************)
(* The loop of the bulk load, for one row: what goes to stmt0 (the primary *)
(* table) and whether the row goes to stmt1 (the mirror table), which the  *)
(* code decides inside the branch of the sensitive types.                  *)
(***************************************************************************)
PrimaryCell(msg) ==
    IF CheckCrypto(msg.type) THEN Encrypt(msg.json) ELSE Plain(msg.json)

\* A mutation of Mirrored: every sensitive row is mirrored.
MirroredIfSensitive(msg) == CheckCrypto(msg.type)

Mirrored(msg) == CheckCrypto(msg.type) /\ CheckMirror(msg.type)

\* The rows the two COPY statements hold when the loop is through.
Copied0(inputs) ==
    [n \in NidsOf(inputs) |->
        PrimaryCell(inputs[CHOOSE i \in DOMAIN inputs : inputs[i].nid = n])]

Copied1(inputs) ==
    [n \in {inputs[i].nid : i \in {j \in DOMAIN inputs : Mirrored(inputs[j])}} |->
        Plain(inputs[CHOOSE i \in DOMAIN inputs : inputs[i].nid = n].json)]

(***************************************************************************)
(* The steps of the bulk load an error can come from, in the order the     *)
(* code takes them.  An error of any step but the last makes the callback  *)
(* return it: both transactions are rolled back.  The commit comes after   *)
(* the callback has set success.                                           *)
(***************************************************************************)
CallbackSteps == {"begin", "prepare0", "prepare1", "copy", "exec0", "exec1"}

\* The final exec of a COPY fails when a row of it breaks the primary key.
KeyConflict(inputs) ==
    \/ NidsOf(inputs) \cap DOMAIN eventJSON # {}
    \/ DOMAIN Copied1(inputs) \cap DOMAIN mirror # {}
    \/ Cardinality(NidsOf(inputs)) # Len(inputs)

BulkOutcomes(inputs) ==
    CallbackSteps \cup (IF KeyConflict(inputs) THEN {} ELSE {"commit", "done"})

\* A mutation of Succeeded: success is set when the bulk load is entered.
SucceededOnEntry(inputs, outcome) == Len(inputs) > 1

\* The value of success after the if: true as soon as the callback returned
\* nil, whatever sqlutil.WithTransaction returns, which the code drops.
Succeeded(inputs, outcome) ==
    Len(inputs) > 1 /\ outcome \in {"commit", "done"}

-----------------------------------------------------------------------------
(***************************************************************************)
(* The store's single-row insert, by the classification rules of spec.md,  *)
(* section 4.4: a sensitive row is encrypted in the primary table, a       *)
(* mirror-eligible row goes to the mirror table in plaintext.  A row that  *)
(* is there already is left as it is.                                      *)
(***************************************************************************)
InsertEventJSON(tables, msg) ==
    LET cell == IF msg.type \in CryptoTypes
                THEN Encrypt(msg.json) ELSE Plain(msg.json)
    IN  [primary |-> IF msg.nid \in DOMAIN tables.primary
                     THEN tables.primary
                     ELSE tables.primary @@ (msg.nid :> cell),
         mirror  |-> IF msg.type \in MirrorTypes /\ msg.nid \notin DOMAIN tables.mirror
                     THEN tables.mirror @@ (msg.nid :> Plain(msg.json))
                     ELSE tables.mirror]

\* The two transactions commit together.
Commit(tables, inputs) ==
    [primary |-> tables.primary @@ Copied0(inputs),
     mirror  |-> tables.mirror @@ Copied1(inputs)]

\* The fallback loop: the inserts in bad fail and are logged, the loop goes on.
InsertEach(tables, inputs, bad) ==
    FoldLeftDomain(LAMBDA acc, i :
                       IF i \in bad THEN acc ELSE InsertEventJSON(acc, inputs[i]),
                   tables, inputs)

(***************************************************************************)
(* processInsert.  The outcome of the bulk load and the inserts of the     *)
(* fallback that fail are the store's choice.                              *)
(***************************************************************************)
processInsert(inputs) ==
    LET tables == [primary |-> eventJSON, mirror |-> mirror]
    IN  \E outcome \in IF Len(inputs) > 1 THEN BulkOutcomes(inputs) ELSE {"skipped"} :
            \/ /\ Succeeded(inputs, outcome)
               /\ \/ /\ outcome = "done"
                     /\ eventJSON' = Commit(tables, inputs).primary
                     /\ mirror' = Commit(tables, inputs).mirror
                     /\ UNCHANGED uncommitted
                  \/ /\ outcome # "done"
                     /\ uncommitted' = IF outcome = "commit"
                                       THEN uncommitted \cup NidsOf(inputs)
                                       ELSE uncommitted
                     /\ UNCHANGED <<eventJSON, mirror>>
               /\ UNCHANGED reported
            \/ /\ ~Succeeded(inputs, outcome)
               /\ \E bad \in SUBSET DOMAIN inputs :
                     /\ eventJSON' = InsertEach(tables, inputs, bad).primary
                     /\ mirror' = InsertEach(tables, inputs, bad).mirror
                     /\ reported' = reported \cup {inputs[i].nid : i \in bad}
               /\ UNCHANGED uncommitted

(***************************************************************************)
(* Process(ctx, inputs): nothing for an empty batch, processInsert for the *)
(* opcode of the table, a log line for any other opcode.  Process does not *)
(* look at the lifecycle: on a processor whose p.db is still nil,          *)
(* processInsert panics at its first use of the store.                     *)
(***************************************************************************)
Handled(inputs) == inputs # <<>> /\ inputs[1].key = EventJsonInsertKey

Process(inputs) ==
    \/ /\ Handled(inputs) /\ db # NoDB
       /\ processInsert(inputs)
       /\ UNCHANGED <<phase, db>>
    \/ /\ Handled(inputs) /\ db = NoDB
       /\ phase' = "Aborted"
       /\ UNCHANGED <<db, eventJSON, mirror, reported, uncommitted>>
    \/ ~Handled(inputs) /\ UNCHANGED pvars

PTypeOK ==
    /\ <<phase, db>> \in {<<"Constructed", NoDB>>, <<"Serving", Connected>>,
                          <<"Aborted", NoDB>>}
    /\ DOMAIN eventJSON \subseteq Nids
    /\ DOMAIN mirror \subseteq Nids
    /\ \A n \in DOMAIN eventJSON : eventJSON[n] \in Cells
    /\ \A n \in DOMAIN mirror : mirror[n] \in Cells
    /\ reported \subseteq Nids
    /\ uncommitted \subseteq Nids
=============================================================================
