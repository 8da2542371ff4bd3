-------------------------- MODULE EventJSONPipeline --------------------------
(***************************************************************************)
(* The update pipeline of table roomserver_event_json: the log, the        *)
(* dispatcher and the processor of module EventJSON, with the process that *)
(* hosts them crashing and restarting.                                     *)
(***************************************************************************)
EXTENDS EventJSON

CONSTANTS BatchSize, MaxLog, MaxRestarts

VARIABLES log, next, buffer, restarts   \* the dispatcher's (module Dispatcher)

D == INSTANCE Dispatcher WITH Envelopes <- EventJSONEnvelopes, BatchKeys <- BatchKeys

dvars == <<log, next, buffer, restarts>>

vars == <<dvars, pvars>>

Inputs(batch) == [i \in DOMAIN batch |-> log[batch[i]]]

Rows == {i \in DOMAIN log : log[i].key = EventJsonInsertKey}

\* The envelope that carries event nid n.
RowOf(n) == log[CHOOSE i \in Rows : log[i].nid = n]

LoggedNids == {log[i].nid : i \in Rows}

(***************************************************************************)
(* What the room server emits: the events are numbered as they are made,   *)
(* so every row has a nid of its own.  A misrouted envelope may come at    *)
(* any time.                                                               *)
(***************************************************************************)
Upstream(e) ==
    \/ e.key = ForeignKey
    \/ e.key = EventJsonInsertKey /\ e.nid = Cardinality(Rows) + 1

Emit == \E e \in EventJSONEnvelopes : Upstream(e) /\ D!Produce(e) /\ UNCHANGED pvars

Boot == Start /\ UNCHANGED dvars

Buffering == phase = "Serving" /\ D!Accumulate /\ UNCHANGED pvars

\* The dispatcher serves a processor only after its Start has returned.
Deliver(batch) == phase = "Serving" /\ Process(Inputs(batch))

Single == D!FlushSingleton /\ Deliver(D!SingletonBatch)

Full == D!FlushFull /\ Deliver(D!FullBatch)

Timed == \E k \in BatchKeys : D!FlushTimed(k) /\ Deliver(buffer[k])

\* The hosting process dies and is started again: a new processor, no buffers.
Crash ==
    /\ D!Restart
    /\ phase' = "Constructed" /\ db' = NoDB
    /\ UNCHANGED <<eventJSON, mirror, reported, uncommitted>>

Init == D!DInit /\ PInit

Next == Emit \/ Boot \/ Buffering \/ Single \/ Full \/ Timed \/ Crash

Spec == Init /\ [][Next]_vars

-----------------------------------------------------------------------------
TypeOK == D!DTypeOK /\ PTypeOK

(***************************************************************************)
(* Sensitive payloads are encrypted at rest.  Whatever way a row took into *)
(* the primary table (the bulk load of processInsert, its row-by-row       *)
(* fallback, a second delivery after a restart that meets the row of the   *)
(* first), the table holds the document of that event, encrypted exactly   *)
(* when encryption.CheckCrypto holds of its type.                          *)
(***************************************************************************)
SensitiveEncryptedAtRest ==
    \A n \in DOMAIN eventJSON :
        /\ n \in LoggedNids
        /\ eventJSON[n].text = RowOf(n).json
        /\ eventJSON[n].cipher <=> RowOf(n).type \in CryptoTypes

(***************************************************************************)
(* The mirror table follows the primary table.  The two COPY statements of *)
(* processInsert run in two transactions, and the fallback writes the two  *)
(* tables row by row; still a mirror row is the plaintext of a stored row  *)
(* of a mirror-eligible type, and every stored row that is sensitive and   *)
(* mirror-eligible has its mirror row.                                     *)
(***************************************************************************)
MirrorFollowsPrimary ==
    /\ \A n \in DOMAIN mirror :
          /\ n \in DOMAIN eventJSON
          /\ RowOf(n).type \in MirrorTypes
          /\ mirror[n] = Plain(RowOf(n).json)
    /\ \A n \in DOMAIN eventJSON :
          RowOf(n).type \in CryptoTypes \cap MirrorTypes => n \in DOMAIN mirror

(***************************************************************************)
(* No row disappears unseen on the way the code takes care of.  When the   *)
(* log is drained, through bulk loads that were rolled back and replaced   *)
(* by the fallback loop of processInsert, and through restarts that lost   *)
(* the buffers, every row of the log is stored, or its insert failed and   *)
(* was logged with its nid, or it was in a bulk load whose commit failed.  *)
(***************************************************************************)
EveryRowAccountedFor ==
    D!Drained => LoggedNids \subseteq DOMAIN eventJSON \cup reported \cup uncommitted

(***************************************************************************)
(* spec.md, section 4.2, on a failure of the bulk path: "roll back the     *)
(* bulk transaction fully, then re-run the same batch through the per-row  *)
(* fallback path"; section 7 says the same of a bulk transaction error.    *)
(* So a row of a drained log is stored unless its own insert failed and    *)
(* was logged.                                                             *)
(***************************************************************************)
BulkFailureFallsBack ==
    D!Drained => LoggedNids \subseteq DOMAIN eventJSON \cup reported

(***************************************************************************)
(* spec.md, section 8: "every row whose event type is mirror-eligible      *)
(* appears in plaintext in the mirror table", whether the bulk load of     *)
(* processInsert or the store's single-row insert wrote it.                *)
(***************************************************************************)
MirrorEligibleIsMirrored ==
    \A n \in DOMAIN eventJSON : RowOf(n).type \in MirrorTypes => n \in DOMAIN mirror
=============================================================================
