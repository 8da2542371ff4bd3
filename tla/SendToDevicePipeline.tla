------------------------ MODULE SendToDevicePipeline ------------------------
(***************************************************************************)
(* The update pipeline of table syncapi_send_to_device: the log, the       *)
(* dispatcher and the processor of module SendToDevice, with the process   *)
(* that hosts them crashing and restarting.                                *)
(***************************************************************************)
EXTENDS SendToDevice

CONSTANTS BatchSize, MaxLog, MaxRestarts

VARIABLES
    log, next, buffer, restarts,   \* the dispatcher's (module Dispatcher)
    overtook                       \* history: <<j, i>> when the delete at log
                                   \* position j was processed while the insert
                                   \* at position i waited in the buffer

D == INSTANCE Dispatcher WITH Envelopes <- SendToDeviceEnvelopes, BatchKeys <- BatchKeys

dvars == <<log, next, buffer, restarts>>

vars == <<dvars, overtook, pvars>>

Inputs(batch) == [i \in DOMAIN batch |-> log[batch[i]]]

Inserts == {i \in DOMAIN log : log[i].key = SyncStdEventInertKey}

(***************************************************************************)
(* What the sync service emits: the messages are numbered as they are      *)
(* made; a message is deleted by id for the device it was sent to; the     *)
(* deletes by identifier and by device name any device.  A misrouted       *)
(* envelope may come at any time.                                          *)
(***************************************************************************)
Upstream(e) ==
    \/ e.key \in {ForeignKey, SyncMacStdEventDeleteKey, SyncDeviceStdEventDeleteKey}
    \/ e.key = SyncStdEventInertKey /\ e.id = Cardinality(Inserts) + 1
    \/ /\ e.key = SyncStdEventDeleteKey
       /\ \E i \in Inserts : log[i].id = e.id /\ log[i].target = e.target

Emit == \E e \in SendToDeviceEnvelopes :
            Upstream(e) /\ D!Produce(e) /\ UNCHANGED <<pvars, overtook>>

Boot == Start /\ UNCHANGED <<dvars, overtook>>

Buffering == phase = "Serving" /\ D!Accumulate /\ UNCHANGED <<pvars, overtook>>

\* The dispatcher serves a processor only after its Start has returned.
Deliver(batch) == phase = "Serving" /\ Process(Inputs(batch))

Single ==
    /\ D!FlushSingleton
    /\ Deliver(D!SingletonBatch)
    /\ overtook' = overtook \cup ({next} \X D!Buffered)

Full == D!FlushFull /\ Deliver(D!FullBatch) /\ UNCHANGED overtook

Timed == \E k \in BatchKeys :
            D!FlushTimed(k) /\ Deliver(buffer[k]) /\ UNCHANGED overtook

\* The hosting process dies and is started again: a new processor, no buffers.
Crash ==
    /\ D!Restart
    /\ phase' = "Constructed" /\ db' = NoDB
    /\ UNCHANGED <<messages, failedTargets, uncommitted, overtook>>

Init == D!DInit /\ PInit /\ overtook = {}

Next == Emit \/ Boot \/ Buffering \/ Single \/ Full \/ Timed \/ Crash

Spec == Init /\ [][Next]_vars

-----------------------------------------------------------------------------
TypeOK == D!DTypeOK /\ PTypeOK /\ overtook \subseteq (1..MaxLog) \X (1..MaxLog)

\* The delete at log position j names the row inserted at position i.
Names(j, i) ==
    /\ log[j].key \in DeleteKeys
    /\ log[j].target = log[i].target
    /\ log[j].key = SyncStdEventDeleteKey => log[j].id = log[i].id
    /\ log[j].key = SyncMacStdEventDeleteKey => log[j].mac = log[i].mac

(***************************************************************************)
(* What the table holds when the log is drained.  Inserts wait in the      *)
(* buffer while deletes are processed at once, so a delete can be applied  *)
(* before the insert it follows in the log, and the row then outlives it.  *)
(* That is the only way: for every device no store call failed for, and    *)
(* if the log was delivered once, a message is in the table exactly when   *)
(* every delete that names it and follows it in the log overtook its       *)
(* insert.  The three delete handlers each remove all the rows of their    *)
(* predicate and no other, and neither the callback of the bulk load of    *)
(* processInsert nor its fallback loses or invents a row.  The one batch   *)
(* this does not speak of is the batch whose commit failed: processInsert  *)
(* has set success by then, logs nothing and stores nothing.               *)
(***************************************************************************)
SurvivesOnlyByOvertaking ==
    (D!Drained /\ restarts = 0) =>
        \A i \in Inserts :
            (log[i].target \notin failedTargets /\ log[i].id \notin uncommitted) =>
                (log[i].id \in DOMAIN messages
                    <=> \A j \in (i + 1)..Len(log) : Names(j, i) => <<j, i>> \in overtook)

(***************************************************************************)
(* A delete removes only what it names.  Whatever is buffered, redelivered *)
(* or failing around it, the rows that leave the table in a step are rows  *)
(* the envelope processed in that step names by its own predicate (message *)
(* id, identifier or device): processDelete, processMacDelete and          *)
(* processDeviceDelete call the store method of their opcode with the      *)
(* fields of their envelope.                                               *)
(***************************************************************************)
DeleteRemovesOnlyWhatItNames ==
    [][\A id \in DOMAIN messages \ DOMAIN messages' :
          /\ D!Pending
          /\ log[next].key \in DeleteKeys
          /\ log[next].target = messages[id].target
          /\ log[next].key = SyncStdEventDeleteKey => log[next].id = id
          /\ log[next].key = SyncMacStdEventDeleteKey => log[next].mac = messages[id].mac]_vars
=============================================================================
