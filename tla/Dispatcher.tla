----------------------------- MODULE Dispatcher -----------------------------
(***************************************************************************)
(* The batch dispatcher / sequencer of the database-update pipeline.       *)
(*                                                                         *)
(* It drains one ordered partition of the update log on behalf of one      *)
(* processor.  An envelope whose opcode is in the processor's BatchKeys    *)
(* joins the buffer of that opcode and is flushed when the buffer reaches  *)
(* BatchSize or when the flush timer fires; any other envelope is handed   *)
(* over at once as a batch of one.  The code of the dispatcher is not part *)
(* of the repository's sources: every definition of this module is written *)
(* from sections 4.3, 5 and 6 of spec.md.                                  *)
(*                                                                         *)
(* A flushing action only says WHICH batch leaves the dispatcher; the      *)
(* pipeline modules conjoin it with the processor's Process action.        *)
(* A batch is a sequence of log positions, so that the pipelines can tell  *)
(* a redelivered envelope from a new one.                                  *)
(***************************************************************************)
EXTENDS Naturals, Sequences, FiniteSets, FiniteSetsExt

CONSTANTS
    Envelopes,    \* the envelopes the upstream producers may emit
    BatchKeys,    \* the opcodes the processor takes as multi-row batches
    BatchSize,    \* size threshold of a buffer
    MaxLog,       \* bound: envelopes produced in a behaviour
    MaxRestarts   \* bound: consumer restarts in a behaviour

ASSUME /\ BatchSize \in Nat \ {0}
       /\ MaxLog \in Nat
       /\ MaxRestarts \in Nat
       /\ \A e \in Envelopes : "key" \in DOMAIN e

VARIABLES
    log,        \* the partition: every envelope produced so far, oldest first
    next,       \* position of the next envelope the consumer receives
    buffer,     \* buffer[k]: positions of the buffered envelopes of opcode k
    restarts    \* consumer restarts so far

dvars == <<log, next, buffer, restarts>>

EmptyBuffers == [k \in BatchKeys |-> <<>>]

Buffered == UNION {{buffer[k][i] : i \in DOMAIN buffer[k]} : k \in BatchKeys}

DInit ==
    /\ log = <<>>
    /\ next = 1
    /\ buffer = EmptyBuffers
    /\ restarts = 0

DTypeOK ==
    /\ log \in Seq(Envelopes) /\ Len(log) <= MaxLog
    /\ next \in 1..(Len(log) + 1)
    /\ buffer \in [BatchKeys -> Seq(1..MaxLog)]
    /\ \A k \in BatchKeys : Len(buffer[k]) < BatchSize
    /\ restarts \in 0..MaxRestarts

(***************************************************************************)
(* The log source.  Producers append; the consumer sees the envelopes in   *)
(* log order.                                                              *)
(***************************************************************************)
Produce(e) ==
    /\ Len(log) < MaxLog
    /\ log' = Append(log, e)
    /\ UNCHANGED <<next, buffer, restarts>>

Pending == next <= Len(log)

Batchable(e) == e.key \in BatchKeys

(***************************************************************************)
(* A batchable envelope joins its buffer, which stays below the threshold: *)
(* nothing is handed to the processor.                                     *)
(***************************************************************************)
Accumulate ==
    /\ Pending
    /\ Batchable(log[next])
    /\ Len(buffer[log[next].key]) + 1 < BatchSize
    /\ buffer' = [buffer EXCEPT ![log[next].key] = Append(@, next)]
    /\ next' = next + 1
    /\ UNCHANGED <<log, restarts>>

(***************************************************************************)
(* A non-batchable envelope is flushed at once, alone.  The buffers are    *)
(* left as they are: an envelope that arrived earlier and still waits in a *)
(* buffer is overtaken.                                                    *)
(***************************************************************************)
SingletonBatch == <<next>>

FlushSingleton ==
    /\ Pending
    /\ ~Batchable(log[next])
    /\ next' = next + 1
    /\ UNCHANGED <<log, buffer, restarts>>

(***************************************************************************)
(* A batchable envelope fills its buffer: the whole buffer is flushed.     *)
(***************************************************************************)
FullBatch == Append(buffer[log[next].key], next)

FlushFull ==
    /\ Pending
    /\ Batchable(log[next])
    /\ Len(buffer[log[next].key]) + 1 = BatchSize
    /\ buffer' = [buffer EXCEPT ![log[next].key] = <<>>]
    /\ next' = next + 1
    /\ UNCHANGED <<log, restarts>>

(***************************************************************************)
(* The time threshold of a non-empty buffer elapses.                       *)
(***************************************************************************)
FlushTimed(k) ==
    /\ buffer[k] # <<>>
    /\ buffer' = [buffer EXCEPT ![k] = <<>>]
    /\ UNCHANGED <<log, next, restarts>>

(***************************************************************************)
(* The consumer restarts.  The buffers live in memory and are lost; the    *)
(* log source redelivers from an offset that is not later than the oldest  *)
(* envelope that was buffered (delivery is at-least-once), and possibly    *)
(* earlier, since the pipeline does not manage offsets itself.             *)
(***************************************************************************)
ReplayLimit == Min(Buffered \cup {next})

Restart ==
    /\ restarts < MaxRestarts
    /\ \E k \in 1..ReplayLimit : next' = k
    /\ buffer' = EmptyBuffers
    /\ restarts' = restarts + 1
    /\ UNCHANGED log

Drained == ~Pending /\ buffer = EmptyBuffers
=============================================================================
