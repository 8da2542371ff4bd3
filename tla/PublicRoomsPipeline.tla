------------------------- MODULE PublicRoomsPipeline -------------------------
(***************************************************************************)
(* The update pipeline of table publicroomsapi_public_rooms: the log, the  *)
(* dispatcher and the processor of module PublicRooms, with the process    *)
(* that hosts them crashing and restarting.                                *)
(***************************************************************************)
EXTENDS PublicRooms

CONSTANTS BatchSize, MaxLog, MaxRestarts

VARIABLES log, next, buffer, restarts   \* the dispatcher's (module Dispatcher)

D == INSTANCE Dispatcher WITH Envelopes <- PublicRoomEnvelopes, BatchKeys <- BatchKeys

dvars == <<log, next, buffer, restarts>>

vars == <<dvars, pvars>>

Inputs(batch) == [i \in DOMAIN batch |-> log[batch[i]]]

InsertedRooms == {log[i].room : i \in {j \in DOMAIN log : log[j].key = PublicRoomInsertKey}}

Positions(r, k) == {i \in DOMAIN log : log[i].key = k /\ log[i].room = r}

\* The members room r has by the log: the joins less the leaves.
Members(r) ==
    Cardinality(Positions(r, PublicRoomIncrementJoinedKey))
        - Cardinality(Positions(r, PublicRoomDecrementJoinedKey))

(***************************************************************************)
(* What the upstream services emit: a room is inserted once, updated and   *)
(* joined only after that, and left only by a member.  A misrouted         *)
(* envelope may come at any time.                                          *)
(***************************************************************************)
Upstream(e) ==
    \/ e.key = ForeignKey
    \/ e.key = PublicRoomInsertKey /\ e.room \notin InsertedRooms
    \/ /\ e.key \in {PublicRoomUpdateKey, PublicRoomIncrementJoinedKey}
       /\ e.room \in InsertedRooms
    \/ /\ e.key = PublicRoomDecrementJoinedKey
       /\ e.room \in InsertedRooms
       /\ Members(e.room) > 0

Emit == \E e \in PublicRoomEnvelopes :
            Upstream(e) /\ D!Produce(e) /\ UNCHANGED pvars

Boot == Start /\ UNCHANGED dvars

\* The dispatcher serves a processor only after its Start has returned.
Deliver(batch) == phase = "Serving" /\ Process(Inputs(batch))

Buffering == phase = "Serving" /\ D!Accumulate /\ UNCHANGED pvars

Single == D!FlushSingleton /\ Deliver(D!SingletonBatch)

Full == D!FlushFull /\ Deliver(D!FullBatch)

Timed == \E k \in BatchKeys : D!FlushTimed(k) /\ Deliver(buffer[k])

\* The hosting process dies and is started again: a new processor, no buffers.
Crash ==
    /\ D!Restart
    /\ phase' = "Constructed" /\ db' = NoDB
    /\ UNCHANGED <<rooms, failedRooms>>

Init == D!DInit /\ PInit

Next == Emit \/ Boot \/ Buffering \/ Single \/ Full \/ Timed \/ Crash

Spec == Init /\ [][Next]_vars

-----------------------------------------------------------------------------
TypeOK == D!DTypeOK /\ PTypeOK

\* The table after the envelopes of the log, each applied once, in order.
ExpectedRooms ==
    [r \in InsertedRooms |->
        LET ins == CHOOSE i \in Positions(r, PublicRoomInsertKey) : TRUE
            ups == Positions(r, PublicRoomUpdateKey)
        IN  [joined |-> log[ins].joined + Members(r),
             attr   |-> IF ups = {} THEN NoValue ELSE log[Max(ups)].value]]

\* Tables s and t hold the same row, or none, for every room of set R.
AgreeOn(R, s, t) ==
    \A r \in R : /\ r \in DOMAIN s <=> r \in DOMAIN t
                 /\ r \in DOMAIN s => s[r] = t[r]

(***************************************************************************)
(* Convergence.  Increments wait in a buffer and are summed per room while *)
(* inserts, updates and decrements of the same room overtake them, and the *)
(* calls of one increment batch come in map order.  Once the log is        *)
(* drained, and if it was delivered once, every room that no failed store  *)
(* call was about has the row the log describes: summing in                *)
(* processIncJoined loses and adds nothing, and an error on one room       *)
(* leaves the calls for the others in place.                               *)
(***************************************************************************)
Converges ==
    (D!Drained /\ restarts = 0) => AgreeOn(Rooms \ failedRooms, rooms, ExpectedRooms)

(***************************************************************************)
(* spec.md, section 6: "the pipeline must tolerate redelivery (idempotent  *)
(* applies)".  The same convergence, also when the consumer restarted and  *)
(* envelopes were delivered again.                                         *)
(***************************************************************************)
RedeliveryTolerated ==
    D!Drained => AgreeOn(Rooms \ failedRooms, rooms, ExpectedRooms)
=============================================================================
