----------------------------- MODULE PublicRooms -----------------------------
(***************************************************************************)
(* The processor of table publicroomsapi_public_rooms                      *)
(* (src/dbupdates/processors/publicroomsapi/publicroomsapi_public_rooms.go) *)
(* and the table it writes.                                                *)
(*                                                                         *)
(* Process takes a batch of envelopes of one opcode and turns it into      *)
(* store calls: one per envelope for insert, update and decrement, one per *)
(* distinct room for increment, whose deltas it sums first.  A store call  *)
(* that fails is logged and skipped; the calls after it are still made.    *)
(*                                                                         *)
(* The store (storage/model.PublicRoomAPIDatabase) is not in the sources:  *)
(* StoreApply is written from sections 5 and 6 of spec.md.                 *)
(***************************************************************************)
EXTENDS Integers, Sequences, FiniteSets, SequencesExt, TLC

CONSTANTS
    Rooms,        \* room ids
    AttrValues,   \* values of the one room attribute the model keeps
    InitJoined    \* joined_members values an insert may carry

\* The opcodes of this table (model/dbtypes).
PublicRoomInsertKey == "PublicRoomInsertKey"
PublicRoomUpdateKey == "PublicRoomUpdateKey"
PublicRoomIncrementJoinedKey == "PublicRoomIncrementJoinedKey"
PublicRoomDecrementJoinedKey == "PublicRoomDecrementJoinedKey"
\* An opcode of another table, reaching this processor by a routing error.
ForeignKey == "AccountInsertKey"

\* The envelopes of this table: the opcode and the payload variant it selects.
PublicRoomEnvelopes ==
    [key : {PublicRoomInsertKey}, room : Rooms, joined : InitJoined]
        \cup [key : {PublicRoomUpdateKey}, room : Rooms, value : AttrValues]
        \cup [key : {PublicRoomIncrementJoinedKey, PublicRoomDecrementJoinedKey},
              room : Rooms]
        \cup [key : {ForeignKey}]

NoDB == "nil"
Connected == "publicroomapi"
NoValue == "unset"

VARIABLES
    phase,        \* "Constructed", "Serving" or "Aborted" (the process panicked)
    db,           \* p.db
    rooms,        \* the table: a row for every room that was inserted
    failedRooms   \* history: the rooms a failed store call was about

pvars == <<phase, db, rooms, failedRooms>>

RoomRows == [joined : Int, attr : AttrValues \cup {NoValue}]

\* NewDBPublicroomapiPublicRoomsProcessor: name and cfg are set, db is nil.
PInit ==
    /\ phase = "Constructed"
    /\ db = NoDB
    /\ rooms = <<>>
    /\ failedRooms = {}

-----------------------------------------------------------------------------
\* A mutation of Start: the connection error is logged and not fatal.
StartIgnoringError ==
    /\ phase = "Constructed"
    /\ phase' = "Serving"
    /\ db' \in {Connected, NoDB}
    /\ UNCHANGED <<rooms, failedRooms>>

(***************************************************************************)
(* Start binds the store handle; a connection error is fatal.              *)
(***************************************************************************)
Start ==
    /\ phase = "Constructed"
    /\ \/ db' = Connected /\ phase' = "Serving"
       \/ db' = NoDB /\ phase' = "Aborted"
    /\ UNCHANGED <<rooms, failedRooms>>

\* BatchKeys(): only the increment is taken in multi-row batches.
BatchKeys == {PublicRoomIncrementJoinedKey}

-----------------------------------------------------------------------------
(***************************************************************************)
(* The store.  An insert of a room that exists is ignored, so that it is   *)
(* safe to reapply; update, increment and decrement change the row of the  *)
(* room and do nothing when there is none.                                 *)
(***************************************************************************)
StoreApply(t, c) ==
    CASE c.op = "OnInsertNewRoom" ->
            IF c.room \in DOMAIN t
            THEN t
            ELSE t @@ (c.room :> [joined |-> c.n, attr |-> NoValue])
      [] c.room \notin DOMAIN t -> t
      [] c.op = "OnUpdateRoomAttribute" -> [t EXCEPT ![c.room].attr = c.value]
      [] c.op = "OnIncrementJoinedMembersInRoom" ->
            [t EXCEPT ![c.room].joined = @ + c.n]
      [] c.op = "OnDecrementJoinedMembersInRoom" ->
            [t EXCEPT ![c.room].joined = @ - 1]

\* A mutation of ApplyEach: the loop returns at the first error.
ApplyUntilError(t, cs, bad) ==
    FoldLeftDomain(LAMBDA acc, i :
                       IF \E j \in bad : j <= i THEN acc ELSE StoreApply(acc, cs[i]),
                   t, cs)

(***************************************************************************)
(* The loop every handler of Process runs: the calls cs are made in order, *)
(* the ones in bad return an error, which is logged; the loop goes on.     *)
(***************************************************************************)
ApplyEach(t, cs, bad) ==
    FoldLeftDomain(LAMBDA acc, i :
                       IF i \in bad THEN acc ELSE StoreApply(acc, cs[i]),
                   t, cs)

-----------------------------------------------------------------------------
(***************************************************************************)
(* The handlers: the store calls each one makes for a batch, as the set of *)
(* the call sequences it may produce.                                      *)
(***************************************************************************)
processInsert(inputs) ==
    {[i \in DOMAIN inputs |->
        [op |-> "OnInsertNewRoom", room |-> inputs[i].room, n |-> inputs[i].joined]]}

processUpdate(inputs) ==
    {[i \in DOMAIN inputs |->
        [op |-> "OnUpdateRoomAttribute", room |-> inputs[i].room,
         value |-> inputs[i].value]]}

\* A mutation of processIncJoined: the count of a room is set, not added to.
processIncJoinedNoSum(inputs) ==
    {[i \in DOMAIN order |->
        [op |-> "OnIncrementJoinedMembersInRoom", room |-> order[i], n |-> 1]] :
     order \in SetToSeqs({inputs[i].room : i \in DOMAIN inputs})}

(***************************************************************************)
(* processIncJoined counts the envelopes of each room in a map, then makes *)
(* one call per room with its count.  The iteration order of a Go map is   *)
(* not defined: the calls come in any order of the rooms.                  *)
(***************************************************************************)
processIncJoined(inputs) ==
    LET cache == [r \in {inputs[i].room : i \in DOMAIN inputs} |->
                    Cardinality({i \in DOMAIN inputs : inputs[i].room = r})]
    IN  {[i \in DOMAIN order |->
            [op |-> "OnIncrementJoinedMembersInRoom", room |-> order[i],
             n |-> cache[order[i]]]] :
         order \in SetToSeqs(DOMAIN cache)}

processDecJoined(inputs) ==
    {[i \in DOMAIN inputs |->
        [op |-> "OnDecrementJoinedMembersInRoom", room |-> inputs[i].room]]}

(***************************************************************************)
(* The switch of Process on the opcode of the first envelope.  An empty    *)
(* batch and an opcode of another table make no store call.                *)
(***************************************************************************)
StoreCalls(inputs) ==
    CASE inputs = <<>> -> {<<>>}
      [] inputs[1].key = PublicRoomInsertKey -> processInsert(inputs)
      [] inputs[1].key = PublicRoomUpdateKey -> processUpdate(inputs)
      [] inputs[1].key = PublicRoomIncrementJoinedKey -> processIncJoined(inputs)
      [] inputs[1].key = PublicRoomDecrementJoinedKey -> processDecJoined(inputs)
      [] OTHER -> {<<>>}

(***************************************************************************)
(* Process(ctx, inputs).  Which store calls fail is the store's choice.    *)
(* Process does not look at the lifecycle: on a processor whose p.db is    *)
(* still nil the first store call panics.                                  *)
(***************************************************************************)
Process(inputs) ==
    \E cs \in StoreCalls(inputs) :
        \/ /\ cs = <<>> \/ db # NoDB
           /\ \E bad \in SUBSET DOMAIN cs :
                 /\ rooms' = ApplyEach(rooms, cs, bad)
                 /\ failedRooms' = failedRooms \cup {cs[i].room : i \in bad}
           /\ UNCHANGED <<phase, db>>
        \/ /\ cs # <<>> /\ db = NoDB
           /\ phase' = "Aborted"
           /\ UNCHANGED <<db, rooms, failedRooms>>

PTypeOK ==
    /\ <<phase, db>> \in {<<"Constructed", NoDB>>, <<"Serving", Connected>>,
                          <<"Aborted", NoDB>>}
    /\ DOMAIN rooms \subseteq Rooms
    /\ \A r \in DOMAIN rooms : rooms[r] \in RoomRows
    /\ failedRooms \subseteq Rooms
=============================================================================
