--------------------------------- MODULE Bot ---------------------------------
(***************************************************************************)
(* The load-test bot (src/cmd/bot/main.go, src/cmd/bot/bot.go).            *)
(*                                                                         *)
(* main logs the first bot in, then starts one goroutine per other bot to  *)
(* log it in and createRoomNum goroutines that each create a room as the   *)
(* first bot and put its id into the map roomIDs.  Behind the two wait     *)
(* groups it starts the joins of the other bots and a sync loop per bot,   *)
(* and behind the wait group of the joins a send loop per bot.             *)
(*                                                                         *)
(* A call of the SDK is one step that ends with what the SDK returns for   *)
(* a reply of the server (module SdkReturns); the methods of Bot read it.  *)
(* The assignment to roomIDs is two steps, because the goroutines that     *)
(* make it share the map and hold no lock: when two assignments overlap,   *)
(* the Go runtime may stop the process, and an entry may be lost.          *)
(***************************************************************************)
EXTENDS Integers, FiniteSets

CONSTANTS
    MaxBots,     \* bound: flag botNum
    MaxRooms,    \* bound: flag createRoomNum
    Statuses     \* the status codes the server answers with

SDK == INSTANCE SdkReturns

VARIABLES
    botNum, createRoomNum,   \* the flags
    main,                    \* where main is
    token,                   \* token[b]: b.token
    since,                   \* since[b]: b.Since
    pc,                      \* pc[f][g]: where goroutine g of family f is
    wg,                      \* wg[f]: the counter of the wait group of family f
    roomIDs,                 \* the keys of the map roomIDs
    raced,                   \* creators whose assignment met another
    joinTodo,                \* joinTodo[b]: rooms b has yet to join
    created,                 \* history: rooms the server created
    sent                     \* history: bots that sent a message

flags == <<botNum, createRoomNum>>
history == <<created, sent>>
vars == <<flags, main, token, since, pc, wg, roomIDs, raced, joinTodo, history>>

Bots == 1..botNum
First == 1                      \* the bot with index botIdx
Others == Bots \ {First}
Creators == 1..createRoomNum    \* creator i gets room i from the server

NoToken == "empty"
Token == "token"
NoBatch == "empty"
NextBatch == "next_batch"

\* What a call of SDK function fn can return: a response and an error.
Returns(fn) == {SDK!Return(fn, reply) : reply \in SDK!Replies}

\* A mutation of Outcome: the status is looked at before the error.
OutcomeStatusFirst(r) ==
    IF r.resp.nil THEN "nil"
    ELSE IF r.resp.status # 200 \/ r.err THEN "error" ELSE "ok"

\* What every method of Bot does with it: the error is returned; then
\* resp.Header is read, of a response that may be nil; a status other than
\* 200 is returned as an error, Header.Error or one made up.
Outcome(r) ==
    IF r.err THEN "error"
    ELSE IF r.resp.nil THEN "nil"
    ELSE IF r.resp.status # 200 THEN "error" ELSE "ok"

\* A field of the body: what the server sent, or the zero value of a body
\* that was not decoded.
Field(r, value, zero) == IF r.resp.decoded THEN value ELSE zero

\* A nil dereference in main or in a goroutine ends the process.
AfterRead(r) == IF Outcome(r) = "nil" THEN "crashed" ELSE main

Stopped == {"returned", "panicked", "fatal", "crashed"}
Running == main \notin Stopped

Init ==
    /\ botNum \in 0..MaxBots
    /\ createRoomNum \in -1..MaxRooms
    /\ main = "start"
    /\ token = [b \in Bots |-> NoToken]
    /\ since = [b \in Bots |-> NoBatch]
    /\ pc = [login |-> [b \in Others |-> "idle"], create |-> [i \in Creators |-> "idle"],
             join |-> [b \in Others |-> "idle"], sync |-> [b \in Bots |-> "idle"],
             send |-> [b \in Bots |-> "idle"]]
    /\ wg = [login |-> 0, create |-> 0, join |-> 0]
    /\ roomIDs = {}
    /\ raced = {}
    /\ joinTodo = [b \in Others |-> {}]
    /\ created = {}
    /\ sent = {}

-----------------------------------------------------------------------------
\* Bot.Login: the token of the response is kept; an error is returned.
Login(b, r) ==
    token' = IF Outcome(r) = "ok" THEN [token EXCEPT ![b] = Field(r, Token, NoToken)]
             ELSE token

\* The flags: main returns on -h and on an empty domain or url; otherwise it
\* initialises the SDK and makes the bots.
ParseFlags ==
    /\ main = "start"
    /\ main' \in {"returned", "login"}
    /\ UNCHANGED <<flags, token, since, pc, wg, roomIDs, raced, joinTodo, history>>

\* b.Login() of the first bot.  With no bot, b is nil; an error is a panic.
FirstLogin ==
    /\ main = "login"
    /\ \/ botNum = 0 /\ main' = "panicked" /\ UNCHANGED token
       \/ /\ botNum > 0
          /\ \E r \in Returns("Login") :
                /\ Login(First, r)
                /\ main' = CASE Outcome(r) = "ok" -> "spawn"
                              [] Outcome(r) = "error" -> "panicked"
                              [] Outcome(r) = "nil" -> "crashed"
    /\ UNCHANGED <<flags, since, pc, wg, roomIDs, raced, joinTodo, history>>

\* wgLogin.Add and the login goroutines of the other bots.
StartLogins ==
    /\ main = "spawn"
    /\ wg' = [wg EXCEPT !.login = @ + botNum - 1]
    /\ pc' = [pc EXCEPT !.login = [b \in Others |-> "run"]]
    /\ main' = "spawnCreate"
    /\ UNCHANGED <<flags, token, since, roomIDs, raced, joinTodo, history>>

\* wgCreateRoom.Add and the creators, while the logins are under way.  Add
\* panics when it takes the counter below zero: with a negative
\* createRoomNum main ends there.
StartCreates ==
    /\ main = "spawnCreate"
    /\ \/ /\ wg.create + createRoomNum < 0
          /\ main' = "panicked"
          /\ UNCHANGED <<wg, pc>>
       \/ /\ wg.create + createRoomNum >= 0
          /\ wg' = [wg EXCEPT !.create = @ + createRoomNum]
          /\ pc' = [pc EXCEPT !.create = [i \in Creators |-> "run"]]
          /\ main' = "waitLogin"
    /\ UNCHANGED <<flags, token, since, roomIDs, raced, joinTodo, history>>

\* A mutation of Wait: main does not wait.
NoWait(f, from, to) ==
    /\ main = from
    /\ main' = to
    /\ UNCHANGED <<flags, token, since, pc, wg, roomIDs, raced, joinTodo, history>>

\* wg.Wait(): main goes on when the counter is zero.
Wait(f, from, to) ==
    /\ main = from
    /\ wg[f] = 0
    /\ main' = to
    /\ UNCHANGED <<flags, token, since, pc, wg, roomIDs, raced, joinTodo, history>>

WaitLogin == Wait("login", "waitLogin", "waitCreate")
WaitCreate == Wait("create", "waitCreate", "join")
WaitJoin == Wait("join", "waitJoin", "send")

\* A mutation of StartJoinsAndSyncs: the first bot is counted with the joiners.
StartJoinsAndSyncsCountingFirst ==
    /\ main = "join"
    /\ wg' = [wg EXCEPT !.join = @ + botNum]
    /\ pc' = [pc EXCEPT !.join = [b \in Others |-> "run"],
                        !.sync = [b \in Bots |-> "run"]]
    /\ joinTodo' = [b \in Others |-> roomIDs]
    /\ main' = "waitJoin"
    /\ UNCHANGED <<flags, token, since, roomIDs, raced, history>>

\* wgJoin.Add, the join goroutines, the sync loops.
StartJoinsAndSyncs ==
    /\ main = "join"
    /\ wg' = [wg EXCEPT !.join = @ + botNum - 1]
    /\ pc' = [pc EXCEPT !.join = [b \in Others |-> "run"],
                        !.sync = [b \in Bots |-> "run"]]
    /\ joinTodo' = [b \in Others |-> roomIDs]
    /\ main' = "waitJoin"
    /\ UNCHANGED <<flags, token, since, roomIDs, raced, history>>

\* The send loops; then main blocks in select {}.  A loop over an empty map
\* never sleeps.
StartSends ==
    /\ main = "send"
    /\ pc' = [pc EXCEPT !.send = [b \in Bots |-> IF roomIDs = {} THEN "spin" ELSE "run"]]
    /\ main' = "select"
    /\ UNCHANGED <<flags, token, since, wg, roomIDs, raced, joinTodo, history>>

-----------------------------------------------------------------------------
\* The goroutine of a login: an error is logged; the deferred wgLogin.Done().
LoginReturns(b) ==
    /\ Running
    /\ pc.login[b] = "run"
    /\ \E r \in Returns("Login") : Login(b, r) /\ main' = AfterRead(r)
    /\ pc' = [pc EXCEPT !.login[b] = "done"]
    /\ wg' = [wg EXCEPT !.login = @ - 1]
    /\ UNCHANGED <<flags, since, roomIDs, raced, joinTodo, history>>

\* A mutation of CreateFails: the goroutine returns without Done.
CreateFailsWithoutDone(i) ==
    /\ Running
    /\ pc.create[i] = "run"
    /\ \E r \in Returns("CreateRoom") : Outcome(r) # "ok" /\ main' = AfterRead(r)
    /\ pc' = [pc EXCEPT !.create[i] = "done"]
    /\ UNCHANGED <<flags, token, since, wg, roomIDs, raced, joinTodo, history>>

\* b.CreateRoom() returns an error: it is logged; the deferred Done.
CreateFails(i) ==
    /\ Running
    /\ pc.create[i] = "run"
    /\ \E r \in Returns("CreateRoom") : Outcome(r) # "ok" /\ main' = AfterRead(r)
    /\ pc' = [pc EXCEPT !.create[i] = "done"]
    /\ wg' = [wg EXCEPT !.create = @ - 1]
    /\ UNCHANGED <<flags, token, since, roomIDs, raced, joinTodo, history>>

\* Bot.CreateRoom returns a room id, and the goroutine enters the assignment
\* roomIDs[roomID] = struct{}{}, maybe while others are in theirs.
CreateSucceeds(i) ==
    LET writing == {j \in Creators : pc.create[j] = "assign"}
    IN  /\ Running
        /\ pc.create[i] = "run"
        /\ \E r \in Returns("CreateRoom") : Outcome(r) = "ok" /\ r.resp.decoded
        /\ pc' = [pc EXCEPT !.create[i] = "assign"]
        /\ created' = created \cup {i}
        /\ raced' = IF writing = {} THEN raced ELSE raced \cup writing \cup {i}
        /\ UNCHANGED <<flags, main, token, since, wg, roomIDs, joinTodo, sent>>

\* A mutation of Assigned: Done is called at the end and by the defer.
AssignedDoneTwice(i) ==
    /\ Running
    /\ pc.create[i] = "assign"
    /\ roomIDs' = roomIDs \cup {i}
    /\ pc' = [pc EXCEPT !.create[i] = "done"]
    /\ wg' = [wg EXCEPT !.create = @ - 2]
    /\ UNCHANGED <<flags, main, token, since, raced, joinTodo, history>>

\* The assignment is through, and the deferred Done.  An assignment that met
\* another may have lost its entry.
Assigned(i) ==
    /\ Running
    /\ pc.create[i] = "assign"
    /\ \/ roomIDs' = roomIDs \cup {i}
       \/ i \in raced /\ UNCHANGED roomIDs
    /\ pc' = [pc EXCEPT !.create[i] = "done"]
    /\ wg' = [wg EXCEPT !.create = @ - 1]
    /\ UNCHANGED <<flags, main, token, since, raced, joinTodo, history>>

\* The runtime finds two assignments in the map at once: "fatal error:
\* concurrent map writes" ends the process.
ConcurrentMapWrites ==
    /\ Running
    /\ \E i \in raced : pc.create[i] = "assign"
    /\ main' = "fatal"
    /\ UNCHANGED <<flags, token, since, pc, wg, roomIDs, raced, joinTodo, history>>

\* One turn of the loop over roomIDs: Bot.JoinRoom; an error is logged.
JoinRoom(b) ==
    /\ Running
    /\ pc.join[b] = "run"
    /\ \E k \in joinTodo[b] : joinTodo' = [joinTodo EXCEPT ![b] = @ \ {k}]
    /\ \E r \in Returns("JoinRoom") : main' = AfterRead(r)
    /\ UNCHANGED <<flags, token, since, pc, wg, roomIDs, raced, history>>

\* The loop over roomIDs is through: the deferred wgJoin.Done().
JoinsDone(b) ==
    /\ Running
    /\ pc.join[b] = "run"
    /\ joinTodo[b] = {}
    /\ pc' = [pc EXCEPT !.join[b] = "done"]
    /\ wg' = [wg EXCEPT !.join = @ - 1]
    /\ UNCHANGED <<flags, main, token, since, roomIDs, raced, joinTodo, history>>

\* One turn of the sync loop.  Bot.Sync keeps the next batch of the reply; an
\* error is logged and the loop turns again at once.
Sync(b) ==
    /\ Running
    /\ pc.sync[b] = "run"
    /\ \E r \in Returns("Sync") :
          /\ since' = IF Outcome(r) = "ok"
                       THEN [since EXCEPT ![b] = Field(r, NextBatch, NoBatch)] ELSE since
          /\ main' = AfterRead(r)
    /\ UNCHANGED <<flags, token, pc, wg, roomIDs, raced, joinTodo, history>>

\* One turn of the send loop: Bot.SendMessage to a room of roomIDs, a sleep.
SendMessage(b) ==
    /\ Running
    /\ pc.send[b] = "run"
    /\ sent' = sent \cup {b}
    /\ \E r \in Returns("SendMessageTxt") : main' = AfterRead(r)
    /\ UNCHANGED <<flags, token, since, pc, wg, roomIDs, raced, joinTodo, created>>

-----------------------------------------------------------------------------
MainStep ==
    \/ ParseFlags \/ FirstLogin \/ StartLogins \/ StartCreates \/ WaitLogin
    \/ WaitCreate \/ StartJoinsAndSyncs \/ WaitJoin \/ StartSends

CreatorStep(i) == CreateFails(i) \/ CreateSucceeds(i) \/ Assigned(i)

JoinerStep(b) == JoinRoom(b) \/ JoinsDone(b)

Next ==
    \/ MainStep
    \/ \E b \in Others : LoginReturns(b)
    \/ \E i \in Creators : CreateFails(i)
    \/ \E i \in Creators : CreateSucceeds(i)
    \/ \E i \in Creators : Assigned(i)
    \/ ConcurrentMapWrites
    \/ \E b \in Others : JoinRoom(b)
    \/ \E b \in Others : JoinsDone(b)
    \/ \E b \in Bots : Sync(b)
    \/ \E b \in Bots : SendMessage(b)

(***************************************************************************)
(* The Go scheduler lets every goroutine that can run do so, and the       *)
(* server is taken to answer every request: main and each goroutine are    *)
(* weakly fair.  The runtime need not notice a concurrent map write.       *)
(***************************************************************************)
Fairness ==
    /\ WF_vars(MainStep)
    /\ \A b \in 1..MaxBots :
          /\ WF_vars(b \in Others /\ LoginReturns(b))
          /\ WF_vars(b \in Others /\ JoinerStep(b))
          /\ WF_vars(b \in Bots /\ SendMessage(b))
    /\ \A i \in 1..MaxRooms : WF_vars(i \in Creators /\ CreatorStep(i))

Spec == Init /\ [][Next]_vars /\ Fairness

-----------------------------------------------------------------------------
TypeOK ==
    /\ botNum \in 0..MaxBots /\ createRoomNum \in -1..MaxRooms
    /\ main \in {"start", "login", "spawn", "spawnCreate", "waitLogin", "waitCreate", "join",
                 "waitJoin", "send", "select"} \cup Stopped
    /\ token \in [Bots -> {NoToken, Token}]
    /\ since \in [Bots -> {NoBatch, NextBatch}]
    /\ pc \in [login : [Others -> {"idle", "run", "done"}],
               create : [Creators -> {"idle", "run", "assign", "done"}],
               join : [Others -> {"idle", "run", "done"}],
               sync : [Bots -> {"idle", "run"}],
               send : [Bots -> {"idle", "run", "spin"}]]
    /\ wg \in [login : 0..MaxBots, create : 0..MaxRooms, join : 0..MaxBots]
    /\ roomIDs \subseteq Creators /\ raced \subseteq Creators
    /\ joinTodo \in [Others -> SUBSET Creators]
    /\ created \subseteq Creators /\ sent \subseteq Bots

\* The goroutines of a family that are started and not through.
Live(f) == {g \in DOMAIN pc[f] : pc[f][g] \notin {"idle", "done"}}

(***************************************************************************)
(* The wait groups count the goroutines.  main adds botNum - 1 to wgLogin  *)
(* and to wgJoin and skips the first bot in the loops that start the       *)
(* goroutines, and every goroutine calls Done on each of its ways out: at  *)
(* any moment a counter is the number of goroutines of its family that are *)
(* still at work, so that Wait can neither return early nor hang, and Done *)
(* can not take a counter below zero.                                      *)
(***************************************************************************)
WaitGroupsCountGoroutines ==
    \A f \in DOMAIN wg : wg[f] = Cardinality(Live(f))

(***************************************************************************)
(* What the goroutines share is written before it is read.  The joins, the *)
(* sync loops and the send loops read b.token and roomIDs with no lock;    *)
(* wgLogin.Wait and wgCreateRoom.Wait in main are what keeps them behind   *)
(* the logins that write the tokens and the creators that write the map,   *)
(* and the creators behind the login of the first bot.                     *)
(***************************************************************************)
WrittenBeforeRead ==
    /\ Live("join") \cup Live("sync") \cup Live("send") # {} =>
          Live("login") = {} /\ Live("create") = {}
    /\ Live("create") # {} => token[First] = Token

(***************************************************************************)
(* The bot reads no response that is not there.  Every method of Bot reads *)
(* resp.Header as soon as the error of the SDK is nil (bot.go, lines 47,   *)
(* 68, 100, 115 and 130), in main and in goroutines that recover nothing.  *)
(* Whatever the server answers to whichever call (no answer, a refusal, a  *)
(* body that is missing, unreadable or not JSON), each of the five SDK     *)
(* functions returns an error or a response, and the process does not end  *)
(* in a nil dereference.                                                   *)
(***************************************************************************)
ResponsesReadAreThere == main # "crashed"

(***************************************************************************)
(* The load starts.  Once main has logged the first bot in, and unless the *)
(* flag createRoomNum is negative, every bot gets to send, unless no room  *)
(* is there to send to or the runtime stopped the process: no wait group   *)
(* holds main back for ever, whichever logins, room creations and joins    *)
(* fail.                                                                   *)
(***************************************************************************)
EveryBotSends ==
    main = "spawn" /\ createRoomNum >= 0
        ~> (main = "fatal" \/ (main = "select" /\ (roomIDs = {} \/ sent = Bots)))

(***************************************************************************)
(* The log line "login & createRoom finished" of main, read as a claim:    *)
(* when main is past wgCreateRoom.Wait, the process is alive and roomIDs   *)
(* holds every room the server created.                                    *)
(***************************************************************************)
CreatedRoomsAreKept ==
    /\ main # "fatal"
    /\ main \in {"join", "waitJoin", "send", "select"} => roomIDs = created
=============================================================================
