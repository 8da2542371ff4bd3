--------------------------------- MODULE Sdk ---------------------------------
(***************************************************************************)
(* The client SDK (src/sdk/go-ligase): Init and the five request           *)
(* functions, called by goroutines that share the package variables        *)
(* once, ligaseURL, httpCli, messageCounter and the logger.                *)
(*                                                                         *)
(* Init writes the URL, then sets up the logger and the HTTP client under  *)
(* a sync.Once.  A request function builds its URL from ligaseURL and its  *)
(* arguments, logs it, sends the request with httpCli and turns the reply  *)
(* into a response and an error.  A call through a nil logger or a nil     *)
(* client is a nil dereference, which ends the process.                    *)
(*                                                                         *)
(* A URL is the sequence of its pieces: the values put into it, and the    *)
(* separators "?", "&" and "=" of the format string.                       *)
(***************************************************************************)
EXTENDS Logger, SdkReturns, FiniteSets, Functions, TLC

CONSTANTS
    Callers,       \* the goroutines that call the SDK
    Options,       \* the ClientOpts Init is called with
    Values,        \* the strings passed as token and since: sequences of pieces
    CallSites,     \* the places of the log statements, as runtime.Caller sees them
    Millis,        \* the readings of the clock, in milliseconds
    MaxMessages    \* bound: calls of SendMessage

VARIABLES
    once,            \* sync.Once: "fresh", "running" or "done"
    ligaseURL,       \* the package variable; "" before Init
    httpCli,         \* <<>> (nil) or <<client>>
    logger,          \* the logger package's variable: <<>> (nil) or <<logger>>
    messageCounter,  \* the package variable
    pc,              \* pc[c]: where caller c is
    req,             \* req[c]: the call c is in, NoCall between calls
    result,          \* what the last call that returned has returned
    out,             \* the header of the last line printed: <<>> or <<header>>
    panicked,        \* the callers that dereferenced nil: none or one
    initReturned,    \* history: a call of Init has returned
    txns             \* history: the transaction ids of the messages sent

\* ClientOpts: the URL of the server, the switches of the logger, and Pool
\* for the three sizes and the timeout of the connection pool, which only
\* the client made from them tells apart.
ClientOpts ==
    [URL : STRING, Pool : STRING, LogTime : BOOLEAN, LogFile : BOOLEAN,
     LogDebug : BOOLEAN, LogTrace : BOOLEAN, LogColors : BOOLEAN, LogPID : BOOLEAN]

ASSUME OptionsAreClientOpts == Options \subseteq ClientOpts

vars == <<once, ligaseURL, httpCli, logger, messageCounter, pc, req, result, out,
          panicked, initReturned, txns>>

NoCall ==
    [fn |-> "none", opts |-> <<>>, afterInit |-> FALSE, url |-> <<>>, token |-> <<>>,
     since |-> <<>>]
NoResult == [fn |-> "none", resp |-> Nil, err |-> FALSE]

Init ==
    /\ once = "fresh"
    /\ ligaseURL = ""
    /\ httpCli = <<>>
    /\ logger = <<>>
    /\ messageCounter = 0
    /\ pc = [c \in Callers |-> "idle"]
    /\ req = [c \in Callers |-> NoCall]
    /\ result = NoResult
    /\ out = <<>>
    /\ panicked = {}
    /\ initReturned = FALSE
    /\ txns = <<>>

-----------------------------------------------------------------------------
(***************************************************************************)
(* The URLs of the five functions, after ligaseURL and R0_PREFIX.          *)
(***************************************************************************)
R0_PREFIX == "/_matrix/client/r0"

Param(key, value) == <<key, "=">> \o value

LoginURL == <<"/login">>

\* A mutation of CreateRoomURL: the query starts with "&".
CreateRoomURLNoQuery(token) == <<"/createRoom", "&">> \o Param("access_token", token)

CreateRoomURL(token) == <<"/createRoom", "?">> \o Param("access_token", token)

JoinRoomURL(room, token) == <<"/join/", room, "?">> \o Param("access_token", token)

SendMessageURL(room, ms, n, token) ==
    <<"/rooms/", room, "/send/m.room.message/m", ToString(ms), ".", ToString(n), "?">>
        \o Param("access_token", token)

SyncURL(filter, from, since, setPresence, fullstate, timeout, token) ==
    <<"/sync", "?">> \o Param("filter", filter) \o <<"&">> \o Param("from", from)
        \o <<"&">> \o Param("since", since) \o Param("set_presence", setPresence)
        \o <<"&">> \o Param("full_state", fullstate)
        \o <<"&">> \o Param("timeout", timeout)
        \o <<"&">> \o Param("access_token", token)


\* The log statements between httpCli.Do and the return: the time spent,
\* the refusal (Sync also prints what it decoded of it), the body read.
Levels(fn, reply) ==
    LET refused == reply.status \notin {0, 200}
        read == reply.status = 200 /\ reply.body \in {"garbage", "json"}
    IN  {"trace"} \cup {lv \in {"error"} : refused}
                  \cup {lv \in {"debug"} : read \/ (refused /\ fn = "Sync")}

\* GetLogger().<level>f at some call site: the last line printed, if one is.
Log(levels) ==
    LET printed == UNION {Printf(logger[1], lv, site) : lv \in levels, site \in CallSites}
    IN  out' \in IF printed = {} THEN {out} ELSE {<<h>> : h \in printed}

-----------------------------------------------------------------------------
Alive == panicked = {}

\* Init, up to once.Do: the URL is written whether or not Init ran before.
WriteURL(c, opts) ==
    /\ Alive
    /\ pc[c] = "idle"
    /\ ligaseURL' = opts.URL
    /\ req' = [req EXCEPT ![c] = [NoCall EXCEPT !.fn = "Init", !.opts = <<opts>>]]
    /\ pc' = [pc EXCEPT ![c] = "once"]
    /\ UNCHANGED <<once, httpCli, logger, messageCounter, result, out, panicked,
                   initReturned, txns>>

\* A mutation of InitLogger: the logger is made outside once.Do.
InitLoggerEveryTime(c) ==
    /\ Alive
    /\ pc[c] = "once"
    /\ once' = "running"
    /\ logger' = LET o == req[c].opts[1]
                 IN  <<NewStdLogger(o.LogTime, o.LogFile, o.LogDebug, o.LogTrace,
                                    o.LogColors, o.LogPID)>>
    /\ pc' = [pc EXCEPT ![c] = "client"]
    /\ UNCHANGED <<ligaseURL, httpCli, messageCounter, req, result, out, panicked,
                   initReturned, txns>>

\* once.Do runs the function for the first caller: logger.InitLogger.
InitLogger(c) ==
    /\ Alive
    /\ pc[c] = "once"
    /\ once = "fresh"
    /\ once' = "running"
    /\ logger' = LET o == req[c].opts[1]
                 IN  <<NewStdLogger(o.LogTime, o.LogFile, o.LogDebug, o.LogTrace,
                                    o.LogColors, o.LogPID)>>
    /\ pc' = [pc EXCEPT ![c] = "client"]
    /\ UNCHANGED <<ligaseURL, httpCli, messageCounter, req, result, out, panicked,
                   initReturned, txns>>

\* The function of once.Do goes on: httpCli is made with the pool of the
\* options; Do and Init return.
MakeClient(c) ==
    /\ Alive
    /\ pc[c] = "client"
    /\ httpCli' = <<[Transport |-> req[c].opts[1].Pool]>>
    /\ once' = "done"
    /\ initReturned' = TRUE
    /\ pc' = [pc EXCEPT ![c] = "idle"]
    /\ req' = [req EXCEPT ![c] = NoCall]
    /\ UNCHANGED <<ligaseURL, logger, messageCounter, result, out, panicked, txns>>

\* A mutation of OnceDone: Do returns while the function still runs.
OnceDoneOrRunning(c) ==
    /\ Alive
    /\ pc[c] = "once"
    /\ once # "fresh"
    /\ initReturned' = TRUE
    /\ pc' = [pc EXCEPT ![c] = "idle"]
    /\ req' = [req EXCEPT ![c] = NoCall]
    /\ UNCHANGED <<once, ligaseURL, httpCli, logger, messageCounter, result, out,
                   panicked, txns>>

\* once.Do for a later caller: it returns when the function has run, and
\* blocks while it runs.
OnceDone(c) ==
    /\ Alive
    /\ pc[c] = "once"
    /\ once = "done"
    /\ initReturned' = TRUE
    /\ pc' = [pc EXCEPT ![c] = "idle"]
    /\ req' = [req EXCEPT ![c] = NoCall]
    /\ UNCHANGED <<once, ligaseURL, httpCli, logger, messageCounter, result, out,
                   panicked, txns>>

\* A mutation of Counted: the counter is read, not added to.
CountedNotAdded(fn) == messageCounter

\* A mutation of Counted: every function adds to the counter.
CountedByAll(fn) == messageCounter + 1

\* atomic.AddInt64(&messageCounter, 1), in SendMessage only.
Counted(fn) == IF fn = "SendMessage" THEN messageCounter + 1 ELSE messageCounter

\* The URL a function builds from its arguments.
URL(fn, room, ms, token, since, timeout) ==
    CASE fn = "Login" -> LoginURL
      [] fn = "Sync" -> SyncURL(<<>>, <<>>, since, <<>>, <<>>, timeout, token)
      [] fn = "CreateRoom" -> CreateRoomURL(token)
      [] fn = "JoinRoom" -> JoinRoomURL(room, token)
      [] fn = "SendMessage" -> SendMessageURL(room, ms, Counted(fn), token)

(***************************************************************************)
(* What the request functions share up to httpCli.Do: the URL is built,    *)
(* the first log statement runs (through a nil logger before Init), and    *)
(* http.NewRequestWithContext makes the request or returns an error.       *)
(***************************************************************************)
Build(c, fn, token, since) ==
    \E ms \in Millis :
        LET call == [fn |-> fn, opts |-> <<>>, afterInit |-> initReturned,
                     token |-> token, since |-> since,
                     url |-> <<ligaseURL, R0_PREFIX>>
                                 \o URL(fn, "room", ms, token, since, <<"0">>)]
        IN  /\ Alive
            /\ pc[c] = "idle"
            /\ fn = "SendMessage" => messageCounter < MaxMessages
            /\ messageCounter' = Counted(fn)
            /\ txns' = IF fn = "SendMessage" THEN Append(txns, <<ms, Counted(fn)>>)
                       ELSE txns
            /\ \/ /\ logger = <<>>
                  /\ panicked' = {c}
                  /\ req' = [req EXCEPT ![c] = call]
                  /\ UNCHANGED <<pc, result, out>>
               \/ /\ logger # <<>>
                  /\ Log({"debug"})
                  /\ \/ /\ pc' = [pc EXCEPT ![c] = "do"]
                        /\ req' = [req EXCEPT ![c] = call]
                        /\ UNCHANGED result
                     \/ /\ result' = [fn |-> fn, resp |-> Nil, err |-> TRUE]
                        /\ UNCHANGED <<pc, req>>
                  /\ UNCHANGED panicked
            /\ UNCHANGED <<once, ligaseURL, httpCli, logger, initReturned>>

\* The five request functions, each with the arguments that reach its URL.
LoginRequest(c) == Build(c, "Login", <<>>, <<>>)

CreateRoomRequest(c, token) == Build(c, "CreateRoom", token, <<>>)

JoinRoomRequest(c, token) == Build(c, "JoinRoom", token, <<>>)

SendMessageRequest(c, token) == Build(c, "SendMessage", token, <<>>)

SyncRequest(c, since, token) == Build(c, "Sync", token, since)

\* httpCli.Do and what follows it, to the return.
Do(c) ==
    /\ Alive
    /\ pc[c] = "do"
    /\ \/ /\ httpCli = <<>>
          /\ panicked' = {c}
          /\ UNCHANGED <<pc, req, result, out>>
       \/ /\ httpCli # <<>>
          /\ \E reply \in Replies :
                /\ result' = [fn |-> req[c].fn] @@ Return(req[c].fn, reply)
                /\ Log(Levels(req[c].fn, reply))
          /\ pc' = [pc EXCEPT ![c] = "idle"]
          /\ req' = [req EXCEPT ![c] = NoCall]
          /\ UNCHANGED panicked
    /\ UNCHANGED <<once, ligaseURL, httpCli, logger, messageCounter, initReturned, txns>>

Next ==
    \/ \E c \in Callers, opts \in Options : WriteURL(c, opts)
    \/ \E c \in Callers : InitLogger(c)
    \/ \E c \in Callers : MakeClient(c)
    \/ \E c \in Callers : OnceDone(c)
    \/ \E c \in Callers : LoginRequest(c)
    \/ \E c \in Callers, token \in Values : CreateRoomRequest(c, token)
    \/ \E c \in Callers, token \in Values : JoinRoomRequest(c, token)
    \/ \E c \in Callers, token \in Values : SendMessageRequest(c, token)
    \/ \E c \in Callers, since \in Values, token \in Values : SyncRequest(c, since, token)
    \/ \E c \in Callers : Do(c)

Spec == Init /\ [][Next]_vars

-----------------------------------------------------------------------------
Headers ==
    [label : [colored : BOOLEAN, text : {"debug", "trace", "error"}],
     at : {<<>>} \cup {<<[file |-> Short(Caller(s).file), line |-> itoa(Caller(s).line, -1)]>> :
                         s \in CallSites}]

TypeOK ==
    /\ once \in {"fresh", "running", "done"}
    /\ ligaseURL \in {""} \cup {o.URL : o \in Options}
    /\ httpCli \in {<<>>} \cup {<<[Transport |-> o.Pool]>> : o \in Options}
    /\ Len(logger) <= 1
    /\ messageCounter \in 0..MaxMessages
    /\ pc \in [Callers -> {"idle", "once", "client", "do"}]
    /\ \A c \in Callers : req[c].fn \in Functions5 \cup {"Init", "none"}
    /\ result.fn \in Functions5 \cup {"none"}
    /\ result.resp.status \in {0} \cup Statuses
    /\ out \in {<<>>} \cup {<<h>> : h \in Headers}
    /\ panicked \subseteq Callers /\ Cardinality(panicked) <= 1
    /\ initReturned \in BOOLEAN
    /\ Len(txns) <= MaxMessages

(***************************************************************************)
(* Init before use is enough.  A request function that is called after a   *)
(* call of Init has returned finds the logger and the HTTP client set,     *)
(* also when that call of Init was not the one that ran the function of    *)
(* once.Do: sync.Once holds the later callers back until the first is      *)
(* through.  Only a request made with no Init behind it ends in a nil      *)
(* dereference.  Such a request also goes to a URL that an Init wrote,     *)
(* never to the empty ligaseURL the package starts with.                   *)
(***************************************************************************)
InitializedAfterInit ==
    /\ \A c \in panicked : ~req[c].afterInit
    /\ \A c \in Callers :
          req[c].fn \in Functions5 /\ req[c].afterInit =>
              req[c].url[1] \in {o.URL : o \in Options}

(***************************************************************************)
(* The logger and the HTTP client are those of the first Init.  A later    *)
(* call of Init, with other options and from any goroutine, replaces       *)
(* neither: of what Init does, only the assignment of ligaseURL is outside *)
(* once.Do (client.go, lines 38 to 49), so a second Init redirects the     *)
(* requests and leaves the switches of the logger and the connection pool  *)
(* of the client as they were.                                             *)
(***************************************************************************)
ConfiguredOnce ==
    [][/\ logger # <<>> => logger' = logger
       /\ httpCli # <<>> => httpCli' = httpCli]_vars

(***************************************************************************)
(* No two messages carry the same transaction id, whichever goroutines     *)
(* send them and in whatever millisecond: SendMessage takes the number in  *)
(* the id from messageCounter with an atomic add.                          *)
(***************************************************************************)
TxnIDsUnique == IsInjective(txns)

(***************************************************************************)
(* What a caller like Bot relies on after "if err != nil { return }": the  *)
(* response of a call that returned no error is not nil and carries the    *)
(* status of the reply; with status 200 its body was decoded; with another *)
(* status every function but Sync has set Header.Error.                    *)
(***************************************************************************)
CallerCanTrustResult ==
    ~result.err /\ result.fn # "none" =>
        /\ ~result.resp.nil
        /\ result.resp.status = 200 => result.resp.decoded
        /\ result.resp.status # 200 /\ result.fn # "Sync" => result.resp.error

\* The query of a URL as the server reads it: the pieces between "&" after
\* the first "?", each a key, "=" and a value.
Query(url) ==
    LET start == SelectInSeq(url, LAMBDA t : t = "?")
        pieces == FoldLeft(LAMBDA acc, t : IF t = "&" THEN Append(acc, <<>>)
                                           ELSE [acc EXCEPT ![Len(acc)] = Append(@, t)],
                           <<<<>>>>, SubSeq(url, start + 1, Len(url)))
        pairs == {pieces[i] : i \in {j \in DOMAIN pieces : start > 0 /\ Len(pieces[j]) >= 2}}
    IN  [k \in {p[1] : p \in pairs} |->
            LET p == CHOOSE q \in pairs : q[1] = k IN SubSeq(p, 3, Len(p))]

Sent(c, key) == IF key \in DOMAIN Query(req[c].url) THEN Query(req[c].url)[key] ELSE <<"absent">>

(***************************************************************************)
(* The access token of a request reaches the server as the caller gave it: *)
(* in the URL of every function that takes a token, the server reads the   *)
(* parameter access_token with that value.                                 *)
(***************************************************************************)
TokenReachesServer ==
    \A c \in Callers :
        req[c].fn \in Functions5 \ {"Login"} => Sent(c, "access_token") = req[c].token

(***************************************************************************)
(* The header of a printed line names the place of the log statement: the  *)
(* file without its directories, and the line number in decimal digits     *)
(* with no leading zero (getFileLineFormat, itoa).                         *)
(***************************************************************************)
LineNumbersPrinted ==
    \A i \in DOMAIN out : \A j \in DOMAIN out[i].at :
        LET at == out[i].at[j]
        IN  /\ \A k \in DOMAIN at.line : at.line[k] \in 0..9
            /\ Len(at.line) = 1 \/ at.line[1] # 0
            /\ \E s \in CallSites : Value(at.line) = Caller(s).line
            /\ "/" \notin Range(at.file)

(***************************************************************************)
(* The position a sync starts from reaches the server: the server reads    *)
(* the parameter since of a Sync request with the value the caller passed  *)
(* (Bot passes the next_batch of its last sync).                           *)
(***************************************************************************)
SinceReachesServer ==
    \A c \in Callers : req[c].fn = "Sync" => Sent(c, "since") = req[c].since
=============================================================================
