------------------------------- MODULE Routing -------------------------------
(***************************************************************************)
(* The routes of the content server (src/content/routing/routing.go) and   *)
(* the wrappers makeMediaAPI and makeFedAPI put around their handlers.     *)
(*                                                                         *)
(* A request that matches a route runs the wrapper of the route on its     *)
(* connection: the token is verified over RPC when the route asks for it,  *)
(* the handler is called, and a panic is recovered.  The handlers and the  *)
(* RPC server are the environment: a handler writes a status or none, a    *)
(* body or none, and returns or panics.  An http.ResponseWriter keeps the  *)
(* first status written and answers 200 when none was.                     *)
(***************************************************************************)
EXTENDS Integers, Sequences, FiniteSets

CONSTANTS
    Conns,     \* the connections requests arrive on
    Devices    \* the devices the RPC server knows tokens of

VARIABLES
    pc,        \* pc[c]: "idle", "verify", "handler" or "done"
    req,       \* req[c]: the route of the request on c
    rw,        \* rw[c]: the response: status (0: none yet) and body
    device,    \* device[c]: what verifyToken returned: <<>> or <<device>>
    handled,   \* handled[c]: the handler was called
    failed     \* failed[c]: the request was refused, or panicked with no status written

vars == <<pc, req, rw, device, handled, failed>>

Both(auth, path, method) ==
    {[prefix |-> p, path |-> path, auth |-> auth, fed |-> FALSE,
      methods |-> {method, "OPTIONS"}] : p \in {"/_matrix/media/r0", "/_matrix/media/v1"}}

Fed(path) ==
    [prefix |-> "/_matrix/federation/v1/media", path |-> path, auth |-> FALSE, fed |-> TRUE,
     methods |-> {"GET", "OPTIONS"}]

\* The routes Setup registers.
Setup ==
    UNION {Both(TRUE, "/upload", "POST"), Both(FALSE, "/download", "GET"),
           Both(FALSE, "/thumbnail", "GET"), Both(TRUE, "/favorite", "POST"),
           Both(TRUE, "/unfavorite", "DELETE"), Both(TRUE, "/forward/room", "POST"),
           Both(TRUE, "/multi-forward", "POST"), Both(TRUE, "/multi-forward-res", "POST"),
           Both(TRUE, "/wait/emote", "GET"), Both(TRUE, "/check/emote", "GET"),
           Both(TRUE, "/favorite/emote", "POST"), Both(TRUE, "/list/emote", "GET"),
           Both(TRUE, "/favorite/fileemote", "POST")}
        \cup {Fed("/download"), Fed("/thumbnail")}

NoResponse == [status |-> 0, body |-> <<>>]

\* rw.WriteHeader: a second status is dropped.
WriteHeader(w, code) == IF w.status = 0 THEN [w EXCEPT !.status = code] ELSE w

\* rw.Write: the status is 200 when none was written.
Write(w, text) == [WriteHeader(w, 200) EXCEPT !.body = Append(@, text)]

\* What ExtractAccessToken and the RPC VerifyToken come to.
TokenChecks == {"no token", "rpc error", "rejected", "panic"} \cup Devices

\* What a handler does before it returns or panics.
Handlings == [status : {0, 200, 404}, body : BOOLEAN, panics : BOOLEAN]

Init ==
    /\ pc = [c \in Conns |-> "idle"]
    /\ req = [c \in Conns |-> Fed("/download")]
    /\ rw = [c \in Conns |-> NoResponse]
    /\ device = [c \in Conns |-> <<>>]
    /\ handled = [c \in Conns |-> FALSE]
    /\ failed = [c \in Conns |-> FALSE]

-----------------------------------------------------------------------------
\* A mutation of mediaRecover: the panic is logged only.
mediaRecoverSilent(w) == w

\* The deferred function of makeMediaAPI after a panic.
mediaRecover(w) == Write(WriteHeader(w, 500), "Internal Server Error")

\* The deferred function of makeFedAPI after a panic: a log statement.
fedRecover(w) == w

Recover(r, w) == IF r.fed THEN fedRecover(w) ELSE mediaRecover(w)

\* A mutation of verifyToken: a rejected token is answered with 403.
verifyTokenForbidden(w, tokenCheck) ==
    IF tokenCheck \in {"no token", "rpc error"}
    THEN [rw |-> Write(WriteHeader(w, 500), "Internal Server Error"), ok |-> FALSE]
    ELSE IF tokenCheck = "rejected"
    THEN [rw |-> Write(WriteHeader(w, 403), "content.Error"), ok |-> FALSE]
    ELSE [rw |-> w, ok |-> TRUE]

\* A mutation of verifyToken: a rejected token is answered and let through.
verifyTokenLenient(w, tokenCheck) ==
    IF tokenCheck \in {"no token", "rpc error"}
    THEN [rw |-> Write(WriteHeader(w, 500), "Internal Server Error"), ok |-> FALSE]
    ELSE IF tokenCheck = "rejected"
    THEN [rw |-> Write(WriteHeader(w, 401), "content.Error"), ok |-> TRUE]
    ELSE [rw |-> w, ok |-> TRUE]

\* verifyToken: the answer it writes, and whether the request goes on.
verifyToken(w, tokenCheck) ==
    IF tokenCheck \in {"no token", "rpc error"}
    THEN [rw |-> Write(WriteHeader(w, 500), "Internal Server Error"), ok |-> FALSE]
    ELSE IF tokenCheck = "rejected"
    THEN [rw |-> Write(WriteHeader(w, 401), "content.Error"), ok |-> FALSE]
    ELSE [rw |-> w, ok |-> TRUE]

\* The router calls the wrapper of the route that matches path and method.
Arrive(c, r, method) ==
    /\ pc[c] = "idle"
    /\ method \in r.methods
    /\ req' = [req EXCEPT ![c] = r]
    /\ pc' = [pc EXCEPT ![c] = IF r.auth THEN "verify" ELSE "handler"]
    /\ UNCHANGED <<rw, device, handled, failed>>

\* makeMediaAPI with auth: verifyToken, which may panic in the RPC client.
VerifyToken(c, tokenCheck) ==
    LET v == verifyToken(rw[c], tokenCheck)
    IN  /\ pc[c] = "verify"
        /\ rw' = [rw EXCEPT ![c] = IF tokenCheck = "panic" THEN Recover(req[c], @) ELSE v.rw]
        /\ device' = [device EXCEPT ![c] = IF tokenCheck \in Devices THEN <<tokenCheck>> ELSE @]
        /\ failed' = [failed EXCEPT ![c] = tokenCheck = "panic" \/ ~v.ok]
        /\ pc' = [pc EXCEPT ![c] = IF tokenCheck # "panic" /\ v.ok THEN "handler" ELSE "done"]
        /\ UNCHANGED <<req, handled>>

\* The handler runs with the device, or with nil; the deferred function
\* recovers its panic; the wrapper returns.
Handle(c, h) ==
    LET wrote == IF h.body THEN Write(WriteHeader(rw[c], h.status), "body")
                 ELSE IF h.status # 0 THEN WriteHeader(rw[c], h.status) ELSE rw[c]
    IN  /\ pc[c] = "handler"
        /\ handled' = [handled EXCEPT ![c] = TRUE]
        /\ failed' = [failed EXCEPT ![c] = h.panics /\ wrote.status = 0]
        /\ rw' = [rw EXCEPT ![c] = IF h.panics THEN Recover(req[c], wrote) ELSE wrote]
        /\ pc' = [pc EXCEPT ![c] = "done"]
        /\ UNCHANGED <<req, device>>

\* What the server sends when the wrapper has returned.
Sent(w) == WriteHeader(w, 200)

\* The response is sent; the connection waits for the next request.
Finish(c) ==
    /\ pc[c] = "done"
    /\ pc' = [pc EXCEPT ![c] = "idle"]
    /\ rw' = [rw EXCEPT ![c] = NoResponse]
    /\ device' = [device EXCEPT ![c] = <<>>]
    /\ handled' = [handled EXCEPT ![c] = FALSE]
    /\ failed' = [failed EXCEPT ![c] = FALSE]
    /\ UNCHANGED req

Next ==
    \/ \E c \in Conns, r \in Setup, method \in {"GET", "POST", "DELETE", "OPTIONS"} :
          Arrive(c, r, method)
    \/ \E c \in Conns, tokenCheck \in TokenChecks : VerifyToken(c, tokenCheck)
    \/ \E c \in Conns, h \in Handlings : Handle(c, h)
    \/ \E c \in Conns : Finish(c)

Spec == Init /\ [][Next]_vars

-----------------------------------------------------------------------------
TypeOK ==
    /\ pc \in [Conns -> {"idle", "verify", "handler", "done"}]
    /\ req \in [Conns -> Setup]
    /\ \A c \in Conns : rw[c].status \in {0, 200, 401, 404, 500} /\ Len(rw[c].body) <= 2
    /\ \A c \in Conns : device[c] \in {<<>>} \cup {<<d>> : d \in Devices}
    /\ handled \in [Conns -> BOOLEAN]
    /\ failed \in [Conns -> BOOLEAN]

(***************************************************************************)
(* The handler of a route registered with auth runs only for a request     *)
(* whose token the RPC server took for a device, and then nothing was      *)
(* written before it: a request that verifyToken answered with 401 or 500  *)
(* never reaches the handler, so no answer is written twice.  The handler  *)
(* of a route without auth gets no device.                                 *)
(***************************************************************************)
OnlyVerifiedHandled ==
    \A c \in Conns :
        /\ req[c].auth /\ (handled[c] \/ pc[c] = "handler") => device[c] # <<>>
        /\ handled[c] => \A i \in DOMAIN rw[c].body : rw[c].body[i] # "content.Error"
        /\ ~req[c].auth => device[c] = <<>>

(***************************************************************************)
(* A media request that failed before anything was written is answered as  *)
(* a failure: when verifyToken refused it, or the handler or the RPC       *)
(* client panicked with no status written, the response the client gets    *)
(* has status 401 or 500 and a body (the deferred recover of               *)
(* makeMediaAPI).                                                          *)
(***************************************************************************)
FailureIsVisible ==
    \A c \in Conns :
        failed[c] /\ ~req[c].fed /\ pc[c] = "done" =>
            Sent(rw[c]).status \in {401, 500} /\ Sent(rw[c]).body # <<>>
=============================================================================
