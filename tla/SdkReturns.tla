----------------------------- MODULE SdkReturns -----------------------------
(***************************************************************************)
(* What the request functions of the client SDK (src/sdk/go-ligase)        *)
(* return for a reply of the server: the response and the error.  The      *)
(* callers of the SDK (src/cmd/bot/bot.go) are written against these.      *)
(***************************************************************************)
CONSTANTS
    Statuses       \* the status codes the server answers with

Functions5 == {"Login", "Sync", "CreateRoom", "JoinRoom", "SendMessage"}
Bodies == {"nil", "unreadable", "garbage", "json"}

\* What httpCli.Do returns: an error (status 0), or a status and a body.
Replies == {[status |-> 0, body |-> "nil"]} \cup [status : Statuses, body : Bodies]

\* A response: nil, or its Header and whether the body was decoded into it.
Nil == [nil |-> TRUE, status |-> 0, error |-> FALSE, decoded |-> FALSE]
Response(status, error, decoded) ==
    [nil |-> FALSE, status |-> status, error |-> error, decoded |-> decoded]

\* A mutation of Respond: the error of reading or decoding the body is dropped.
RespondUnchecked(reply, refused, failed) ==
    IF reply.status = 0 THEN [resp |-> Nil, err |-> TRUE]
    ELSE IF reply.status # 200 THEN [resp |-> refused, err |-> FALSE]
    ELSE [resp |-> failed, err |-> FALSE]

(***************************************************************************)
(* From the reply to what a function returns.  refused is the response to  *)
(* a status other than 200, failed the response when the body of a 200 is  *)
(* missing, unreadable or not the JSON expected.                           *)
(***************************************************************************)
Respond(reply, refused, failed) ==
    IF reply.status = 0 THEN [resp |-> Nil, err |-> TRUE]
    ELSE IF reply.status # 200 THEN [resp |-> refused, err |-> FALSE]
    ELSE IF reply.body # "json" THEN [resp |-> failed, err |-> TRUE]
    ELSE [resp |-> Response(200, FALSE, TRUE), err |-> FALSE]

\* A mutation of Login: a status other than 200 is returned like a bad body.
LoginNilWhenRefused(reply) == Respond(reply, Nil, Nil)

Login(reply) == Respond(reply, Response(reply.status, TRUE, FALSE), Nil)

\* Sync leaves Header.Error nil and decodes what body a refusal has.
Sync(reply) ==
    Respond(reply, Response(reply.status, FALSE, reply.body = "json"),
            Response(reply.status, FALSE, FALSE))

CreateRoom(reply) ==
    Respond(reply, Response(reply.status, TRUE, FALSE), Response(reply.status, FALSE, FALSE))

JoinRoom(reply) ==
    Respond(reply, Response(reply.status, TRUE, FALSE), Response(reply.status, FALSE, FALSE))

SendMessage(reply) ==
    Respond(reply, Response(reply.status, TRUE, FALSE), Response(reply.status, FALSE, FALSE))

\* SendMessageTxt makes the content of a text message and calls SendMessage.
SendMessageTxt(reply) == SendMessage(reply)

Return(fn, reply) ==
    CASE fn = "Login" -> Login(reply)
      [] fn = "Sync" -> Sync(reply)
      [] fn = "CreateRoom" -> CreateRoom(reply)
      [] fn = "JoinRoom" -> JoinRoom(reply)
      [] fn = "SendMessage" -> SendMessage(reply)
      [] fn = "SendMessageTxt" -> SendMessageTxt(reply)
=============================================================================
