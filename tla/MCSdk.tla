-------------------------------- MODULE MCSdk --------------------------------
(***************************************************************************)
(* The SDK for model checking: two goroutines, Init with two sets of       *)
(* options, two tokens, the log statements of two places.                *)
(***************************************************************************)
EXTENDS Sdk

\* ClientOpts: the URL, the connection pool and the switches of the logger.
MCOptions ==
    {[URL |-> "http://a", Pool |-> "small", LogTime |-> TRUE, LogFile |-> TRUE, LogDebug |-> TRUE,
      LogTrace |-> FALSE, LogColors |-> TRUE, LogPID |-> FALSE],
     [URL |-> "http://b", Pool |-> "large", LogTime |-> FALSE, LogFile |-> FALSE, LogDebug |-> FALSE,
      LogTrace |-> TRUE, LogColors |-> FALSE, LogPID |-> TRUE]}

\* The empty string and a token.
MCValues == {<<>>, <<"s1">>}

\* Errorf of JoinRoom, and a caller the runtime cannot name.
MCCallSites ==
    {[file |-> <<"/", "go-ligase", "/", "room.go">>, line |-> 107, ok |-> TRUE],
     [file |-> <<>>, line |-> 0, ok |-> FALSE]}
\* The goroutines are interchangeable.
Symm == Permutations(Callers)
=============================================================================
