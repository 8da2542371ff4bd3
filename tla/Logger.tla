------------------------------- MODULE Logger -------------------------------
(***************************************************************************)
(* The logger of the SDK (src/sdk/go-ligase/logger/log.go).                *)
(*                                                                         *)
(* A logger is the record of its switches.  A log statement prints a line  *)
(* when its level is on; the line starts with the label of the level and,  *)
(* when the switch file is set, the short name of the calling file and the *)
(* line number in decimal.  The text after this header is left out.        *)
(*                                                                         *)
(* A string is a sequence of characters; a decimal digit is the number it  *)
(* stands for, and a path is a sequence of names and "/".                  *)
(***************************************************************************)
EXTENDS Integers, Sequences, SequencesExt

\* NewStdLogger: the switches that decide what a statement prints.
NewStdLogger(time, file, debug, trace, colors, pid) ==
    [time |-> time, pid |-> pid, debug |-> debug, trace |-> trace, file |-> file,
     colors |-> colors]

\* setPlainLabelFormats, setColoredLabelFormats: the label of a level.
Label(l, level) == [colored |-> l.colors, text |-> level]

\* A mutation of itoa: the loop goes on for i > 10.
RECURSIVE itoaAboveTen(_, _)
itoaAboveTen(i, wid) ==
    IF i > 10 \/ wid > 1 THEN Append(itoaAboveTen(i \div 10, wid - 1), i % 10) ELSE <<i>>

(***************************************************************************)
(* itoa(i, wid): the decimal digits of i, lowest first into the end of the *)
(* buffer, padded with zeros to wid characters; the last character is      *)
(* what is left of i.                                                      *)
(***************************************************************************)
RECURSIVE itoa(_, _)
itoa(i, wid) ==
    IF i >= 10 \/ wid > 1 THEN Append(itoa(i \div 10, wid - 1), i % 10) ELSE <<i>>

\* The loop of getFileLineFormat over the path: what follows the last "/"
\* that is not the first character.
Short(file) ==
    LET slashes == {i \in 2..Len(file) : file[i] = "/"}
    IN  IF slashes = {} THEN file ELSE SubSeq(file, Max(slashes) + 1, Len(file))

\* A call site as runtime.Caller reports it: "???" and 0 when it cannot.
Caller(site) == IF site.ok THEN site ELSE [site EXCEPT !.file = <<"???">>, !.line = 0]

\* getFileLineFormat: empty unless the switch file is set.
getFileLineFormat(l, site) ==
    IF l.file
    THEN <<[file |-> Short(Caller(site).file), line |-> itoa(Caller(site).line, -1)]>>
    ELSE <<>>

\* Debugf and Tracef print when their switch is on, the others always.
Prints(l, level) ==
    \/ level \in {"notice", "error", "fatal"}
    \/ level = "debug" /\ l.debug
    \/ level = "trace" /\ l.trace

\* Noticef, Errorf, Fatalf, Debugf, Tracef: the headers of the lines printed.
Printf(l, level, site) ==
    IF Prints(l, level)
    THEN {[label |-> Label(l, level), at |-> getFileLineFormat(l, site)]}
    ELSE {}

\* The number a sequence of decimal digits stands for.
Value(digits) == FoldLeft(LAMBDA acc, d : 10 * acc + d, 0, digits)
=============================================================================
