------------------------------ MODULE MCConnIO ------------------------------
(* Small instances of ConnIO for TLC. *)
EXTENDS ConnIO

CONSTANTS
  MaxCommands  \* commands in a script

\* Lines that are short, that fill the buffer, and that are longer by one byte or
\* by more; bodies that are smaller and larger than what fits behind the line.
Line(kind, line, size) == [kind |-> kind, line |-> line, body |-> size]

SomeCommands ==
  {Line("word", 1, 0), Line("word", LineBufSize - 2, 0), Line("word", LineBufSize - 1, 0),
   Line("word", LineBufSize + 2, 0), Line("word", 2 * LineBufSize - 1, 0),
   Line("job", 1, 0), Line("wait", 1, 0), Line("refused", 1, 0),
   Line("quit", 1, 0), Line("put", 1, 2), Line("put", 2, LineBufSize), Line("put", 1, LineBufSize + 1),
   Line("skip", 1, 2), Line("skip", 2, LineBufSize)}

AllScripts == UNION {[1 .. n -> SomeCommands] : n \in 1 .. MaxCommands}

\* Commands that are answered at once.
WordScripts == [1 .. MaxCommands -> {Line("word", 1, 0)}]

=============================================================================
