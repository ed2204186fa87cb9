----------------------------- MODULE MCPrograms -----------------------------
(* primes up to 13 on pipes of two numbers, pingpong, a few shell lines, with   *)
(* room for all processes or for too few; the parser on every line of up to  *)
(* five tokens.                                                              *)
EXTENDS Programs

MCProc == 1 .. 8
MCPipeId == 1 .. 7
Line(line, console, len) == [line |-> line, console |-> console, file |-> len]
MCCommands == {
    Line(<<"echo", "x", "|", "cat">>, 1, 1),
    Line(<<"echo", "x", "y", "|", "cat", "|", "cat", ">", "f">>, 0, 2),
    Line(<<"(", "echo", "x", ";", "echo", "x", ")", "|", "cat", ">", "f">>, 0, 2),
    Line(<<"cat", "<", "f", ";", "bad", "&", ";", "echo", "x">>, 2, 1),
    Line(<<"cat", "<", "f", "|", "echo", "x", "+", "f">>, 0, 1),
    Line(<<"(", "echo", "x", "|", "cat", "&", ";", "cat", "<", "f", ")", "|", "cat">>, 2, 1),
    Line(<<"echo", "x", "y", "|", "echo">>, 0, 1),
    Line(<<"cat", "<", "g", "|", "cat">>, 0, 1),
    Line(<<"echo", "x", "|">>, 0, 1),
    Line(<<"echo", "x", ")">>, 0, 1)}
MCTexts == UNION {[1 .. n -> {"a", "b", "|", ";", "&", "(", ")", "<"}] : n \in 0 .. 5}
=============================================================================
