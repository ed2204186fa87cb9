------------------------------- MODULE Shell --------------------------------
(***************************************************************************)
(* The parser of user/sh.c, as operators on a line of tokens, and the      *)
(* grammar it is meant to parse.  A token is a word or one of the shell's  *)
(* symbols ("+" stands for >>), as gettoken delivers them; what peek and   *)
(* gettoken do with white space and with pointers into the line is left    *)
(* out.  A parse is the command and the rest of the line, or Panic.        *)
(***************************************************************************)
EXTENDS Naturals, Sequences, SequencesExt

CONSTANT MAXARGS

Symbols == {"<", "|", ">", "+", "&", ";", "(", ")"}
IsWord(t) == t \notin Symbols

\* The commands, as the constructors make them; a redirection by its symbol.
Exec(argv) == <<"exec", argv>>
Redir(cmd, op, file) == <<"redir", cmd, op, file>>
PipeCmd(left, right) == <<"pipe", left, right>>
List(left, right) == <<"list", left, right>>
Back(cmd) == <<"back", cmd>>

Panic == [panic |-> TRUE]
Parse(cmd, s) == [panic |-> FALSE, cmd |-> cmd, s |-> s]

Peek(s, toks) == s # <<>> /\ s[1] \in toks

RECURSIVE ParseLine(_), ParsePipe(_), ParseBack(_), ParseRedirs(_, _), ParseArgs(_, _, _)

\* The redirections at the front of s, added to the ones in rs.
ParseRedirs(rs, s) ==
    IF ~Peek(s, {"<", ">", "+"}) THEN Parse(rs, s)
    ELSE IF Len(s) < 2 \/ ~IsWord(s[2]) THEN Panic
    ELSE ParseRedirs(Append(rs, <<s[1], s[2]>>), SubSeq(s, 3, Len(s)))

\* redircmd around cmd, once for each of rs: the last one is outermost.
Redirected(cmd, rs) == FoldLeft(LAMBDA c, r : Redir(c, r[1], r[2]), cmd, rs)

\* parseexec's loop: argv so far, redirections so far.
ParseArgs(argv, rs, s) ==
    IF Peek(s, {"|", ")", "&", ";"}) \/ s = <<>> THEN Parse(Redirected(Exec(argv), rs), s)
    ELSE IF ~IsWord(s[1]) \/ Len(argv) + 1 >= MAXARGS THEN Panic
    ELSE LET r == ParseRedirs(rs, Tail(s))
         IN  IF r.panic THEN Panic ELSE ParseArgs(Append(argv, s[1]), r.cmd, r.s)

\* parseblock: Peek has seen the parenthesis.
ParseBlock(s) ==
    LET l == ParseLine(Tail(s))
        r == ParseRedirs(<<>>, Tail(l.s))
    IN  IF l.panic THEN Panic
        ELSE IF ~Peek(l.s, {")"}) THEN Panic
        ELSE IF r.panic THEN Panic ELSE Parse(Redirected(l.cmd, r.cmd), r.s)

ParseExec(s) ==
    IF Peek(s, {"("}) THEN ParseBlock(s)
    ELSE LET r == ParseRedirs(<<>>, s)
         IN  IF r.panic THEN Panic ELSE ParseArgs(<<>>, r.cmd, r.s)

ParsePipe(s) ==
    LET l == ParseExec(s)
        r == ParsePipe(Tail(l.s))
    IN  IF l.panic THEN Panic
        ELSE IF ~Peek(l.s, {"|"}) THEN l
        ELSE IF r.panic THEN Panic ELSE Parse(PipeCmd(l.cmd, r.cmd), r.s)

\* Mutant: "&" is looked for once.
ParseBackOnce(r) == IF ~r.panic /\ Peek(r.s, {"&"}) THEN Parse(Back(r.cmd), Tail(r.s)) ELSE r

\* parseline's loop over "&".
ParseBack(r) ==
    IF ~r.panic /\ Peek(r.s, {"&"}) THEN ParseBack(Parse(Back(r.cmd), Tail(r.s))) ELSE r

ParseLine(s) ==
    LET l == ParseBack(ParsePipe(s))
        r == ParseLine(Tail(l.s))
    IN  IF l.panic THEN Panic
        ELSE IF ~Peek(l.s, {";"}) THEN l
        ELSE IF r.panic THEN Panic ELSE Parse(List(l.cmd, r.cmd), r.s)

ParseCmd(s) == LET l == ParseLine(s) IN IF l.panic \/ l.s # <<>> THEN Panic ELSE l

-----------------------------------------------------------------------------
(* The grammar: the set of commands that a sequence of tokens stands for. *)

Split(s, tok) == {<<SubSeq(s, 1, i - 1), SubSeq(s, i + 1, Len(s))>> : i \in {j \in DOMAIN s : s[j] = tok}}

RECURSIVE LineTrees(_), BackTrees(_), PipeTrees(_), SimpleTrees(_), BlockTrees(_), WithArg(_, _)

WithArg(cmd, w) == IF cmd[1] = "exec" THEN Exec(Append(cmd[2], w))
                                      ELSE Redir(WithArg(cmd[2], w), cmd[3], cmd[4])

\* A redirection may end s.
EndsRedirected(s) == Len(s) >= 2 /\ s[Len(s) - 1] \in {"<", ">", "+"} /\ IsWord(Last(s))
AddRedir(trees, s) == {Redir(c, s[Len(s) - 1], Last(s)) : c \in trees}

\* Words and redirections in any order.
SimpleTrees(s) ==
    IF s = <<>> THEN {Exec(<<>>)}
    ELSE IF EndsRedirected(s) THEN AddRedir(SimpleTrees(SubSeq(s, 1, Len(s) - 2)), s)
    ELSE IF IsWord(Last(s)) THEN {WithArg(c, Last(s)) : c \in SimpleTrees(Front(s))}
    ELSE {}

\* A line in parentheses, and redirections.
BlockTrees(s) ==
    (IF Len(s) >= 2 /\ s[1] = "(" /\ Last(s) = ")" THEN LineTrees(SubSeq(s, 2, Len(s) - 1)) ELSE {})
      \cup (IF EndsRedirected(s) THEN AddRedir(BlockTrees(SubSeq(s, 1, Len(s) - 2)), s) ELSE {})

ExecTrees(s) == SimpleTrees(s) \cup BlockTrees(s)

PipeTrees(s) == ExecTrees(s) \cup
    UNION {{PipeCmd(l, r) : l \in ExecTrees(lr[1]), r \in PipeTrees(lr[2])} : lr \in Split(s, "|")}

BackTrees(s) == PipeTrees(s) \cup
    (IF s # <<>> /\ Last(s) = "&" THEN {Back(c) : c \in BackTrees(Front(s))} ELSE {})

LineTrees(s) == BackTrees(s) \cup
    UNION {{List(l, r) : l \in BackTrees(lr[1]), r \in LineTrees(lr[2])} : lr \in Split(s, ";")}

RECURSIVE MostArgs(_)
MostArgs(cmd) ==
    CASE cmd[1] = "exec" -> Len(cmd[2])
      [] cmd[1] \in {"redir", "back"} -> MostArgs(cmd[2])
      [] OTHER -> LET l == MostArgs(cmd[2]) r == MostArgs(cmd[3]) IN IF l > r THEN l ELSE r

\* The shell's parser finds the one command that a line stands for in the
\* grammar, and panics exactly on lines that stand for none or that have a
\* command of MAXARGS words or more.
ParsesGrammar(line) ==
    LET trees == {c \in LineTrees(line) : MostArgs(c) < MAXARGS}
        p == ParseCmd(line)
    IN  IF p.panic THEN trees = {} ELSE trees = {p.cmd}
=============================================================================
