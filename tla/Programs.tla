------------------------------ MODULE Programs ------------------------------
(***************************************************************************)
(* User programs as processes that fork, wait and talk through pipes: the  *)
(* lab's user/primes.c and user/pingpong.c, and the shell, user/sh.c, with *)
(* user/echo.c and user/cat.c as the commands it runs.                     *)
(*                                                                         *)
(* The system calls are used through what the kernel's modules establish:  *)
(* a pipe has an end as long as some process has a descriptor for it       *)
(* (Files, Pipe), wait returns when a child has exited (ProcTable).  A     *)
(* step is one system call together with the calls after it that can       *)
(* neither wait nor fail (close, dup of an open descriptor).  Processes    *)
(* and pipes are limited, so that fork and pipe can fail.                  *)
(***************************************************************************)
EXTENDS Naturals, Sequences, FiniteSets, Shell

CONSTANTS Proc,       \* 1 .. NPROC, the processes the programs may use
          PipeId,     \* the pipes there may be
          CAP,        \* what a pipe holds
          MaxNumber,  \* the largest number primes writes (280)
          Commands,   \* [line, console, file]: lines to run, what they write where
          Texts,      \* lines to parse
          Limits,     \* how many processes there are room for
          None

VARIABLES program,    \* "primes", "pingpong", or what the shell is to do
          limit,      \* the number of processes there is room for
          proc,       \* Proc -> process, or None
          pipe,       \* PipeId -> its contents
          file,       \* the length of the file "f"
          off,        \* the offset of each opening of a file
          out,        \* what was written to the console
          failed      \* whether fork or pipe has failed

vars == <<program, limit, proc, pipe, file, off, out, failed>>

FD == 0 .. 6
Console == <<"console">>

\* r, w: the fd[] of the last pipe call; cur, prime, num: variables of primes;
\* cmd: what runcmd has to do; kids: children to wait for.
Process(pc, parent) ==
    [pc |-> pc, parent |-> parent, zombie |-> FALSE,
     fd |-> [d \in FD |-> IF d < 3 THEN Console ELSE None],
     r |-> None, w |-> None, cur |-> None, prime |-> 0, num |-> 0, cmd |-> <<>>, kids |-> 0]

Init ==
    /\ program \in {[name |-> "primes"], [name |-> "pingpong"]}
                     \cup [name : {"sh"}, run : Commands]
                     \cup {[name |-> "parse"]}
    /\ limit \in IF program.name = "parse" THEN {0} ELSE Limits
    /\ proc = [p \in Proc |-> IF p = 1 THEN Process(program.name, 0) ELSE None]
    /\ pipe = [q \in PipeId |-> <<>>]
    /\ file = 1 /\ off = <<>> /\ out = <<>> /\ failed = FALSE

-----------------------------------------------------------------------------
(* System calls, on a table P of processes. *)

Alive(P) == {p \in Proc : P[p] # None}
Running(p, pc) == proc[p] # None /\ ~proc[p].zombie /\ proc[p].pc = pc

\* The processes that have a descriptor for end e.
Open(P, e) == {p \in Alive(P) : \E d \in FD : P[p].fd[d] = e}
UsedPipes(P) == {q \in PipeId : Open(P, <<"r", q>>) \cup Open(P, <<"w", q>>) # {}}

Close(s, ds) == [s EXCEPT !.fd = [d \in FD |-> IF d \in ds THEN None ELSE @[d]]]
LowestFD(s, from) == CHOOSE d \in FD : d >= from /\ s.fd[d] = None /\ \A e \in from .. d - 1 : s.fd[e] # None
Installed(s, e) == [s EXCEPT !.fd[LowestFD(s, 0)] = e]
Dup(s, d) == Installed(s, s.fd[d])

\* pipe(fd): r and w become the descriptors of a free pipe.
WithPipe(s, q) ==
    LET r == LowestFD(s, 0)
        w == LowestFD(s, r + 1)
    IN  [s EXCEPT !.r = r, !.w = w, !.fd[r] = <<"r", q>>, !.fd[w] = <<"w", q>>]

\* The pipe and the process that come next: allocproc takes the first free one.
First(S) == {x \in S : \A y \in S : x <= y}
Emptied(q) == pipe' = [pipe EXCEPT ![q] = <<>>]
FreePipes == First(PipeId \ UsedPipes(proc))
FreeProcs == First({p \in Proc : proc[p] = None /\ p <= limit})

\* fork: the child is process c; s and k are what parent and child go on as.
Forked(p, c, s, k) == [proc EXCEPT ![p] = s, ![c] = [k EXCEPT !.parent = p, !.kids = 0]]

\* exit: descriptors are closed, children go to init, which reaps at once.
Exited(P, p) ==
    LET Q == [q \in Proc |->
                IF P[q] = None THEN None
                ELSE IF q = p THEN [Close(P[q], FD) EXCEPT !.zombie = TRUE]
                ELSE IF P[q].parent = p THEN [P[q] EXCEPT !.parent = 0]
                ELSE P[q]]
    IN  [q \in Proc |-> IF Q[q] # None /\ Q[q].zombie /\ Q[q].parent = 0 THEN None ELSE Q[q]]

Becomes(p, s) == proc' = [proc EXCEPT ![p] = s] /\ UNCHANGED pipe

Exit(p) ==
    /\ Running(p, "exit")
    /\ proc' = Exited(proc, p)
    /\ UNCHANGED <<program, limit, pipe, file, off, out, failed>>

\* wait, as often as the process has children to wait for, then on to `cur'.
Wait(p) ==
    /\ Running(p, "wait")
    /\ \/ \E c \in Alive(proc) :
            /\ proc[p].kids > 0 /\ proc[c].parent = p /\ proc[c].zombie
            /\ proc' = [proc EXCEPT ![c] = None, ![p].kids = @ - 1]
       \/ /\ proc[p].kids = 0 \/ \A c \in Alive(proc) : proc[c].parent # p
          /\ proc' = [proc EXCEPT ![p].pc = IF proc[p].cmd # <<>> THEN "runcmd" ELSE "exit"]
    /\ UNCHANGED <<program, limit, pipe, file, off, out, failed>>

\* read(d): something, or the end of the file; nothing is typed at the console.
Kind(s, d) == IF s.fd[d] = None THEN "none" ELSE s.fd[d][1]
CanRead(s, d) ==
    \/ Kind(s, d) = "r" /\ pipe[s.fd[d][2]] # <<>>
    \/ Kind(s, d) = "f" /\ off[s.fd[d][2]] < file
AtEOF(s, d) ==
    \/ Kind(s, d) \in {"console", "none"}
    \/ Kind(s, d) = "r" /\ pipe[s.fd[d][2]] = <<>> /\ Open(proc, <<"w", s.fd[d][2]>>) = {}
    \/ Kind(s, d) = "f" /\ off[s.fd[d][2]] >= file
Item(s, d) == Head(pipe[s.fd[d][2]])
Took(s, d) == pipe' = [pipe EXCEPT ![s.fd[d][2]] = Tail(@)]

\* write(d) to a pipe: room for it, or nobody to read it.
CanWrite(s, d) ==
    Kind(s, d) = "w" /\ Open(proc, <<"r", s.fd[d][2]>>) # {} /\ Len(pipe[s.fd[d][2]]) < CAP
Broken(s, d) == Kind(s, d) = "w" /\ Open(proc, <<"r", s.fd[d][2]>>) = {}
Gave(s, d, v) == pipe' = [pipe EXCEPT ![s.fd[d][2]] = Append(@, v)]

-----------------------------------------------------------------------------
(* primes.c *)

\* main: pipe and fork.  A fork that fails is taken for the parent's return.
PrimesMain(p) ==
    /\ Running(p, "primes")
    /\ \E q \in FreePipes : \E s \in {WithPipe(proc[p], q)} :
        LET parent == [Close(s, {s.r}) EXCEPT !.pc = "generate", !.num = 2, !.kids = 1]
            child == [Close(s, {s.w}) EXCEPT !.pc = "prime", !.cur = s.r]
        IN  /\ Emptied(q)
            /\ \/ \E c \in FreeProcs : proc' = Forked(p, c, parent, child) /\ UNCHANGED failed
               \/ FreeProcs = {} /\ proc' = [proc EXCEPT ![p] = parent] /\ failed' = TRUE
    /\ UNCHANGED <<program, limit, file, off, out>>

\* The numbers from 2 on; then close, wait and exit.
Generate(p) ==
    /\ Running(p, "generate")
    /\ LET s == proc[p]
           done == [Close(s, {s.w}) EXCEPT !.pc = "wait"]
           more == IF s.num = MaxNumber THEN done ELSE [s EXCEPT !.num = @ + 1]
       IN  \/ /\ CanWrite(s, s.w)
              /\ proc' = [proc EXCEPT ![p] = more] /\ Gave(s, s.w, s.num)
           \/ Broken(s, s.w) /\ Becomes(p, done)
    /\ UNCHANGED <<program, limit, file, off, out, failed>>

\* primes(cur): the first number is prime; at the end of the file, exit.
PrimesFirst(p) ==
    /\ Running(p, "prime")
    /\ LET s == proc[p]
       IN  \/ /\ CanRead(s, s.cur)
              /\ proc' = [proc EXCEPT ![p].prime = Item(s, s.cur), ![p].pc = "spawn"]
              /\ Took(s, s.cur)
              /\ out' = Append(out, Item(s, s.cur))
           \/ /\ AtEOF(s, s.cur)
              /\ Becomes(p, [Close(s, {s.cur}) EXCEPT !.pc = "exit"])
              /\ UNCHANGED out
    /\ UNCHANGED <<program, limit, file, off, failed>>

\* A pipe and a process for the next prime, which keeps only its read end.
PrimesSpawn(p) ==
    /\ Running(p, "spawn")
    /\ LET s0 == proc[p]
       IN  \/ \E q \in FreePipes : \E s \in {WithPipe(s0, q)} :
                LET parent == [Close(s, {s.r}) EXCEPT !.pc = "filter", !.kids = 1]
                    child == [Close(s, {s.w, s.cur}) EXCEPT !.pc = "prime", !.cur = s.r]
                IN  /\ Emptied(q)
                    /\ \/ \E c \in FreeProcs : proc' = Forked(p, c, parent, child) /\ UNCHANGED failed
                       \/ FreeProcs = {} /\ proc' = [proc EXCEPT ![p] = parent] /\ failed' = TRUE
           \/ /\ FreePipes = {} /\ failed' = TRUE /\ UNCHANGED pipe
              /\ proc' = [proc EXCEPT ![p] = [Close(s0, {s0.cur}) EXCEPT !.pc = "exit"]]
    /\ UNCHANGED <<program, limit, file, off, out>>

\* Mutant: multiples are passed on and the others dropped.
SiftedOut(n, prime) == n % prime = 0

Sifted(n, prime) == n % prime # 0

\* The loop that filters: read; pass on what the prime does not divide.
Filter(p) ==
    /\ Running(p, "filter")
    /\ LET s == proc[p]
           n == Item(s, s.cur)
       IN  \/ /\ CanRead(s, s.cur)
              /\ proc' = [proc EXCEPT ![p].num = n, ![p].pc = IF Sifted(n, s.prime) THEN "pass" ELSE @]
              /\ Took(s, s.cur)
           \/ AtEOF(s, s.cur) /\ Becomes(p, [Close(s, {s.w, s.cur}) EXCEPT !.pc = "wait"])
    /\ UNCHANGED <<program, limit, file, off, out, failed>>

Pass(p) ==
    /\ Running(p, "pass")
    /\ LET s == proc[p]
       IN  \/ /\ CanWrite(s, s.w)
              /\ proc' = [proc EXCEPT ![p].pc = "filter"] /\ Gave(s, s.w, s.num)
           \/ Broken(s, s.w) /\ Becomes(p, [Close(s, {s.w, s.cur}) EXCEPT !.pc = "wait"])
    /\ UNCHANGED <<program, limit, file, off, out, failed>>

-----------------------------------------------------------------------------
(* pingpong.c; r, w: pipe_two; cur, num: the ends of pipe_one. *)

PingpongMain(p) ==
    /\ Running(p, "pingpong")
    /\ \E q1, q2 \in PipeId :
       \E s1 \in {WithPipe(proc[p], q1)} :
       \E s \in {[WithPipe(s1, q2) EXCEPT !.cur = s1.r, !.num = s1.w]} :
        LET parent == [Close(s, {s.cur}) EXCEPT !.pc = "ping", !.kids = 1]
            child == [Close(s, {s.num}) EXCEPT !.pc = "pinged"]
        IN  /\ q1 = 1 /\ q2 = 2
            /\ \/ \E c \in FreeProcs : proc' = Forked(p, c, parent, child) /\ UNCHANGED failed
               \/ FreeProcs = {} /\ proc' = [proc EXCEPT ![p].pc = "exit"] /\ failed' = TRUE
    /\ UNCHANGED <<program, limit, pipe, file, off, out>>

\* The parent writes and closes, then reads from the other pipe.
Ping(p) ==
    /\ Running(p, "ping")
    /\ LET s == proc[p]
           next == [Close(s, {s.num, s.w}) EXCEPT !.pc = "ponged"]
       IN  \/ /\ CanWrite(s, s.num)
              /\ proc' = [proc EXCEPT ![p] = next] /\ Gave(s, s.num, "T")
           \/ Broken(s, s.num) /\ Becomes(p, next)
    /\ UNCHANGED <<program, limit, file, off, out, failed>>

\* The child reads, prints, closes what it does not need and goes on to answer.
Pinged(p) ==
    /\ Running(p, "pinged")
    /\ LET s == proc[p]
           next == [Close(s, {s.cur, s.r}) EXCEPT !.pc = "pong"]
       IN  \/ CanRead(s, s.cur) /\ proc' = [proc EXCEPT ![p] = next] /\ Took(s, s.cur)
           \/ AtEOF(s, s.cur) /\ Becomes(p, next)
    /\ out' = Append(out, "ping")
    /\ UNCHANGED <<program, limit, file, off, failed>>

Pong(p) ==
    /\ Running(p, "pong")
    /\ LET s == proc[p]
           next == [Close(s, {s.w}) EXCEPT !.pc = "exit"]
       IN  \/ CanWrite(s, s.w) /\ proc' = [proc EXCEPT ![p] = next] /\ Gave(s, s.w, "T")
           \/ Broken(s, s.w) /\ Becomes(p, next)
    /\ UNCHANGED <<program, limit, file, off, out, failed>>

\* The parent reads the answer, prints, closes and waits.
Ponged(p) ==
    /\ Running(p, "ponged")
    /\ LET s == proc[p]
           next == [Close(s, {s.r}) EXCEPT !.pc = "wait"]
       IN  \/ CanRead(s, s.r) /\ proc' = [proc EXCEPT ![p] = next] /\ Took(s, s.r)
           \/ AtEOF(s, s.r) /\ Becomes(p, next)
    /\ out' = Append(out, "pong")
    /\ UNCHANGED <<program, limit, file, off, failed>>

-----------------------------------------------------------------------------
(* sh.c: main, for one line of input, and runcmd. *)

\* fork1: a process for cmd; k is the child before it runs cmd, s the parent.
Fork1(p, s, k, cmd) ==
    /\ \/ \E c \in FreeProcs :
            proc' = Forked(p, c, s, [k EXCEPT !.pc = "runcmd", !.cmd = cmd]) /\ UNCHANGED failed
       \/ FreeProcs = {} /\ proc' = [proc EXCEPT ![p].pc = "exit"] /\ failed' = TRUE
    /\ UNCHANGED <<program, limit, file, off, out>>

Parsed == [run \in Commands |-> ParseCmd(run.line)]

\* The child parses and runs the line; the shell waits, finds the end of its
\* input and exits.
ShellMain(p) ==
    /\ Running(p, "sh")
    /\ LET line == Parsed[program.run]
       IN  Fork1(p, [proc[p] EXCEPT !.pc = "wait", !.kids = 1], proc[p],
                 IF line.panic THEN Exec(<<>>) ELSE line.cmd)
    /\ UNCHANGED pipe

Runs(p, type) == Running(p, "runcmd") /\ proc[p].cmd[1] = type

\* EXEC: an empty command and a program that does not exist exit; echo has as
\* many words to write as arguments.
RunExec(p) ==
    /\ Runs(p, "exec")
    /\ LET argv == proc[p].cmd[2]
           there == argv # <<>> /\ argv[1] \in {"echo", "cat"}
       IN  proc' = [proc EXCEPT ![p].pc = IF there THEN argv[1] ELSE "exit",
                                ![p].num = IF there THEN Len(argv) - 1 ELSE 0,
                                ![p].cmd = <<>>]
    /\ UNCHANGED <<program, limit, pipe, file, off, out, failed>>

\* REDIR: the file "f" takes the place of the closed descriptor; no other file
\* can be opened for reading.
RunRedir(p) ==
    /\ Runs(p, "redir")
    /\ LET c == proc[p].cmd
           s == Close(proc[p], {IF c[3] = "<" THEN 0 ELSE 1})
       IN  IF c[3] = "<" /\ c[4] # "f"
           THEN Becomes(p, [s EXCEPT !.pc = "exit"]) /\ UNCHANGED <<file, off>>
           ELSE /\ off' = Append(off, 0)
                /\ Becomes(p, [Installed(s, <<"f", Len(off')>>) EXCEPT !.cmd = c[2]])
                /\ file' = IF c[3] = ">" THEN 0 ELSE file
    /\ UNCHANGED <<program, limit, out, failed>>

\* LIST: a process for the left side, wait, then the right side.
RunList(p) ==
    /\ Runs(p, "list")
    /\ LET s == proc[p]
       IN  Fork1(p, [s EXCEPT !.pc = "wait", !.kids = 1, !.cmd = s.cmd[3]], s, s.cmd[2])
    /\ UNCHANGED pipe

\* Mutant: the right side keeps the pipe's write end.
RightEndKeep(s) == Close(Dup(Close(s, {0}), s.r), {s.r})

\* What becomes of standard output and standard input on the two sides.
LeftEnd(s) == Close(Dup(Close(s, {1}), s.w), {s.r, s.w})
RightEnd(s) == Close(Dup(Close(s, {0}), s.r), {s.r, s.w})

\* PIPE: a pipe and a process for its left side...
RunPipe(p) ==
    /\ Runs(p, "pipe")
    /\ \/ \E q \in FreePipes : \E s \in {WithPipe(proc[p], q)} : \E k \in {LeftEnd(s)} :
            Fork1(p, [s EXCEPT !.pc = "right"], k, s.cmd[2]) /\ Emptied(q)
       \/ /\ FreePipes = {} /\ failed' = TRUE
          /\ proc' = [proc EXCEPT ![p].pc = "exit"]
          /\ UNCHANGED <<program, limit, pipe, file, off, out>>

\* ...and for its right side; then both ends are closed and both awaited.
RunPipeRight(p) ==
    /\ Running(p, "right")
    /\ \E s \in {proc[p]} : \E k \in {RightEnd(s)} :
           Fork1(p, [Close(s, {s.r, s.w}) EXCEPT !.pc = "wait", !.kids = 2, !.cmd = <<>>], k, s.cmd[3])
    /\ UNCHANGED pipe

\* BACK: nobody waits.
RunBack(p) ==
    /\ Runs(p, "back")
    /\ Fork1(p, [proc[p] EXCEPT !.pc = "exit"], proc[p], proc[p].cmd[2])
    /\ UNCHANGED pipe

\* Process p writes one item to descriptor 1 and goes on as next, or as bad
\* after an error.
WriteOut(p, next, bad) ==
    /\ LET s == proc[p]
       IN  \/ CanWrite(s, 1) /\ proc' = [proc EXCEPT ![p] = next] /\ Gave(s, 1, "x")
              /\ UNCHANGED <<file, off, out>>
           \/ Kind(s, 1) = "console" /\ Becomes(p, next) /\ out' = Append(out, "x") /\ UNCHANGED <<file, off>>
           \/ LET k == s.fd[1][2]
              IN  /\ Kind(s, 1) = "f" /\ Becomes(p, next) /\ UNCHANGED out
                  /\ off' = [off EXCEPT ![k] = @ + 1]
                  /\ file' = IF off[k] < file THEN file ELSE off[k] + 1
           \/ /\ Broken(s, 1) \/ Kind(s, 1) = "none"
              /\ Becomes(p, bad) /\ UNCHANGED <<file, off, out>>
    /\ UNCHANGED <<program, limit, failed>>

\* echo does not look at what write returns.
Echo(p) ==
    LET next == [proc[p] EXCEPT !.num = @ - 1, !.pc = IF proc[p].num = 1 THEN "exit" ELSE "echo"]
    IN  /\ Running(p, "echo")
        /\ IF proc[p].num = 0
           THEN proc' = [proc EXCEPT ![p].pc = "exit"] /\ UNCHANGED <<program, limit, pipe, file, off, out, failed>>
           ELSE WriteOut(p, next, next)

\* cat without arguments: read; at the end of the file, exit; write.
CatRead(p) ==
    /\ Running(p, "cat")
    /\ LET s == proc[p]
           next == [s EXCEPT !.pc = "catwrite"]
       IN  \/ /\ CanRead(s, 0) /\ Kind(s, 0) = "r"
              /\ proc' = [proc EXCEPT ![p] = next] /\ Took(s, 0) /\ UNCHANGED off
           \/ /\ CanRead(s, 0) /\ Kind(s, 0) = "f"
              /\ off' = [off EXCEPT ![s.fd[0][2]] = @ + 1] /\ Becomes(p, next)
           \/ AtEOF(s, 0) /\ Becomes(p, [s EXCEPT !.pc = "exit"]) /\ UNCHANGED off
    /\ UNCHANGED <<program, limit, file, out, failed>>

CatWrite(p) ==
    Running(p, "catwrite") /\ WriteOut(p, [proc[p] EXCEPT !.pc = "cat"], [proc[p] EXCEPT !.pc = "exit"])

-----------------------------------------------------------------------------
Step(p) ==
    \/ Exit(p) \/ Wait(p)
    \/ PrimesMain(p) \/ Generate(p) \/ PrimesFirst(p) \/ PrimesSpawn(p) \/ Filter(p) \/ Pass(p)
    \/ PingpongMain(p) \/ Ping(p) \/ Pinged(p) \/ Pong(p) \/ Ponged(p)
    \/ ShellMain(p) \/ RunExec(p) \/ RunRedir(p) \/ RunList(p) \/ RunPipe(p) \/ RunPipeRight(p)
    \/ RunBack(p) \/ Echo(p) \/ CatRead(p) \/ CatWrite(p)

Next == \E p \in Proc : Step(p)

Spec == Init /\ [][Next]_vars

\* Every process that can run does.
FairSpec == Spec /\ \A p \in Proc : WF_vars(Step(p))

-----------------------------------------------------------------------------
Finished == \A p \in Proc : proc[p] = None

PrimesTo(n) == SelectSeq([i \in 1 .. n - 1 |-> i + 1], LAMBDA m : \A d \in 2 .. m - 1 : m % d # 0)

\* The sieve prints primes in order, and every prime up to its bound unless a
\* fork or a pipe failed; pingpong prints ping before pong; and the commands of
\* a shell line have, when all processes are gone, written what they should to
\* the console and to the file, however their processes were scheduled.
ResultRight ==
    /\ program.name = "primes" =>
        /\ out = SubSeq(PrimesTo(MaxNumber), 1, Len(out))
        /\ Finished /\ ~failed => out = PrimesTo(MaxNumber)
    /\ program.name = "pingpong" =>
        /\ out = SubSeq(<<"ping", "pong">>, 1, Len(out))
        /\ Finished /\ ~failed => Len(out) = 2
    /\ program.name = "sh" /\ Finished /\ ~failed =>
        Len(out) = program.run.console /\ file = program.run.file

\* Every program ends and every process of it exits, also when processes run
\* out: no reader waits for an end of file that an inherited descriptor keeps
\* from coming, and no writer for a reader that will never read.
ProgramsFinish == program.name # "parse" => <>Finished

\* The shell's parser finds the one command that a line stands for in the
\* grammar, and panics exactly on the lines that stand for none.
LinesParsed == program.name = "parse" => \A line \in Texts : ParsesGrammar(line)
=============================================================================
