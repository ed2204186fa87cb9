-------------------------------- MODULE Pipe --------------------------------
(***************************************************************************)
(* kernel/pipe.c: one pipe shared by the processes that hold its two ends. *)
(* A process in pipewrite or piperead holds pi->lock from acquire to       *)
(* release except while it sleeps; each iteration of their loops is a      *)
(* step, and kill() from another CPU may come between the test of          *)
(* p->killed and the sleep.  sleep and wakeup are atomic with respect to   *)
(* pi->lock.  nread and nwrite are C's unsigned ints: they count modulo    *)
(* WORD.                                                                   *)
(***************************************************************************)
EXTENDS Integers, Sequences

CONSTANTS Proc,      \* processes
          Byte,      \* byte values
          PIPESIZE,  \* bytes the ring holds
          WORD,      \* number of values of a uint (2^32)
          MaxCount,  \* bound on the n of one read or write
          Nobody     \* no process

ASSUME PipeAssumption ==
  /\ PIPESIZE \in Nat \ {0}
  /\ WORD \in Nat /\ WORD % PIPESIZE = 0 /\ WORD > PIPESIZE
  /\ MaxCount \in Nat
  /\ Nobody \notin Proc

VARIABLES
  data, nread, nwrite, readopen, writeopen,  \* struct pipe
  lock,    \* holder of pi->lock
  freed,   \* how often kfree(pi) was called
  out,     \* byte last copied out to a reader
  pc,      \* where each process is
  left,    \* n - i: how much of its read or write is still to do
  chan,    \* channel it sleeps on, "none" if awake
  killed,  \* processes with p->killed set
  fds      \* ends it has open: the references to the two struct files

pipe == <<data, nread, nwrite, readopen, writeopen>>
vars == <<data, nread, nwrite, readopen, writeopen, lock, freed, out, pc, left,
          chan, killed, fds>>

Empty == nread = nwrite
\* Mutant: one byte too many before the writer waits.
FullByOne == nwrite = (nread + PIPESIZE + 1) % WORD

Full == nwrite = (nread + PIPESIZE) % WORD

Init ==
  /\ data \in [0 .. PIPESIZE - 1 -> Byte]
  /\ nread = 0 /\ nwrite = 0
  /\ readopen = 1 /\ writeopen = 1
  /\ lock = Nobody
  /\ freed = 0
  /\ out \in Byte
  /\ left = [p \in Proc |-> 0]
  /\ chan = [p \in Proc |-> "none"]
  /\ killed = {}
  /\ \E p \in Proc :
       /\ pc = [q \in Proc |-> IF q = p THEN "user" ELSE "unborn"]
       /\ fds = [q \in Proc |-> IF q = p THEN {"r", "w"} ELSE {}]

Wakeup(c) == [q \in Proc |-> IF chan[q] = c THEN "none" ELSE chan[q]]

Goto(p, l) == pc' = [pc EXCEPT ![p] = l]

\* p holds the lock and is at l.
At(p, l) == lock = p /\ pc[p] = l

\* Release the lock and leave the system call; usertrap then sees p->killed.
Return(p) == /\ lock' = Nobody
             /\ left' = [left EXCEPT ![p] = 0]
             /\ Goto(p, "user")

(***************************************************************************)
(* pipewrite                                                               *)
(***************************************************************************)
WriteCall(p, k) ==
  /\ pc[p] = "user" /\ "w" \in fds[p] /\ p \notin killed
  /\ lock = Nobody
  /\ lock' = p
  /\ left' = [left EXCEPT ![p] = k]
  /\ Goto(p, "write")
  /\ UNCHANGED <<pipe, freed, out, chan, killed, fds>>

WriteCheck(p) ==
  /\ At(p, "write") /\ left[p] > 0
  /\ IF readopen = 0 \/ p \in killed
       THEN Return(p)
       ELSE Goto(p, "write_checked") /\ UNCHANGED <<lock, left>>
  /\ UNCHANGED <<pipe, freed, out, chan, killed, fds>>

WriteSleep(p) ==
  /\ At(p, "write_checked") /\ Full
  /\ chan' = [Wakeup("nread") EXCEPT ![p] = "nwrite"]
  /\ lock' = Nobody
  /\ Goto(p, "write")
  /\ UNCHANGED <<pipe, freed, out, left, killed, fds>>

WriteByte(p, b) ==
  /\ At(p, "write_checked") /\ ~Full
  /\ data' = [data EXCEPT ![nwrite % PIPESIZE] = b]
  /\ nwrite' = (nwrite + 1) % WORD
  /\ left' = [left EXCEPT ![p] = @ - 1]
  /\ Goto(p, "write")
  /\ UNCHANGED <<nread, readopen, writeopen, lock, freed, out, chan,
                 killed, fds>>

\* The loop ends, at n or because copyin failed.
WriteReturn(p) ==
  /\ \/ At(p, "write") /\ left[p] = 0
     \/ At(p, "write_checked") /\ ~Full
  /\ chan' = Wakeup("nread")
  /\ Return(p)
  /\ UNCHANGED <<pipe, freed, out, killed, fds>>

(***************************************************************************)
(* piperead                                                                *)
(***************************************************************************)
ReadCall(p, k) ==
  /\ pc[p] = "user" /\ "r" \in fds[p] /\ p \notin killed
  /\ lock = Nobody
  /\ lock' = p
  /\ left' = [left EXCEPT ![p] = k]
  /\ Goto(p, "read")
  /\ UNCHANGED <<pipe, freed, out, chan, killed, fds>>

ReadCheck(p) ==
  /\ At(p, "read")
  /\ IF ~Empty \/ writeopen = 0
       THEN Goto(p, "copy") /\ UNCHANGED <<lock, left>>
       ELSE IF p \in killed THEN Return(p)
       ELSE Goto(p, "read_checked") /\ UNCHANGED <<lock, left>>
  /\ UNCHANGED <<pipe, freed, out, chan, killed, fds>>

ReadSleep(p) ==
  /\ At(p, "read_checked")
  /\ chan' = [chan EXCEPT ![p] = "nread"]
  /\ lock' = Nobody
  /\ Goto(p, "read")
  /\ UNCHANGED <<pipe, freed, out, left, killed, fds>>

ReadByte(p) ==
  /\ At(p, "copy") /\ left[p] > 0 /\ ~Empty
  /\ out' = data[nread % PIPESIZE]
  /\ nread' = (nread + 1) % WORD
  /\ left' = [left EXCEPT ![p] = @ - 1]
  /\ UNCHANGED <<data, nwrite, readopen, writeopen, lock, freed, pc, chan,
                 killed, fds>>

\* copyout fails: the byte has left the ring already.
ReadFault(p) ==
  /\ At(p, "copy") /\ left[p] > 0 /\ ~Empty
  /\ nread' = (nread + 1) % WORD
  /\ chan' = Wakeup("nwrite")
  /\ Return(p)
  /\ UNCHANGED <<data, nwrite, readopen, writeopen, freed, out, killed, fds>>

ReadReturn(p) ==
  /\ At(p, "copy") /\ (left[p] = 0 \/ Empty)
  /\ chan' = Wakeup("nwrite")
  /\ Return(p)
  /\ UNCHANGED <<pipe, freed, out, killed, fds>>

\* The end of sleep(): reacquire the lock and go round the loop.
Reacquire(p) ==
  /\ pc[p] \in {"read", "write"} /\ chan[p] = "none"
  /\ lock = Nobody
  /\ lock' = p
  /\ UNCHANGED <<pipe, freed, out, pc, left, chan, killed, fds>>

(***************************************************************************)
(* fileclose and pipeclose; the processes' lives.                          *)
(***************************************************************************)
Holders(e) == {q \in Proc : e \in fds[q]}

CloseFd(p, e) ==
  /\ pc[p] = "user" /\ e \in fds[p]
  /\ fds' = [fds EXCEPT ![p] = @ \ {e}]
  /\ IF Holders(e) = {p}
       THEN Goto(p, IF e = "w" THEN "close_w" ELSE "close_r")
       ELSE UNCHANGED pc
  /\ UNCHANGED <<pipe, lock, freed, out, left, chan, killed>>

\* Mutant: either end closed is enough to free the page.
PipeCloseFreesEarly(p) ==
  /\ pc[p] \in {"close_r", "close_w"}
  /\ lock = Nobody
  /\ IF pc[p] = "close_w"
       THEN /\ writeopen' = 0
            /\ chan' = Wakeup("nread")
            /\ UNCHANGED readopen
       ELSE /\ readopen' = 0
            /\ chan' = Wakeup("nwrite")
            /\ UNCHANGED writeopen
  /\ freed' = freed + 1
  /\ Goto(p, "user")
  /\ UNCHANGED <<data, nread, nwrite, lock, out, left, killed, fds>>

\* Mutant: closing the write end wakes writers, not readers.
PipeCloseWrongChannel(p) ==
  /\ pc[p] \in {"close_r", "close_w"}
  /\ lock = Nobody
  /\ chan' = Wakeup("nwrite")
  /\ IF pc[p] = "close_w"
       THEN writeopen' = 0 /\ UNCHANGED readopen
       ELSE readopen' = 0 /\ UNCHANGED writeopen
  /\ freed' = IF readopen' = 0 /\ writeopen' = 0 THEN freed + 1 ELSE freed
  /\ Goto(p, "user")
  /\ UNCHANGED <<data, nread, nwrite, lock, out, left, killed, fds>>

PipeClose(p) ==
  /\ pc[p] \in {"close_r", "close_w"}
  /\ lock = Nobody
  /\ IF pc[p] = "close_w"
       THEN /\ writeopen' = 0
            /\ chan' = Wakeup("nread")
            /\ UNCHANGED readopen
       ELSE /\ readopen' = 0
            /\ chan' = Wakeup("nwrite")
            /\ UNCHANGED writeopen
  /\ freed' = IF readopen' = 0 /\ writeopen' = 0 THEN freed + 1 ELSE freed
  /\ Goto(p, "user")
  /\ UNCHANGED <<data, nread, nwrite, lock, out, left, killed, fds>>

Fork(p, q) ==
  /\ pc[p] = "user" /\ p \notin killed /\ pc[q] = "unborn"
  /\ Goto(q, "user")
  /\ fds' = [fds EXCEPT ![q] = fds[p]]
  /\ UNCHANGED <<pipe, lock, freed, out, left, chan, killed>>

Exit(p) ==
  /\ pc[p] = "user" /\ fds[p] = {}
  /\ Goto(p, "dead")
  /\ UNCHANGED <<pipe, lock, freed, out, left, chan, killed, fds>>

Kill(p) ==
  /\ pc[p] \notin {"unborn", "dead"} /\ p \notin killed
  /\ killed' = killed \cup {p}
  /\ chan' = [chan EXCEPT ![p] = "none"]
  /\ UNCHANGED <<pipe, lock, freed, out, pc, left, fds>>

Syscall(p) ==
  \/ WriteCheck(p) \/ WriteSleep(p) \/ WriteReturn(p)
  \/ \E b \in Byte : WriteByte(p, b)
  \/ ReadCheck(p) \/ ReadSleep(p) \/ ReadByte(p) \/ ReadFault(p) \/ ReadReturn(p)

UserStep(p) ==
  \/ \E k \in 0 .. MaxCount : WriteCall(p, k) \/ ReadCall(p, k)
  \/ \E e \in {"r", "w"} : CloseFd(p, e)
  \/ \E q \in Proc : Fork(p, q)
  \/ Exit(p)

Over == /\ \A p \in Proc : pc[p] \in {"unborn", "dead"}
        /\ UNCHANGED vars

Next == \/ \E p \in Proc : Syscall(p) \/ UserStep(p) \/ Reacquire(p) \/ PipeClose(p) \/ Kill(p)
        \/ Over

Spec == Init /\ [][Next]_vars

(***************************************************************************)
(* Properties.                                                             *)
(***************************************************************************)
Inside == {"write", "write_checked", "read", "read_checked", "copy", "close_r", "close_w"}

TypeOK ==
  /\ data \in [0 .. PIPESIZE - 1 -> Byte]
  /\ nread \in 0 .. WORD - 1 /\ nwrite \in 0 .. WORD - 1
  /\ readopen \in {0, 1} /\ writeopen \in {0, 1}
  /\ lock \in Proc \cup {Nobody}
  /\ freed \in 0 .. 1
  /\ out \in Byte
  /\ pc \in [Proc -> {"unborn", "user", "dead"} \cup Inside]
  /\ left \in [Proc -> 0 .. MaxCount]
  /\ chan \in [Proc -> {"none", "nread", "nwrite"}]
  /\ killed \subseteq Proc
  /\ fds \in [Proc -> SUBSET {"r", "w"}]

Count == (nwrite - nread) % WORD

Queue == [k \in 1 .. Count |-> data[(nread + k - 1) % PIPESIZE]]

\* The pipe is a queue: bytes are delivered once and in order while the ring
\* and the counters wrap around, whatever readers and writers interleave.
Abstract == INSTANCE ByteQueue WITH
              Size <- PIPESIZE, queue <- IF freed = 0 THEN Queue ELSE <<>>,
              ropen <- readopen, wopen <- writeopen

RefinesByteQueue == Abstract!Spec

\* The page is freed once, and then no process is inside the pipe code, holds
\* its lock or has a descriptor that leads to it.
NoUseAfterFree ==
  freed > 0 => /\ lock = Nobody
               /\ \A p \in Proc : pc[p] \notin Inside /\ fds[p] = {}

\* A writer sleeps only while the ring is full and somebody can still read.
WriterSleepsOnFull ==
  \A p \in Proc : lock = Nobody /\ chan[p] = "nwrite" => Full /\ readopen = 1

\* A reader sleeps only while the pipe can still be written and, unless a
\* process was killed, while it is empty.
ReaderSleepsOnEmpty ==
  \A p \in Proc : lock = Nobody /\ chan[p] = "nread" =>
    writeopen = 1 /\ (Empty \/ killed # {})

(***************************************************************************)
(* Liveness.  A process inside a system call is scheduled again and again, *)
(* and one that spins in acquire gets the lock in the end.                 *)
(***************************************************************************)
FairSpec ==
  Spec /\ \A p \in Proc : WF_vars(Syscall(p)) /\ SF_vars(Reacquire(p)) /\ SF_vars(PipeClose(p))

\* Process p is in a system call on a pipe whose other end has been closed.
Alone(p) == \/ writeopen = 0 /\ pc[p] \in {"read", "read_checked", "copy"}
            \/ readopen = 0 /\ pc[p] \in {"write", "write_checked"}

\* Whoever reads or writes when the last descriptor of the other end is closed,
\* by close, exit or a kill, gets the end of the file or the error.
ClosedEndsAnswer == \A p \in Proc : Alone(p) ~> pc[p] = "user"
=============================================================================
