------------------------------ MODULE Devices -------------------------------
(***************************************************************************)
(* The kernel's interrupt side: spinlocks with the interrupt-disable       *)
(* nesting of push_off and pop_off (kernel/spinlock.c), traps and devintr  *)
(* (kernel/trap.c), the clock with sys_sleep (kernel/sysproc.c), the       *)
(* console's line discipline (kernel/console.c) and the UART's transmit    *)
(* ring (kernel/uart.c).                                                   *)
(*                                                                         *)
(* Every CPU runs one process.  The calls in progress on a CPU are a stack *)
(* of frames of which the top one moves: an interrupt pushes devintr's     *)
(* frame "on whatever the current kernel stack is", so a handler that      *)
(* needs a lock the frame below it holds can never get it.  Taking a lock  *)
(* is two steps, giving it back is two steps, and a critical section is a  *)
(* step between them.  sleep() and wakeup() are used through what module   *)
(* CondVar promises of them.                                               *)
(*                                                                         *)
(* A behaviour exercises one kind of system call, its `source': "clock",   *)
(* "write" or "read" of the console.  Nothing below depends on the choice  *)
(* but what a process calls and which device is busy.                      *)
(***************************************************************************)
EXTENDS Integers, Sequences, FiniteSets, SequencesExt

CONSTANTS CPU,        \* the CPUs
          Boot,       \* the CPU whose cpuid is 0
          SIZE,       \* INPUT_BUF_SIZE and UART_TX_BUF_SIZE
          WORD,       \* the number of values of an index or of the tick count
          FIFO,       \* the depth of the UART's transmit FIFO
          Args,       \* source -> the arguments of the calls
          Callers,    \* source -> the CPUs whose processes make them
          Typed,      \* the characters the keyboard sends
          None

ASSUME SizeAssumption == SIZE \in Nat \ {0} /\ \E k \in 2 .. WORD : WORD = k * SIZE

VARIABLES source,     \* which calls the processes make
          cpu,        \* CPU -> [intr, noff, intena]
          stack,      \* CPU -> the calls in progress, the running one first
          lock,       \* spinlock -> the CPU that holds it, or None
          ticks,      \* ticks, modulo WORD
          timer,      \* the CPUs with a timer interrupt pending
          tx,         \* uart_tx_r, uart_tx_w, uart_tx_buf; `last' sent
          cons,       \* cons.r, cons.w, cons.e, cons.buf
          uart        \* the device: fifo, rhr, irq (raised), claimed (PLIC)

vars == <<source, cpu, stack, lock, ticks, timer, tx, cons, uart>>

Lock == {"tickslock", "uart_tx_lock", "cons.lock"}

\* The lock a function takes.
LockOf(fn) == CASE fn \in {"sys_sleep", "clockintr"} -> "tickslock"
                [] fn \in {"uartputc", "uartintr"} -> "uart_tx_lock"
                [] OTHER -> "cons.lock"

\* A call of fn.  n: bytes left or ticks to sleep; x: the target, the starting
\* tick or the character; killed: its process was killed; failed: it returns -1;
\* waited: the ticks since it read its starting tick.
Frame(fn, pc, n, x) == [fn |-> fn, pc |-> pc, n |-> n, x |-> x,
                        killed |-> FALSE, failed |-> FALSE, waited |-> 0]

Add(a, b) == (a + b) % WORD
Sub(a, b) == (a - b) % WORD

\* The empty rings uartinit and consoleinit find.
UartInit == [r |-> 0, w |-> 0, buf |-> [i \in 0 .. SIZE - 1 |-> None], last |-> WORD - 1]
ConsInit == [r |-> 0, w |-> 0, e |-> 0, buf |-> [i \in 0 .. SIZE - 1 |-> None]]

Init ==
    /\ source \in {"clock", "write", "read"}
    /\ cpu = [c \in CPU |-> [intr |-> TRUE, noff |-> 0, intena |-> TRUE]]
    /\ stack = [c \in CPU |-> <<>>]
    /\ lock = [l \in Lock |-> None]
    /\ ticks = 0 /\ timer = {}
    /\ tx = UartInit /\ cons = ConsInit
    /\ uart = [fifo |-> 0, rhr |-> None, irq |-> FALSE, claimed |-> FALSE]

-----------------------------------------------------------------------------
(* Moving the running frame of a CPU. *)

At(c, pc) == stack[c] # <<>> /\ Head(stack[c]).pc = pc
In(c, fn, pc) == At(c, pc) /\ Head(stack[c]).fn = fn
Top(c) == Head(stack[c])

With(c, f) == [stack EXCEPT ![c] = <<f>> \o Tail(@)]
Goto(c, pc) == stack' = With(c, [Top(c) EXCEPT !.pc = pc])

\* Calling: the caller resumes at pc when f returns.
CallThen(c, pc, f) == stack' = [stack EXCEPT ![c] = <<f, [Top(c) EXCEPT !.pc = pc]>> \o Tail(@)]

\* wakeup(): every frame of function fn that sleeps goes on, to take its lock.
Wakeup(s, fn) ==
    [c \in CPU |-> [i \in DOMAIN s[c] |->
        IF s[c][i].fn = fn /\ s[c][i].pc = "asleep" THEN [s[c][i] EXCEPT !.pc = "acquire"]
                                                    ELSE s[c][i]]]

-----------------------------------------------------------------------------
(* spinlock.c *)

PushOff(s) == [s EXCEPT !.intena = IF s.noff = 0 THEN s.intr ELSE @,
                        !.intr = FALSE,
                        !.noff = @ + 1]

\* Mutant: the last pop_off turns interrupts on, also in a handler.
PopOffOn(s) == [s EXCEPT !.noff = @ - 1, !.intr = s.noff = 1]

\* pop_off; its two panics leave the CPU in a state BracketsMatch excludes.
PopOff(s) == [s EXCEPT !.noff = @ - 1,
                       !.intr = IF s.noff = 1 /\ s.intena THEN TRUE ELSE @]

\* acquire up to its test for a lock already held by this CPU...
AcquireOff(c) ==
    /\ At(c, "acquire")
    /\ cpu' = [cpu EXCEPT ![c] = PushOff(@)]
    /\ Goto(c, IF lock[LockOf(Top(c).fn)] = c THEN "panic" ELSE "spin")
    /\ UNCHANGED <<source, lock, ticks, timer, tx, cons, uart>>

\* ...and its atomic swap.
AcquireSpin(c) ==
    /\ At(c, "spin")
    /\ lock[LockOf(Top(c).fn)] = None
    /\ lock' = [lock EXCEPT ![LockOf(Top(c).fn)] = c]
    /\ Goto(c, IF Top(c).fn = "uartintr" THEN "start" ELSE "body")
    /\ UNCHANGED <<source, cpu, ticks, timer, tx, cons, uart>>

\* sleep(chan, lk) gives up the lock and the CPU, whose scheduler runs with
\* interrupts on.
Sleep(c, f) ==
    /\ stack' = With(c, [f EXCEPT !.pc = "asleep"])
    /\ lock' = [lock EXCEPT ![LockOf(f.fn)] = None]
    /\ cpu' = [cpu EXCEPT ![c] = PopOff(@)]

-----------------------------------------------------------------------------
(* trap.c: system calls, interrupts and what devintr does with them. *)

\* usertrap turns interrupts on and calls syscall(): sys_sleep, or consolewrite
\* (one uartputc for each byte) or consoleread through the file layer.
Syscall(c) ==
    /\ stack[c] = <<>> /\ c \in Callers[source]
    /\ \E n \in Args[source] :
        stack' = [stack EXCEPT ![c] =
            CASE source = "clock" -> <<Frame("sys_sleep", "acquire", n, None)>>
              [] source = "write" -> <<Frame("uartputc", "acquire", n, None)>>
              [] source = "read"  -> <<Frame("consoleread", "acquire", n, n)>>]
    /\ UNCHANGED <<source, cpu, lock, ticks, timer, tx, cons, uart>>

\* A CPU with interrupts on takes a trap, which turns them off, and devintr looks
\* for its source.  (A second CPU that traps for the same UART interrupt gets 0
\* from plic_claim and returns.)
Interrupt(c) ==
    /\ cpu[c].intr
    /\ \/ /\ c \in timer \cap {Boot}
          /\ stack' = [stack EXCEPT ![c] = <<Frame("clockintr", "acquire", 0, None)>> \o @]
          /\ UNCHANGED uart
       \/ /\ uart.irq /\ ~uart.claimed
          /\ stack' = [stack EXCEPT ![c] = <<Frame("uartintr", "getc", 0, None)>> \o @]
          /\ uart' = [uart EXCEPT !.irq = FALSE, !.claimed = TRUE]
    /\ cpu' = [cpu EXCEPT ![c].intr = FALSE]
    /\ UNCHANGED <<source, lock, ticks, timer, tx, cons>>

\* devintr tells the PLIC when the UART's handler is done.
Completed(c) == Top(c).fn = "uartintr"

\* consolewrite's loop has another byte for uartputc.
MoreToWrite(c) == Top(c).fn = "uartputc" /\ Top(c).n > 1

\* What follows a pop_off: the end of the call.  consolewrite goes on to its next
\* byte; clockintr asks for the next timer interrupt, devintr completes the
\* UART's, and the return from the trap restores the interrupt flag it found.
Returns(c) ==
    /\ stack' = [stack EXCEPT ![c] =
           IF MoreToWrite(c)
           THEN <<[Top(c) EXCEPT !.pc = "acquire", !.n = @ - 1]>> \o Tail(@) ELSE Tail(@)]
    /\ LET s == PopOff(cpu[c])
       IN  cpu' = [cpu EXCEPT ![c] = [s EXCEPT !.intr = @ \/ Top(c).fn \in {"clockintr", "uartintr"}]]
    /\ timer' = IF Top(c).fn = "clockintr" THEN timer \ {c} ELSE timer

\* release: at the end of a section, or when uartstart has nothing it can send.
Release(c) ==
    /\ At(c, "release") \/ (At(c, "start") /\ (tx.r = tx.w \/ uart.fifo > 0))
    /\ lock[LockOf(Top(c).fn)] = c
    /\ lock' = [lock EXCEPT ![LockOf(Top(c).fn)] = None]
    /\ Returns(c)
    /\ uart' = [uart EXCEPT !.claimed = @ /\ ~Completed(c)]
    /\ UNCHANGED <<source, ticks, tx, cons>>

\* A timer interrupt on another CPU only asks for the next one.
ClockElsewhere(c) ==
    /\ c \in timer \ {Boot} /\ cpu[c].intr
    /\ timer' = timer \ {c}
    /\ UNCHANGED <<source, cpu, stack, lock, ticks, tx, cons, uart>>

\* kill() wakes a process that sleeps, for it to see the flag.  (A process killed
\* at another time sees it at its next test.)
Kill(c) ==
    /\ stack[c] # <<>>
    /\ LET f == Last(stack[c])
       IN  /\ f.fn \in {"sys_sleep", "consoleread"} /\ f.pc = "asleep"
           /\ stack' = [stack EXCEPT ![c][Len(stack[c])] =
                            [f EXCEPT !.killed = TRUE, !.pc = "acquire"]]
    /\ UNCHANGED <<source, cpu, lock, ticks, timer, tx, cons, uart>>

-----------------------------------------------------------------------------
(* The clock. *)

\* The timer fires.  Bound: no process that can run is kept from it for WORD ticks.
Tick(c) ==
    /\ source = "clock" /\ c \notin timer
    /\ \A d \in CPU : \A i \in DOMAIN stack[d] :
           stack[d][i].pc # "asleep" => stack[d][i].waited < WORD - 1
    /\ timer' = timer \cup {c}
    /\ UNCHANGED <<source, cpu, stack, lock, ticks, tx, cons, uart>>

Counted(s) == [c \in CPU |-> [i \in DOMAIN s[c] |->
    IF s[c][i].fn = "sys_sleep" /\ s[c][i].x # None
    THEN [s[c][i] EXCEPT !.waited = IF @ = WORD THEN @ ELSE @ + 1]
    ELSE s[c][i]]]

\* Mutant: the tick is counted and nobody told.
ClockIntrQuiet(c) ==
    /\ In(c, "clockintr", "body")
    /\ ticks' = Add(ticks, 1)
    /\ stack' = Counted(With(c, [Top(c) EXCEPT !.pc = "release"]))
    /\ UNCHANGED <<source, cpu, lock, timer, tx, cons, uart>>

ClockIntr(c) ==
    /\ In(c, "clockintr", "body")
    /\ ticks' = Add(ticks, 1)
    /\ stack' = Wakeup(Counted(With(c, [Top(c) EXCEPT !.pc = "release"])), "sys_sleep")
    /\ UNCHANGED <<source, cpu, lock, timer, tx, cons, uart>>

\* Mutant: the end of the sleep is computed once and compared with the count.
TooEarlyAbsolute(f) == ticks < Add(f.x, f.n)

TooEarly(f) == Sub(ticks, f.x) < f.n

SysSleep(c) ==
    /\ In(c, "sys_sleep", "body")
    /\ LET f == [Top(c) EXCEPT !.x = IF @ = None THEN ticks ELSE @]
       IN  IF TooEarly(f) /\ ~f.killed
           THEN Sleep(c, f)
           ELSE /\ stack' = With(c, [f EXCEPT !.pc = "release", !.failed = TooEarly(f)])
                /\ UNCHANGED <<cpu, lock>>
    /\ UNCHANGED <<source, ticks, timer, tx, cons, uart>>

-----------------------------------------------------------------------------
(* uart.c: the transmit ring.  A byte is known by the index it was put at.  *)

\* Mutant: the ring is taken to hold one byte more than it has room for.
TxFullNever == tx.w = Add(tx.r, SIZE + 1)

TxFull == tx.w = Add(tx.r, SIZE)

Uartputc(c) ==
    /\ In(c, "uartputc", "body")
    /\ IF TxFull
       THEN Sleep(c, Top(c)) /\ UNCHANGED tx
       ELSE /\ tx' = [tx EXCEPT !.buf[tx.w % SIZE] = tx.w, !.w = Add(@, 1)]
            /\ Goto(c, "start")
            /\ UNCHANGED <<cpu, lock>>
    /\ UNCHANGED <<source, ticks, timer, cons, uart>>

\* uartstart's loop: its two tests pass...
Uartstart(c) ==
    /\ At(c, "start") /\ tx.r # tx.w /\ uart.fifo = 0
    /\ Goto(c, "thr")
    /\ UNCHANGED <<source, cpu, lock, ticks, timer, tx, cons, uart>>

\* ...and the byte it hands over.
UartstartThr(c) ==
    /\ At(c, "thr")
    /\ tx' = [tx EXCEPT !.r = Add(@, 1), !.last = tx.buf[tx.r % SIZE],
                        !.buf[tx.r % SIZE] = None]
    /\ uart' = [uart EXCEPT !.fifo = @ + 1]
    /\ stack' = Wakeup(With(c, [Top(c) EXCEPT !.pc = "start"]), "uartputc")
    /\ UNCHANGED <<source, cpu, lock, ticks, timer, cons>>

\* uartputc_sync, after its push_off and without the lock: it waits for an idle
\* UART and writes to it.
SyncWait(c) ==
    /\ At(c, "lsr") /\ uart.fifo = 0
    /\ Goto(c, "put")
    /\ UNCHANGED <<source, cpu, lock, ticks, timer, tx, cons, uart>>

SyncPut(c) ==
    /\ At(c, "put")
    /\ uart' = [uart EXCEPT !.fifo = @ + 1]
    /\ Returns(c)
    /\ UNCHANGED <<source, lock, ticks, tx, cons>>

\* The UART sends a byte, and interrupts when it can take more.
Sent ==
    /\ uart.fifo > 0
    /\ uart' = [uart EXCEPT !.fifo = @ - 1, !.irq = @ \/ uart.fifo = 1]
    /\ UNCHANGED <<source, cpu, stack, lock, ticks, timer, tx, cons>>

\* A key is struck.  In a behaviour about output only its echo matters, and one
\* is enough to meet every state of the output.
Key ==
    /\ uart.rhr = None /\ ~uart.claimed
    /\ source = "read" \/ (source = "write" /\ cons.e = 0)
    /\ \E k \in IF source = "read" THEN Typed ELSE Typed \cap {"x"} :
        uart' = [uart EXCEPT !.rhr = k, !.irq = TRUE]
    /\ UNCHANGED <<source, cpu, stack, lock, ticks, timer, tx, cons>>

\* uartgetc in uartintr's loop.
Uartgetc(c) ==
    /\ At(c, "getc")
    /\ IF uart.rhr = None
       THEN Goto(c, "acquire")
       ELSE CallThen(c, "getc", Frame("consoleintr", "acquire", 0, uart.rhr))
    /\ uart' = [uart EXCEPT !.rhr = None]
    /\ UNCHANGED <<source, cpu, lock, ticks, timer, tx, cons>>

-----------------------------------------------------------------------------
(* console.c: the line discipline. *)

\* How many characters ^U erases: back to the start of the line being edited.
Erased ==
    CHOOSE k \in 0 .. Sub(cons.e, cons.w) :
        /\ k = Sub(cons.e, cons.w) \/ cons.buf[(cons.e - k - 1) % SIZE].ch = "nl"
        /\ \A j \in 0 .. k - 1 : cons.buf[(cons.e - j - 1) % SIZE].ch # "nl"

\* The last k characters of the line being edited go.  (The model clears a slot
\* that is not in use.)
Erase(k) ==
    [cons EXCEPT !.e = Sub(@, k),
                 !.buf = [i \in DOMAIN @ |->
                     IF \E j \in 1 .. k : i = (cons.e - j) % SIZE THEN None ELSE @[i]]]

\* Mutant: the test for room compares with the write index.
RoomAfterW == Sub(cons.e, cons.w) < SIZE

Room == Sub(cons.e, cons.r) < SIZE

\* An ordinary character k is stored, and a complete line handed to the readers.
Stored(k) ==
    LET e == Add(cons.e, 1)
    IN  [cons EXCEPT !.buf[cons.e % SIZE] = [ch |-> k, at |-> cons.e],
                     !.e = e,
                     !.w = IF k \in {"nl", "eof"} \/ Sub(e, cons.r) = SIZE THEN e ELSE @]

\* consoleintr; one uartputc_sync stands for the echo, which is left out of the
\* behaviours about input.
Consoleintr(c) ==
    /\ In(c, "consoleintr", "body")
    /\ LET k == Top(c).x
       IN  cons' = CASE k = "U" -> Erase(Erased)
                     [] k = "H" -> Erase(IF cons.e # cons.w THEN 1 ELSE 0)
                     [] OTHER -> IF Room THEN Stored(IF k = "cr" THEN "nl" ELSE k) ELSE cons
    /\ LET f == [Top(c) EXCEPT !.pc = "release"]
           s == IF cons'.w # cons.w THEN Wakeup(With(c, f), "consoleread") ELSE With(c, f)
           echo == cons'.e # cons.e /\ source = "write"
       IN  /\ stack' = IF echo THEN [s EXCEPT ![c] = <<Frame("uartputc_sync", "lsr", 0, None)>> \o @]
                               ELSE s
           /\ cpu' = IF echo THEN [cpu EXCEPT ![c] = PushOff(@)] ELSE cpu
    /\ UNCHANGED <<source, lock, ticks, timer, tx, uart>>

\* consoleread finds no input: it gives up if killed, and sleeps otherwise.
ConsolereadWait(c) ==
    /\ In(c, "consoleread", "body")
    /\ Top(c).n > 0 /\ cons.r = cons.w
    /\ IF Top(c).killed
       THEN stack' = With(c, [Top(c) EXCEPT !.pc = "release", !.failed = TRUE])
            /\ UNCHANGED <<cpu, lock>>
       ELSE Sleep(c, Top(c))
    /\ UNCHANGED <<source, ticks, timer, tx, cons, uart>>

\* It takes one character, which may end the read; an end-of-file after some
\* characters is left for the next read; copying to the user may fail.
ConsolereadTake(c) ==
    /\ In(c, "consoleread", "body")
    /\ Top(c).n > 0 /\ cons.r # cons.w
    /\ LET f  == Top(c)
           ch == cons.buf[cons.r % SIZE].ch
       IN  \E copied \in BOOLEAN :
            /\ cons' = IF ch = "eof" /\ f.n < f.x THEN cons 
                       ELSE [cons EXCEPT !.r = Add(@, 1), !.buf[cons.r % SIZE] = None]
            /\ stack' = With(c, [f EXCEPT
                   !.n = IF ch # "eof" /\ copied THEN @ - 1 ELSE @,
                   !.pc = IF ch \in {"eof", "nl"} \/ ~copied THEN "release" ELSE @])
    /\ UNCHANGED <<source, cpu, lock, ticks, timer, tx, uart>>

ConsolereadFull(c) ==
    /\ In(c, "consoleread", "body")
    /\ Top(c).n = 0
    /\ Goto(c, "release")
    /\ UNCHANGED <<source, cpu, lock, ticks, timer, tx, cons, uart>>

-----------------------------------------------------------------------------
\* A step of the code running on CPU c.
Run(c) ==
    \/ AcquireOff(c) \/ AcquireSpin(c) \/ Release(c)
    \/ ClockIntr(c) \/ SysSleep(c)
    \/ Uartputc(c) \/ Uartstart(c) \/ UartstartThr(c)
    \/ SyncWait(c) \/ SyncPut(c) \/ Uartgetc(c)
    \/ Consoleintr(c) \/ ConsolereadWait(c) \/ ConsolereadTake(c) \/ ConsolereadFull(c)

Next ==
    \/ \E c \in CPU : Run(c) \/ Syscall(c) \/ Interrupt(c) \/ ClockElsewhere(c)
                       \/ Kill(c) \/ Tick(c)
    \/ Sent \/ Key

Spec == Init /\ [][Next]_vars

\* A CPU that can go on does, and gets a contended lock in the end; the code it
\* interrupted also goes on between interrupts.  The boot CPU
\* takes interrupts that stay possible, its timer keeps firing, the UART sends.
FairSpec ==
    /\ Spec
    /\ \A c \in CPU : SF_vars(Run(c)) /\ SF_vars(Len(stack[c]) = 1 /\ Run(c))
    /\ SF_vars(Interrupt(Boot)) /\ WF_vars(Tick(Boot)) /\ WF_vars(Sent)

-----------------------------------------------------------------------------
(* Properties. *)

\* The frames of CPU c that have disabled interrupts.
Disabling(c) == {i \in DOMAIN stack[c] :
    stack[c][i].pc \in {"spin", "body", "start", "thr", "release", "lsr", "put", "panic"}}

Handling(c) == \E i \in DOMAIN stack[c] : stack[c][i].fn \in {"clockintr", "uartintr"}

\* Spinlocks and interrupts stay in step, whatever interrupts what: no acquire
\* or release panics, noff counts the sections a CPU is in, interrupts are off
\* in every one of them and in handlers, and on again, as the process had them,
\* outside; and a lock's holder is in a section of it.
BracketsMatch ==
    /\ \A c \in CPU : ~At(c, "panic")
    /\ \A c \in CPU :
        /\ cpu[c].noff = Cardinality(Disabling(c))
        /\ cpu[c].noff > 0 => ~cpu[c].intr
        /\ cpu[c].noff = 0 => (cpu[c].intr <=> ~Handling(c))
    /\ \A c \in CPU : At(c, "release") => lock[LockOf(Top(c).fn)] = c
    /\ \A l \in Lock : lock[l] # None =>
        \E i \in Disabling(lock[l]) : LockOf(stack[lock[l]][i].fn) = l

\* The console's buffer: the indices keep their order, also when they wrap,
\* what was typed and not yet read is not overwritten, and no reader sleeps
\* while a line waits for it.
InputIntact ==
    /\ Sub(cons.w, cons.r) <= Sub(cons.e, cons.r) /\ Sub(cons.e, cons.r) <= SIZE
    /\ \A i \in 0 .. Sub(cons.e, cons.r) - 1 : cons.buf[(cons.r + i) % SIZE].at = Add(cons.r, i)
    /\ \A c \in CPU : \A i \in DOMAIN stack[c] :
        stack[c][i].fn = "consoleread" /\ stack[c][i].pc = "asleep" => cons.r = cons.w

\* Bytes leave the transmit ring in the order they were put there, none twice
\* and none skipped; although the echo writes to the UART without the lock, the
\* FIFO never overflows.
OutputInOrder ==
    [][/\ tx'.last # tx.last => tx'.last = Add(tx.last, 1)
       /\ uart'.fifo <= FIFO]_vars

\* sys_sleep(n) that returns 0 has let n ticks pass, also when the tick count
\* wraps around.
SleepsLongEnough ==
    \A c \in CPU : \A i \in DOMAIN stack[c] :
        LET f == stack[c][i]
        IN  f.fn = "sys_sleep" /\ f.pc = "release" /\ ~f.failed
              => f.waited >= f.n

\* No wakeup is lost between a process that tests and sleeps and a handler that
\* runs meanwhile: every sys_sleep returns, and a write to the console that waits
\* for room does not wait for ever.
SleepersWoken ==
    \A c \in CPU :
        /\ source = "clock" /\ stack[c] # <<>> ~> stack[c] = <<>>
        /\ source = "write" /\ (\E i \in DOMAIN stack[c] : stack[c][i].pc = "asleep")
              ~> \A i \in DOMAIN stack[c] : stack[c][i].pc # "asleep"
=============================================================================
