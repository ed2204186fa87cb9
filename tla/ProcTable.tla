----------------------------- MODULE ProcTable -----------------------------
(***************************************************************************)
(* The life of processes in kernel/proc.c: fork, exit, wait and kill, each *)
(* table scan a step per slot, on as many CPUs as there are processes.     *)
(*                                                                         *)
(* A critical section of one p->lock is one step unless the lock is held   *)
(* across steps (fork's copy, and the way from sleep or exit through       *)
(* swtch() to the scheduler, which releases it).  Slot 1 is initproc and   *)
(* runs user/init.c; the other processes make any calls they like.         *)
(* allocpid counts up for 2^31 forks: a pid is modelled by the slot of its *)
(* process, which no other process has while it lives.  0 stands for a     *)
(* null pointer, a free lock and pid 0.                                    *)
(***************************************************************************)
EXTENDS Naturals

CONSTANT NPROC   \* slots of the process table

ASSUME ProcAssumption == NPROC \in Nat \ {0}

Slot == 1 .. NPROC
initproc == 1

VARIABLES
  state, pid, parent, chan, killed,  \* struct proc
  lock,       \* holder of each p->lock, by slot
  wait_lock,  \* holder of wait_lock
  pc,         \* where the kernel thread of a slot is
  i, j,       \* indices of its table scans
  arg,        \* fork: np, kill: pid, wait: havekids
  shell       \* init.c's variable pid, 0 when it has no shell

proc == <<state, pid, parent, chan, killed>>
locals == <<i, j, arg>>
vars == <<proc, lock, wait_lock, pc, locals, shell>>

Init ==
  /\ state = [s \in Slot |-> IF s = initproc THEN "RUNNABLE" ELSE "UNUSED"]
  /\ pid = [s \in Slot |-> IF s = initproc THEN 1 ELSE 0]
  /\ parent = [s \in Slot |-> 0]
  /\ chan = [s \in Slot |-> 0]
  /\ killed = [s \in Slot |-> 0]
  /\ lock = [s \in Slot |-> 0]
  /\ wait_lock = 0
  /\ pc = [s \in Slot |-> IF s = initproc THEN "forkret" ELSE "gone"]
  /\ i = [s \in Slot |-> 0]
  /\ j = [s \in Slot |-> 0]
  /\ arg = [s \in Slot |-> 0]
  /\ shell = 0

Goto(p, l) == pc' = [pc EXCEPT ![p] = l]
Set(f, p, v) == [f EXCEPT ![p] = v]

\* A system call of p returns r; init.c reacts to it, the others may do
\* anything.  -1 is written NPROC + 1, which is no pid.
Failed == NPROC + 1

Return(p, r) ==
  /\ i' = Set(i, p, 0) /\ j' = Set(j, p, 0) /\ arg' = Set(arg, p, 0)
  /\ IF p = initproc /\ r = Failed
       THEN Goto(p, "exit") /\ UNCHANGED shell
       ELSE /\ Goto(p, "user")
            /\ shell' = IF p # initproc THEN shell
                        ELSE IF shell = 0 THEN r
                        ELSE IF r = shell THEN 0 ELSE shell

FreeProc(s) ==
  /\ state' = Set(state, s, "UNUSED")
  /\ pid' = Set(pid, s, 0)
  /\ parent' = Set(parent, s, 0)
  /\ chan' = Set(chan, s, 0)
  /\ killed' = Set(killed, s, 0)

(***************************************************************************)
(* fork and allocproc                                                      *)
(***************************************************************************)
ForkCall(p) ==
  /\ pc[p] = "user" /\ killed[p] = 0
  /\ p = initproc => shell = 0
  /\ Goto(p, "alloc")
  /\ i' = Set(i, p, 1)
  /\ UNCHANGED <<proc, lock, wait_lock, j, arg, shell>>

AllocNone(p) ==
  /\ pc[p] = "alloc" /\ i[p] > NPROC
  /\ Return(p, Failed)
  /\ UNCHANGED <<proc, lock, wait_lock>>

AllocSkip(p) ==
  /\ pc[p] = "alloc" /\ i[p] <= NPROC
  /\ lock[i[p]] = 0 /\ state[i[p]] # "UNUSED"
  /\ i' = Set(i, p, i[p] + 1)
  /\ UNCHANGED <<proc, lock, wait_lock, pc, j, arg, shell>>

AllocFound(p) ==
  /\ pc[p] = "alloc" /\ i[p] <= NPROC
  /\ lock[i[p]] = 0 /\ state[i[p]] = "UNUSED"
  /\ lock' = Set(lock, i[p], p)
  /\ pid' = Set(pid, i[p], i[p])
  /\ state' = Set(state, i[p], "USED")
  /\ arg' = Set(arg, p, i[p])
  /\ pc' = [pc EXCEPT ![p] = "fork_copy", ![i[p]] = "forkret"]
  /\ UNCHANGED <<parent, chan, killed, wait_lock, i, j, shell>>

\* No memory for the trapframe, the page table or the copy.
ForkFail(p) ==
  /\ pc[p] = "fork_copy"
  /\ FreeProc(arg[p])
  /\ lock' = Set(lock, arg[p], 0)
  /\ Return(p, Failed)
  /\ UNCHANGED wait_lock

ForkCopy(p) ==
  /\ pc[p] = "fork_copy"
  /\ lock' = Set(lock, arg[p], 0)
  /\ Goto(p, "fork_parent")
  /\ UNCHANGED <<proc, wait_lock, locals, shell>>

ForkParent(p) ==
  /\ pc[p] = "fork_parent" /\ wait_lock = 0
  /\ parent' = Set(parent, arg[p], p)
  /\ Goto(p, "fork_runnable")
  /\ UNCHANGED <<state, pid, chan, killed, lock, wait_lock, locals, shell>>

ForkRunnable(p) ==
  /\ pc[p] = "fork_runnable" /\ lock[arg[p]] = 0
  /\ state' = Set(state, arg[p], "RUNNABLE")
  /\ Return(p, arg[p])
  /\ UNCHANGED <<pid, parent, chan, killed, lock, wait_lock>>

(***************************************************************************)
(* exit and reparent                                                       *)
(***************************************************************************)
ExitCall(p) ==
  /\ pc[p] = "user"
  /\ p = initproc => killed[p] = 1
  /\ Goto(p, "exit")
  /\ UNCHANGED <<proc, lock, wait_lock, locals, shell>>

\* The files are closed before wait_lock is taken.
ExitLock(p) ==
  /\ pc[p] = "exit"
  /\ IF p = initproc
       THEN Goto(p, "panic") /\ UNCHANGED <<wait_lock, i>>
       ELSE /\ wait_lock = 0
            /\ wait_lock' = p
            /\ i' = Set(i, p, 1)
            /\ Goto(p, "reparent")
  /\ UNCHANGED <<proc, lock, j, arg, shell>>

\* Mutant: the children are left to the process that exits.
ReparentNobody(p) ==
  /\ pc[p] = "reparent" /\ i[p] <= NPROC
  /\ i' = Set(i, p, i[p] + 1)
  /\ UNCHANGED <<proc, lock, wait_lock, pc, j, arg, shell>>

\* One iteration of reparent; it calls wakeup(initproc) if it found a child.
Reparent(p) ==
  /\ pc[p] = "reparent" /\ i[p] <= NPROC
  /\ IF parent[i[p]] = p
       THEN /\ parent' = Set(parent, i[p], initproc)
            /\ j' = Set(j, p, 1) /\ arg' = Set(arg, p, initproc)
            /\ Goto(p, "wakeup")
            /\ UNCHANGED i
       ELSE i' = Set(i, p, i[p] + 1) /\ UNCHANGED <<parent, j, arg, pc>>
  /\ UNCHANGED <<state, pid, chan, killed, lock, wait_lock, shell>>

\* One iteration of wakeup(arg).
WakeupSlot(p) ==
  /\ pc[p] = "wakeup" /\ j[p] <= NPROC
  /\ j[p] # p => lock[j[p]] = 0
  /\ state' = IF j[p] # p /\ state[j[p]] = "SLEEPING" /\ chan[j[p]] = arg[p]
                THEN Set(state, j[p], "RUNNABLE") ELSE state
  /\ j' = Set(j, p, j[p] + 1)
  /\ UNCHANGED <<pid, parent, chan, killed, lock, wait_lock, pc, i, arg, shell>>

\* Mutant: every wakeup returns into reparent.
WakeupDoneLoops(p) ==
  /\ pc[p] = "wakeup" /\ j[p] > NPROC
  /\ j' = Set(j, p, 0) /\ arg' = Set(arg, p, 0)
  /\ Goto(p, "reparent")
  /\ UNCHANGED <<proc, lock, wait_lock, i, shell>>

\* wakeup returns into reparent's loop or, called from exit, to its caller.
WakeupDone(p) ==
  /\ pc[p] = "wakeup" /\ j[p] > NPROC
  /\ j' = Set(j, p, 0) /\ arg' = Set(arg, p, 0)
  /\ IF i[p] <= NPROC
       THEN i' = Set(i, p, i[p] + 1) /\ Goto(p, "reparent")
       ELSE i' = Set(i, p, 0) /\ Goto(p, "zombie")
  /\ UNCHANGED <<proc, lock, wait_lock, shell>>

\* Mutant: exit does not wake the parent.
ExitSilent(p) ==
  /\ pc[p] = "reparent" /\ i[p] > NPROC
  /\ i' = Set(i, p, 0)
  /\ Goto(p, "zombie")
  /\ UNCHANGED <<proc, lock, wait_lock, j, arg, shell>>

ExitWake(p) ==
  /\ pc[p] = "reparent" /\ i[p] > NPROC
  /\ j' = Set(j, p, 1) /\ arg' = Set(arg, p, parent[p])
  /\ Goto(p, "wakeup")
  /\ UNCHANGED <<proc, lock, wait_lock, i, shell>>

ExitZombie(p) ==
  /\ pc[p] = "zombie" /\ lock[p] = 0
  /\ lock' = Set(lock, p, p)
  /\ state' = Set(state, p, "ZOMBIE")
  /\ wait_lock' = 0
  /\ Goto(p, "exit_sched")
  /\ UNCHANGED <<pid, parent, chan, killed, locals, shell>>

(***************************************************************************)
(* wait                                                                    *)
(***************************************************************************)
WaitCall(p) ==
  /\ pc[p] = "user" /\ killed[p] = 0
  /\ p = initproc => shell # 0
  /\ Goto(p, "wait_lock")
  /\ UNCHANGED <<proc, lock, wait_lock, locals, shell>>

\* acquire(&wait_lock), at the start and at the end of sleep().
WaitLock(p) ==
  /\ pc[p] = "wait_lock" /\ wait_lock = 0
  /\ wait_lock' = p
  /\ i' = Set(i, p, 1) /\ arg' = Set(arg, p, 0)
  /\ Goto(p, "wait_scan")
  /\ UNCHANGED <<proc, lock, j, shell>>

WaitSkip(p) ==
  /\ pc[p] = "wait_scan" /\ i[p] <= NPROC
  /\ \/ parent[i[p]] # p /\ UNCHANGED arg
     \/ /\ parent[i[p]] = p /\ lock[i[p]] = 0 /\ state[i[p]] # "ZOMBIE"
        /\ arg' = Set(arg, p, 1)
  /\ i' = Set(i, p, i[p] + 1)
  /\ UNCHANGED <<proc, lock, wait_lock, pc, j, shell>>

\* Mutant: wait does not take the child's lock.
WaitFoundUnlocked(p) ==
  /\ pc[p] = "wait_scan" /\ i[p] <= NPROC
  /\ parent[i[p]] = p /\ state[i[p]] = "ZOMBIE"
  /\ FreeProc(i[p]) /\ Return(p, pid[i[p]])
  /\ wait_lock' = 0
  /\ UNCHANGED lock

\* A zombie is freed, unless copyout of its status fails (init passes 0).
WaitFound(p) ==
  /\ pc[p] = "wait_scan" /\ i[p] <= NPROC
  /\ parent[i[p]] = p /\ lock[i[p]] = 0 /\ state[i[p]] = "ZOMBIE"
  /\ \/ FreeProc(i[p]) /\ Return(p, pid[i[p]])
     \/ p # initproc /\ Return(p, Failed) /\ UNCHANGED proc
  /\ wait_lock' = 0
  /\ UNCHANGED lock

WaitNone(p) ==
  /\ pc[p] = "wait_scan" /\ i[p] > NPROC
  /\ arg[p] = 0 \/ (lock[p] = 0 /\ killed[p] = 1)
  /\ wait_lock' = 0
  /\ Return(p, Failed)
  /\ UNCHANGED <<proc, lock>>

\* killed(p) was 0; the lock on p is taken a second time, in sleep().
WaitCheck(p) ==
  /\ pc[p] = "wait_scan" /\ i[p] > NPROC
  /\ arg[p] = 1 /\ lock[p] = 0 /\ killed[p] = 0
  /\ i' = Set(i, p, 0) /\ arg' = Set(arg, p, 0)
  /\ Goto(p, "wait_sleep")
  /\ UNCHANGED <<proc, lock, wait_lock, j, shell>>

SleepLock(p) ==
  /\ pc[p] = "wait_sleep" /\ lock[p] = 0
  /\ lock' = Set(lock, p, p)
  /\ wait_lock' = 0
  /\ Goto(p, "sleep_sched")
  /\ UNCHANGED <<proc, locals, shell>>

(***************************************************************************)
(* The scheduler, as far as it takes part: sched() ends with the scheduler *)
(* releasing p->lock, and a RUNNABLE process is resumed.                   *)
(***************************************************************************)
Sched(p) ==
  /\ \/ /\ pc[p] = "sleep_sched"
        /\ chan' = Set(chan, p, p)
        /\ state' = Set(state, p, "SLEEPING")
        /\ Goto(p, "asleep")
     \/ /\ pc[p] = "exit_sched"
        /\ Goto(p, "gone")
        /\ UNCHANGED <<chan, state>>
  /\ lock' = Set(lock, p, 0)
  /\ UNCHANGED <<pid, parent, killed, wait_lock, locals, shell>>

Scheduler(p) ==
  /\ state[p] = "RUNNABLE" /\ lock[p] = 0
  /\ state' = Set(state, p, "RUNNING")
  /\ chan' = Set(chan, p, 0)
  /\ Goto(p, IF pc[p] = "forkret" THEN "user" ELSE "wait_lock")
  /\ UNCHANGED <<pid, parent, killed, lock, wait_lock, locals, shell>>

(***************************************************************************)
(* kill                                                                    *)
(***************************************************************************)
KillCall(p, target) ==
  /\ pc[p] = "user" /\ killed[p] = 0 /\ p # initproc
  /\ i' = Set(i, p, 1) /\ arg' = Set(arg, p, target)
  /\ Goto(p, "kill")
  /\ UNCHANGED <<proc, lock, wait_lock, j, shell>>

KillFound(p) ==
  /\ pc[p] = "kill" /\ i[p] <= NPROC
  /\ lock[i[p]] = 0 /\ pid[i[p]] = arg[p]
  /\ killed' = Set(killed, i[p], 1)
  /\ state' = IF state[i[p]] = "SLEEPING" THEN Set(state, i[p], "RUNNABLE") ELSE state
  /\ Return(p, 0)
  /\ UNCHANGED <<pid, parent, chan, lock, wait_lock>>

KillSkip(p) ==
  /\ pc[p] = "kill"
  /\ IF i[p] > NPROC
       THEN Return(p, Failed)
       ELSE /\ lock[i[p]] = 0 /\ pid[i[p]] # arg[p]
            /\ i' = Set(i, p, i[p] + 1)
            /\ UNCHANGED <<j, arg, pc, shell>>
  /\ UNCHANGED <<proc, lock, wait_lock>>

(***************************************************************************)
(* The specification.                                                      *)
(***************************************************************************)
Fork(p) == AllocNone(p) \/ AllocSkip(p) \/ AllocFound(p) \/ ForkFail(p) \/ ForkCopy(p)
           \/ ForkParent(p) \/ ForkRunnable(p)
Exit(p) == ExitLock(p) \/ Reparent(p) \/ WakeupSlot(p) \/ WakeupDone(p) \/ ExitWake(p)
           \/ ExitZombie(p)
Wait(p) == WaitLock(p) \/ WaitSkip(p) \/ WaitFound(p) \/ WaitNone(p) \/ WaitCheck(p)
           \/ SleepLock(p)
Kill(p) == KillFound(p) \/ KillSkip(p)

\* A thread inside the kernel, and init at user level, keep going.
Kernel(p) == Fork(p) \/ Exit(p) \/ Wait(p) \/ Kill(p) \/ Sched(p) \/ Scheduler(p)
InitLoop == ForkCall(initproc) \/ WaitCall(initproc)
Dies(p) == killed[p] = 1 /\ ExitCall(p)

User(p) == ForkCall(p) \/ WaitCall(p) \/ ExitCall(p) \/ \E t \in 0 .. NPROC : KillCall(p, t)

\* panic() spins for ever.
Panic == pc[initproc] = "panic" /\ UNCHANGED vars

Next == Panic \/ \E p \in Slot : Kernel(p) \/ User(p)

Spec == Init /\ [][Next]_vars

(***************************************************************************)
(* Properties.                                                             *)
(***************************************************************************)

\* A parent does not sleep in wait() on a child that has exited: the exit
\* between wait's scan and its sleep is not missed.
NoLostExit ==
  \A p, c \in Slot :
    wait_lock = 0 /\ state[p] = "SLEEPING" /\ parent[c] = p => state[c] # "ZOMBIE"

\* A slot is not given away while its thread is still on its kernel stack:
\* wait frees a zombie only after its last swtch().
StackQuiet ==
  \A p \in Slot : state[p] \in {"UNUSED", "USED"} => pc[p] \in {"gone", "forkret"}

\* Book, p. 80: "thus every child has a parent to clean up after it".  Every
\* process that can run or has exited has a parent that has not exited
\* itself, whenever wait_lock is free.
EveryChildHasParent ==
  wait_lock = 0 =>
    \A c \in Slot \ {initproc} :
      state[c] \notin {"UNUSED", "USED"} =>
        parent[c] # 0 /\ state[parent[c]] \in {"RUNNABLE", "RUNNING", "SLEEPING"}

(***************************************************************************)
(* Liveness.  The scheduler runs every RUNNABLE process again and again,   *)
(* and a thread spinning in acquire gets the lock in the end.              *)
(***************************************************************************)
FairSpec ==
  /\ Spec
  /\ \A p \in Slot : SF_vars(Kernel(p)) /\ WF_vars(Dies(p))
  /\ WF_vars(InitLoop)

\* exit() always gets to the end, whatever locks it has to wait for.
ExitCompletes == \A p \in Slot \ {initproc} : pc[p] = "exit" ~> state[p] = "ZOMBIE"

\* init reaps an orphan, unless it has panicked, if the children in lower
\* slots leave it the time: wait() takes the first zombie it finds.
OrphansReaped ==
  \A p \in Slot :
    (state[p] = "ZOMBIE" /\ parent[p] = initproc /\ [](\A q \in Slot : q < p => state[q] # "ZOMBIE"))
      ~> (state[p] = "UNUSED" \/ pc[initproc] = "panic")

\* Every exit is completed and its process reaped by whoever is its parent
\* then: nothing waits in a circle for wait_lock and the locks of the slots.
ExitsReaped == ExitCompletes /\ OrphansReaped
=============================================================================
