------------------------------- MODULE Sched -------------------------------
(***************************************************************************)
(* kernel/proc.c's scheduler, sched, yield, sleep and wakeup on several    *)
(* CPUs, each acquire of a p->lock a step.  The processes use sleep and    *)
(* wakeup the way the kernel's drivers and pipes do: a flag `ready` under  *)
(* a condition lock lk, waited for in a loop.  Processes are the numbers   *)
(* 1 .. NPROC, the order in which the table is scanned.                    *)
(***************************************************************************)
EXTENDS Naturals

CONSTANTS NPROC, CPU,
          Idle   \* no CPU, no process

ASSUME SchedAssumption == NPROC \in Nat \ {0} /\ Idle \notin CPU /\ Idle \notin 1 .. NPROC

Proc == 1 .. NPROC

VARIABLES
  state, chan,  \* struct proc
  lock,         \* the CPU that holds each p->lock
  lk,           \* the process that holds the condition lock
  ready,        \* the condition
  proc,         \* c->proc
  thread,       \* whose stack a CPU is on: a process, or Idle for the scheduler
  next,         \* the scheduler's loop variable p
  pc, j         \* where each process is, and its index in wakeup

vars == <<state, chan, lock, lk, ready, proc, thread, next, pc, j>>

\* The fork of each process left it RUNNABLE, to start in forkret.
Init ==
  /\ state = [p \in Proc |-> "RUNNABLE"]
  /\ chan = [p \in Proc |-> 0]
  /\ lock = [p \in Proc |-> Idle]
  /\ lk = Idle
  /\ ready = 0
  /\ proc = [c \in CPU |-> Idle]
  /\ thread = [c \in CPU |-> Idle]
  /\ next = [c \in CPU |-> 1]
  /\ pc = [p \in Proc |-> "yielded"]
  /\ j = [p \in Proc |-> 0]

Goto(p, l) == pc' = [pc EXCEPT ![p] = l]

\* p executes on c and is at l.
On(c, p, l) == thread[c] = p /\ pc[p] = l

(***************************************************************************)
(* scheduler()                                                             *)
(***************************************************************************)
\* Mutants: the scan runs past the table; the scan starts again each time.
FollowingPast(p) == p + 1
FollowingFirst(p) == 1

Following(p) == IF p = NPROC THEN 1 ELSE p + 1

Skip(c) ==
  /\ thread[c] = Idle /\ proc[c] = Idle
  /\ lock[next[c]] = Idle /\ state[next[c]] # "RUNNABLE"
  /\ next' = [next EXCEPT ![c] = Following(@)]
  /\ UNCHANGED <<state, chan, lock, lk, ready, proc, thread, pc, j>>

Dispatch(c) ==
  /\ thread[c] = Idle /\ proc[c] = Idle
  /\ lock[next[c]] = Idle /\ state[next[c]] = "RUNNABLE"
  /\ lock' = [lock EXCEPT ![next[c]] = c]
  /\ state' = [state EXCEPT ![next[c]] = "RUNNING"]
  /\ proc' = [proc EXCEPT ![c] = next[c]]
  /\ thread' = [thread EXCEPT ![c] = next[c]]
  /\ UNCHANGED <<chan, lk, ready, next, pc, j>>

\* Back from swtch.
Return(c) ==
  /\ thread[c] = Idle /\ proc[c] # Idle
  /\ proc' = [proc EXCEPT ![c] = Idle]
  /\ lock' = [lock EXCEPT ![next[c]] = Idle]
  /\ next' = [next EXCEPT ![c] = Following(@)]
  /\ UNCHANGED <<state, chan, lk, ready, thread, pc, j>>

(***************************************************************************)
(* yield() and sched()                                                     *)
(***************************************************************************)
\* Mutant: yield does not take p->lock.
YieldUnlocked(c, p) ==
  /\ thread[c] = p /\ pc[p] \in {"run", "acquire", "signal"} /\ lock[p] = Idle
  /\ state' = [state EXCEPT ![p] = "RUNNABLE"]
  /\ Goto(p, "yield")
  /\ UNCHANGED <<chan, lock, lk, ready, proc, thread, next, j>>

\* A timer interrupt, at user level or in the kernel; interrupts are off while
\* a spinlock is held.  A process that was about to take lk finds its way
\* back to that point from "run".
Yield(c, p) ==
  /\ thread[c] = p /\ pc[p] \in {"run", "acquire", "signal"} /\ lock[p] = Idle
  /\ lock' = [lock EXCEPT ![p] = c]
  /\ state' = [state EXCEPT ![p] = "RUNNABLE"]
  /\ Goto(p, "yield")
  /\ UNCHANGED <<chan, lk, ready, proc, thread, next, j>>

Swtch(c, p) ==
  /\ thread[c] = p /\ pc[p] \in {"yield", "sleep"}
  /\ thread' = [thread EXCEPT ![c] = Idle]
  /\ Goto(p, IF pc[p] = "yield" THEN "yielded" ELSE "slept")
  /\ UNCHANGED <<state, chan, lock, lk, ready, proc, next, j>>

\* The process's first instructions after the scheduler switched to it.
Resume(c, p) ==
  /\ thread[c] = p /\ pc[p] \in {"yielded", "slept"}
  /\ lock' = [lock EXCEPT ![p] = Idle]
  /\ chan' = [chan EXCEPT ![p] = 0]
  /\ Goto(p, IF pc[p] = "yielded" THEN "run" ELSE "acquire")
  /\ UNCHANGED <<state, lk, ready, proc, thread, next, j>>

(***************************************************************************)
(* A process that waits for the condition, and one that makes it true.     *)
(***************************************************************************)
Call(c, p, l) ==
  /\ On(c, p, "run")
  /\ Goto(p, l)
  /\ UNCHANGED <<state, chan, lock, lk, ready, proc, thread, next, j>>

Acquire(c, p) ==
  /\ thread[c] = p /\ pc[p] \in {"acquire", "signal"} /\ lk = Idle
  /\ lk' = p
  /\ IF pc[p] = "acquire"
       THEN Goto(p, "test") /\ UNCHANGED ready
       ELSE Goto(p, "notify") /\ ready' = 1
  /\ UNCHANGED <<state, chan, lock, proc, thread, next, j>>

Consume(c, p) ==
  /\ On(c, p, "test") /\ ready = 1
  /\ ready' = 0
  /\ lk' = Idle
  /\ Goto(p, "run")
  /\ UNCHANGED <<state, chan, lock, proc, thread, next, j>>

\* Mutant: sleep gives up the condition lock without holding p->lock.
SleepUnlocked(c, p) ==
  /\ On(c, p, "test") /\ ready = 0 /\ lock[p] = Idle
  /\ lk' = Idle
  /\ Goto(p, "sleep_locked")
  /\ UNCHANGED <<state, chan, lock, ready, proc, thread, next, j>>

SleepLock(c, p) ==
  /\ On(c, p, "test") /\ ready = 0 /\ lock[p] = Idle
  /\ lock' = [lock EXCEPT ![p] = c]
  /\ lk' = Idle
  /\ Goto(p, "sleep_locked")
  /\ UNCHANGED <<state, chan, ready, proc, thread, next, j>>

Sleep(c, p) ==
  /\ On(c, p, "sleep_locked")
  /\ chan' = [chan EXCEPT ![p] = 1]
  /\ state' = [state EXCEPT ![p] = "SLEEPING"]
  /\ Goto(p, "sleep")
  /\ UNCHANGED <<lock, lk, ready, proc, thread, next, j>>

WakeupCall(c, p) ==
  /\ On(c, p, "notify")
  /\ j' = [j EXCEPT ![p] = 1]
  /\ Goto(p, "wakeup")
  /\ UNCHANGED <<state, chan, lock, lk, ready, proc, thread, next>>

Wakeup(c, p) ==
  /\ On(c, p, "wakeup") /\ j[p] <= NPROC
  /\ j[p] # p => lock[j[p]] = Idle
  /\ state' = IF j[p] # p /\ state[j[p]] = "SLEEPING" /\ chan[j[p]] = 1
                THEN [state EXCEPT ![j[p]] = "RUNNABLE"] ELSE state
  /\ j' = [j EXCEPT ![p] = @ + 1]
  /\ UNCHANGED <<chan, lock, lk, ready, proc, thread, next, pc>>

Release(c, p) ==
  /\ On(c, p, "wakeup") /\ j[p] > NPROC
  /\ lk' = Idle
  /\ j' = [j EXCEPT ![p] = 0]
  /\ Goto(p, "run")
  /\ UNCHANGED <<state, chan, lock, ready, proc, thread, next>>

\* kill() reaches q's slot.
Kill(c, p, q) ==
  /\ On(c, p, "run") /\ lock[q] = Idle /\ state[q] = "SLEEPING"
  /\ state' = [state EXCEPT ![q] = "RUNNABLE"]
  /\ UNCHANGED <<chan, lock, lk, ready, proc, thread, next, pc, j>>

Scheduler(c) == Skip(c) \/ Dispatch(c) \/ Return(c)

Kernel(c, p) == Swtch(c, p) \/ Resume(c, p) \/ Acquire(c, p) \/ Consume(c, p) \/ SleepLock(c, p)
                \/ Sleep(c, p) \/ WakeupCall(c, p) \/ Wakeup(c, p) \/ Release(c, p)

User(c, p) == \/ Call(c, p, "acquire") \/ Call(c, p, "signal")
              \/ \E q \in Proc : Kill(c, p, q)

Next == \E c \in CPU : Scheduler(c) \/ \E p \in Proc : Yield(c, p) \/ Kernel(c, p) \/ User(c, p)

Spec == Init /\ [][Next]_vars

(***************************************************************************)
(* Properties.                                                             *)
(***************************************************************************)
TypeOK ==
  /\ state \in [Proc -> {"RUNNABLE", "RUNNING", "SLEEPING"}]
  /\ chan \in [Proc -> 0 .. 1]
  /\ lock \in [Proc -> CPU \cup {Idle}]
  /\ lk \in Proc \cup {Idle}
  /\ ready \in 0 .. 1
  /\ proc \in [CPU -> Proc \cup {Idle}]
  /\ thread \in [CPU -> Proc \cup {Idle}]
  /\ next \in [CPU -> Proc]
  /\ pc \in [Proc -> {"run", "yield", "yielded", "acquire", "signal", "test", "sleep_locked",
                      "sleep", "slept", "notify", "wakeup"}]
  /\ j \in [Proc -> 0 .. NPROC + 1]

\* No two CPUs execute on one kernel stack: sched() holds p->lock until the
\* scheduler has left the stack.
OneStack ==
  \A c, d \in CPU : thread[c] # Idle /\ thread[c] = thread[d] => c = d

\* The conditions sched() panics on: a process gives up the CPU with its own
\* lock and no other held, and not in state RUNNING.
SchedChecks ==
  \A c \in CPU, p \in Proc :
    thread[c] = p /\ pc[p] \in {"yield", "sleep"} =>
      /\ state[p] # "RUNNING" /\ lk # p
      /\ \A q \in Proc : lock[q] = c <=> q = p

\* Processes that have given up lk in sleep() and have not been woken.
Sleeping == {p \in Proc : pc[p] = "sleep_locked" \/ state[p] = "SLEEPING"}

\* sleep and wakeup are atomic for the users of the condition lock: a wakeup
\* takes effect when its scan of the table starts, and the scan misses no
\* process that had given up the lock before.
Abstract == INSTANCE CondVar WITH
              Nobody <- Idle, owner <- lk,
              waiters <- IF \E p \in Proc : pc[p] = "wakeup" THEN {} ELSE Sleeping

RefinesCondVar == Abstract!Spec

(***************************************************************************)
(* Liveness.  CPUs make progress, spinning for a lock succeeds in the end, *)
(* and timer interrupts keep coming.                                       *)
(***************************************************************************)
FairSpec ==
  /\ Spec
  /\ \A c \in CPU : SF_vars(Scheduler(c))
  /\ \A p \in Proc : /\ SF_vars(\E c \in CPU : Kernel(c, p))
                     /\ SF_vars(\E c \in CPU : Yield(c, p))

\* Round robin: a RUNNABLE process gets a CPU.
Runs == \A p \in Proc : state[p] = "RUNNABLE" ~> state[p] = "RUNNING"
=============================================================================
