---------------------------- MODULE SchedProofs ----------------------------
(***************************************************************************)
(* Proofs about kernel/proc.c's scheduler, sleep and wakeup for any number *)
(* of processes and CPUs.                                                  *)
(***************************************************************************)
EXTENDS Sched, TLAPS

Switching == {"yield", "sleep", "sleep_locked", "yielded", "slept"}

\* A CPU's thread is the process it has chosen, no two CPUs have chosen the
\* same one, and only that CPU holds its lock.
CpuInv ==
  /\ \A c \in CPU : /\ proc[c] # Idle => proc[c] = next[c]
                    /\ thread[c] # Idle => thread[c] = proc[c]
                    /\ proc[c] # Idle /\ thread[c] = Idle =>
                         lock[proc[c]] = c /\ pc[proc[c]] \in {"yielded", "slept"}
  /\ \A c, d \in CPU : proc[c] # Idle /\ proc[c] = proc[d] => c = d
  /\ \A p \in Proc : lock[p] # Idle => proc[lock[p]] = p
  /\ \A c \in CPU, p \in Proc :
       thread[c] = p => IF pc[p] \in Switching THEN lock[p] = c ELSE lock[p] = Idle

\* The state of a process follows from where it is.
StateInv ==
  \A p \in Proc :
    /\ pc[p] = "yield" => state[p] = "RUNNABLE"
    /\ pc[p] = "sleep" => state[p] = "SLEEPING"
    /\ pc[p] \notin {"yield", "sleep", "yielded", "slept"} => state[p] = "RUNNING"
    /\ pc[p] = "yielded" => state[p] # "SLEEPING"
    /\ state[p] = "SLEEPING" => chan[p] = 1
    /\ pc[p] \in {"yielded", "slept"} =>
         (state[p] = "RUNNING" <=> \E c \in CPU : thread[c] = p)
    /\ pc[p] \notin {"yielded", "slept"} => \E c \in CPU : thread[c] = p

\* lk is held by the process inside the critical section, and a wakeup in
\* progress has left no sleeper behind.
LkInv ==
  \A p \in Proc :
    /\ lk = p <=> pc[p] \in {"test", "notify", "wakeup"}
    /\ pc[p] = "wakeup" => j[p] >= 1 /\ \A q \in Sleeping : q >= j[p]

SchedInv == TypeOK /\ CpuInv /\ StateInv /\ LkInv

\* Idle is not a process.
LEMMA IdleIsNoProcess == Idle \notin Proc
  BY SchedAssumption DEF Proc

\* All processes start RUNNABLE and all CPUs in the scheduler.
LEMMA InitInv == Init => SchedInv
<1> SUFFICES ASSUME Init PROVE SchedInv
  OBVIOUS
<1> USE SchedAssumption, IdleIsNoProcess DEF Init
<1>1. TypeOK BY DEF TypeOK, Proc
<1>2. CpuInv BY <1>1 DEF TypeOK, CpuInv, Switching
<1>3. StateInv BY <1>1 DEF TypeOK, StateInv
<1>4. LkInv BY DEF LkInv, Proc
<1> QED BY <1>1, <1>2, <1>3, <1>4 DEF SchedInv

\* The scheduler passes over a slot.
LEMMA SkipInv ==
  ASSUME SchedInv, NEW c \in CPU, Skip(c)
  PROVE  SchedInv'
<1> USE SchedAssumption, IdleIsNoProcess DEF Skip, On, Goto
<1>1. TypeOK' BY DEF SchedInv, TypeOK, CpuInv, Proc, Following
<1>2. CpuInv' BY DEF SchedInv, TypeOK, CpuInv, StateInv, Switching
<1>3. StateInv' BY DEF SchedInv, TypeOK, CpuInv, StateInv, Switching
<1>4. LkInv' BY DEF SchedInv, TypeOK, CpuInv, StateInv, LkInv, Sleeping, Switching
<1> QED BY <1>1, <1>2, <1>3, <1>4 DEF SchedInv

\* The scheduler switches to a RUNNABLE process.
LEMMA DispatchInv ==
  ASSUME SchedInv, NEW c \in CPU, Dispatch(c)
  PROVE  SchedInv'
<1> USE SchedAssumption, IdleIsNoProcess DEF Dispatch, On, Goto
<1>1. TypeOK' BY DEF SchedInv, TypeOK
<1>5. /\ \A d \in CPU : proc[d] # next[c] /\ thread[d] # next[c]
      /\ pc[next[c]] \in {"yielded", "slept"}
  BY DEF SchedInv, TypeOK, CpuInv, StateInv, Switching
<1>6. next[c] \in Proc
  BY DEF SchedInv, TypeOK
<1>2. CpuInv' BY <1>5, <1>6 DEF SchedInv, TypeOK, CpuInv, StateInv, Switching
<1>3. StateInv' BY <1>5, <1>6 DEF SchedInv, TypeOK, CpuInv, StateInv, Switching
<1>4. LkInv' BY DEF SchedInv, TypeOK, CpuInv, StateInv, LkInv, Sleeping, Switching
<1> QED BY <1>1, <1>2, <1>3, <1>4 DEF SchedInv

\* The scheduler releases the lock of the process that came back.
LEMMA ReturnInv ==
  ASSUME SchedInv, NEW c \in CPU, Return(c)
  PROVE  SchedInv'
<1> USE SchedAssumption, IdleIsNoProcess DEF Return, On, Goto
<1>1. TypeOK' BY DEF SchedInv, TypeOK, CpuInv, Proc, Following
<1>2. CpuInv' BY DEF SchedInv, TypeOK, CpuInv, StateInv, Switching
<1>3. StateInv' BY DEF SchedInv, TypeOK, CpuInv, StateInv, Switching
<1>4. LkInv' BY DEF SchedInv, TypeOK, CpuInv, StateInv, LkInv, Sleeping, Switching
<1> QED BY <1>1, <1>2, <1>3, <1>4 DEF SchedInv

\* A process yields on a timer interrupt.
LEMMA YieldInv ==
  ASSUME SchedInv, NEW c \in CPU, NEW p \in Proc, Yield(c, p)
  PROVE  SchedInv'
<1> USE SchedAssumption, IdleIsNoProcess DEF Yield, On, Goto
<1>1. TypeOK' BY DEF SchedInv, TypeOK
<1>2. CpuInv' BY DEF SchedInv, TypeOK, CpuInv, StateInv, Switching
<1>3. StateInv' BY DEF SchedInv, TypeOK, CpuInv, StateInv, Switching
<1>4. LkInv' BY DEF SchedInv, TypeOK, CpuInv, StateInv, LkInv, Sleeping, Switching
<1> QED BY <1>1, <1>2, <1>3, <1>4 DEF SchedInv

\* sched() leaves the process's stack.
LEMMA SwtchInv ==
  ASSUME SchedInv, NEW c \in CPU, NEW p \in Proc, Swtch(c, p)
  PROVE  SchedInv'
<1> USE SchedAssumption, IdleIsNoProcess DEF Swtch, On, Goto
<1>1. TypeOK' BY DEF SchedInv, TypeOK
<1>2. CpuInv' BY DEF SchedInv, TypeOK, CpuInv, StateInv, Switching
<1>3. StateInv' BY DEF SchedInv, TypeOK, CpuInv, StateInv, Switching
<1>4. LkInv' BY DEF SchedInv, TypeOK, CpuInv, StateInv, LkInv, Sleeping, Switching
<1> QED BY <1>1, <1>2, <1>3, <1>4 DEF SchedInv

\* A process that was switched to releases its lock.
LEMMA ResumeInv ==
  ASSUME SchedInv, NEW c \in CPU, NEW p \in Proc, Resume(c, p)
  PROVE  SchedInv'
<1> USE SchedAssumption, IdleIsNoProcess DEF Resume, On, Goto
<1>1. TypeOK' BY DEF SchedInv, TypeOK
<1>2. CpuInv' BY DEF SchedInv, TypeOK, CpuInv, StateInv, Switching
<1>3. StateInv' BY DEF SchedInv, TypeOK, CpuInv, StateInv, Switching
<1>4. LkInv' BY DEF SchedInv, TypeOK, CpuInv, StateInv, LkInv, Sleeping, Switching
<1> QED BY <1>1, <1>2, <1>3, <1>4 DEF SchedInv

\* A process starts to wait or to signal.
LEMMA CallInv ==
  ASSUME SchedInv, NEW c \in CPU, NEW p \in Proc, NEW l \in {"acquire", "signal"}, Call(c, p, l)
  PROVE  SchedInv'
<1> USE SchedAssumption, IdleIsNoProcess DEF Call, On, Goto
<1>1. TypeOK' BY DEF SchedInv, TypeOK
<1>2. CpuInv' BY DEF SchedInv, TypeOK, CpuInv, StateInv, Switching
<1>3. StateInv' BY DEF SchedInv, TypeOK, CpuInv, StateInv, Switching
<1>4. LkInv' BY DEF SchedInv, TypeOK, CpuInv, StateInv, LkInv, Sleeping, Switching
<1> QED BY <1>1, <1>2, <1>3, <1>4 DEF SchedInv

\* The condition lock is taken.
LEMMA AcquireInv ==
  ASSUME SchedInv, NEW c \in CPU, NEW p \in Proc, Acquire(c, p)
  PROVE  SchedInv'
<1> USE SchedAssumption, IdleIsNoProcess DEF Acquire, On, Goto
<1>5. PICK l \in {"test", "notify"} : pc' = [pc EXCEPT ![p] = l]
  OBVIOUS
<1>1. TypeOK' BY <1>5 DEF SchedInv, TypeOK, CpuInv
<1>2. CpuInv' BY <1>5 DEF SchedInv, TypeOK, CpuInv, StateInv, Switching
<1>3. StateInv' BY <1>5 DEF SchedInv, TypeOK, CpuInv, StateInv, Switching
<1>4. LkInv' BY DEF SchedInv, TypeOK, CpuInv, StateInv, LkInv, Sleeping, Switching
<1> QED BY <1>1, <1>2, <1>3, <1>4 DEF SchedInv

\* The condition is found true.
LEMMA ConsumeInv ==
  ASSUME SchedInv, NEW c \in CPU, NEW p \in Proc, Consume(c, p)
  PROVE  SchedInv'
<1> USE SchedAssumption, IdleIsNoProcess DEF Consume, On, Goto
<1>1. TypeOK' BY DEF SchedInv, TypeOK
<1>2. CpuInv' BY DEF SchedInv, TypeOK, CpuInv, StateInv, Switching
<1>3. StateInv' BY DEF SchedInv, TypeOK, CpuInv, StateInv, Switching
<1>4. LkInv' BY DEF SchedInv, TypeOK, CpuInv, StateInv, LkInv, Sleeping, Switching
<1> QED BY <1>1, <1>2, <1>3, <1>4 DEF SchedInv

\* sleep() takes p->lock and gives up the condition lock.
LEMMA SleepLockInv ==
  ASSUME SchedInv, NEW c \in CPU, NEW p \in Proc, SleepLock(c, p)
  PROVE  SchedInv'
<1> USE SchedAssumption, IdleIsNoProcess DEF SleepLock, On, Goto
<1>1. TypeOK' BY DEF SchedInv, TypeOK
<1>2. CpuInv' BY DEF SchedInv, TypeOK, CpuInv, StateInv, Switching
<1>3. StateInv' BY DEF SchedInv, TypeOK, CpuInv, StateInv, Switching
<1>4. LkInv' BY DEF SchedInv, TypeOK, CpuInv, StateInv, LkInv, Sleeping, Switching
<1> QED BY <1>1, <1>2, <1>3, <1>4 DEF SchedInv

\* sleep() marks the process SLEEPING.
LEMMA SleepInv ==
  ASSUME SchedInv, NEW c \in CPU, NEW p \in Proc, Sleep(c, p)
  PROVE  SchedInv'
<1> USE SchedAssumption, IdleIsNoProcess DEF Sleep, On, Goto
<1>1. TypeOK' BY DEF SchedInv, TypeOK
<1>2. CpuInv' BY DEF SchedInv, TypeOK, CpuInv, StateInv, Switching
<1>3. StateInv' BY DEF SchedInv, TypeOK, CpuInv, StateInv, Switching
<1>4. LkInv' BY DEF SchedInv, TypeOK, CpuInv, StateInv, LkInv, Sleeping, Switching
<1> QED BY <1>1, <1>2, <1>3, <1>4 DEF SchedInv

\* wakeup() starts its scan.
LEMMA WakeupCallInv ==
  ASSUME SchedInv, NEW c \in CPU, NEW p \in Proc, WakeupCall(c, p)
  PROVE  SchedInv'
<1> USE SchedAssumption, IdleIsNoProcess DEF WakeupCall, On, Goto
<1>1. TypeOK' BY DEF SchedInv, TypeOK
<1>2. CpuInv' BY DEF SchedInv, TypeOK, CpuInv, StateInv, Switching
<1>3. StateInv' BY DEF SchedInv, TypeOK, CpuInv, StateInv, Switching
<1>4. LkInv' BY DEF SchedInv, TypeOK, CpuInv, StateInv, LkInv, Sleeping, Switching, Proc
<1> QED BY <1>1, <1>2, <1>3, <1>4 DEF SchedInv

\* wakeup() looks at one slot.
LEMMA WakeupInv ==
  ASSUME SchedInv, NEW c \in CPU, NEW p \in Proc, Wakeup(c, p)
  PROVE  SchedInv'
<1> USE SchedAssumption, IdleIsNoProcess DEF Wakeup, On, Goto
<1>5. j[p] \in 1 .. NPROC /\ j[p] \in Proc
  BY DEF SchedInv, TypeOK, LkInv, Proc
<1>6. j' \in [Proc -> 0 .. NPROC + 1]
  BY <1>5 DEF SchedInv, TypeOK
<1>1. TypeOK' BY <1>5, <1>6 DEF SchedInv, TypeOK
<1>2. CpuInv' BY <1>5 DEF SchedInv, TypeOK, CpuInv, StateInv, Switching
<1>3. StateInv' BY <1>5 DEF SchedInv, TypeOK, CpuInv, StateInv, Switching
<1>7. Sleeping' \subseteq Sleeping
  BY <1>5 DEF SchedInv, TypeOK, Sleeping
<1>8. j[p] \notin Sleeping'
  BY <1>5 DEF SchedInv, TypeOK, CpuInv, StateInv, Sleeping, Switching
<1>9. \A q \in Sleeping' : q >= j'[p]
  BY <1>5, <1>7, <1>8 DEF SchedInv, TypeOK, LkInv, Sleeping, Proc
<1>10. j'[p] >= 1 /\ \A q \in Proc : pc[q] = "wakeup" => q = p
  BY <1>5 DEF SchedInv, TypeOK, LkInv
<1>4. LkInv' BY <1>9, <1>10 DEF SchedInv, LkInv
<1> QED BY <1>1, <1>2, <1>3, <1>4 DEF SchedInv

\* The condition lock is released after wakeup().
LEMMA ReleaseInv ==
  ASSUME SchedInv, NEW c \in CPU, NEW p \in Proc, Release(c, p)
  PROVE  SchedInv'
<1> USE SchedAssumption, IdleIsNoProcess DEF Release, On, Goto
<1>1. TypeOK' BY DEF SchedInv, TypeOK
<1>2. CpuInv' BY DEF SchedInv, TypeOK, CpuInv, StateInv, Switching
<1>3. StateInv' BY DEF SchedInv, TypeOK, CpuInv, StateInv, Switching
<1>4. LkInv' BY DEF SchedInv, TypeOK, CpuInv, StateInv, LkInv, Sleeping, Switching
<1> QED BY <1>1, <1>2, <1>3, <1>4 DEF SchedInv

\* kill() wakes a sleeper.
LEMMA KillInv ==
  ASSUME SchedInv, NEW c \in CPU, NEW p \in Proc, NEW q \in Proc, Kill(c, p, q)
  PROVE  SchedInv'
<1> USE SchedAssumption, IdleIsNoProcess DEF Kill, On, Goto
<1>1. TypeOK' BY DEF SchedInv, TypeOK
<1>2. CpuInv' BY DEF SchedInv, TypeOK, CpuInv, StateInv, Switching
<1>3. StateInv' BY DEF SchedInv, TypeOK, CpuInv, StateInv, Switching
<1>4. LkInv' BY DEF SchedInv, TypeOK, CpuInv, StateInv, LkInv, Sleeping, Switching
<1> QED BY <1>1, <1>2, <1>3, <1>4 DEF SchedInv

\* Nothing happens.
LEMMA StutterInv == SchedInv /\ UNCHANGED vars => SchedInv'
  BY DEF vars, SchedInv, TypeOK, CpuInv, StateInv, LkInv, Sleeping

\* Every step of every CPU preserves the invariant.
LEMMA NextInv == SchedInv /\ [Next]_vars => SchedInv'
<1> SUFFICES ASSUME SchedInv, [Next]_vars PROVE SchedInv'
  OBVIOUS
<1>1. ASSUME NEW c \in CPU, Scheduler(c) PROVE SchedInv'
  BY <1>1, SkipInv, DispatchInv, ReturnInv DEF Scheduler
<1>2. ASSUME NEW c \in CPU, NEW p \in Proc, Yield(c, p) \/ Kernel(c, p) PROVE SchedInv'
  BY <1>2, YieldInv, SwtchInv, ResumeInv, AcquireInv, ConsumeInv, SleepLockInv, SleepInv,
     WakeupCallInv, WakeupInv, ReleaseInv DEF Kernel
<1>3. ASSUME NEW c \in CPU, NEW p \in Proc, User(c, p) PROVE SchedInv'
  BY <1>3, CallInv, KillInv DEF User
<1> QED BY <1>1, <1>2, <1>3, StutterInv DEF Next

\* The invariant holds throughout.
THEOREM InvariantHolds == Spec => []SchedInv
  BY InitInv, NextInv, PTL DEF Spec

\* Type correctness.
THEOREM TypeCorrect == Spec => []TypeOK
<1>1. SchedInv => TypeOK
  BY DEF SchedInv
<1> QED BY <1>1, InvariantHolds, PTL

\* No kernel stack is executed on by two CPUs.
THEOREM StacksExclusive == Spec => []OneStack
<1>1. SchedInv => OneStack
  BY DEF SchedInv, CpuInv, OneStack
<1> QED BY <1>1, InvariantHolds, PTL

\* None of sched()'s panics can happen.
THEOREM SchedNeverPanics == Spec => []SchedChecks
<1>1. SchedInv => SchedChecks
  BY SchedAssumption, IdleIsNoProcess DEF SchedInv, TypeOK, CpuInv, StateInv, LkInv, SchedChecks, Switching
<1> QED BY <1>1, InvariantHolds, PTL

(***************************************************************************)
(* sleep and wakeup implement the atomic condition variable.               *)
(***************************************************************************)
Waiters == IF \E p \in Proc : pc[p] = "wakeup" THEN {} ELSE Sleeping

\* Nobody waits at first.
LEMMA InitRefines == Init => Abstract!Init
<1> SUFFICES ASSUME Init PROVE Abstract!Init
  OBVIOUS
<1>1. Sleeping = {} BY DEF Init, Sleeping
<1> QED BY <1>1 DEF Init, Abstract!Init

\* A scheduler step changes neither the condition lock nor who sleeps.
LEMMA SchedulerRefines ==
  ASSUME SchedInv, NEW c \in CPU, Scheduler(c)
  PROVE  UNCHANGED <<lk, Waiters>>
<1>1. lk' = lk /\ pc' = pc
  BY DEF Scheduler, Skip, Dispatch, Return
<1>2. \A p \in Proc : state'[p] = "SLEEPING" <=> state[p] = "SLEEPING"
  BY DEF Scheduler, Skip, Dispatch, Return, SchedInv, TypeOK
<1>3. Sleeping' = Sleeping
  BY <1>1, <1>2 DEF Sleeping
<1> QED BY <1>1, <1>3 DEF Waiters

\* Steps outside the protocol: yield, swtch, resume, the calls and sleep's
\* change of state, made under p->lock after the lock was given up.
LEMMA LocalRefines ==
  ASSUME SchedInv, NEW c \in CPU, NEW p \in Proc,
         \/ Yield(c, p) \/ Swtch(c, p) \/ Resume(c, p) \/ Sleep(c, p)
         \/ \E l \in {"acquire", "signal"} : Call(c, p, l)
  PROVE  UNCHANGED <<lk, Waiters>>
<1> USE DEF Yield, Swtch, Resume, Sleep, Call, On, Goto
<1>1. lk' = lk /\ \A q \in Proc : pc'[q] = "wakeup" <=> pc[q] = "wakeup"
  BY DEF SchedInv, TypeOK
<1>2. \A q \in Proc : q \in Sleeping' <=> q \in Sleeping
  BY DEF SchedInv, TypeOK, StateInv, Sleeping
<1>3. Sleeping' = Sleeping
  BY <1>2 DEF Sleeping
<1> QED BY <1>1, <1>3 DEF Waiters

\* While p holds the condition lock only p can be in wakeup().
LEMMA HolderAlone ==
  ASSUME SchedInv, NEW p \in Proc, lk = p \/ lk = Idle
  PROVE  \A q \in Proc : pc[q] = "wakeup" => q = p /\ lk = p
  BY IdleIsNoProcess DEF SchedInv, LkInv

\* Taking the condition lock.
LEMMA AcquireRefines ==
  ASSUME SchedInv, NEW c \in CPU, NEW p \in Proc, Acquire(c, p)
  PROVE  Abstract!Acquire(p)
<1> USE DEF Acquire, Goto
<1>1. PICK l \in {"test", "notify"} : pc' = [pc EXCEPT ![p] = l]
  OBVIOUS
<1>2. \A q \in Proc : pc[q] # "wakeup" /\ pc'[q] # "wakeup"
  BY <1>1, HolderAlone, IdleIsNoProcess DEF SchedInv, TypeOK
<1>3. Sleeping' = Sleeping /\ p \notin Sleeping
  BY <1>1 DEF SchedInv, TypeOK, StateInv, Sleeping
<1> QED BY <1>2, <1>3 DEF Abstract!Acquire

\* Giving it up with the condition taken.
LEMMA ConsumeRefines ==
  ASSUME SchedInv, NEW c \in CPU, NEW p \in Proc, Consume(c, p)
  PROVE  Abstract!Release(p)
<1> USE DEF Consume, On, Goto
<1>1. lk = p /\ \A q \in Proc : pc[q] # "wakeup" /\ pc'[q] # "wakeup"
  BY DEF SchedInv, TypeOK, LkInv
<1>2. Sleeping' = Sleeping
  BY DEF SchedInv, TypeOK, StateInv, Sleeping
<1> QED BY <1>1, <1>2 DEF Abstract!Release

\* Giving it up in sleep(): from here on p counts as asleep.
LEMMA SleepLockRefines ==
  ASSUME SchedInv, NEW c \in CPU, NEW p \in Proc, SleepLock(c, p)
  PROVE  Abstract!Sleep(p)
<1> USE DEF SleepLock, On, Goto
<1>1. lk = p /\ \A q \in Proc : pc[q] # "wakeup" /\ pc'[q] # "wakeup"
  BY DEF SchedInv, TypeOK, LkInv
<1>2. Sleeping' = Sleeping \cup {p}
  BY DEF SchedInv, TypeOK, Sleeping
<1> QED BY <1>1, <1>2 DEF Abstract!Sleep

\* The start of wakeup() wakes everybody at once.
LEMMA WakeupCallRefines ==
  ASSUME SchedInv, NEW c \in CPU, NEW p \in Proc, WakeupCall(c, p)
  PROVE  Abstract!Wakeup(p)
<1>1. lk = p /\ lk' = lk /\ pc'[p] = "wakeup"
  BY DEF SchedInv, TypeOK, LkInv, WakeupCall, On, Goto
<1> QED BY <1>1 DEF Abstract!Wakeup

\* The rest of its scan is not visible.
LEMMA WakeupRefines ==
  ASSUME SchedInv, NEW c \in CPU, NEW p \in Proc, Wakeup(c, p)
  PROVE  UNCHANGED <<lk, Waiters>>
  BY DEF Wakeup, On, Waiters

\* When the scan is over nobody is left asleep.
LEMMA ReleaseRefines ==
  ASSUME SchedInv, NEW c \in CPU, NEW p \in Proc, Release(c, p)
  PROVE  Abstract!Release(p)
<1> USE DEF Release, On, Goto
<1>1. lk = p /\ \A q \in Proc : pc'[q] # "wakeup"
  BY DEF SchedInv, TypeOK, LkInv
<1>2. j[p] \in Nat /\ NPROC \in Nat /\ j[p] > NPROC
  BY SchedAssumption DEF SchedInv, TypeOK
<1>3. ASSUME NEW q \in Sleeping PROVE FALSE
  <2>1. q \in Nat /\ q <= NPROC
    BY SchedAssumption DEF Sleeping, Proc
  <2>2. q >= j[p]
    BY DEF SchedInv, LkInv
  <2> QED BY <1>2, <2>1, <2>2
<1>4. Sleeping' = {}
  BY <1>3 DEF SchedInv, TypeOK, Sleeping
<1> QED BY <1>1, <1>4 DEF Abstract!Release

\* kill() takes one sleeper out, or one a wakeup has already accounted for.
LEMMA KillRefines ==
  ASSUME SchedInv, NEW c \in CPU, NEW p \in Proc, NEW q \in Proc, Kill(c, p, q)
  PROVE  Abstract!Kill(q) \/ UNCHANGED <<lk, Waiters>>
<1> USE DEF Kill, On
<1>1. lk' = lk /\ pc' = pc
  OBVIOUS
<1>2. q \in Sleeping /\ Sleeping' = Sleeping \ {q}
  BY DEF SchedInv, TypeOK, StateInv, Sleeping
<1>3. CASE \E r \in Proc : pc[r] = "wakeup"
  BY <1>1, <1>3 DEF Waiters
<1>4. CASE ~\E r \in Proc : pc[r] = "wakeup"
  BY <1>1, <1>2, <1>4 DEF Abstract!Kill
<1> QED BY <1>3, <1>4

\* Every step is a step of the condition variable or invisible to it.
LEMMA StepRefines == SchedInv /\ [Next]_vars => [Abstract!Next]_(Abstract!vars)
<1> SUFFICES ASSUME SchedInv, [Next]_vars
             PROVE  Abstract!Next \/ UNCHANGED <<lk, Waiters>>
  BY DEF Abstract!vars, Waiters
<1>1. ASSUME NEW c \in CPU, Scheduler(c) PROVE UNCHANGED <<lk, Waiters>>
  BY <1>1, SchedulerRefines
<1>2. ASSUME NEW c \in CPU, NEW p \in Proc, Yield(c, p) \/ Kernel(c, p)
      PROVE  Abstract!Next \/ UNCHANGED <<lk, Waiters>>
  <2>1. CASE Yield(c, p) \/ Swtch(c, p) \/ Resume(c, p) \/ Sleep(c, p)
    BY <2>1, LocalRefines
  <2>2. CASE Acquire(c, p)
    BY <2>2, AcquireRefines DEF Abstract!Next
  <2>3. CASE Consume(c, p) \/ Release(c, p)
    BY <2>3, ConsumeRefines, ReleaseRefines DEF Abstract!Next
  <2>4. CASE SleepLock(c, p)
    BY <2>4, SleepLockRefines DEF Abstract!Next
  <2>5. CASE WakeupCall(c, p) \/ Wakeup(c, p)
    BY <2>5, WakeupCallRefines, WakeupRefines DEF Abstract!Next
  <2> QED BY <1>2, <2>1, <2>2, <2>3, <2>4, <2>5 DEF Kernel
<1>3. ASSUME NEW c \in CPU, NEW p \in Proc, User(c, p)
      PROVE  Abstract!Next \/ UNCHANGED <<lk, Waiters>>
  <2>1. CASE \E l \in {"acquire", "signal"} : Call(c, p, l)
    BY <2>1, LocalRefines
  <2>2. CASE \E q \in Proc : Kill(c, p, q)
    BY <2>2, KillRefines DEF Abstract!Next
  <2> QED BY <1>3, <2>1, <2>2 DEF User
<1>4. CASE UNCHANGED vars
  BY <1>4 DEF vars, Waiters, Sleeping
<1> QED BY <1>1, <1>2, <1>3, <1>4 DEF Next

\* sleep() and wakeup() are atomic with respect to the condition lock.
THEOREM SchedRefinesCondVar == Spec => RefinesCondVar
  BY InitRefines, StepRefines, InvariantHolds, PTL DEF Spec, RefinesCondVar, Abstract!Spec
=============================================================================
