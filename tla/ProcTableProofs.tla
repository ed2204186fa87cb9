-------------------------- MODULE ProcTableProofs --------------------------
(***************************************************************************)
(* Proofs about fork, exit, wait and kill of kernel/proc.c for a process   *)
(* table of any size.                                                      *)
(***************************************************************************)
EXTENDS ProcTable, TLAPS

States == {"UNUSED", "USED", "RUNNABLE", "RUNNING", "SLEEPING", "ZOMBIE"}
Live == {"RUNNABLE", "RUNNING", "SLEEPING"}
Forking == {"fork_copy", "fork_parent", "fork_runnable"}
Holding == {"reparent", "wakeup", "zombie", "wait_scan", "wait_sleep"}
Scanning == {"alloc", "reparent", "wakeup", "wait_scan", "kill"}
Idle == {"user", "alloc", "kill", "exit", "wait_lock", "panic"}  \* no lock held
Label == Idle \cup Forking \cup Holding
           \cup {"gone", "forkret", "asleep", "sleep_sched", "exit_sched"}

\* The table, the locks and the indices of the scans.
Types ==
  /\ state \in [Slot -> States]
  /\ parent \in [Slot -> 0 .. NPROC]
  /\ chan \in [Slot -> 0 .. NPROC]
  /\ lock \in [Slot -> 0 .. NPROC]
  /\ wait_lock \in 0 .. NPROC
  /\ pc \in [Slot -> Label]
  /\ i \in [Slot -> 0 .. NPROC + 1]
  /\ j \in [Slot -> 0 .. NPROC + 1]
  /\ arg \in [Slot -> 0 .. NPROC]
  /\ \A p \in Slot : pc[p] \in Scanning => i[p] >= 1
  /\ \A p \in Slot : pc[p] = "wakeup" => j[p] >= 1

\* What the state of a slot says of its thread.
StateInv ==
  \A p \in Slot :
    /\ state[p] = "UNUSED" => pc[p] \in {"gone", "forkret"}
    /\ state[p] = "USED" => pc[p] = "forkret"
    /\ state[p] = "RUNNABLE" => pc[p] \in {"forkret", "asleep"}
    /\ state[p] = "RUNNING" => pc[p] \notin {"gone", "forkret", "asleep", "exit_sched"}
    /\ state[p] = "SLEEPING" => pc[p] = "asleep" /\ chan[p] = p
    /\ state[p] = "ZOMBIE" => pc[p] \in {"exit_sched", "gone"}

\* p->lock is held through swtch(), wait_lock in wait's scan and in exit.
LockInv ==
  \A p \in Slot :
    /\ pc[p] \in {"sleep_sched", "exit_sched"} => lock[p] = p
    /\ pc[p] \in Holding <=> wait_lock = p

\* The slot fork works on is USED and nobody else's.
ForkInv ==
  /\ \A p \in Slot : pc[p] \in Forking => arg[p] \in Slot /\ state[arg[p]] = "USED"
  /\ \A p, q \in Slot : pc[p] \in Forking /\ pc[q] \in Forking /\ arg[p] = arg[q] => p = q
  /\ \A p \in Slot : pc[p] = "fork_runnable" => parent[arg[p]] = p

\* A parent is alive, and every process has one but init, which never exits.
FamilyInv ==
  /\ state[initproc] \in Live
  /\ pc[initproc] \notin {"reparent", "wakeup", "zombie"}
  /\ \A c \in Slot : parent[c] # 0 => state[parent[c]] \in Live
  /\ \A c \in Slot \ {initproc} : state[c] \notin {"UNUSED", "USED"} => parent[c] # 0

\* reparent leaves no child behind.
OrphanInv ==
  \A p, c \in Slot :
    /\ pc[p] = "reparent" /\ c < i[p] => parent[c] # p
    /\ pc[p] = "wakeup" /\ c <= i[p] => parent[c] # p
    /\ pc[p] = "zombie" => parent[c] # p

\* p sleeps in wait, or is past its last look at its children.
Dozing(p) == pc[p] = "sleep_sched" \/ state[p] = "SLEEPING"

\* A wakeup of p has not come to p's slot yet.
Waking(p) == \E q \in Slot : pc[q] = "wakeup" /\ arg[q] = p /\ j[q] <= p

\* wait passes no zombie of its own.
ScanInv ==
  \A p, c \in Slot : parent[c] = p /\ state[c] = "ZOMBIE" =>
    /\ pc[p] = "wait_scan" => i[p] <= c
    /\ pc[p] # "wait_sleep"

\* exit has woken the parent by the time it makes the process a zombie, and
\* reparent is about to wake init if it gives it one.
WakeInv ==
  /\ \A c \in Slot : pc[c] = "wakeup" /\ i[c] > NPROC => arg[c] = parent[c]
  /\ \A c \in Slot :
       parent[c] # 0 /\ (pc[c] = "zombie" \/ (pc[c] = "wakeup" /\ i[c] > NPROC /\ j[c] > parent[c]))
         => ~Dozing(parent[c])
  /\ \A c \in Slot : state[c] = "ZOMBIE" /\ parent[c] # 0 /\ Dozing(parent[c]) => Waking(parent[c])

ProcInv == /\ Types /\ StateInv /\ LockInv /\ ForkInv /\ FamilyInv
           /\ OrphanInv /\ ScanInv /\ WakeInv

\* Slot 0 stands for none; init's slot exists.
LEMMA Slots ==
  /\ Slot \subseteq Nat /\ 0 \notin Slot /\ initproc \in Slot
  /\ \A n \in 0 .. NPROC : n # 0 => n \in Slot
  /\ \A s \in Slot : s \in 0 .. NPROC
  BY ProcAssumption DEF Slot, initproc

\* A parent is a slot.
LEMMA Parents ==
  ASSUME Types
  PROVE  \A s \in Slot : parent[s] # 0 => parent[s] \in Slot
<1>1. \A s \in Slot : parent[s] \in 0 .. NPROC
  BY Zenon DEF Types
<1> QED
  BY <1>1, Slots, Zenon

\* A step of p between places where it holds no lock leaves the invariant
\* alone, even if it makes a sleeping process RUNNABLE, as kill does.
LEMMA QuietStep ==
  ASSUME ProcInv, Types', NEW p \in Slot, pc[p] \in Idle, NEW l \in Idle,
         pc' = [pc EXCEPT ![p] = l],
         \A s \in Slot : state'[s] = state[s] \/ (state[s] = "SLEEPING" /\ state'[s] = "RUNNABLE"),
         \A s \in Slot \ {p} : i'[s] = i[s] /\ j'[s] = j[s] /\ arg'[s] = arg[s],
         UNCHANGED <<parent, chan, lock, wait_lock>>
  PROVE  ProcInv'
<1> USE DEF Idle
<1>1. \A s \in Slot : pc'[s] = IF s = p THEN l ELSE pc[s]
  BY Zenon DEF ProcInv, Types
<1>2. StateInv'
  BY <1>1 DEF ProcInv, StateInv
<1>3. LockInv'
  BY <1>1 DEF ProcInv, LockInv, Holding
<1>4. ForkInv'
  BY <1>1 DEF ProcInv, ForkInv, Forking
<1>5. FamilyInv'
  BY <1>1, Slots, Parents, ZenonT(30) DEF ProcInv, FamilyInv, Live
<1>6. OrphanInv'
  BY <1>1 DEF ProcInv, OrphanInv
<1>7. ScanInv'
  BY <1>1 DEF ProcInv, ScanInv
<1>8. WakeInv'
  <2>1. \A s \in Slot : Dozing(s)' => Dozing(s)
    BY <1>1 DEF Dozing
  <2>2. \A s \in Slot : Waking(s) => Waking(s)'
    BY <1>1 DEF Waking
  <2> QED
    BY <1>1, <2>1, <2>2, Parents DEF ProcInv, WakeInv
<1> QED
  BY <1>2, <1>3, <1>4, <1>5, <1>6, <1>7, <1>8, Zenon DEF ProcInv

\* A system call returns to a place where p holds no lock, its scan over.
LEMMA ReturnStep ==
  ASSUME Types, NEW p \in Slot, NEW r, Return(p, r)
  PROVE  /\ i' = [i EXCEPT ![p] = 0] /\ j' = [j EXCEPT ![p] = 0]
         /\ arg' = [arg EXCEPT ![p] = 0]
         /\ \E l \in {"user", "exit"} : pc' = [pc EXCEPT ![p] = l]
         /\ i' \in [Slot -> 0 .. NPROC + 1] /\ j' \in [Slot -> 0 .. NPROC + 1]
         /\ arg' \in [Slot -> 0 .. NPROC] /\ pc' \in [Slot -> Label]
         /\ \A s \in Slot : pc'[s] \in Scanning => i'[s] >= 1
         /\ \A s \in Slot : pc'[s] = "wakeup" => j'[s] >= 1
<1>1. /\ i' = [i EXCEPT ![p] = 0] /\ j' = [j EXCEPT ![p] = 0]
      /\ arg' = [arg EXCEPT ![p] = 0]
  BY Zenon DEF Return, Set
<1>2. PICK l \in {"user", "exit"} : pc' = [pc EXCEPT ![p] = l]
  BY Zenon DEF Return, Goto
<1>3. /\ i' \in [Slot -> 0 .. NPROC + 1] /\ j' \in [Slot -> 0 .. NPROC + 1]
      /\ arg' \in [Slot -> 0 .. NPROC]
  BY <1>1, ProcAssumption DEF Types
<1>4. pc' \in [Slot -> Label]
  BY <1>2, Zenon DEF Types, Label, Idle
<1>5. /\ \A s \in Slot : pc'[s] \in Scanning => i'[s] >= 1
      /\ \A s \in Slot : pc'[s] = "wakeup" => j'[s] >= 1
  BY <1>1, <1>2, Zenon DEF Types, Scanning
<1> QED
  BY <1>1, <1>2, <1>3, <1>4, <1>5, Zenon

\* The same, slot by slot.
LEMMA Returned ==
  ASSUME Types, NEW p \in Slot, NEW r, Return(p, r)
  PROVE  \E l \in {"user", "exit"} :
           /\ \A q \in Slot : pc'[q] = IF q = p THEN l ELSE pc[q]
           /\ \A q \in Slot \ {p} : i'[q] = i[q] /\ j'[q] = j[q] /\ arg'[q] = arg[q]
<1>1. PICK l \in {"user", "exit"} : pc' = [pc EXCEPT ![p] = l]
  BY ReturnStep, Zenon
<1>2. /\ i' = [i EXCEPT ![p] = 0] /\ j' = [j EXCEPT ![p] = 0]
      /\ arg' = [arg EXCEPT ![p] = 0]
  BY ReturnStep, Zenon
<1> QED
  BY <1>1, <1>2, Zenon DEF Types

\* fork begins to look for a slot.
LEMMA ForkCallInv ==
  ASSUME ProcInv, NEW p \in Slot, ForkCall(p)
  PROVE  ProcInv'
<1> USE DEF ForkCall, Goto, Set, proc
<1>1. Types'
  BY ProcAssumption DEF ProcInv, Types, Label, Idle, Scanning
<1> QED
  BY <1>1, QuietStep, Zenon DEF ProcInv, Types, Idle

\* allocproc finds no slot.
LEMMA AllocNoneInv ==
  ASSUME ProcInv, NEW p \in Slot, AllocNone(p)
  PROVE  ProcInv'
<1> USE DEF AllocNone, proc
<1>1. Types'
  BY ReturnStep, Zenon DEF ProcInv, Types
<1> QED
  BY <1>1, ReturnStep, QuietStep DEF ProcInv, Types, Idle

\* allocproc passes over a slot.
LEMMA AllocSkipInv ==
  ASSUME ProcInv, NEW p \in Slot, AllocSkip(p)
  PROVE  ProcInv'
<1> USE DEF AllocSkip, Set, proc
<1>1. Types'
  BY ProcAssumption DEF ProcInv, Types, Scanning
<1>2. pc' = [pc EXCEPT ![p] = "alloc"]
  BY Zenon DEF ProcInv, Types
<1> QED
  BY <1>1, <1>2, QuietStep, Zenon DEF ProcInv, Types, Idle

\* A process exits, or is killed.
LEMMA ExitCallInv ==
  ASSUME ProcInv, NEW p \in Slot, ExitCall(p)
  PROVE  ProcInv'
<1> USE DEF ExitCall, Goto, proc, locals
<1>1. Types'
  BY Zenon DEF ProcInv, Types, Label, Idle, Scanning
<1> QED
  BY <1>1, QuietStep, Zenon DEF ProcInv, Types, Idle

\* wait is called.
LEMMA WaitCallInv ==
  ASSUME ProcInv, NEW p \in Slot, WaitCall(p)
  PROVE  ProcInv'
<1> USE DEF WaitCall, Goto, proc, locals
<1>1. Types'
  BY Zenon DEF ProcInv, Types, Label, Idle, Scanning
<1> QED
  BY <1>1, QuietStep, Zenon DEF ProcInv, Types, Idle

\* kill is called.
LEMMA KillCallInv ==
  ASSUME ProcInv, NEW p \in Slot, NEW t \in 0 .. NPROC, KillCall(p, t)
  PROVE  ProcInv'
<1> USE DEF KillCall, Goto, Set, proc
<1>1. Types'
  BY ProcAssumption DEF ProcInv, Types, Label, Idle, Scanning
<1> QED
  BY <1>1, QuietStep, Zenon DEF ProcInv, Types, Idle

\* kill finds its process, and makes it RUNNABLE if it sleeps.
LEMMA KillFoundInv ==
  ASSUME ProcInv, NEW p \in Slot, KillFound(p)
  PROVE  ProcInv'
<1> USE DEF KillFound, Set
<1>1. /\ state' \in [Slot -> States]
      /\ \A s \in Slot : state'[s] = state[s] \/ (state[s] = "SLEEPING" /\ state'[s] = "RUNNABLE")
  BY Zenon DEF ProcInv, Types, States
<1>2. Types'
  BY <1>1, ReturnStep, Zenon DEF ProcInv, Types
<1> QED
  BY <1>1, <1>2, ReturnStep, QuietStep, SMTT(30) DEF ProcInv, Types, Idle

\* kill passes over a slot, or has seen them all.
LEMMA KillSkipInv ==
  ASSUME ProcInv, NEW p \in Slot, KillSkip(p)
  PROVE  ProcInv'
<1> USE DEF KillSkip, Set, proc
<1>1. CASE i[p] > NPROC
  <2>1. Types'
    BY <1>1, ReturnStep, SMTT(30) DEF ProcInv, Types
  <2> QED
    BY <1>1, <2>1, ReturnStep, QuietStep DEF ProcInv, Types, Idle
<1>2. CASE ~(i[p] > NPROC)
  <2>1. Types'
    BY <1>2, ProcAssumption DEF ProcInv, Types, Scanning
  <2>2. pc' = [pc EXCEPT ![p] = "kill"]
    BY <1>2, Zenon DEF ProcInv, Types
  <2> QED
    BY <1>2, <2>1, <2>2, QuietStep, Zenon DEF ProcInv, Types, Idle
<1> QED
  BY <1>1, <1>2, Zenon

\* allocproc takes an unused slot, which is neither p nor anybody's parent.
LEMMA AllocFoundInv ==
  ASSUME ProcInv, NEW p \in Slot, AllocFound(p)
  PROVE  ProcInv'
<1> DEFINE s == i[p]
<1>1. s \in Slot /\ s # p /\ state[s] = "UNUSED" /\ pc[s] \in {"gone", "forkret"}
  <2>1. s \in Slot
    BY DEF AllocFound, ProcInv, Types, Scanning, Slot
  <2> QED
    BY <2>1, Zenon DEF AllocFound, ProcInv, StateInv
<1>2. /\ \A q \in Slot : state'[q] = IF q = s THEN "USED" ELSE state[q]
      /\ \A q \in Slot : lock'[q] = IF q = s THEN p ELSE lock[q]
      /\ \A q \in Slot : arg'[q] = IF q = p THEN s ELSE arg[q]
      /\ \A q \in Slot : pc'[q] = IF q = s THEN "forkret" ELSE IF q = p THEN "fork_copy" ELSE pc[q]
      /\ pc[p] = "alloc"
      /\ UNCHANGED <<parent, chan, wait_lock, i, j>>
  BY <1>1, Zenon DEF AllocFound, Set, ProcInv, Types
<1>3. Types'
  BY <1>1, Slots, Zenon DEF AllocFound, Set, ProcInv, Types, States, Label, Forking, Scanning
<1> HIDE DEF s
<1>4. StateInv'
  BY <1>1, <1>2 DEF ProcInv, StateInv
<1>5. LockInv'
  BY <1>1, <1>2 DEF ProcInv, LockInv, Holding
<1>6. ForkInv'
  BY <1>1, <1>2 DEF ProcInv, ForkInv, Forking
<1>7. FamilyInv'
  BY <1>1, <1>2, Slots, Parents, Zenon DEF ProcInv, FamilyInv, Live
<1>8. OrphanInv'
  BY <1>1, <1>2 DEF ProcInv, OrphanInv
<1>9. ScanInv'
  BY <1>1, <1>2 DEF ProcInv, ScanInv
<1>10. WakeInv'
  <2>1. \A q \in Slot : Dozing(q)' => Dozing(q)
    BY <1>1, <1>2, Zenon DEF Dozing
  <2>2. \A q \in Slot : Waking(q) => Waking(q)'
    BY <1>1, <1>2, Zenon DEF Waking
  <2> QED
    BY <1>1, <1>2, <2>1, <2>2, Parents DEF ProcInv, WakeInv
<1> QED
  BY <1>3, <1>4, <1>5, <1>6, <1>7, <1>8, <1>9, <1>10, Zenon DEF ProcInv

\* The slot fork works on is not p, not anybody's parent and not init's.
LEMMA Forked ==
  ASSUME ProcInv, NEW p \in Slot, pc[p] \in Forking
  PROVE  /\ arg[p] \in Slot /\ arg[p] # p /\ arg[p] # initproc
         /\ state[arg[p]] = "USED" /\ pc[arg[p]] = "forkret"
         /\ \A c \in Slot : parent[c] # arg[p]
<1>1. arg[p] \in Slot /\ state[arg[p]] = "USED"
  BY Zenon DEF ProcInv, ForkInv
<1>2. pc[arg[p]] = "forkret"
  BY <1>1, Zenon DEF ProcInv, StateInv
<1>3. \A c \in Slot : parent[c] # arg[p]
  BY <1>1, Slots, Zenon DEF ProcInv, FamilyInv, Live
<1> QED
  BY <1>1, <1>2, <1>3, Zenon DEF ProcInv, FamilyInv, Live, Forking

\* fork gives its slot back.
LEMMA ForkFailInv ==
  ASSUME ProcInv, NEW p \in Slot, ForkFail(p)
  PROVE  ProcInv'
<1> DEFINE s == arg[p]
<1>1. /\ s \in Slot /\ s # p /\ s # initproc /\ state[s] = "USED" /\ pc[s] = "forkret"
      /\ pc[p] \in Forking
      /\ \A c \in Slot : parent[c] # s
      /\ 0 \notin Slot /\ initproc \in Slot
  BY Forked, Slots, Zenon DEF ForkFail, Forking
<1>2. /\ \A q \in Slot : state'[q] = IF q = s THEN "UNUSED" ELSE state[q]
      /\ \A q \in Slot : parent'[q] = IF q = s THEN 0 ELSE parent[q]
      /\ \A q \in Slot : chan'[q] = IF q = s THEN 0 ELSE chan[q]
      /\ \A q \in Slot : lock'[q] = IF q = s THEN 0 ELSE lock[q]
      /\ UNCHANGED wait_lock
  BY <1>1, Zenon DEF ForkFail, FreeProc, Set, ProcInv, Types
<1>3. PICK l \in {"user", "exit"} :
        /\ \A q \in Slot : pc'[q] = IF q = p THEN l ELSE pc[q]
        /\ \A q \in Slot \ {p} : i'[q] = i[q] /\ j'[q] = j[q] /\ arg'[q] = arg[q]
  BY Returned, Zenon DEF ForkFail, ProcInv
<1>4. Types'
  <2>1. /\ state' \in [Slot -> States] /\ parent' \in [Slot -> 0 .. NPROC]
        /\ chan' \in [Slot -> 0 .. NPROC] /\ lock' \in [Slot -> 0 .. NPROC]
        /\ wait_lock' \in 0 .. NPROC
    BY <1>1, ProcAssumption DEF ForkFail, FreeProc, Set, ProcInv, Types, States
  <2> QED
    BY <2>1, ReturnStep, Zenon DEF ForkFail, ProcInv, Types
<1> HIDE DEF s
<1>5. StateInv'
  BY <1>1, <1>2, <1>3 DEF ProcInv, StateInv, Forking
<1>6. LockInv'
  BY <1>1, <1>2, <1>3 DEF ProcInv, LockInv, Holding, Forking
<1>7. ForkInv'
  BY <1>1, <1>2, <1>3 DEF ProcInv, ForkInv, Forking, s
<1>8. FamilyInv'
  BY <1>1, <1>2, <1>3, Parents DEF ProcInv, FamilyInv, Live, Forking
<1>9. OrphanInv'
  BY <1>1, <1>2, <1>3 DEF ProcInv, OrphanInv
<1>10. ScanInv'
  BY <1>1, <1>2, <1>3 DEF ProcInv, ScanInv
<1>11. WakeInv'
  <2>1. \A q \in Slot : Dozing(q)' => Dozing(q)
    BY <1>1, <1>2, <1>3, Zenon DEF Dozing
  <2>2. \A q \in Slot : Waking(q) => Waking(q)'
    BY <1>1, <1>2, <1>3, Zenon DEF Waking, Forking
  <2> QED
    BY <1>1, <1>2, <1>3, <2>1, <2>2, Parents DEF ProcInv, WakeInv
<1> QED
  BY <1>4, <1>5, <1>6, <1>7, <1>8, <1>9, <1>10, <1>11, Zenon DEF ProcInv

\* fork lets the lock of the new process go.
LEMMA ForkCopyInv ==
  ASSUME ProcInv, NEW p \in Slot, ForkCopy(p)
  PROVE  ProcInv'
<1> DEFINE s == arg[p]
<1>1. /\ s \in Slot /\ s # p /\ pc[s] = "forkret" /\ pc[p] = "fork_copy"
  BY Forked, Zenon DEF ForkCopy, Forking
<1>2. /\ \A q \in Slot : lock'[q] = IF q = s THEN 0 ELSE lock[q]
      /\ \A q \in Slot : pc'[q] = IF q = p THEN "fork_parent" ELSE pc[q]
      /\ UNCHANGED <<state, parent, chan, wait_lock, i, j, arg>>
  BY <1>1, Zenon DEF ForkCopy, Goto, Set, ProcInv, Types, proc, locals
<1>3. Types'
  BY <1>1, ProcAssumption DEF ForkCopy, Goto, Set, ProcInv, Types, Label, Forking, Scanning,
     proc, locals
<1> HIDE DEF s
<1>4. StateInv'
  BY <1>1, <1>2, Zenon DEF ProcInv, StateInv
<1>5. LockInv'
  BY <1>1, <1>2 DEF ProcInv, LockInv, Holding
<1>6. ForkInv'
  BY <1>1, <1>2 DEF ProcInv, ForkInv, Forking
<1>7. FamilyInv'
  BY <1>1, <1>2, Slots, Zenon DEF ProcInv, FamilyInv
<1>8. OrphanInv'
  BY <1>1, <1>2 DEF ProcInv, OrphanInv
<1>9. ScanInv'
  BY <1>1, <1>2, Zenon DEF ProcInv, ScanInv
<1>10. WakeInv'
  <2>1. \A q \in Slot : Dozing(q)' => Dozing(q)
    BY <1>1, <1>2, Zenon DEF Dozing
  <2>2. \A q \in Slot : Waking(q) => Waking(q)'
    BY <1>1, <1>2, Zenon DEF Waking
  <2> QED
    BY <1>1, <1>2, <2>1, <2>2, Parents DEF ProcInv, WakeInv
<1> QED
  BY <1>3, <1>4, <1>5, <1>6, <1>7, <1>8, <1>9, <1>10, Zenon DEF ProcInv

\* fork sets the parent while nobody scans the table for children.
LEMMA ForkParentInv ==
  ASSUME ProcInv, NEW p \in Slot, ForkParent(p)
  PROVE  ProcInv'
<1> DEFINE s == arg[p]
<1>1. /\ s \in Slot /\ s # p /\ state[s] = "USED" /\ pc[s] = "forkret" /\ pc[p] = "fork_parent"
      /\ s # initproc
      /\ \A c \in Slot : parent[c] # s
  BY Forked, Zenon DEF ForkParent, Forking
<1>2. /\ \A q \in Slot : parent'[q] = IF q = s THEN p ELSE parent[q]
      /\ \A q \in Slot : pc'[q] = IF q = p THEN "fork_runnable" ELSE pc[q]
      /\ UNCHANGED <<state, chan, lock, wait_lock, i, j, arg>>
  BY <1>1, Zenon DEF ForkParent, Goto, Set, ProcInv, Types, locals
<1>3. \A q \in Slot : pc[q] \notin Holding
  BY Slots, Zenon DEF ForkParent, ProcInv, LockInv
<1>4. state[p] \in Live
  BY <1>1, Zenon DEF ProcInv, Types, StateInv, States, Live
<1>5. Types'
  BY <1>1, Slots, Zenon DEF ForkParent, Goto, Set, ProcInv, Types, Label, Forking, Scanning, locals
<1>6. s = arg'[p] /\ \A q \in Slot \ {p} : pc[q] \in Forking => arg[q] # s
  BY <1>1, <1>2, Zenon DEF ProcInv, ForkInv, Forking
<1> HIDE DEF s
<1>7. StateInv'
  BY <1>1, <1>2, Zenon DEF ProcInv, StateInv
<1>8. LockInv'
  BY <1>1, <1>2, Zenon DEF ProcInv, LockInv, Holding
<1>9. ForkInv'
  BY <1>1, <1>2, <1>6 DEF ProcInv, ForkInv, Forking
<1>10. FamilyInv'
  BY <1>1, <1>2, <1>4, Slots, Parents, Zenon DEF ProcInv, FamilyInv, Live
<1>11. OrphanInv' /\ ScanInv'
  BY <1>1, <1>2, <1>3 DEF ProcInv, OrphanInv, ScanInv, Holding
<1>12. WakeInv'
  <2>1. \A q \in Slot : Dozing(q)' => Dozing(q)
    BY <1>1, <1>2, Zenon DEF Dozing
  <2>2. \A q \in Slot : Waking(q) => Waking(q)'
    BY <1>1, <1>2, Zenon DEF Waking
  <2> QED
    BY <1>1, <1>2, <1>3, <2>1, <2>2, Parents, Zenon DEF ProcInv, WakeInv, Holding
<1> QED
  BY <1>5, <1>7, <1>8, <1>9, <1>10, <1>11, <1>12, Zenon DEF ProcInv

\* fork makes the child, which has its parent by now, RUNNABLE.
LEMMA ForkRunnableInv ==
  ASSUME ProcInv, NEW p \in Slot, ForkRunnable(p)
  PROVE  ProcInv'
<1> DEFINE s == arg[p]
<1>1. /\ s \in Slot /\ s # p /\ s # initproc /\ state[s] = "USED" /\ pc[s] = "forkret"
      /\ pc[p] = "fork_runnable" /\ parent[s] = p
      /\ \A c \in Slot : parent[c] # s
  BY Forked, Zenon DEF ForkRunnable, Forking, ProcInv, ForkInv
<1>2. /\ \A q \in Slot : state'[q] = IF q = s THEN "RUNNABLE" ELSE state[q]
      /\ UNCHANGED <<parent, chan, lock, wait_lock>>
  BY <1>1, Zenon DEF ForkRunnable, Set, ProcInv, Types
<1>3. PICK l \in {"user", "exit"} :
        /\ \A q \in Slot : pc'[q] = IF q = p THEN l ELSE pc[q]
        /\ \A q \in Slot \ {p} : i'[q] = i[q] /\ j'[q] = j[q] /\ arg'[q] = arg[q]
  BY Returned, Zenon DEF ForkRunnable, ProcInv
<1>4. Types'
  <2>1. state' \in [Slot -> States]
    BY <1>1, Zenon DEF ForkRunnable, Set, ProcInv, Types, States
  <2> QED
    BY <2>1, ReturnStep, Zenon DEF ForkRunnable, ProcInv, Types
<1>5. \A q \in Slot \ {p} : pc[q] \in Forking => arg[q] # s
  BY <1>1, Zenon DEF ProcInv, ForkInv, Forking
<1> HIDE DEF s
<1>6. StateInv'
  BY <1>1, <1>2, <1>3 DEF ProcInv, StateInv
<1>7. LockInv'
  BY <1>1, <1>2, <1>3, Zenon DEF ProcInv, LockInv, Holding
<1>8. ForkInv'
  BY <1>1, <1>2, <1>3, <1>5 DEF ProcInv, ForkInv, Forking
<1>9. FamilyInv'
  BY <1>1, <1>2, <1>3, Slots, Parents DEF ProcInv, FamilyInv, Live
<1>10. OrphanInv'
  BY <1>1, <1>2, <1>3 DEF ProcInv, OrphanInv
<1>11. ScanInv'
  BY <1>1, <1>2, <1>3 DEF ProcInv, ScanInv
<1>12. WakeInv'
  <2>1. \A q \in Slot : Dozing(q)' => Dozing(q)
    BY <1>1, <1>2, <1>3, Zenon DEF Dozing
  <2>2. \A q \in Slot : Waking(q) => Waking(q)'
    BY <1>1, <1>2, <1>3, Zenon DEF Waking
  <2> QED
    BY <1>1, <1>2, <1>3, <2>1, <2>2, Parents DEF ProcInv, WakeInv
<1> QED
  BY <1>4, <1>6, <1>7, <1>8, <1>9, <1>10, <1>11, <1>12, Zenon DEF ProcInv

\* Only one thread at a time is in wait's scan or in exit, and it runs.
LEMMA Alone ==
  ASSUME ProcInv, NEW p \in Slot, pc[p] \in Holding
  PROVE  /\ wait_lock = p /\ state[p] = "RUNNING"
         /\ \A q \in Slot \ {p} : pc[q] \notin Holding
<1>1. wait_lock = p /\ \A q \in Slot \ {p} : pc[q] \notin Holding
  BY Zenon DEF ProcInv, LockInv
<1>2. state[p] = "RUNNING"
  BY Zenon DEF ProcInv, Types, States, StateInv, Holding
<1> QED
  BY <1>1, <1>2, Zenon

\* exit takes wait_lock; for init it panics.
LEMMA ExitLockInv ==
  ASSUME ProcInv, NEW p \in Slot, ExitLock(p)
  PROVE  ProcInv'
<1>1. CASE p = initproc
  <2> USE <1>1 DEF ExitLock, Goto, proc
  <2>1. Types'
    BY Zenon DEF ProcInv, Types, Label, Idle, Scanning
  <2> QED
    BY <2>1, QuietStep, Zenon DEF ProcInv, Types, Idle
<1>2. CASE p # initproc
  <2>1. /\ \A q \in Slot : pc'[q] = IF q = p THEN "reparent" ELSE pc[q]
        /\ \A q \in Slot : i'[q] = IF q = p THEN 1 ELSE i[q]
        /\ pc[p] = "exit" /\ wait_lock = 0 /\ wait_lock' = p
        /\ UNCHANGED <<state, parent, chan, lock, j, arg>>
    BY <1>2, Zenon DEF ExitLock, Goto, Set, ProcInv, Types, proc
  <2>2. Types'
    BY <1>2, Slots, ProcAssumption DEF ExitLock, Goto, Set, ProcInv, Types, Label, Holding,
       Scanning, proc
  <2>3. \A q \in Slot : pc[q] \notin Holding
    BY <2>1, Slots, Zenon DEF ProcInv, LockInv
  <2>4. StateInv'
    BY <2>1, Zenon DEF ProcInv, StateInv
  <2>5. LockInv'
    BY <2>1, <2>3, Zenon DEF ProcInv, LockInv, Holding
  <2>6. ForkInv'
    BY <2>1 DEF ProcInv, ForkInv, Forking
  <2>7. FamilyInv'
    BY <1>2, <2>1, Slots, Zenon DEF ProcInv, FamilyInv
  <2>8. OrphanInv'
    BY <2>1, <2>3 DEF ProcInv, OrphanInv, Holding, Slot
  <2>9. ScanInv'
    BY <2>1, Zenon DEF ProcInv, ScanInv
  <2>10. WakeInv'
    <3>1. \A q \in Slot : Dozing(q)' => Dozing(q)
      BY <2>1, Zenon DEF Dozing
    <3>2. \A q \in Slot : Waking(q) => Waking(q)'
      BY <2>1, Zenon DEF Waking
    <3> QED
      BY <2>1, <3>1, <3>2, Parents, Zenon DEF ProcInv, WakeInv
  <2> QED
    BY <2>2, <2>4, <2>5, <2>6, <2>7, <2>8, <2>9, <2>10, Zenon DEF ProcInv
<1> QED
  BY <1>1, <1>2, Zenon

\* reparent gives a child to init and goes to wake init, or passes on.
LEMMA ReparentInv ==
  ASSUME ProcInv, NEW p \in Slot, Reparent(p)
  PROVE  ProcInv'
<1>1. /\ pc[p] = "reparent" /\ i[p] \in Slot /\ p # initproc /\ initproc \in Slot
      /\ state[p] = "RUNNING" /\ wait_lock = p
      /\ \A q \in Slot \ {p} : pc[q] \notin Holding
      /\ UNCHANGED <<state, chan, lock, wait_lock>>
  <2>1. pc[p] = "reparent" /\ i[p] \in Slot
    BY DEF Reparent, ProcInv, Types, Scanning, Slot
  <2> QED
    BY <2>1, Alone, Slots, Zenon DEF Reparent, ProcInv, FamilyInv, Holding
<1>2. CASE parent[i[p]] = p
  <2>1. /\ \A q \in Slot : parent'[q] = IF q = i[p] THEN initproc ELSE parent[q]
        /\ \A q \in Slot : j'[q] = IF q = p THEN 1 ELSE j[q]
        /\ \A q \in Slot : arg'[q] = IF q = p THEN initproc ELSE arg[q]
        /\ \A q \in Slot : pc'[q] = IF q = p THEN "wakeup" ELSE pc[q]
        /\ i' = i
    BY <1>1, <1>2 DEF Reparent, Goto, Set, ProcInv, Types
  <2>2. Types'
    BY <1>1, <1>2, Slots, ProcAssumption, SMTT(30)
    DEF Reparent, Goto, Set, ProcInv, Types, Label, Holding, Scanning
  <2>3. StateInv'
    BY <1>1, <2>1, Zenon DEF ProcInv, StateInv
  <2>4. LockInv'
    BY <1>1, <2>1, Zenon DEF ProcInv, LockInv, Holding
  <2>5. ForkInv'
    <3>1. \A q \in Slot : pc'[q] \in Forking => q # p /\ pc[q] = pc'[q] /\ arg'[q] = arg[q]
      BY <1>1, <2>1, Zenon DEF Forking
    <3>2. \A q \in Slot : pc[q] = "fork_runnable" => arg[q] # i[p]
      BY <1>1, <1>2, Zenon DEF ProcInv, ForkInv
    <3>3. \A q \in Slot : pc[q] = "fork_runnable" => arg[q] \in Slot
      BY Zenon DEF ProcInv, ForkInv, Forking
    <3> QED
      BY <1>1, <2>1, <3>1, <3>2, <3>3 DEF ProcInv, ForkInv, Forking
  <2>6. FamilyInv'
    BY <1>1, <2>1, Slots, Parents DEF ProcInv, FamilyInv
  <2>7. OrphanInv'
    BY <1>1, <2>1 DEF ProcInv, OrphanInv, Holding, Slot, Types
  <2>8. ScanInv'
    BY <1>1, <2>1 DEF ProcInv, ScanInv, Holding
  <2>9. WakeInv'
    <3>1. \A q \in Slot : Dozing(q)' => Dozing(q)
      BY <1>1, <2>1, Zenon DEF Dozing
    <3>2. \A q \in Slot : ~Waking(q)
      BY <1>1, Zenon DEF Waking, Holding
    <3>3. Waking(initproc)'
      BY <1>1, <2>1 DEF Waking, initproc
    <3>4. i[p] <= NPROC
      BY Zenon DEF Reparent
    <3> QED
      BY <1>1, <2>1, <3>1, <3>2, <3>3, <3>4, Parents, ProcAssumption, SMTT(30)
      DEF ProcInv, WakeInv, Holding, Slot
  <2> QED
    BY <2>2, <2>3, <2>4, <2>5, <2>6, <2>7, <2>8, <2>9, Zenon DEF ProcInv
<1>3. CASE parent[i[p]] # p
  <2>1. /\ \A q \in Slot : i'[q] = IF q = p THEN i[p] + 1 ELSE i[q]
        /\ UNCHANGED <<parent, j, arg, pc>>
    BY <1>1, <1>3, Zenon DEF Reparent, Set, ProcInv, Types
  <2>2. Types'
    <3>1. i[p] + 1 \in 0 .. NPROC + 1 /\ i[p] + 1 >= 1
      BY <1>1, ProcAssumption DEF Slot
    <3>2. i' \in [Slot -> 0 .. NPROC + 1]
      BY <1>3, <3>1, Zenon DEF Reparent, Set, ProcInv, Types
    <3> QED
      BY <1>1, <2>1, <3>1, <3>2, Zenon DEF ProcInv, Types
  <2>3. StateInv' /\ LockInv' /\ ForkInv' /\ FamilyInv'
    BY <1>1, <2>1, Zenon DEF ProcInv, StateInv, LockInv, ForkInv, FamilyInv
  <2>4. OrphanInv'
    BY <1>1, <1>3, <2>1 DEF ProcInv, OrphanInv, Slot
  <2>5. ScanInv'
    BY <1>1, <2>1, Zenon DEF ProcInv, ScanInv, Holding
  <2>6. WakeInv'
    BY <1>1, <2>1, SMTT(30) DEF ProcInv, WakeInv, Dozing, Waking
  <2> QED
    BY <2>2, <2>3, <2>4, <2>5, <2>6, Zenon DEF ProcInv
<1> QED
  BY <1>2, <1>3, Zenon

\* wakeup comes to a slot: nothing it finds asleep on its channel stays so.
LEMMA WakeupSlotInv ==
  ASSUME ProcInv, NEW p \in Slot, WakeupSlot(p)
  PROVE  ProcInv'
<1>1. /\ pc[p] = "wakeup" /\ j[p] \in Slot /\ state[p] = "RUNNING"
      /\ \A q \in Slot \ {p} : pc[q] \notin Holding
      /\ j[p] # p => lock[j[p]] = 0
      /\ UNCHANGED <<parent, chan, lock, wait_lock, pc, i, arg>>
  <2>1. pc[p] = "wakeup" /\ j[p] \in Slot
    BY DEF WakeupSlot, ProcInv, Types, Slot
  <2> QED
    BY <2>1, Alone, Zenon DEF WakeupSlot, Holding
<1>2. /\ \A q \in Slot : state'[q] = state[q] \/ (state[q] = "SLEEPING" /\ state'[q] = "RUNNABLE")
      /\ j[p] # p /\ state[j[p]] = "SLEEPING" /\ chan[j[p]] = arg[p] => state'[j[p]] = "RUNNABLE"
      /\ \A q \in Slot : j'[q] = IF q = p THEN j[p] + 1 ELSE j[q]
  BY <1>1, Zenon DEF WakeupSlot, Set, ProcInv, Types
<1>3. Types'
  <2>1. j[p] + 1 \in 0 .. NPROC + 1 /\ j[p] + 1 >= 1
    BY <1>1, ProcAssumption DEF Slot
  <2>2. state' \in [Slot -> States] /\ j' \in [Slot -> 0 .. NPROC + 1]
    BY <2>1, Zenon DEF WakeupSlot, Set, ProcInv, Types, States
  <2> QED
    BY <1>1, <1>2, <2>1, <2>2, Zenon DEF ProcInv, Types
<1>4. StateInv'
  BY <1>1, <1>2 DEF ProcInv, StateInv
<1>5. LockInv'
  BY <1>1, <1>2, Zenon DEF ProcInv, LockInv
<1>6. ForkInv'
  BY <1>1, <1>2 DEF ProcInv, ForkInv
<1>7. FamilyInv'
  BY <1>1, <1>2, Slots, Parents, Zenon DEF ProcInv, FamilyInv, Live
<1>8. OrphanInv'
  BY <1>1, <1>2, Zenon DEF ProcInv, OrphanInv
<1>9. ScanInv'
  BY <1>1, <1>2, Zenon DEF ProcInv, ScanInv
<1>10. WakeInv'
  <2>1. \A q \in Slot : Dozing(q)' => Dozing(q)
    BY <1>1, <1>2, Zenon DEF Dozing
  <2>2. \A q \in Slot : arg[p] = q /\ j[p] = q => ~Dozing(q)'
    <3> SUFFICES ASSUME NEW q \in Slot, arg[p] = q, j[p] = q
                 PROVE  pc[q] # "sleep_sched" /\ state'[q] # "SLEEPING"
      BY <1>1, Zenon DEF Dozing
    <3>1. CASE q = p
      BY <1>1, <1>2, <3>1, Zenon
    <3>2. CASE q # p
      <4>1. pc[q] # "sleep_sched"
        BY <1>1, <3>2, Slots, Zenon DEF ProcInv, LockInv
      <4>2. state'[q] # "SLEEPING"
        BY <1>1, <1>2, <3>2, Zenon DEF ProcInv, StateInv
      <4> QED
        BY <4>1, <4>2, Zenon
    <3> QED
      BY <3>1, <3>2, Zenon
  <2>3. \A q \in Slot : Waking(q) => Waking(q)' \/ (arg[p] = q /\ j[p] = q)
    BY <1>1, <1>2 DEF Waking, Holding, Slot
  <2>4. \A c \in Slot : (pc[c] = "wakeup" /\ i[c] > NPROC => arg[c] = parent[c])'
    BY <1>1, Zenon DEF ProcInv, WakeInv
  <2>5. \A c \in Slot :
          (parent[c] # 0 /\ (pc[c] = "zombie" \/ (pc[c] = "wakeup" /\ i[c] > NPROC /\ j[c] > parent[c]))
             => ~Dozing(parent[c]))'
    <3> SUFFICES ASSUME NEW c \in Slot, parent[c] # 0, Dozing(parent[c])',
                        pc[c] = "zombie" \/ (pc[c] = "wakeup" /\ i[c] > NPROC /\ j'[c] > parent[c])
                 PROVE  FALSE
      BY <1>1, Zenon
    <3>1. parent[c] \in Slot
      BY Parents, Zenon DEF ProcInv
    <3>2. Dozing(parent[c])
      BY <1>1, <2>1, <3>1, Zenon
    <3>3. c = p /\ j[p] + 1 > parent[c] /\ i[p] > NPROC
      BY <1>1, <1>2, Zenon DEF Holding
    <3>4. arg[p] = parent[c]
      BY <1>1, <3>3, Zenon DEF ProcInv, WakeInv
    <3>5. ~(j[p] > parent[c])
      BY <1>1, <3>2, <3>3, Zenon DEF ProcInv, WakeInv
    <3>6. j[p] = parent[c]
      BY <1>1, <3>1, <3>3, <3>5 DEF Slot
    <3> QED
      BY <1>1, <2>2, <3>1, <3>4, <3>6, SMTT(30)
  <2> QED
    BY <1>1, <1>2, <2>1, <2>2, <2>3, <2>4, <2>5, Parents, Zenon DEF ProcInv, WakeInv
<1> QED
  BY <1>3, <1>4, <1>5, <1>6, <1>7, <1>8, <1>9, <1>10, Zenon DEF ProcInv

\* wakeup returns: nobody is left to wake.
LEMMA WakeupDoneInv ==
  ASSUME ProcInv, NEW p \in Slot, WakeupDone(p)
  PROVE  ProcInv'
<1>1. /\ pc[p] = "wakeup" /\ j[p] = NPROC + 1 /\ state[p] = "RUNNING" /\ wait_lock = p
      /\ \A q \in Slot \ {p} : pc[q] \notin Holding
      /\ i[p] \in 1 .. NPROC + 1
      /\ p # initproc
      /\ UNCHANGED <<state, parent, chan, lock, wait_lock>>
  <2>1. pc[p] = "wakeup" /\ i[p] \in 1 .. NPROC + 1 /\ j[p] = NPROC + 1
    BY ProcAssumption DEF WakeupDone, ProcInv, Types, Scanning
  <2> QED
    BY <2>1, Alone, Zenon DEF WakeupDone, Holding, ProcInv, FamilyInv, proc
<1> DEFINE l == IF i[p] <= NPROC THEN "reparent" ELSE "zombie"
           n == IF i[p] <= NPROC THEN i[p] + 1 ELSE 0
<1>2. /\ \A q \in Slot : pc'[q] = IF q = p THEN l ELSE pc[q]
      /\ \A q \in Slot : i'[q] = IF q = p THEN n ELSE i[q]
      /\ \A q \in Slot : arg'[q] = IF q = p THEN 0 ELSE arg[q]
      /\ \A q \in Slot : j'[q] = IF q = p THEN 0 ELSE j[q]
  BY <1>1, Zenon DEF WakeupDone, Goto, Set, ProcInv, Types
<1>3. Types'
  <2>1. n \in 0 .. NPROC + 1 /\ (l = "reparent" => n >= 1) /\ l \in {"reparent", "zombie"}
    BY <1>1, ProcAssumption
  <2>2. pc' = [pc EXCEPT ![p] = l] /\ i' = [i EXCEPT ![p] = n]
    BY Zenon DEF WakeupDone, Goto, Set
  <2>3. pc' \in [Slot -> Label] /\ i' \in [Slot -> 0 .. NPROC + 1]
    BY <2>1, <2>2, Zenon DEF ProcInv, Types, Label, Holding
  <2>4. j' \in [Slot -> 0 .. NPROC + 1] /\ arg' \in [Slot -> 0 .. NPROC]
    BY ProcAssumption DEF WakeupDone, Set, ProcInv, Types
  <2> QED
    BY <1>1, <1>2, <2>1, <2>3, <2>4, Zenon DEF ProcInv, Types, Scanning
<1>4. StateInv'
  BY <1>1, <1>2, Zenon DEF ProcInv, StateInv
<1>5. LockInv'
  BY <1>1, <1>2, Zenon DEF ProcInv, LockInv, Holding
<1>6. ForkInv'
  BY <1>1, <1>2 DEF ProcInv, ForkInv, Forking
<1>7. FamilyInv'
  BY <1>1, <1>2, Slots, Zenon DEF ProcInv, FamilyInv
<1>8. OrphanInv'
  BY <1>1, <1>2, ProcAssumption DEF ProcInv, OrphanInv, Holding, Slot
<1>9. ScanInv'
  BY <1>1, <1>2, Zenon DEF ProcInv, ScanInv, Holding
<1>10. WakeInv'
  <2>1. \A q \in Slot : Dozing(q)' => Dozing(q)
    BY <1>1, <1>2, Zenon DEF Dozing
  <2>2. \A q \in Slot : ~(j[p] <= q)
    BY <1>1, ProcAssumption DEF Slot
  <2>3. \A q \in Slot : ~Waking(q)
    BY <1>1, <2>2, Zenon DEF Waking, Holding
  <2>4. l = "zombie" /\ parent[p] # 0 => ~Dozing(parent[p])
    <3>1. parent[p] # 0 => parent[p] \in Slot
      BY Parents, Zenon DEF ProcInv
    <3>2. l = "zombie" => i[p] > NPROC
      BY <1>1, ProcAssumption
    <3>3. parent[p] # 0 => j[p] > parent[p]
      BY <1>1, <3>1, ProcAssumption DEF Slot
    <3> QED
      BY <1>1, <3>2, <3>3, Zenon DEF ProcInv, WakeInv
  <2> QED
    BY <1>1, <1>2, <2>1, <2>3, <2>4, Parents DEF ProcInv, WakeInv, Holding
<1> QED
  BY <1>3, <1>4, <1>5, <1>6, <1>7, <1>8, <1>9, <1>10, Zenon DEF ProcInv

\* exit goes to wake the parent; all children are init's by now.
LEMMA ExitWakeInv ==
  ASSUME ProcInv, NEW p \in Slot, ExitWake(p)
  PROVE  ProcInv'
<1>1. /\ pc[p] = "reparent" /\ i[p] = NPROC + 1 /\ state[p] = "RUNNING" /\ p # initproc
      /\ \A q \in Slot \ {p} : pc[q] \notin Holding
      /\ UNCHANGED <<state, parent, chan, lock, wait_lock, i>>
  <2>1. pc[p] = "reparent" /\ i[p] = NPROC + 1
    BY ProcAssumption DEF ExitWake, ProcInv, Types
  <2> QED
    BY <2>1, Alone, Zenon DEF ExitWake, Holding, ProcInv, FamilyInv, proc
<1>2. /\ \A q \in Slot : pc'[q] = IF q = p THEN "wakeup" ELSE pc[q]
      /\ \A q \in Slot : j'[q] = IF q = p THEN 1 ELSE j[q]
      /\ \A q \in Slot : arg'[q] = IF q = p THEN parent[p] ELSE arg[q]
  BY <1>1, Zenon DEF ExitWake, Goto, Set, ProcInv, Types
<1>3. Types'
  BY <1>1, ProcAssumption DEF ExitWake, Goto, Set, ProcInv, Types, Label, Holding, Scanning, proc
<1>4. StateInv'
  BY <1>1, <1>2, Zenon DEF ProcInv, StateInv
<1>5. LockInv'
  BY <1>1, <1>2, Zenon DEF ProcInv, LockInv, Holding
<1>6. ForkInv'
  BY <1>1, <1>2 DEF ProcInv, ForkInv, Forking
<1>7. FamilyInv'
  BY <1>1, <1>2, Slots, Parents, Zenon DEF ProcInv, FamilyInv, Live
<1>8. OrphanInv'
  BY <1>1, <1>2, ProcAssumption DEF ProcInv, OrphanInv, Slot
<1>9. ScanInv'
  BY <1>1, <1>2, Zenon DEF ProcInv, ScanInv
<1>10. WakeInv'
  <2>1. \A q \in Slot : Dozing(q)' => Dozing(q)
    BY <1>1, <1>2, Zenon DEF Dozing
  <2>2. \A q \in Slot : ~Waking(q)
    BY <1>1, Zenon DEF Waking, Holding
  <2>3. \A q \in Slot : ~(1 > q)
    BY DEF Slot
  <2> QED
    BY <1>1, <1>2, <2>1, <2>2, <2>3, Parents, SMTT(30) DEF ProcInv, WakeInv, Holding
<1> QED
  BY <1>3, <1>4, <1>5, <1>6, <1>7, <1>8, <1>9, <1>10, Zenon DEF ProcInv

\* The process becomes a zombie: it has no child, and its parent is awake.
LEMMA ExitZombieInv ==
  ASSUME ProcInv, NEW p \in Slot, ExitZombie(p)
  PROVE  ProcInv'
<1>1. /\ pc[p] = "zombie" /\ state[p] = "RUNNING" /\ p # initproc
      /\ \A q \in Slot \ {p} : pc[q] \notin Holding
      /\ wait_lock' = 0 /\ 0 \notin Slot
      /\ \A c \in Slot : parent[c] # p
      /\ UNCHANGED <<parent, chan, i, j, arg>>
  <2>1. \A c \in Slot : parent[c] # p
    BY Zenon DEF ExitZombie, ProcInv, OrphanInv
  <2> QED
    BY <2>1, Alone, Slots, Zenon DEF ExitZombie, Holding, ProcInv, FamilyInv, locals
<1>2. /\ \A q \in Slot : pc'[q] = IF q = p THEN "exit_sched" ELSE pc[q]
      /\ \A q \in Slot : state'[q] = IF q = p THEN "ZOMBIE" ELSE state[q]
      /\ \A q \in Slot : lock'[q] = IF q = p THEN p ELSE lock[q]
  BY <1>1, Zenon DEF ExitZombie, Goto, Set, ProcInv, Types
<1>3. Types'
  BY <1>1, Slots, ProcAssumption DEF ExitZombie, Goto, Set, ProcInv, Types, States, Label, Scanning,
     locals
<1>4. StateInv'
  BY <1>1, <1>2 DEF ProcInv, StateInv
<1>5. LockInv'
  BY <1>1, <1>2, Zenon DEF ProcInv, LockInv, Holding
<1>6. ForkInv'
  BY <1>1, <1>2 DEF ProcInv, ForkInv, Forking
<1>7. FamilyInv'
  BY <1>1, <1>2, Slots, Parents, Zenon DEF ProcInv, FamilyInv, Live
<1>8. OrphanInv'
  BY <1>1, <1>2 DEF ProcInv, OrphanInv, Holding
<1>9. ScanInv'
  BY <1>1, <1>2 DEF ProcInv, ScanInv, Holding
<1>10. WakeInv'
  <2>1. \A q \in Slot : Dozing(q)' => Dozing(q)
    BY <1>1, <1>2, Zenon DEF Dozing
  <2>2. \A q \in Slot : ~Waking(q)
    BY <1>1, Zenon DEF Waking, Holding
  <2> QED
    BY <1>1, <1>2, <2>1, <2>2, Parents DEF ProcInv, WakeInv, Holding
<1> QED
  BY <1>3, <1>4, <1>5, <1>6, <1>7, <1>8, <1>9, <1>10, Zenon DEF ProcInv

\* wait takes wait_lock, and its scan begins.
LEMMA WaitLockInv ==
  ASSUME ProcInv, NEW p \in Slot, WaitLock(p)
  PROVE  ProcInv'
<1>1. /\ pc[p] = "wait_lock" /\ wait_lock' = p
      /\ \A q \in Slot : pc[q] \notin Holding
      /\ UNCHANGED <<state, parent, chan, lock, j>>
  BY Slots, Zenon DEF WaitLock, ProcInv, LockInv, proc
<1>2. /\ \A q \in Slot : pc'[q] = IF q = p THEN "wait_scan" ELSE pc[q]
      /\ \A q \in Slot : i'[q] = IF q = p THEN 1 ELSE i[q]
      /\ \A q \in Slot : arg'[q] = IF q = p THEN 0 ELSE arg[q]
  BY <1>1, Zenon DEF WaitLock, Goto, Set, ProcInv, Types
<1>3. Types'
  BY <1>1, Slots, ProcAssumption DEF WaitLock, Goto, Set, ProcInv, Types, Label, Holding, Scanning,
     proc
<1>4. StateInv'
  BY <1>1, <1>2, Zenon DEF ProcInv, StateInv
<1>5. LockInv'
  BY <1>1, <1>2, Zenon DEF ProcInv, LockInv, Holding
<1>6. ForkInv'
  BY <1>1, <1>2 DEF ProcInv, ForkInv, Forking
<1>7. FamilyInv'
  BY <1>1, <1>2, Slots, Parents, Zenon DEF ProcInv, FamilyInv, Live
<1>8. OrphanInv'
  BY <1>1, <1>2, Zenon DEF ProcInv, OrphanInv
<1>9. ScanInv'
  BY <1>1, <1>2 DEF ProcInv, ScanInv, Slot
<1>10. WakeInv'
  <2>1. \A q \in Slot : Dozing(q)' => Dozing(q)
    BY <1>1, <1>2, Zenon DEF Dozing
  <2>2. \A q \in Slot : Waking(q) => Waking(q)'
    BY <1>1, <1>2, Zenon DEF Waking
  <2> QED
    BY <1>1, <1>2, <2>1, <2>2, Parents, Zenon DEF ProcInv, WakeInv
<1> QED
  BY <1>3, <1>4, <1>5, <1>6, <1>7, <1>8, <1>9, <1>10, Zenon DEF ProcInv

\* wait passes over a slot that is not a zombie child.
LEMMA WaitSkipInv ==
  ASSUME ProcInv, NEW p \in Slot, WaitSkip(p)
  PROVE  ProcInv'
<1>1. /\ pc[p] = "wait_scan" /\ i[p] \in Slot
      /\ parent[i[p]] # p \/ state[i[p]] # "ZOMBIE"
      /\ \A q \in Slot \ {p} : pc[q] \notin Holding
      /\ UNCHANGED <<state, parent, chan, lock, wait_lock, pc, j>>
  <2>1. pc[p] = "wait_scan" /\ i[p] \in Slot
    BY DEF WaitSkip, ProcInv, Types, Scanning, Slot
  <2> QED
    BY <2>1, Alone, Zenon DEF WaitSkip, Holding, proc
<1>2. /\ \A q \in Slot : i'[q] = IF q = p THEN i[p] + 1 ELSE i[q]
      /\ \A q \in Slot \ {p} : arg'[q] = arg[q]
  BY <1>1, Zenon DEF WaitSkip, Set, ProcInv, Types
<1>3. Types'
  <2>1. i[p] + 1 \in 0 .. NPROC + 1 /\ i[p] + 1 >= 1
    BY <1>1, ProcAssumption DEF Slot
  <2>2. i' \in [Slot -> 0 .. NPROC + 1] /\ arg' \in [Slot -> 0 .. NPROC]
    BY <2>1, ProcAssumption DEF WaitSkip, Set, ProcInv, Types
  <2> QED
    BY <1>1, <1>2, <2>1, <2>2, Zenon DEF ProcInv, Types
<1>4. StateInv'
  BY <1>1, Zenon DEF ProcInv, StateInv
<1>5. LockInv'
  BY <1>1, Zenon DEF ProcInv, LockInv
<1>6. ForkInv'
  BY <1>1, <1>2 DEF ProcInv, ForkInv, Forking
<1>7. FamilyInv'
  BY <1>1, Zenon DEF ProcInv, FamilyInv
<1>8. OrphanInv'
  BY <1>1, Zenon DEF OrphanInv, Holding
<1>9. ScanInv'
  <2>1. \A c \in Slot : i[p] <= c /\ c # i[p] => i[p] + 1 <= c
    BY <1>1 DEF Slot
  <2> QED
    BY <1>1, <1>2, <2>1, Zenon DEF ProcInv, ScanInv
<1>10. WakeInv'
  <2>1. \A q \in Slot : Dozing(q)' => Dozing(q)
    BY <1>1, Zenon DEF Dozing
  <2>2. \A q \in Slot : Waking(q) => Waking(q)'
    BY <1>1, <1>2, Zenon DEF Waking
  <2> QED
    BY <1>1, <1>2, <2>1, <2>2, Parents, Zenon DEF ProcInv, WakeInv
<1> QED
  BY <1>3, <1>4, <1>5, <1>6, <1>7, <1>8, <1>9, <1>10, Zenon DEF ProcInv

\* wait frees a zombie that is off its stack, or cannot report its status.
LEMMA WaitFoundInv ==
  ASSUME ProcInv, NEW p \in Slot, WaitFound(p)
  PROVE  ProcInv'
<1> DEFINE s == i[p]
<1>1. /\ pc[p] = "wait_scan" /\ s \in Slot /\ state[s] = "ZOMBIE" /\ pc[s] = "gone"
      /\ s # initproc /\ state[p] = "RUNNING" /\ 0 \notin Slot /\ initproc \in Slot
      /\ \A c \in Slot : parent[c] # s
      /\ \A q \in Slot \ {p} : pc[q] \notin Holding
      /\ wait_lock = p /\ wait_lock' = 0 /\ UNCHANGED lock
  <2>1. pc[p] = "wait_scan" /\ s \in Slot /\ state[s] = "ZOMBIE" /\ lock[s] = 0
    BY DEF WaitFound, ProcInv, Types, Scanning, Slot
  <2>2. pc[s] = "gone"
    BY <2>1, Slots, Zenon DEF ProcInv, StateInv, LockInv
  <2>3. s # initproc /\ \A c \in Slot : parent[c] # s
    BY <2>1, Slots, Zenon DEF ProcInv, FamilyInv, Live
  <2> QED
    BY <2>1, <2>2, <2>3, Alone, Slots, Zenon DEF WaitFound, Holding
<1>2. /\ \A q \in Slot \ {s} : state'[q] = state[q] /\ parent'[q] = parent[q] /\ chan'[q] = chan[q]
      /\ \/ state'[s] = "UNUSED" /\ parent'[s] = 0
         \/ state'[s] = "ZOMBIE" /\ parent'[s] = parent[s]
  BY <1>1 DEF WaitFound, FreeProc, Set, ProcInv, Types, proc
<1>3. PICK l \in {"user", "exit"} :
        /\ \A q \in Slot : pc'[q] = IF q = p THEN l ELSE pc[q]
        /\ \A q \in Slot \ {p} : i'[q] = i[q] /\ j'[q] = j[q] /\ arg'[q] = arg[q]
  BY Returned, Zenon DEF WaitFound, ProcInv
<1>4. Types'
  <2>1. /\ state' \in [Slot -> States] /\ parent' \in [Slot -> 0 .. NPROC]
        /\ chan' \in [Slot -> 0 .. NPROC]
    BY <1>1, ProcAssumption DEF WaitFound, FreeProc, Set, ProcInv, Types, States, proc
  <2>2. wait_lock' \in 0 .. NPROC
    BY <1>1, ProcAssumption, SMTT(30)
  <2> QED
    BY <1>1, <2>1, <2>2, ReturnStep, Zenon DEF WaitFound, ProcInv, Types
<1> HIDE DEF s
<1>5. StateInv'
  BY <1>1, <1>2, <1>3 DEF ProcInv, StateInv
<1>6. LockInv'
  BY <1>1, <1>2, <1>3, Zenon DEF ProcInv, LockInv, Holding
<1>7. ForkInv'
  BY <1>1, <1>2, <1>3, SMTT(30) DEF ProcInv, ForkInv, Forking
<1>8. FamilyInv'
  <2>1. state'[initproc] \in Live /\ pc'[initproc] \notin {"reparent", "wakeup", "zombie"}
    BY <1>1, <1>2, <1>3, Zenon DEF ProcInv, FamilyInv
  <2>2. \A c \in Slot : parent'[c] # 0 =>
          parent[c] \in Slot \ {s} /\ parent'[c] = parent[c] /\ state[parent[c]] \in Live
    BY <1>1, <1>2, Parents, Zenon DEF ProcInv, FamilyInv
  <2>3. \A c \in Slot : parent'[c] # 0 => state'[parent'[c]] \in Live
    BY <1>2, <2>2, Zenon
  <2>4. \A c \in Slot \ {initproc} : state'[c] \notin {"UNUSED", "USED"} => parent'[c] # 0
    BY <1>1, <1>2, Zenon DEF ProcInv, FamilyInv
  <2> QED
    BY <2>1, <2>3, <2>4, Zenon DEF FamilyInv, Live
<1>9. OrphanInv'
  BY <1>1, <1>3 DEF OrphanInv, Holding
<1>10. ScanInv'
  BY <1>1, <1>3 DEF ScanInv, Holding
<1>11. WakeInv'
  <2>1. \A q \in Slot : Dozing(q)' => Dozing(q)
    BY <1>1, <1>2, <1>3, Zenon DEF Dozing
  <2>2. \A q \in Slot : ~Waking(q)
    BY <1>1, Zenon DEF Waking, Holding
  <2>3. \A q \in Slot : pc'[q] \notin {"wakeup", "zombie"}
    BY <1>1, <1>3 DEF Holding
  <2>4. \A c \in Slot : state'[c] = "ZOMBIE" /\ parent'[c] # 0 =>
          state[c] = "ZOMBIE" /\ parent'[c] = parent[c] /\ parent[c] \in Slot
    BY <1>1, <1>2, Parents, Zenon DEF ProcInv
  <2>5. \A c \in Slot : state[c] = "ZOMBIE" /\ parent[c] # 0 => ~Dozing(parent[c])
    BY <2>2, Parents, Zenon DEF ProcInv, WakeInv
  <2>6. \A c \in Slot : state'[c] = "ZOMBIE" /\ parent'[c] # 0 => ~Dozing(parent[c])'
    BY <2>1, <2>4, <2>5, Zenon
  <2> QED
    BY <2>3, <2>6, Zenon DEF WakeInv
<1> QED
  BY <1>4, <1>5, <1>6, <1>7, <1>8, <1>9, <1>10, <1>11, Zenon DEF ProcInv
\* wait gives up: p has no children, or has been killed.
LEMMA WaitNoneInv ==
  ASSUME ProcInv, NEW p \in Slot, WaitNone(p)
  PROVE  ProcInv'
<1>1. /\ pc[p] = "wait_scan" /\ state[p] = "RUNNING" /\ 0 \notin Slot /\ initproc \in Slot
      /\ \A q \in Slot \ {p} : pc[q] \notin Holding
      /\ wait_lock = p /\ wait_lock' = 0
  BY Alone, Slots, Zenon DEF WaitNone, Holding
<1>2. UNCHANGED <<state, parent, chan, lock>>
  BY Zenon DEF WaitNone, proc
<1>3. PICK l \in {"user", "exit"} :
        /\ \A q \in Slot : pc'[q] = IF q = p THEN l ELSE pc[q]
        /\ \A q \in Slot \ {p} : i'[q] = i[q] /\ j'[q] = j[q] /\ arg'[q] = arg[q]
  BY Returned, ZenonT(30) DEF WaitNone, ProcInv
<1>4. Types'
  <2>1. wait_lock' \in 0 .. NPROC
    BY <1>1, ProcAssumption, SMTT(30)
  <2> QED
    BY <1>2, <2>1, ReturnStep, Zenon DEF WaitNone, ProcInv, Types
<1>5. StateInv'
  BY <1>1, <1>2, <1>3, Zenon DEF ProcInv, StateInv
<1>6. LockInv'
  BY <1>1, <1>2, <1>3, Zenon DEF ProcInv, LockInv, Holding
<1>7. ForkInv'
  BY <1>1, <1>2, <1>3 DEF ProcInv, ForkInv, Forking
<1>8. FamilyInv'
  BY <1>1, <1>2, <1>3, Parents, Zenon DEF ProcInv, FamilyInv, Live
<1>9. OrphanInv'
  BY <1>1, <1>3, Zenon DEF OrphanInv, Holding
<1>10. ScanInv'
  BY <1>1, <1>3 DEF ScanInv, Holding
<1>11. WakeInv'
  <2>1. \A q \in Slot : Dozing(q)' => Dozing(q)
    BY <1>1, <1>2, <1>3, Zenon DEF Dozing
  <2>2. \A q \in Slot : ~Waking(q)
    BY <1>1, Zenon DEF Waking, Holding
  <2> QED
    BY <1>1, <1>2, <1>3, <2>1, <2>2, Parents, SMTT(30) DEF ProcInv, WakeInv
<1> QED
  BY <1>4, <1>5, <1>6, <1>7, <1>8, <1>9, <1>10, <1>11, Zenon DEF ProcInv
\* wait has passed all slots: p has no zombie child when it goes to sleep.
LEMMA WaitCheckInv ==
  ASSUME ProcInv, NEW p \in Slot, WaitCheck(p)
  PROVE  ProcInv'
<1>1. /\ pc[p] = "wait_scan" /\ state[p] = "RUNNING"
      /\ \A q \in Slot \ {p} : pc[q] \notin Holding
      /\ \A c \in Slot : ~(i[p] <= c)
      /\ UNCHANGED <<state, parent, chan, lock, wait_lock, j>>
  <2>1. i[p] = NPROC + 1
    BY ProcAssumption DEF WaitCheck, ProcInv, Types
  <2>2. \A c \in Slot : ~(i[p] <= c)
    BY <2>1, ProcAssumption DEF Slot
  <2> QED
    BY <2>2, Alone, Zenon DEF WaitCheck, Holding, proc
<1>2. /\ \A q \in Slot : pc'[q] = IF q = p THEN "wait_sleep" ELSE pc[q]
      /\ \A q \in Slot : i'[q] = IF q = p THEN 0 ELSE i[q]
      /\ \A q \in Slot : arg'[q] = IF q = p THEN 0 ELSE arg[q]
  BY <1>1, SMTT(30) DEF WaitCheck, Goto, Set, ProcInv, Types
<1>3. Types'
  BY <1>1, ProcAssumption DEF WaitCheck, Goto, Set, ProcInv, Types, Label, Holding, Scanning, proc
<1>4. StateInv'
  BY <1>1, <1>2, Zenon DEF ProcInv, StateInv
<1>5. LockInv'
  BY <1>1, <1>2, Zenon DEF ProcInv, LockInv, Holding
<1>6. ForkInv'
  BY <1>1, <1>2 DEF ProcInv, ForkInv, Forking
<1>7. FamilyInv'
  BY <1>1, <1>2, Slots, Parents, Zenon DEF ProcInv, FamilyInv, Live
<1>8. OrphanInv'
  BY <1>1, <1>2 DEF ProcInv, OrphanInv
<1>9. ScanInv'
  BY <1>1, <1>2, Zenon DEF ProcInv, ScanInv
<1>10. WakeInv'
  <2>1. \A q \in Slot : Dozing(q)' => Dozing(q)
    BY <1>1, <1>2, Zenon DEF Dozing
  <2>2. \A q \in Slot : Waking(q) => Waking(q)'
    BY <1>1, <1>2, Zenon DEF Waking
  <2> QED
    BY <1>1, <1>2, <2>1, <2>2, Parents DEF ProcInv, WakeInv
<1> QED
  BY <1>3, <1>4, <1>5, <1>6, <1>7, <1>8, <1>9, <1>10, Zenon DEF ProcInv

\* sleep gives up wait_lock with p->lock held.
LEMMA SleepLockInv ==
  ASSUME ProcInv, NEW p \in Slot, SleepLock(p)
  PROVE  ProcInv'
<1>1. /\ pc[p] = "wait_sleep" /\ state[p] = "RUNNING" /\ wait_lock = p /\ wait_lock' = 0
      /\ \A q \in Slot \ {p} : pc[q] \notin Holding
      /\ 0 \notin Slot
      /\ UNCHANGED <<state, parent, chan, i, j, arg>>
  BY Alone, Slots, Zenon DEF SleepLock, Holding, proc, locals
<1>2. /\ \A q \in Slot : pc'[q] = IF q = p THEN "sleep_sched" ELSE pc[q]
      /\ \A q \in Slot : lock'[q] = IF q = p THEN p ELSE lock[q]
  BY <1>1, Zenon DEF SleepLock, Goto, Set, ProcInv, Types
<1>3. Types'
  BY <1>1, Slots, ProcAssumption DEF SleepLock, Goto, Set, ProcInv, Types, Label, Holding, Scanning,
     proc, locals
<1>4. StateInv'
  BY <1>1, <1>2, Zenon DEF ProcInv, StateInv
<1>5. LockInv'
  BY <1>1, <1>2, Zenon DEF ProcInv, LockInv, Holding
<1>6. ForkInv'
  BY <1>1, <1>2 DEF ProcInv, ForkInv, Forking
<1>7. FamilyInv'
  BY <1>1, <1>2, Slots, Parents, Zenon DEF ProcInv, FamilyInv, Live
<1>8. OrphanInv'
  BY <1>1, <1>2 DEF ProcInv, OrphanInv
<1>9. ScanInv'
  BY <1>1, <1>2, Zenon DEF ProcInv, ScanInv
<1>10. WakeInv'
  <2>1. \A q \in Slot : Dozing(q)' => Dozing(q) \/ q = p
    BY <1>1, <1>2, Zenon DEF Dozing
  <2>2. \A q \in Slot : ~Waking(q)
    BY <1>1, Zenon DEF Waking, Holding
  <2>3. \A c \in Slot : parent[c] = p => state[c] # "ZOMBIE"
    BY <1>1, Zenon DEF ProcInv, ScanInv
  <2> QED
    BY <1>1, <1>2, <2>1, <2>2, <2>3, Parents DEF ProcInv, WakeInv, Holding
<1> QED
  BY <1>3, <1>4, <1>5, <1>6, <1>7, <1>8, <1>9, <1>10, Zenon DEF ProcInv

\* The scheduler gets the CPU of a thread that sleeps or has exited.
LEMMA SchedInv ==
  ASSUME ProcInv, NEW p \in Slot, Sched(p)
  PROVE  ProcInv'
<1>1. /\ \/ /\ pc[p] = "sleep_sched" /\ state[p] = "RUNNING"
            /\ pc'[p] = "asleep" /\ state'[p] = "SLEEPING" /\ chan'[p] = p
         \/ /\ pc[p] = "exit_sched" /\ state[p] = "ZOMBIE"
            /\ pc'[p] = "gone" /\ state'[p] = "ZOMBIE"
      /\ UNCHANGED <<parent, wait_lock, i, j, arg>>
  BY Zenon DEF Sched, Goto, Set, ProcInv, Types, States, StateInv, locals
<1>2. \A q \in Slot \ {p} :
        pc'[q] = pc[q] /\ state'[q] = state[q] /\ chan'[q] = chan[q] /\ lock'[q] = lock[q]
  BY Zenon DEF Sched, Goto, Set, ProcInv, Types
<1>3. Types'
  <2>1. lock' \in [Slot -> 0 .. NPROC]
    BY ProcAssumption DEF Sched, Set, ProcInv, Types
  <2>2. chan' \in [Slot -> 0 .. NPROC]
    BY Slots, Zenon DEF Sched, Set, ProcInv, Types
  <2>3. state' \in [Slot -> States] /\ pc' \in [Slot -> Label]
    BY Zenon DEF Sched, Goto, Set, ProcInv, Types, States, Label
  <2> QED
    BY <1>1, <1>2, <2>1, <2>2, <2>3, Zenon DEF ProcInv, Types, Scanning
<1>4. StateInv'
  BY <1>1, <1>2, Zenon DEF ProcInv, StateInv
<1>5. LockInv'
  BY <1>1, <1>2, Zenon DEF ProcInv, LockInv, Holding
<1>6. ForkInv'
  BY <1>1, <1>2 DEF ProcInv, ForkInv, Forking
<1>7. FamilyInv'
  BY <1>1, <1>2, Slots, Parents, Zenon DEF ProcInv, FamilyInv, Live
<1>8. OrphanInv'
  BY <1>1, <1>2, Zenon DEF ProcInv, OrphanInv
<1>9. ScanInv'
  BY <1>1, <1>2, Zenon DEF ProcInv, ScanInv
<1>10. WakeInv'
  <2>1. \A q \in Slot : Dozing(q)' => Dozing(q)
    BY <1>1, <1>2, Zenon DEF Dozing
  <2>2. \A q \in Slot : Waking(q) => Waking(q)'
    BY <1>1, <1>2, Zenon DEF Waking
  <2> QED
    BY <1>1, <1>2, <2>1, <2>2, Parents, Zenon DEF ProcInv, WakeInv
<1> QED
  BY <1>3, <1>4, <1>5, <1>6, <1>7, <1>8, <1>9, <1>10, Zenon DEF ProcInv

\* The scheduler resumes a process, in fork's return or at the end of sleep.
LEMMA SchedulerInv ==
  ASSUME ProcInv, NEW p \in Slot, Scheduler(p)
  PROVE  ProcInv'
<1>1. /\ state[p] = "RUNNABLE" /\ state'[p] = "RUNNING" /\ pc'[p] \in {"user", "wait_lock"}
      /\ pc[p] \in {"forkret", "asleep"}
      /\ UNCHANGED <<parent, lock, wait_lock, i, j, arg>>
  BY Zenon DEF Scheduler, Goto, Set, ProcInv, Types, StateInv, locals
<1>2. \A q \in Slot \ {p} : pc'[q] = pc[q] /\ state'[q] = state[q] /\ chan'[q] = chan[q]
  BY Zenon DEF Scheduler, Goto, Set, ProcInv, Types
<1>3. Types'
  <2>1. chan' \in [Slot -> 0 .. NPROC]
    BY ProcAssumption, Zenon DEF Scheduler, Set, ProcInv, Types
  <2>2. state' \in [Slot -> States] /\ pc' \in [Slot -> Label]
    BY Zenon DEF Scheduler, Goto, Set, ProcInv, Types, States, Label, Idle
  <2> QED
    BY <1>1, <1>2, <2>1, <2>2, Zenon DEF ProcInv, Types, Scanning
<1>4. StateInv'
  BY <1>1, <1>2, Zenon DEF ProcInv, StateInv
<1>5. LockInv'
  BY <1>1, <1>2, SMTT(30) DEF ProcInv, LockInv, Holding
<1>6. ForkInv'
  BY <1>1, <1>2, Zenon DEF ProcInv, ForkInv, Forking
<1>7. FamilyInv'
  BY <1>1, <1>2, Slots, Parents, Zenon DEF ProcInv, FamilyInv, Live
<1>8. OrphanInv'
  BY <1>1, <1>2, Zenon DEF ProcInv, OrphanInv
<1>9. ScanInv'
  BY <1>1, <1>2, Zenon DEF ProcInv, ScanInv
<1>10. WakeInv'
  <2>1. \A q \in Slot : Dozing(q)' => Dozing(q)
    BY <1>1, <1>2, Zenon DEF Dozing
  <2>2. \A q \in Slot : Waking(q) => Waking(q)'
    BY <1>1, <1>2, Zenon DEF Waking
  <2> QED
    BY <1>1, <1>2, <2>1, <2>2, Parents, Zenon DEF ProcInv, WakeInv
<1> QED
  BY <1>3, <1>4, <1>5, <1>6, <1>7, <1>8, <1>9, <1>10, Zenon DEF ProcInv

\* At boot init is the only process.
LEMMA InitInv == Init => ProcInv
<1> SUFFICES ASSUME Init PROVE ProcInv
  BY Zenon
<1>1. Types
  BY Slots, ProcAssumption DEF Init, Types, States, Label, Idle, Scanning
<1>2. StateInv
  BY Zenon DEF Init, StateInv
<1>3. LockInv
  BY Slots, Zenon DEF Init, LockInv, Holding
<1>4. ForkInv
  BY Zenon DEF Init, ForkInv, Forking
<1>5. FamilyInv
  BY Slots, Zenon DEF Init, FamilyInv, Live
<1>6. OrphanInv /\ ScanInv
  BY Zenon DEF Init, OrphanInv, ScanInv
<1>7. WakeInv
  BY SMTT(30) DEF Init, WakeInv
<1> QED
  BY <1>1, <1>2, <1>3, <1>4, <1>5, <1>6, <1>7, Zenon DEF ProcInv

\* A step that changes nothing, as panic()'s, keeps the invariant.
LEMMA StutterInv == ProcInv /\ UNCHANGED vars => ProcInv'
<1> SUFFICES ASSUME ProcInv, UNCHANGED vars PROVE ProcInv'
  BY Zenon
<1> USE DEF vars, proc, locals
<1>1. Types'
  BY Zenon DEF ProcInv, Types
<1>2. StateInv' /\ LockInv' /\ ForkInv'
  BY Zenon DEF ProcInv, StateInv, LockInv, ForkInv
<1>3. FamilyInv' /\ OrphanInv' /\ ScanInv'
  BY Zenon DEF ProcInv, FamilyInv, OrphanInv, ScanInv
<1>4. WakeInv'
  BY Zenon DEF ProcInv, WakeInv, Dozing, Waking
<1> QED
  BY <1>1, <1>2, <1>3, <1>4, Zenon DEF ProcInv

\* Every step of every thread keeps the invariant.
LEMMA NextInv == ProcInv /\ [Next]_vars => ProcInv'
<1> SUFFICES ASSUME ProcInv, [Next]_vars PROVE ProcInv'
  BY Zenon
<1>1. CASE UNCHANGED vars
  BY <1>1, StutterInv, Zenon
<1>2. CASE Panic
  BY <1>2, StutterInv, Zenon DEF Panic
<1>3. ASSUME NEW p \in Slot, Fork(p) PROVE ProcInv'
  BY <1>3, AllocNoneInv, AllocSkipInv, AllocFoundInv, ForkFailInv, ForkCopyInv, ForkParentInv,
     ForkRunnableInv, Zenon DEF Fork
<1>4. ASSUME NEW p \in Slot, Exit(p) PROVE ProcInv'
  BY <1>4, ExitLockInv, ReparentInv, WakeupSlotInv, WakeupDoneInv, ExitWakeInv, ExitZombieInv, Zenon
     DEF Exit
<1>5. ASSUME NEW p \in Slot, Wait(p) PROVE ProcInv'
  BY <1>5, WaitLockInv, WaitSkipInv, WaitFoundInv, WaitNoneInv, WaitCheckInv, SleepLockInv, Zenon
     DEF Wait
<1>6. ASSUME NEW p \in Slot, Kill(p) \/ Sched(p) \/ Scheduler(p) PROVE ProcInv'
  BY <1>6, KillFoundInv, KillSkipInv, SchedInv, SchedulerInv, Zenon DEF Kill
<1>7. ASSUME NEW p \in Slot, User(p) PROVE ProcInv'
  BY <1>7, ForkCallInv, WaitCallInv, ExitCallInv, KillCallInv, Zenon DEF User
<1> QED
  BY <1>1, <1>2, <1>3, <1>4, <1>5, <1>6, <1>7, Zenon DEF Next, Kernel

\* The invariant holds for a process table of any size.
THEOREM ProcInvHolds == Spec => []ProcInv
  BY InitInv, NextInv, PTL DEF Spec

\* NoLostExit for every NPROC: with wait_lock free no wakeup is under way, so
\* a sleeping parent has no zombie child.
THEOREM ExitsAreNotLost == Spec => []NoLostExit
<1>1. ProcInv => NoLostExit
  <2> SUFFICES ASSUME ProcInv, NEW p \in Slot, NEW c \in Slot,
                      wait_lock = 0, state[p] = "SLEEPING", parent[c] = p, state[c] = "ZOMBIE"
               PROVE  FALSE
    BY Zenon DEF NoLostExit
  <2>1. ~Waking(p)
    BY Slots, Zenon DEF ProcInv, LockInv, Waking, Holding
  <2> QED
    BY <2>1, Slots, Zenon DEF ProcInv, WakeInv, Dozing
<1> QED
  BY <1>1, ProcInvHolds, PTL

\* StackQuiet for every NPROC: a zombie's lock is held until it is off its
\* stack, and wait and allocproc take that lock.
THEOREM StacksAreQuiet == Spec => []StackQuiet
<1>1. ProcInv => StackQuiet
  BY Zenon DEF ProcInv, StateInv, StackQuiet
<1> QED
  BY <1>1, ProcInvHolds, PTL

\* EveryChildHasParent for every NPROC: a parent is alive, because reparent
\* leaves the process that exits without children.
THEOREM ChildrenHaveParents == Spec => []EveryChildHasParent
<1>1. ProcInv => EveryChildHasParent
  BY Zenon DEF ProcInv, FamilyInv, Live, EveryChildHasParent
<1> QED
  BY <1>1, ProcInvHolds, PTL
=============================================================================
