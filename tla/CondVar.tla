------------------------------ MODULE CondVar ------------------------------
(***************************************************************************)
(* What kernel/proc.c's sleep and wakeup promise to the code that uses     *)
(* them with a condition lock: sleep gives up the lock and goes to sleep   *)
(* in one step, wakeup by the lock's holder wakes every sleeper in one     *)
(* step.  kill may wake a sleeper at any time.                             *)
(***************************************************************************)
CONSTANTS Proc, Nobody

VARIABLES owner,   \* holder of the condition lock
          waiters  \* processes asleep on the channel

vars == <<owner, waiters>>

Init == owner = Nobody /\ waiters = {}

Acquire(p) == owner = Nobody /\ owner' = p /\ p \notin waiters /\ UNCHANGED waiters

Release(p) == owner = p /\ owner' = Nobody /\ UNCHANGED waiters

Sleep(p) == owner = p /\ owner' = Nobody /\ waiters' = waiters \cup {p}

Wakeup(p) == owner = p /\ waiters' = {} /\ UNCHANGED owner

Kill(p) == p \in waiters /\ waiters' = waiters \ {p} /\ UNCHANGED owner

Next == \E p \in Proc : Acquire(p) \/ Release(p) \/ Sleep(p) \/ Wakeup(p) \/ Kill(p)

Spec == Init /\ [][Next]_vars
=============================================================================
