----------------------------- MODULE BlockDevice -----------------------------
(***************************************************************************)
(* What kernel/virtio_disk.c promises of virtio_disk_rw: between its call  *)
(* and its return the transfer happens, in one step and once.              *)
(***************************************************************************)
EXTENDS Naturals

CONSTANTS Proc, Block, Val, None

VARIABLES disk,              \* contents of the blocks
          data,              \* b->data of each caller's buffer, None until it matters
          write, blockno,    \* its arguments, 0 and None outside the call
          stage              \* "idle", "called" or "done"

vars == <<disk, data, write, blockno, stage>>

Init == /\ disk \in [Block -> Val]
        /\ data = [p \in Proc |-> None]
        /\ write = [p \in Proc |-> 0]
        /\ blockno = [p \in Proc |-> None]
        /\ stage = [p \in Proc |-> "idle"]

Call(p) == /\ stage[p] = "idle"
           /\ stage' = [stage EXCEPT ![p] = "called"]
           /\ \/ /\ write' = [write EXCEPT ![p] = 1]
                 /\ \E v \in Val : data' = [data EXCEPT ![p] = v]
              \/ /\ write' = [write EXCEPT ![p] = 0]
                 /\ data' = [data EXCEPT ![p] = None]
           /\ \E b \in Block : blockno' = [blockno EXCEPT ![p] = b]
           /\ UNCHANGED disk

Transfer(p) == /\ stage[p] = "called"
               /\ stage' = [stage EXCEPT ![p] = "done"]
               /\ IF write[p] = 1
                    THEN disk' = [disk EXCEPT ![blockno[p]] = data[p]] /\ UNCHANGED data
                    ELSE data' = [data EXCEPT ![p] = disk[blockno[p]]] /\ UNCHANGED disk
               /\ UNCHANGED <<write, blockno>>

Return(p) == /\ stage[p] = "done"
             /\ stage' = [stage EXCEPT ![p] = "idle"]
             /\ write' = [write EXCEPT ![p] = 0]
             /\ blockno' = [blockno EXCEPT ![p] = None]
             /\ UNCHANGED <<disk, data>>

Next == \E p \in Proc : Call(p) \/ Transfer(p) \/ Return(p)

Spec == Init /\ [][Next]_vars
=============================================================================
