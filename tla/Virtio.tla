------------------------------- MODULE Virtio -------------------------------
(***************************************************************************)
(* kernel/virtio_disk.c, the disk driver: callers of virtio_disk_rw, the   *)
(* interrupt handler and the device run concurrently.  Callers and the     *)
(* handler exclude each other by vdisk_lock; the device does not know it.  *)
(*                                                                         *)
(* A caller's buffer is named by the caller, who holds it locked for the   *)
(* whole call.  A descriptor's addr and next are kept where a buffer or    *)
(* another descriptor is meant.  A cell of a ring is forgotten once it has *)
(* been read, the arguments of a call when it returns, and what a buffer   *)
(* held when it is about to be read into.  The ring indices are unsigned   *)
(* words that count modulo WORD.                                           *)
(***************************************************************************)
EXTENDS Naturals, FiniteSets

CONSTANTS Proc, Block, Val,
          NUM,              \* number of descriptors
          WORD,             \* the ring indices are taken modulo WORD
          None, Intr, Panic

ASSUME VirtioAssumption ==
  /\ NUM \in Nat /\ NUM >= 3
  /\ WORD \in Nat \ {0} /\ WORD % NUM = 0
  /\ None # Intr /\ None # Panic /\ Intr # Panic
  /\ {None, Intr, Panic, "free"} \cap Proc = {}
  /\ None \notin Val /\ None \notin 0 .. NUM - 1 /\ None # "free"

Desc == 0 .. NUM - 1

VARIABLES
  disk,                                  \* the device: contents of the blocks,
  seen, inflight, isr,                   \* how far it has read avail, its work, its interrupt line
  addr, next, availring, availidx,       \* shared memory
  usedring, usedidx, optype, sector, status,
  free, used_idx, info,                  \* struct disk
  lock, looking,                         \* holder of vdisk_lock; 1 while the handler walks the ring
  data, bdisk, write, blockno,           \* of the buffer of each caller: b->data, b->disk, arguments
  pc, idx, chan                          \* of each caller

device == <<disk, seen, inflight, isr>>
queue == <<addr, next, availring, availidx, optype, sector>>
usedq == <<usedring, usedidx, status>>
driver == <<free, used_idx, info>>
buffer == <<data, bdisk, write, blockno>>
vars == <<device, queue, usedq, driver, lock, looking, buffer, pc, idx, chan>>

Init ==
  /\ disk \in [Block -> Val] /\ seen = 0 /\ inflight = {} /\ isr = 0
  /\ addr = [d \in Desc |-> None] /\ next = [d \in Desc |-> None]
  /\ availring = [d \in Desc |-> None] /\ availidx = 0
  /\ usedring = [d \in Desc |-> None] /\ usedidx = 0
  /\ optype = [d \in Desc |-> 0] /\ sector = [d \in Desc |-> None]
  /\ status = [d \in Desc |-> 0]
  /\ free = Desc /\ used_idx = 0 /\ info = [d \in Desc |-> None]
  /\ lock = None /\ looking = 0
  /\ data = [p \in Proc |-> None] /\ bdisk = [p \in Proc |-> 0]
  /\ write = [p \in Proc |-> 0] /\ blockno = [p \in Proc |-> None]
  /\ pc = [p \in Proc |-> "out"] /\ idx = [p \in Proc |-> None] /\ chan = [p \in Proc |-> None]

Inc(i) == (i + 1) % WORD
Goto(p, l) == pc' = [pc EXCEPT ![p] = l]

\* chan with everybody who sleeps on c awake.
Woken(c) == [q \in Proc |-> IF chan[q] = c THEN None ELSE chan[q]]

(***************************************************************************)
(* virtio_disk_rw                                                          *)
(***************************************************************************)
Rw(p, w, b, v) ==
  /\ pc[p] = "out" /\ lock = None
  /\ \A q \in Proc : blockno[q] # b
  /\ lock' = p
  /\ write' = [write EXCEPT ![p] = w]
  /\ blockno' = [blockno EXCEPT ![p] = b]
  /\ w = 1 <=> v # None
  /\ data' = [data EXCEPT ![p] = v]
  /\ Goto(p, "alloc")
  /\ UNCHANGED <<looking, device, queue, usedq, driver, bdisk, idx, chan>>

Lowest(S) == CHOOSE d \in S : \A e \in S : d <= e

\* alloc3_desc fails: what it took it gives back, which wakes the others.
AllocFails(p) ==
  /\ pc[p] = "alloc" /\ lock = p
  /\ Cardinality(free) < 3
  /\ chan' = [(IF free = {} THEN chan ELSE Woken("free")) EXCEPT ![p] = "free"]
  /\ lock' = None
  /\ UNCHANGED <<looking, device, queue, usedq, driver, buffer, pc, idx>>

Take(i0, i1, i2) == free' = free \ {i0, i1, i2}

\* alloc3_desc succeeds: the chain is formatted and put in the ring.
Format(p) ==
  LET i0 == Lowest(free)
      i1 == Lowest(free \ {i0})
      i2 == Lowest(free \ {i0, i1})
  IN
  /\ pc[p] = "alloc" /\ lock = p
  /\ Cardinality(free) >= 3
  /\ Take(i0, i1, i2)
  /\ optype' = [optype EXCEPT ![i0] = write[p]]
  /\ sector' = [sector EXCEPT ![i0] = blockno[p]]
  /\ next' = [next EXCEPT ![i0] = i1, ![i1] = i2, ![i2] = None]
  /\ addr' = [addr EXCEPT ![i1] = p]
  /\ status' = [status EXCEPT ![i0] = 255]
  /\ bdisk' = [bdisk EXCEPT ![p] = 1]
  /\ info' = [info EXCEPT ![i0] = p]
  /\ availring' = [availring EXCEPT ![availidx % NUM] = i0]
  /\ idx' = [idx EXCEPT ![p] = i0]
  /\ Goto(p, "publish")
  /\ UNCHANGED <<looking, device, availidx, usedring, usedidx, used_idx, lock, data, write, blockno, chan>>

Publish(p) ==
  /\ pc[p] = "publish" /\ lock = p
  /\ availidx' = Inc(availidx)
  /\ Goto(p, "wait")
  /\ UNCHANGED <<looking, device, addr, next, availring, optype, sector, usedq, driver, lock, buffer, idx, chan>>

Wait(p) ==
  /\ pc[p] = "wait" /\ lock = p
  /\ bdisk[p] = 1
  /\ chan' = [chan EXCEPT ![p] = p]
  /\ lock' = None
  /\ UNCHANGED <<looking, device, queue, usedq, driver, buffer, pc, idx>>

\* The descriptors of the chain that starts at d.
Chain(d) == {d} \cup (IF next[d] = None THEN {}
                      ELSE {next[d]} \cup (IF next[next[d]] = None THEN {} ELSE {next[next[d]]}))

\* Mutant: the first descriptor only.
FreeChainHead(d) ==
  LET chain == {d} IN
  /\ addr' = [e \in Desc |-> IF e \in chain THEN None ELSE addr[e]]
  /\ next' = [e \in Desc |-> IF e \in chain THEN None ELSE next[e]]
  /\ free' = free \cup chain
  /\ lock' = IF chain \cap free # {} THEN Panic ELSE None
  /\ chan' = Woken("free")

\* Mutant: nobody is woken.
FreeChainSilent(d) ==
  LET chain == Chain(d) IN
  /\ addr' = [e \in Desc |-> IF e \in chain THEN None ELSE addr[e]]
  /\ next' = [e \in Desc |-> IF e \in chain THEN None ELSE next[e]]
  /\ free' = free \cup chain
  /\ lock' = IF chain \cap free # {} THEN Panic ELSE None
  /\ UNCHANGED chan

\* free_chain and the release of vdisk_lock; free_desc panics when a descriptor
\* is free already.
FreeChain(d) ==
  LET chain == Chain(d) IN
  /\ addr' = [e \in Desc |-> IF e \in chain THEN None ELSE addr[e]]
  /\ next' = [e \in Desc |-> IF e \in chain THEN None ELSE next[e]]
  /\ free' = free \cup chain
  /\ lock' = IF chain \cap free # {} THEN Panic ELSE None
  /\ chan' = Woken("free")

\* Mutant: b->disk is not looked at.
MayFinish(p) == TRUE

Finished(p) == bdisk[p] = 0

Finish(p) ==
  /\ pc[p] = "wait" /\ lock = p
  /\ Finished(p)
  /\ info' = [info EXCEPT ![idx[p]] = None]
  /\ FreeChain(idx[p])
  /\ optype' = [optype EXCEPT ![idx[p]] = 0]
  /\ sector' = [sector EXCEPT ![idx[p]] = None]
  /\ write' = [write EXCEPT ![p] = 0]
  /\ blockno' = [blockno EXCEPT ![p] = None]
  /\ idx' = [idx EXCEPT ![p] = None]
  /\ Goto(p, "out")
  /\ UNCHANGED <<looking, device, availring, availidx, usedq, used_idx, data, bdisk>>

\* A caller that was woken gets vdisk_lock back and looks again.
Reacquire(p) ==
  /\ pc[p] \in {"alloc", "wait"} /\ chan[p] = None
  /\ lock = None /\ lock' = p
  /\ UNCHANGED <<looking, device, queue, usedq, driver, buffer, pc, idx, chan>>

(***************************************************************************)
(* virtio_disk_intr: acknowledge, then one step per entry of the used ring *)
(***************************************************************************)
IntrAck ==
  /\ isr = 1 /\ lock = None
  /\ lock' = Intr /\ looking' = 1
  /\ isr' = 0
  /\ UNCHANGED <<disk, seen, inflight, queue, usedq, driver, buffer, pc, idx, chan>>

Complete(b) == bdisk' = [bdisk EXCEPT ![b] = 0] /\ chan' = Woken(b)

IntrEntry ==
  LET id == usedring[used_idx % NUM] IN
  /\ looking = 1 /\ used_idx # usedidx
  /\ IF status[id] # 0
       THEN lock' = Panic /\ looking' = 0 /\ UNCHANGED <<bdisk, chan, used_idx, usedring>>
       ELSE /\ Complete(info[id])
            /\ used_idx' = Inc(used_idx)
            /\ usedring' = [usedring EXCEPT ![used_idx % NUM] = None]
            /\ UNCHANGED <<lock, looking>>
  /\ UNCHANGED <<device, queue, usedidx, status, free, info, data, write, blockno, pc, idx>>

\* The loop ends: the device may add to the ring before the handler returns.
IntrLast ==
  /\ looking = 1 /\ used_idx = usedidx
  /\ looking' = 0
  /\ UNCHANGED <<device, queue, usedq, driver, lock, buffer, pc, idx, chan>>

\* Mutant: the interrupt is acknowledged after the loop.
IntrReturnAcks ==
  /\ lock = Intr /\ looking = 0
  /\ lock' = None
  /\ isr' = 0
  /\ UNCHANGED <<looking, disk, seen, inflight, queue, usedq, driver, buffer, pc, idx, chan>>

IntrReturn ==
  /\ lock = Intr /\ looking = 0
  /\ lock' = None
  /\ UNCHANGED <<looking, device, queue, usedq, driver, buffer, pc, idx, chan>>

(***************************************************************************)
(* The device takes requests in the order of the avail ring and completes  *)
(* them in any order.                                                      *)
(***************************************************************************)
DeviceFetch ==
  /\ seen # availidx
  /\ inflight' = inflight \cup {availring[seen % NUM]}
  /\ availring' = [availring EXCEPT ![seen % NUM] = None]
  /\ seen' = Inc(seen)
  /\ UNCHANGED <<looking, disk, isr, addr, next, availidx, optype, sector, usedq, driver, lock, buffer, pc, idx, chan>>

DeviceComplete(h) ==
  LET b == addr[next[h]] IN
  /\ h \in inflight
  /\ IF optype[h] = 1
       THEN disk' = [disk EXCEPT ![sector[h]] = data[b]] /\ UNCHANGED data
       ELSE data' = [data EXCEPT ![b] = disk[sector[h]]] /\ UNCHANGED disk
  /\ status' = [status EXCEPT ![h] = 0]
  /\ usedring' = [usedring EXCEPT ![usedidx % NUM] = h]
  /\ usedidx' = Inc(usedidx)
  /\ inflight' = inflight \ {h}
  /\ isr' = 1
  /\ UNCHANGED <<looking, seen, queue, driver, lock, bdisk, write, blockno, pc, idx, chan>>

\* kill() wakes a sleeper, which looks again.
Kill(p) ==
  /\ chan[p] # None
  /\ chan' = [chan EXCEPT ![p] = None]
  /\ UNCHANGED <<device, queue, usedq, driver, lock, looking, buffer, pc, idx>>

Caller(p) == AllocFails(p) \/ Format(p) \/ Publish(p) \/ Wait(p) \/ Finish(p) \/ Reacquire(p)
Handler == IntrAck \/ IntrEntry \/ IntrLast \/ IntrReturn
Device == DeviceFetch \/ \E h \in inflight : DeviceComplete(h)

Next ==
  \/ \E p \in Proc : \/ Caller(p) \/ Kill(p)
                     \/ \E w \in 0 .. 1, b \in Block, v \in Val \cup {None} : Rw(p, w, b, v)
  \/ Handler
  \/ Device

Spec == Init /\ [][Next]_vars

(***************************************************************************)
(* Properties.                                                             *)
(***************************************************************************)
Submitted == {p \in Proc : pc[p] \in {"publish", "wait"}}

\* Every descriptor is free or in the chain of one request; a failed
\* alloc3_desc and a finished request leave none behind.
DescriptorsAccounted ==
  /\ free \cup UNION {Chain(idx[p]) : p \in Submitted} = Desc
  /\ \A p \in Submitted : Chain(idx[p]) \cap free = {} /\ Cardinality(Chain(idx[p])) = 3
  /\ \A p, q \in Submitted : p # q => Chain(idx[p]) \cap Chain(idx[q]) = {}

\* A completion is never overlooked: as long as the used ring has entries that
\* were not looked at, the interrupt is pending or its handler at work.
CompletionNoticed == used_idx # usedidx => isr = 1 \/ looking = 1

\* Nobody sleeps for a request that is done, or for descriptors that are there.
NobodyOversleeps ==
  \A p \in Proc : /\ chan[p] = p => bdisk[p] = 1
                  /\ chan[p] = "free" => Cardinality(free) < 3

\* virtio_disk_rw transfers the caller's block, and nobody else's, once and
\* before it returns, in whatever order the device completes the requests.
Stage == [p \in Proc |-> IF pc[p] = "out" THEN "idle"
                         ELSE IF p \in Submitted /\ status[idx[p]] = 0 THEN "done" ELSE "called"]

Abstract == INSTANCE BlockDevice WITH stage <- Stage

RefinesBlockDevice == Abstract!Spec

=============================================================================
