---------------------------- MODULE VirtioProofs ----------------------------
(***************************************************************************)
(* Proofs about kernel/virtio_disk.c: the properties of module Virtio that *)
(* hold for any number of callers and blocks, any ring of at least three   *)
(* descriptors and any word that its size divides.                         *)
(***************************************************************************)
EXTENDS Virtio, TLAPS

Types ==
  /\ seen \in Nat /\ availidx \in Nat /\ usedidx \in Nat /\ used_idx \in Nat
  /\ inflight \subseteq Desc /\ free \subseteq Desc
  /\ isr \in {0, 1} /\ looking \in {0, 1}
  /\ next \in [Desc -> Desc \cup {None}]
  /\ addr \in [Desc -> Proc \cup {None}] /\ info \in [Desc -> Proc \cup {None}]
  /\ availring \in [Desc -> Desc \cup {None}] /\ usedring \in [Desc -> Desc \cup {None}]
  /\ status \in [Desc -> {0, 255}]
  /\ DOMAIN optype = Desc /\ DOMAIN sector = Desc
  /\ lock \in Proc \cup {None, Intr}
  /\ bdisk \in [Proc -> {0, 1}]
  /\ DOMAIN write = Proc /\ DOMAIN blockno = Proc /\ DOMAIN data = Proc
  /\ pc \in [Proc -> {"out", "alloc", "publish", "wait"}]
  /\ idx \in [Proc -> Desc \cup {None}]
  /\ DOMAIN chan = Proc /\ \A p \in Proc : chan[p] \in {None, "free", p}

\* Who may hold vdisk_lock where.
LockInv ==
  /\ \A p \in Proc : pc[p] = "publish" => lock = p
  /\ looking = 1 => lock = Intr

Mid(p) == next[idx[p]]
Last(p) == next[next[idx[p]]]

\* The chain of a request: three descriptors, formatted for its caller and
\* shared with nobody.
ChainInv ==
  /\ \A p \in Submitted :
       /\ idx[p] \in Desc \ free /\ Mid(p) \in Desc \ free /\ Last(p) \in Desc \ free
       /\ next[Last(p)] = None
       /\ idx[p] # Mid(p) /\ idx[p] # Last(p) /\ Mid(p) # Last(p)
       /\ addr[Mid(p)] = p /\ info[idx[p]] = p
       /\ optype[idx[p]] = write[p] /\ sector[idx[p]] = blockno[p]
  /\ \A p, q \in Submitted : p # q =>
       {idx[p], Mid(p), Last(p)} \cap {idx[q], Mid(q), Last(q)} = {}
  /\ \A d \in Desc \ free : \E p \in Submitted : d \in {idx[p], Mid(p), Last(p)}

\* The first descriptors of the requests that are not done.
Pending == {idx[p] : p \in {q \in Submitted : bdisk[q] = 1}}

\* Where a request is: on its way to the device, with the device, on its way
\* back, or done.
RequestInv ==
  /\ \A c \in Desc : availring[c] # None =>
       availring[c] \in Pending /\ status[availring[c]] = 255 /\ availring[c] \notin inflight
  /\ \A c, d \in Desc : availring[c] # None /\ availring[c] = availring[d] => c = d
  /\ \A h \in inflight : h \in Pending /\ status[h] = 255
  /\ \A c \in Desc : usedring[c] # None => usedring[c] \in Pending /\ status[usedring[c]] = 0
  /\ \A c, d \in Desc : usedring[c] # None /\ usedring[c] = usedring[d] => c = d
  /\ \A p \in Submitted : bdisk[p] = 0 => status[idx[p]] = 0

\* The entries of one of the two rings are in the cells from count s up to
\* count u, less than a whole turn.
Entries(ring, s, u) ==
  /\ s <= u /\ u < s + NUM
  /\ \A k \in s .. u - 1 : ring[k % NUM] # None
  /\ \A c \in Desc : ring[c] # None => \E k \in s .. u - 1 : c = k % NUM

\* A formatted request is in the ring one step before the index says so.
Ahead == IF \E p \in Proc : pc[p] = "publish" THEN 1 ELSE 0

AvailInv == \E s, u \in Nat : /\ seen = s % WORD /\ availidx = u % WORD /\ s <= u
                              /\ Entries(availring, s, u + Ahead)

UsedInv == \E s, u \in Nat : /\ used_idx = s % WORD /\ usedidx = u % WORD
                             /\ Entries(usedring, s, u)

SleepInv == CompletionNoticed /\ NobodyOversleeps

VirtioInv == Types /\ LockInv /\ ChainInv /\ RequestInv /\ AvailInv /\ UsedInv /\ SleepInv

(***************************************************************************)
(* What the steps rest on: facts about the indices, the rings and the      *)
(* sets of descriptors, which mention no state.  They are proved in the    *)
(* last section but one, from the theorems about finite sets.              *)
(***************************************************************************)
\* An index that counts modulo WORD points at the cell its count points at.
Counts == \A x \in Nat : /\ x % NUM \in Desc /\ x % WORD \in Nat
                          /\ (x % WORD) % NUM = x % NUM
                          /\ Inc(x % WORD) = (x + 1) % WORD

\* What is put in the next cell of a ring that has room overwrites nothing.
Pushes == \A ring \in [Desc -> Desc \cup {None}], v \in Desc, s, u \in Nat :
  Entries(ring, s, u) /\ u + 1 < s + NUM =>
    ring[u % NUM] = None /\ Entries([ring EXCEPT ![u % NUM] = v], s, u + 1)

\* The first cell of a ring that is not empty holds something; what is left
\* when it is taken are entries again.
Pops == \A ring \in [Desc -> Desc \cup {None}], s, u \in Nat :
  Entries(ring, s, u) /\ s # u =>
    ring[s % NUM] \in Desc /\ Entries([ring EXCEPT ![s % NUM] = None], s + 1, u)

\* A ring whose entries are different members of S has no more of them than S.
Fits == \A ring \in [Desc -> Desc \cup {None}], s, u \in Nat, S \in SUBSET Desc :
  /\ Entries(ring, s, u)
  /\ \A c \in Desc : ring[c] # None => ring[c] \in S
  /\ \A c, d \in Desc : ring[c] # None /\ ring[c] = ring[d] => c = d
  => u - s <= Cardinality(S)

\* There are NUM descriptors.
Counting ==
  /\ \A S \in SUBSET Desc : Cardinality(S) \in Nat /\ Cardinality(Desc \ S) = NUM - Cardinality(S)
  /\ \A S, R \in SUBSET Desc : S \subseteq R => Cardinality(S) <= Cardinality(R)
  /\ \A a, b, c \in Desc : a # b /\ a # c /\ b # c => Cardinality({a, b, c}) = 3

\* The lowest three members of S.
ThreeOf(S) == LET i0 == Lowest(S)
                  i1 == Lowest(S \ {i0})
                  i2 == Lowest(S \ {i0, i1})
              IN  /\ i0 \in S /\ i1 \in S /\ i2 \in S
                  /\ i0 # i1 /\ i0 # i2 /\ i1 # i2

\* alloc3_desc finds three different descriptors among three or more.
Enough == \A S \in SUBSET Desc : Cardinality(S) >= 3 => ThreeOf(S)

Facts == Counts /\ Pushes /\ Pops /\ Fits /\ Counting /\ Enough

(***************************************************************************)
(* The invariant holds initially.                                           *)
(***************************************************************************)
\* virtio_disk_init leaves the rings empty and every descriptor free.
LEMMA InitInv == Init => VirtioInv
  <1> SUFFICES ASSUME Init PROVE VirtioInv
    BY Zenon
  <1>1. Types /\ LockInv
    BY DEF Init, Types, LockInv, Desc
  <1>2. Submitted = {} /\ Ahead = 0
    BY Zenon DEF Init, Submitted, Ahead
  <1>3. ChainInv /\ RequestInv
    BY <1>2, Zenon DEF Init, ChainInv, RequestInv
  <1>4. 0 % WORD = 0 /\ 0 + Ahead = 0
    BY <1>2, VirtioAssumption
  <1>5. Entries(availring, 0, 0) /\ Entries(usedring, 0, 0)
    BY VirtioAssumption DEF Init, Entries
  <1>6. AvailInv /\ UsedInv
    BY <1>4, <1>5 DEF Init, AvailInv, UsedInv
  <1>7. SleepInv
    BY VirtioAssumption, Zenon DEF Init, SleepInv, CompletionNoticed, NobodyOversleeps
  <1> QED
    BY <1>1, <1>3, <1>6, <1>7, Zenon DEF VirtioInv

\* free_chain walks exactly the three descriptors of the request.
LEMMA ChainIs ==
  ASSUME ChainInv, NEW p \in Submitted
  PROVE  Chain(idx[p]) = {idx[p], Mid(p), Last(p)}
  BY VirtioAssumption DEF Desc, ChainInv, Chain, Mid, Last

\* A head that is pending belongs to one caller, and info names it.
LEMMA Owner ==
  ASSUME ChainInv, NEW p \in Submitted, NEW q \in Submitted, idx[p] = idx[q]
  PROVE  p = q
  BY Zenon DEF ChainInv

(***************************************************************************)
(* Steps that leave the requests where they are.                           *)
(***************************************************************************)
\* The state of the requests.
requests == <<idx, next, addr, info, optype, sector, free, bdisk, availring, usedring,
              status, inflight, seen, availidx, used_idx, usedidx>>

\* A step that leaves the requests alone leaves their part of the invariant.
LEMMA QuietStep ==
  ASSUME VirtioInv, UNCHANGED requests, Submitted' = Submitted, Ahead' = Ahead,
         \A p \in Submitted : write'[p] = write[p] /\ blockno'[p] = blockno[p]
  PROVE  ChainInv' /\ RequestInv' /\ AvailInv' /\ UsedInv'
  <1> USE DEF requests
  <1>1. \A p : Mid(p)' = Mid(p) /\ Last(p)' = Last(p)
    BY Zenon DEF Mid, Last
  <1>2. ChainInv'
    BY <1>1 DEF VirtioInv, ChainInv
  <1>3. Pending' = Pending
    BY Zenon DEF Pending
  <1>4. RequestInv'
    BY <1>3 DEF VirtioInv, RequestInv
  <1>5. AvailInv' /\ UsedInv'
    BY Zenon DEF VirtioInv, AvailInv, UsedInv
  <1> QED
    BY <1>2, <1>4, <1>5, Zenon

\* A call begins.
LEMMA RwInv ==
  ASSUME VirtioInv, NEW p \in Proc, NEW w \in 0 .. 1, NEW b \in Block, NEW v, Rw(p, w, b, v)
  PROVE  VirtioInv'
  <1>1. /\ pc[p] = "out" /\ lock = None /\ lock' = p
        /\ UNCHANGED <<requests, looking, isr, chan>>
        /\ \A q \in Proc : pc'[q] = IF q = p THEN "alloc" ELSE pc[q]
        /\ \A q \in Proc \ {p} : write'[q] = write[q] /\ blockno'[q] = blockno[q]
    BY Zenon DEF Rw, Goto, VirtioInv, Types, requests, device, queue, usedq, driver
  <1>2. Types'
    <2>1. pc' \in [Proc -> {"out", "alloc", "publish", "wait"}]
      BY Zenon DEF Rw, Goto, VirtioInv, Types
    <2>2. DOMAIN write' = Proc /\ DOMAIN blockno' = Proc /\ DOMAIN data' = Proc
      BY Zenon DEF Rw, VirtioInv, Types
    <2> QED
      BY <1>1, <2>1, <2>2, Zenon DEF VirtioInv, Types, requests
  <1>3. Submitted' = Submitted /\ Ahead' = Ahead /\ p \notin Submitted
    BY <1>1, Zenon DEF Submitted, Ahead
  <1>4. ChainInv' /\ RequestInv' /\ AvailInv' /\ UsedInv'
    BY <1>1, <1>3, QuietStep, Zenon DEF Submitted
  <1>5. LockInv'
    BY <1>1, VirtioAssumption, Zenon DEF VirtioInv, LockInv
  <1>6. SleepInv'
    BY <1>1, Zenon DEF VirtioInv, SleepInv, CompletionNoticed, NobodyOversleeps, requests
  <1> QED
    BY <1>2, <1>4, <1>5, <1>6, Zenon DEF VirtioInv

\* alloc3_desc fails and the caller goes to sleep on &disk.free[0].
LEMMA AllocFailsInv == ASSUME VirtioInv, NEW p \in Proc, AllocFails(p) PROVE VirtioInv'
  <1>1. /\ pc[p] = "alloc" /\ lock = p /\ lock' = None /\ Cardinality(free) < 3
        /\ UNCHANGED <<requests, looking, isr, pc, write, blockno, data>>
    BY Zenon DEF AllocFails, requests, device, queue, usedq, driver, buffer
  <1>2. /\ DOMAIN chan' = Proc
        /\ \A q \in Proc : chan'[q] = chan[q] \/ chan'[q] = None \/ (q = p /\ chan'[q] = "free")
    <2>1. CASE free = {}
      BY <2>1, Zenon DEF AllocFails, VirtioInv, Types
    <2>2. CASE free # {}
      <3>1. chan' = [Woken("free") EXCEPT ![p] = "free"]
        BY <2>2, Zenon DEF AllocFails
      <3> QED
        BY <3>1, Zenon DEF Woken
    <2> QED
      BY <2>1, <2>2, Zenon
  <1>3. Types'
    BY <1>1, <1>2, Zenon DEF VirtioInv, Types, requests
  <1>4. Submitted' = Submitted /\ Ahead' = Ahead
    BY <1>1, Zenon DEF Submitted, Ahead
  <1>5. ChainInv' /\ RequestInv' /\ AvailInv' /\ UsedInv'
    BY <1>1, <1>4, QuietStep, Zenon
  <1>6. LockInv'
    BY <1>1, VirtioAssumption, Zenon DEF VirtioInv, LockInv
  <1>7. SleepInv'
    BY <1>1, <1>2, VirtioAssumption, Zenon DEF VirtioInv, SleepInv, CompletionNoticed, NobodyOversleeps, requests
  <1> QED
    BY <1>3, <1>5, <1>6, <1>7, Zenon DEF VirtioInv

\* A caller goes to sleep until its request is done.
LEMMA WaitInv == ASSUME VirtioInv, NEW p \in Proc, Wait(p) PROVE VirtioInv'
  <1>1. /\ pc[p] = "wait" /\ lock = p /\ lock' = None /\ bdisk[p] = 1
        /\ UNCHANGED <<requests, looking, isr, pc, write, blockno, data>>
    BY Zenon DEF Wait, requests, device, queue, usedq, driver, buffer
  <1>2. DOMAIN chan' = Proc /\ \A q \in Proc : chan'[q] = IF q = p THEN p ELSE chan[q]
    BY Zenon DEF Wait, VirtioInv, Types
  <1>3. Types'
    BY <1>1, <1>2, Zenon DEF VirtioInv, Types, requests
  <1>4. Submitted' = Submitted /\ Ahead' = Ahead
    BY <1>1, Zenon DEF Submitted, Ahead
  <1>5. ChainInv' /\ RequestInv' /\ AvailInv' /\ UsedInv'
    BY <1>1, <1>4, QuietStep, Zenon
  <1>6. LockInv'
    BY <1>1, VirtioAssumption, Zenon DEF VirtioInv, LockInv
  <1>7. SleepInv'
    BY <1>1, <1>2, VirtioAssumption, Zenon DEF VirtioInv, SleepInv, CompletionNoticed, NobodyOversleeps, requests
  <1> QED
    BY <1>3, <1>5, <1>6, <1>7, Zenon DEF VirtioInv

\* A woken caller takes vdisk_lock again, or kill() wakes one.
LEMMA WakeInv ==
  ASSUME VirtioInv, NEW p \in Proc, Reacquire(p) \/ Kill(p) PROVE VirtioInv'
  <1>1. /\ UNCHANGED <<requests, looking, isr, pc, write, blockno, data>>
        /\ lock' = lock \/ (lock = None /\ lock' = p)
    <2>1. CASE Reacquire(p)
      BY <2>1, Zenon DEF Reacquire, requests, device, queue, usedq, driver, buffer
    <2>2. CASE Kill(p)
      BY <2>2, Zenon DEF Kill, requests, device, queue, usedq, driver, buffer
    <2> QED
      BY <2>1, <2>2, Zenon
  <1>2. DOMAIN chan' = Proc /\ \A q \in Proc : chan'[q] = chan[q] \/ chan'[q] = None
    BY Zenon DEF Reacquire, Kill, VirtioInv, Types
  <1>3. Types'
    BY <1>1, <1>2, Zenon DEF VirtioInv, Types, requests
  <1>4. Submitted' = Submitted /\ Ahead' = Ahead
    BY <1>1, Zenon DEF Submitted, Ahead
  <1>5. ChainInv' /\ RequestInv' /\ AvailInv' /\ UsedInv'
    BY <1>1, <1>4, QuietStep, Zenon
  <1>6. LockInv'
    BY <1>1, VirtioAssumption, Zenon DEF VirtioInv, LockInv
  <1>7. SleepInv'
    BY <1>1, <1>2, VirtioAssumption, Zenon DEF VirtioInv, SleepInv, CompletionNoticed, NobodyOversleeps, requests
  <1> QED
    BY <1>3, <1>5, <1>6, <1>7, Zenon DEF VirtioInv

\* The interrupt handler acknowledges, finds the ring empty, or returns.
LEMMA HandlerInv == ASSUME VirtioInv, IntrAck \/ IntrLast \/ IntrReturn PROVE VirtioInv'
  <1>1. UNCHANGED <<requests, pc, chan, write, blockno, data>>
    BY Zenon DEF IntrAck, IntrLast, IntrReturn, requests, device, queue, usedq, driver, buffer
  <1>2. \/ isr = 1 /\ lock = None /\ lock' = Intr /\ looking' = 1 /\ isr' = 0
        \/ looking = 1 /\ used_idx = usedidx /\ looking' = 0 /\ lock' = lock /\ isr' = isr
        \/ lock = Intr /\ looking = 0 /\ lock' = None /\ looking' = looking /\ isr' = isr
    BY Zenon DEF IntrAck, IntrLast, IntrReturn, device
  <1>3. Types'
    BY <1>1, <1>2, Zenon DEF VirtioInv, Types, requests
  <1>4. Submitted' = Submitted /\ Ahead' = Ahead
    BY <1>1, Zenon DEF Submitted, Ahead
  <1>5. ChainInv' /\ RequestInv' /\ AvailInv' /\ UsedInv'
    BY <1>1, <1>4, QuietStep, Zenon
  <1>6. LockInv'
    BY <1>1, <1>2, VirtioAssumption DEF VirtioInv, LockInv
  <1>7. SleepInv'
    BY <1>1, <1>2, Zenon DEF VirtioInv, SleepInv, CompletionNoticed, NobodyOversleeps, requests
  <1> QED
    BY <1>3, <1>5, <1>6, <1>7, Zenon DEF VirtioInv

(***************************************************************************)
(* Steps that move a request on.                                           *)
(***************************************************************************)
\* What virtio_disk_rw does with the three descriptors it got.
Formatted(p, i0, i1, i2) ==
  /\ i0 # i1 /\ i0 # i2 /\ i1 # i2
  /\ pc[p] = "alloc" /\ lock = p
  /\ free' = free \ {i0, i1, i2}
  /\ \A d \in Desc : /\ next'[d] = IF d = i0 THEN i1 ELSE IF d = i1 THEN i2
                                   ELSE IF d = i2 THEN None ELSE next[d]
                     /\ addr'[d] = IF d = i1 THEN p ELSE addr[d]
                     /\ info'[d] = IF d = i0 THEN p ELSE info[d]
                     /\ status'[d] = IF d = i0 THEN 255 ELSE status[d]
                     /\ optype'[d] = IF d = i0 THEN write[p] ELSE optype[d]
                     /\ sector'[d] = IF d = i0 THEN blockno[p] ELSE sector[d]
  /\ \A q \in Proc : /\ idx'[q] = IF q = p THEN i0 ELSE idx[q]
                     /\ bdisk'[q] = IF q = p THEN 1 ELSE bdisk[q]
                     /\ pc'[q] = IF q = p THEN "publish" ELSE pc[q]
  /\ availring' = [availring EXCEPT ![availidx % NUM] = i0]
  /\ UNCHANGED <<looking, disk, seen, inflight, isr, availidx, usedring, usedidx, used_idx, lock,
                 data, write, blockno, chan>>

\* alloc3_desc has taken three free descriptors, and Format keeps the types.
LEMMA FormatEffect ==
  ASSUME VirtioInv, NEW p \in Proc, Format(p), Facts
  PROVE  \E i0, i1, i2 \in free : Formatted(p, i0, i1, i2) /\ Types'
  <1> DEFINE i0 == Lowest(free)
             i1 == Lowest(free \ {i0})
             i2 == Lowest(free \ {i0, i1})
  <1>1. free \in SUBSET Desc
    BY Zenon DEF VirtioInv, Types
  <1>2. Cardinality(free) >= 3
    BY Zenon DEF Format
  <1>3. /\ i0 \in free /\ i1 \in free /\ i2 \in free
        /\ i0 # i1 /\ i0 # i2 /\ i1 # i2
    BY <1>1, <1>2, Zenon DEF Facts, Enough, ThreeOf
  <1>4. /\ pc[p] = "alloc" /\ lock = p
        /\ free' = free \ {i0, i1, i2}
        /\ optype' = [optype EXCEPT ![i0] = write[p]]
        /\ sector' = [sector EXCEPT ![i0] = blockno[p]]
        /\ next' = [next EXCEPT ![i0] = i1, ![i1] = i2, ![i2] = None]
        /\ addr' = [addr EXCEPT ![i1] = p]
        /\ status' = [status EXCEPT ![i0] = 255]
        /\ bdisk' = [bdisk EXCEPT ![p] = 1]
        /\ info' = [info EXCEPT ![i0] = p]
        /\ availring' = [availring EXCEPT ![availidx % NUM] = i0]
        /\ idx' = [idx EXCEPT ![p] = i0]
        /\ pc' = [pc EXCEPT ![p] = "publish"]
        /\ UNCHANGED <<looking, disk, seen, inflight, isr, availidx, usedring, usedidx, used_idx,
                       lock, data, write, blockno, chan>>
    BY Zenon DEF Format, Take, Goto, device
  <1> HIDE DEF i0, i1, i2
  <1>5. i0 \in Desc /\ i1 \in Desc /\ i2 \in Desc
    BY <1>1, <1>3, Zenon
  <1>6. \A d \in Desc : next'[d] = IF d = i0 THEN i1 ELSE IF d = i1 THEN i2
                                   ELSE IF d = i2 THEN None ELSE next[d]
    BY <1>3, <1>4, <1>5, Zenon DEF VirtioInv, Types
  <1>7. \A d \in Desc : /\ addr'[d] = IF d = i1 THEN p ELSE addr[d]
                        /\ info'[d] = IF d = i0 THEN p ELSE info[d]
                        /\ status'[d] = IF d = i0 THEN 255 ELSE status[d]
                        /\ optype'[d] = IF d = i0 THEN write[p] ELSE optype[d]
                        /\ sector'[d] = IF d = i0 THEN blockno[p] ELSE sector[d]
    BY <1>4, Zenon DEF VirtioInv, Types
  <1>8. \A q \in Proc : /\ idx'[q] = IF q = p THEN i0 ELSE idx[q]
                        /\ bdisk'[q] = IF q = p THEN 1 ELSE bdisk[q]
                        /\ pc'[q] = IF q = p THEN "publish" ELSE pc[q]
    BY <1>4, Zenon DEF VirtioInv, Types
  <1>9. Formatted(p, i0, i1, i2)
    BY <1>3, <1>4, <1>6, <1>7, <1>8, Zenon DEF Formatted
  <1>10. Types'
    <2>1. free' \subseteq Desc
      BY <1>1, <1>4, Zenon
    <2>2. next' \in [Desc -> Desc \cup {None}]
      BY <1>4, <1>5, Zenon DEF VirtioInv, Types
    <2>3. /\ addr' \in [Desc -> Proc \cup {None}] /\ info' \in [Desc -> Proc \cup {None}]
          /\ status' \in [Desc -> {0, 255}] /\ bdisk' \in [Proc -> {0, 1}]
      BY <1>4, <1>5, Zenon DEF VirtioInv, Types
    <2>4. /\ availring' \in [Desc -> Desc \cup {None}] /\ idx' \in [Proc -> Desc \cup {None}]
          /\ pc' \in [Proc -> {"out", "alloc", "publish", "wait"}]
          /\ DOMAIN optype' = Desc /\ DOMAIN sector' = Desc
      BY <1>4, <1>5, Zenon DEF VirtioInv, Types
    <2> QED
      BY <1>4, <2>1, <2>2, <2>3, <2>4, Zenon DEF VirtioInv, Types
  <1> QED
    BY <1>3, <1>9, <1>10, Zenon

\* The new chain takes free descriptors only, so the chains stay disjoint.
LEMMA FormatChains ==
  ASSUME VirtioInv, NEW p \in Proc, NEW i0 \in free, NEW i1 \in free, NEW i2 \in free,
         Formatted(p, i0, i1, i2)
  PROVE  /\ Submitted' = Submitted \cup {p} /\ p \notin Submitted
         /\ ChainInv'
  <1>1. Submitted' = Submitted \cup {p} /\ p \notin Submitted
    <2>1. pc[p] = "alloc" /\ \A q \in Proc : pc'[q] = IF q = p THEN "publish" ELSE pc[q]
      BY Zenon DEF Formatted
    <2> QED
      BY <2>1, Zenon DEF Submitted
  <1>2. i0 \in Desc /\ i1 \in Desc /\ i2 \in Desc /\ free \subseteq Desc
    BY Zenon DEF VirtioInv, Types
  <1>3. idx'[p] = i0 /\ Mid(p)' = i1 /\ Last(p)' = i2 /\ next'[i2] = None
    BY <1>2, Zenon DEF Formatted, Mid, Last
  <1>4. ASSUME NEW q \in Submitted
        PROVE  /\ q # p /\ q \in Proc
               /\ idx'[q] = idx[q] /\ Mid(q)' = Mid(q) /\ Last(q)' = Last(q)
               /\ next'[Last(q)] = None
               /\ addr'[Mid(q)] = q /\ info'[idx[q]] = q
               /\ optype'[idx[q]] = write[q] /\ sector'[idx[q]] = blockno[q]
    <2>1. q # p /\ q \in Proc /\ idx'[q] = idx[q]
      BY <1>1, Zenon DEF Formatted, Submitted
    <2>2. /\ idx[q] \in Desc \ free /\ Mid(q) \in Desc \ free /\ Last(q) \in Desc \ free
          /\ next[Last(q)] = None /\ addr[Mid(q)] = q /\ info[idx[q]] = q
          /\ optype[idx[q]] = write[q] /\ sector[idx[q]] = blockno[q]
      BY Zenon DEF VirtioInv, ChainInv
    <2>3. \A d \in Desc \ free : /\ next'[d] = next[d] /\ addr'[d] = addr[d] /\ info'[d] = info[d]
                                 /\ optype'[d] = optype[d] /\ sector'[d] = sector[d]
      BY Zenon DEF Formatted
    <2>4. Mid(q)' = Mid(q)
      BY <2>1, <2>2, <2>3 DEF Mid
    <2>5. Last(q)' = Last(q)
      BY <2>1, <2>2, <2>3 DEF Mid, Last
    <2> QED
      BY <2>1, <2>2, <2>3, <2>4, <2>5, Zenon
  <1>5. ASSUME NEW q \in Submitted'
        PROVE  /\ idx'[q] \in Desc \ free' /\ Mid(q)' \in Desc \ free' /\ Last(q)' \in Desc \ free'
               /\ next'[Last(q)'] = None
               /\ idx'[q] # Mid(q)' /\ idx'[q] # Last(q)' /\ Mid(q)' # Last(q)'
               /\ addr'[Mid(q)'] = q /\ info'[idx'[q]] = q
               /\ optype'[idx'[q]] = write'[q] /\ sector'[idx'[q]] = blockno'[q]
    <2>1. CASE q = p
      BY <1>2, <1>3, <2>1, Zenon DEF Formatted
    <2>2. CASE q \in Submitted
      <3>1. /\ idx[q] \in Desc \ free /\ Mid(q) \in Desc \ free /\ Last(q) \in Desc \ free
            /\ idx[q] # Mid(q) /\ idx[q] # Last(q) /\ Mid(q) # Last(q)
        BY <2>2, Zenon DEF VirtioInv, ChainInv
      <3>2. free' \subseteq free /\ UNCHANGED <<write, blockno>>
        BY Zenon DEF Formatted
      <3> QED
        BY <1>4, <2>2, <3>1, <3>2
    <2> QED
      BY <1>1, <2>1, <2>2, Zenon
  <1>6. ASSUME NEW q \in Submitted', NEW r \in Submitted', q # r
        PROVE  {idx'[q], Mid(q)', Last(q)'} \cap {idx'[r], Mid(r)', Last(r)'} = {}
    <2>1. ASSUME NEW s \in Submitted
          PROVE  {idx'[s], Mid(s)', Last(s)'} \cap {i0, i1, i2} = {}
      BY <1>4, <2>1 DEF VirtioInv, ChainInv
    <2>2. CASE q \in Submitted /\ r \in Submitted
      BY <1>4, <1>6, <2>2 DEF VirtioInv, ChainInv
    <2>3. CASE q = p
      BY <1>1, <1>3, <1>6, <2>1, <2>3, Zenon
    <2>4. CASE r = p
      BY <1>1, <1>3, <1>6, <2>1, <2>4, Zenon
    <2> QED
      BY <1>1, <2>2, <2>3, <2>4, Zenon
  <1>7. ASSUME NEW d \in Desc \ free'
        PROVE  \E q \in Submitted' : d \in {idx'[q], Mid(q)', Last(q)'}
    <2>1. CASE d \in free
      BY <1>1, <1>3, <1>7, <2>1, Zenon DEF Formatted
    <2>2. CASE d \notin free
      <3>1. PICK q \in Submitted : d \in {idx[q], Mid(q), Last(q)}
        BY <2>2, Zenon DEF VirtioInv, ChainInv
      <3> QED
        BY <1>1, <1>4, <3>1, Zenon
    <2> QED
      BY <2>1, <2>2, Zenon
  <1>8. ChainInv'
    BY <1>5, <1>6, <1>7, Zenon DEF ChainInv
  <1> QED
    BY <1>1, <1>8, Zenon

\* The heads that are pending are not free, and each has one caller.
LEMMA PendingHead ==
  ASSUME VirtioInv, NEW h \in Pending
  PROVE  h \in Desc \ free
  BY DEF Pending, VirtioInv, ChainInv

\* While a caller holds vdisk_lock elsewhere, nobody is between writing the
\* ring cell and moving the index.
LEMMA Nobody ==
  ASSUME VirtioInv, NEW p \in Proc, lock = p, pc[p] # "publish"
  PROVE  Ahead = 0
  BY Zenon DEF VirtioInv, LockInv, Ahead

\* The avail ring has room for every request that has got its descriptors.
LEMMA FormatRing ==
  ASSUME VirtioInv, Facts, NEW p \in Proc, NEW i0 \in free, NEW i1 \in free, NEW i2 \in free,
         Formatted(p, i0, i1, i2), Cardinality(free) >= 3
  PROVE  AvailInv' /\ availring[availidx % NUM] = None /\ availidx % NUM \in Desc
  <1>1. PICK s, u \in Nat : /\ seen = s % WORD /\ availidx = u % WORD /\ s <= u
                            /\ Entries(availring, s, u + Ahead)
    BY Zenon DEF VirtioInv, AvailInv
  <1>2. Ahead = 0 /\ Ahead' = 1
    BY Nobody, Zenon DEF Formatted, Ahead
  <1>3. Entries(availring, s, u)
    BY <1>1, <1>2
  <1>4. availring \in [Desc -> Desc \cup {None}] /\ i0 \in Desc /\ free \in SUBSET Desc
    BY Zenon DEF VirtioInv, Types
  <1> DEFINE T == Desc \ free
  <1>5. T \in SUBSET Desc /\ Cardinality(T) \in Nat /\ Cardinality(T) <= NUM - 3
    <2>1. Cardinality(free) \in Nat /\ Cardinality(T) = NUM - Cardinality(free)
      BY <1>4, Zenon DEF Facts, Counting
    <2>2. T \in SUBSET Desc
      BY Zenon
    <2>3. NUM \in Nat /\ Cardinality(free) >= 3 /\ Cardinality(T) \in Nat
      BY <2>2, VirtioAssumption, Zenon DEF Facts, Counting
    <2> HIDE DEF T
    <2> QED
      BY <2>1, <2>2, <2>3
  <1>6. ASSUME NEW c \in Desc, availring[c] # None PROVE availring[c] \in T
    <2>1. availring[c] \in Pending
      BY <1>6, Zenon DEF VirtioInv, RequestInv
    <2> QED
      BY <2>1, PendingHead, Zenon
  <1>7. \A c, d \in Desc : availring[c] # None /\ availring[c] = availring[d] => c = d
    BY Zenon DEF VirtioInv, RequestInv
  <1> HIDE DEF T
  <1>8. u - s <= Cardinality(T) /\ Cardinality(T) \in Nat
    BY <1>3, <1>4, <1>5, <1>6, <1>7, Zenon DEF Facts, Fits
  <1>9. u + 1 < s + NUM
    BY <1>5, <1>8, VirtioAssumption
  <1>10. availring[u % NUM] = None /\ Entries([availring EXCEPT ![u % NUM] = i0], s, u + 1)
    BY <1>3, <1>4, <1>9, Zenon DEF Facts, Pushes
  <1>11. availidx % NUM = u % NUM /\ u % NUM \in Desc
    BY <1>1, Zenon DEF Facts, Counts
  <1>12. Entries(availring', s, u + Ahead')
    BY <1>2, <1>10, <1>11, Zenon DEF Formatted
  <1>13. AvailInv'
    BY <1>1, <1>12, Zenon DEF AvailInv, Formatted
  <1> QED
    BY <1>10, <1>11, <1>13, Zenon

\* The request is formatted and put in the ring.
LEMMA FormatKeeps ==
  ASSUME VirtioInv, NEW p \in Proc, NEW i0 \in free, NEW i1 \in free, NEW i2 \in free,
         Formatted(p, i0, i1, i2), Types', AvailInv',
         availring[availidx % NUM] = None, availidx % NUM \in Desc,
         Cardinality(free) \in Nat, Cardinality(free') \in Nat,
         Cardinality(free') <= Cardinality(free)
  PROVE  VirtioInv'
  <1>1. Formatted(p, i0, i1, i2) /\ Types'
    BY Zenon
  <1>2. Submitted' = Submitted \cup {p} /\ p \notin Submitted /\ ChainInv'
    BY <1>1, FormatChains, Zenon
  <1>3. AvailInv' /\ availring[availidx % NUM] = None /\ availidx % NUM \in Desc
    BY Zenon
  <1>4. UsedInv'
    <2>1. UNCHANGED <<used_idx, usedidx, usedring>>
      BY <1>1, Zenon DEF Formatted
    <2> QED
      BY <2>1, Zenon DEF VirtioInv, UsedInv, Entries
  <1>5. LockInv'
    BY <1>1, Zenon DEF VirtioInv, LockInv, Formatted
  <1>6. i0 \in Desc /\ free \subseteq Desc
    BY Zenon DEF VirtioInv, Types
  <1>7. \A h \in Pending : h \in Pending' /\ h \in Desc \ free /\ h # i0 /\ status'[h] = status[h]
    <2> SUFFICES ASSUME NEW h \in Pending
                 PROVE  h \in Pending' /\ h \in Desc \ free /\ h # i0 /\ status'[h] = status[h]
      BY Zenon
    <2>1. h \in Desc \ free
      BY PendingHead, Zenon
    <2>2. h # i0 /\ status'[h] = status[h]
      BY <1>1, <2>1, Zenon DEF Formatted
    <2>3. PICK q \in Submitted : idx[q] = h /\ bdisk[q] = 1
      BY Zenon DEF Pending
    <2>4. q \in Submitted' /\ idx'[q] = h /\ bdisk'[q] = 1
      BY <1>1, <1>2, <2>3, Zenon DEF Formatted, Submitted
    <2> QED
      BY <2>1, <2>2, <2>4, Zenon DEF Pending
  <1>8. i0 \in Pending' /\ status'[i0] = 255 /\ i0 \notin inflight
    <2>1. p \in Submitted' /\ idx'[p] = i0 /\ bdisk'[p] = 1
      BY <1>1, <1>2, Zenon DEF Formatted
    <2>2. i0 \notin inflight
      BY <1>7, Zenon DEF VirtioInv, RequestInv
    <2>3. status'[i0] = 255
      BY <1>1, <1>6, Zenon DEF Formatted
    <2> QED
      BY <2>1, <2>2, <2>3, Zenon DEF Pending
  <1>9. \A c \in Desc : availring'[c] = IF c = availidx % NUM THEN i0 ELSE availring[c]
    <2>1. availring' = [availring EXCEPT ![availidx % NUM] = i0]
      BY <1>1, Zenon DEF Formatted
    <2>2. availring \in [Desc -> Desc \cup {None}]
      BY Zenon DEF VirtioInv, Types
    <2> QED
      BY <1>3, <2>1, <2>2, Zenon
  <1>10. RequestInv'
    <2>1. UNCHANGED <<usedring, inflight>>
      BY <1>1, Zenon DEF Formatted
    <2>2. \A c \in Desc : availring'[c] # None =>
            availring'[c] \in Pending' /\ status'[availring'[c]] = 255 /\ availring'[c] \notin inflight'
      BY <1>7, <1>8, <1>9, <2>1 DEF VirtioInv, RequestInv
    <2>3. \A c, d \in Desc : availring'[c] # None /\ availring'[c] = availring'[d] => c = d
      BY <1>7, <1>9 DEF VirtioInv, RequestInv
    <2>4. \A h \in inflight' : h \in Pending' /\ status'[h] = 255
      BY <1>7, <2>1 DEF VirtioInv, RequestInv
    <2>5. /\ \A c \in Desc : usedring'[c] # None => usedring'[c] \in Pending' /\ status'[usedring'[c]] = 0
          /\ \A c, d \in Desc : usedring'[c] # None /\ usedring'[c] = usedring'[d] => c = d
      BY <1>7, <2>1 DEF VirtioInv, RequestInv
    <2>6. \A q \in Submitted' : bdisk'[q] = 0 => status'[idx'[q]] = 0
      <3> SUFFICES ASSUME NEW q \in Submitted', bdisk'[q] = 0 PROVE status'[idx'[q]] = 0
        BY Zenon
      <3>1. \A r \in Proc : /\ idx'[r] = IF r = p THEN i0 ELSE idx[r]
                            /\ bdisk'[r] = IF r = p THEN 1 ELSE bdisk[r]
        BY <1>1, Zenon DEF Formatted
      <3>2. q \in Submitted /\ q # p /\ idx'[q] = idx[q] /\ bdisk[q] = 0
        BY <1>2, <3>1 DEF Submitted
      <3>3. idx[q] \in Desc \ free /\ status[idx[q]] = 0
        BY <3>2, Zenon DEF VirtioInv, ChainInv, RequestInv
      <3>4. \A d \in Desc : status'[d] = IF d = i0 THEN 255 ELSE status[d]
        BY <1>1, Zenon DEF Formatted
      <3> QED
        BY <3>2, <3>3, <3>4, Zenon
    <2> QED
      BY <2>2, <2>3, <2>4, <2>5, <2>6, Zenon DEF RequestInv
  <1>11. SleepInv'
    <2>1. Cardinality(free') <= Cardinality(free) /\ Cardinality(free') \in Nat /\ Cardinality(free) \in Nat
      BY Zenon
    <2>2. CompletionNoticed'
      BY <1>1, Zenon DEF VirtioInv, SleepInv, CompletionNoticed, Formatted
    <2>3. NobodyOversleeps'
      <3>1. chan' = chan /\ \A q \in Proc : bdisk'[q] = IF q = p THEN 1 ELSE bdisk[q]
        BY <1>1, Zenon DEF Formatted
      <3> QED
        BY <2>1, <3>1 DEF VirtioInv, SleepInv, NobodyOversleeps
    <2> QED
      BY <2>2, <2>3, Zenon DEF SleepInv
  <1> QED
    BY <1>1, <1>2, <1>3, <1>4, <1>5, <1>10, <1>11, Zenon DEF VirtioInv

\* The request is formatted and put in the ring.
LEMMA FormatInv == ASSUME VirtioInv, Facts, NEW p \in Proc, Format(p) PROVE VirtioInv'
  <1>1. Cardinality(free) >= 3
    BY Zenon DEF Format
  <1>2. PICK i0, i1, i2 \in free : Formatted(p, i0, i1, i2) /\ Types'
    BY FormatEffect, Zenon
  <1>3. AvailInv' /\ availring[availidx % NUM] = None /\ availidx % NUM \in Desc
    BY <1>1, <1>2, FormatRing, Zenon
  <1>4. free \in SUBSET Desc /\ free' \in SUBSET free
    BY <1>2, Zenon DEF Formatted, VirtioInv, Types
  <1>6. /\ Cardinality(free) \in Nat /\ Cardinality(free') \in Nat
        /\ Cardinality(free') <= Cardinality(free)
    <2>1. free' \in SUBSET Desc /\ free' \subseteq free
      BY <1>4, Zenon
    <2> QED
      BY <1>4, <2>1, Zenon DEF Facts, Counting
  <1> QED
    BY <1>2, <1>3, <1>6, FormatKeeps, Zenon

\* The index moves past the request that Format put there.
LEMMA PublishInv == ASSUME VirtioInv, Facts, NEW p \in Proc, Publish(p) PROVE VirtioInv'
  <1>1. /\ pc[p] = "publish" /\ lock = p /\ availidx' = Inc(availidx)
        /\ \A q \in Proc : pc'[q] = IF q = p THEN "wait" ELSE pc[q]
        /\ pc' \in [Proc -> {"out", "alloc", "publish", "wait"}]
        /\ UNCHANGED <<looking, disk, seen, inflight, isr, addr, next, availring, optype, sector,
                       usedring, usedidx, status, free, used_idx, info, lock, data, bdisk, write,
                       blockno, idx, chan>>
    BY Zenon DEF Publish, Goto, VirtioInv, Types, device, usedq, driver, buffer
  <1>2. Submitted' = Submitted
    BY <1>1, Zenon DEF Submitted
  <1>3. Ahead = 1 /\ Ahead' = 0
    BY <1>1, Zenon DEF VirtioInv, LockInv, Ahead
  <1>4. PICK s, u \in Nat : /\ seen = s % WORD /\ availidx = u % WORD /\ s <= u
                            /\ Entries(availring, s, u + Ahead)
    BY Zenon DEF VirtioInv, AvailInv
  <1>5. availidx' = (u + 1) % WORD /\ (u + 1) % WORD \in Nat /\ u + 1 \in Nat
    BY <1>1, <1>4 DEF Facts, Counts
  <1>6. Types'
    BY <1>1, <1>5, Zenon DEF VirtioInv, Types
  <1>7. AvailInv'
    <2>1. Entries(availring', s, (u + 1) + Ahead')
      BY <1>1, <1>3, <1>4
    <2> QED
      BY <1>1, <1>4, <1>5, <2>1 DEF AvailInv
  <1>8. \A q : Mid(q)' = Mid(q) /\ Last(q)' = Last(q)
    BY <1>1, Zenon DEF Mid, Last
  <1>9. ChainInv'
    BY <1>1, <1>2, <1>8, Zenon DEF VirtioInv, ChainInv
  <1>10. Pending' = Pending
    BY <1>1, <1>2, Zenon DEF Pending
  <1>11. RequestInv'
    BY <1>1, <1>2, <1>10 DEF VirtioInv, RequestInv
  <1>12. LockInv' /\ UsedInv' /\ SleepInv'
    BY <1>1, Zenon DEF VirtioInv, LockInv, UsedInv, SleepInv, CompletionNoticed, NobodyOversleeps
  <1> QED
    BY <1>6, <1>7, <1>9, <1>11, <1>12, Zenon DEF VirtioInv

\* A request that is done gives its descriptors back; none of them was free.
LEMMA FinishInv == ASSUME VirtioInv, NEW p \in Proc, Finish(p) PROVE VirtioInv'
  <1> DEFINE h == idx[p]
             chain == {idx[p], Mid(p), Last(p)}
  <1>1. p \in Submitted /\ pc[p] = "wait" /\ lock = p /\ bdisk[p] = 0
    BY Zenon DEF Finish, Finished, Submitted
  <1>2. Chain(idx[p]) = chain
    BY <1>1, ChainIs, Zenon DEF VirtioInv
  <1>3. chain \subseteq Desc /\ chain \cap free = {} /\ h \in Desc /\ h \in chain
    BY <1>1 DEF VirtioInv, ChainInv
  <1>4. /\ addr' = [e \in Desc |-> IF e \in chain THEN None ELSE addr[e]]
        /\ next' = [e \in Desc |-> IF e \in chain THEN None ELSE next[e]]
        /\ free' = free \cup chain /\ lock' = None /\ chan' = Woken("free")
        /\ info' = [info EXCEPT ![h] = None]
        /\ optype' = [optype EXCEPT ![h] = 0] /\ sector' = [sector EXCEPT ![h] = None]
        /\ write' = [write EXCEPT ![p] = 0] /\ blockno' = [blockno EXCEPT ![p] = None]
        /\ idx' = [idx EXCEPT ![p] = None] /\ pc' = [pc EXCEPT ![p] = "out"]
        /\ UNCHANGED <<looking, disk, seen, inflight, isr, availring, availidx, usedring, usedidx,
                       status, used_idx, data, bdisk>>
    BY <1>2, <1>3, Zenon DEF Finish, FreeChain, Goto, device, usedq
  <1>5. \A q \in Proc \ {p} : /\ idx'[q] = idx[q] /\ pc'[q] = pc[q]
                              /\ write'[q] = write[q] /\ blockno'[q] = blockno[q]
    BY <1>4, Zenon DEF VirtioInv, Types
  <1>6. \A d \in Desc \ chain : /\ addr'[d] = addr[d] /\ next'[d] = next[d] /\ info'[d] = info[d]
                                /\ optype'[d] = optype[d] /\ sector'[d] = sector[d]
    BY <1>3, <1>4, Zenon DEF VirtioInv, Types
  <1>7. Submitted' = Submitted \ {p} /\ pc'[p] = "out"
    BY <1>4, <1>5, Zenon DEF Submitted, VirtioInv, Types
  <1> HIDE DEF h, chain
  <1>8. Types'
    <2>1. free' \subseteq Desc
      BY <1>3, <1>4, Zenon DEF VirtioInv, Types
    <2>2. /\ addr' \in [Desc -> Proc \cup {None}] /\ next' \in [Desc -> Desc \cup {None}]
          /\ info' \in [Desc -> Proc \cup {None}]
          /\ DOMAIN optype' = Desc /\ DOMAIN sector' = Desc
      BY <1>4, Zenon DEF VirtioInv, Types
    <2>3. /\ pc' \in [Proc -> {"out", "alloc", "publish", "wait"}]
          /\ idx' \in [Proc -> Desc \cup {None}]
          /\ DOMAIN write' = Proc /\ DOMAIN blockno' = Proc
      BY <1>4, Zenon DEF VirtioInv, Types
    <2>4. DOMAIN chan' = Proc /\ \A q \in Proc : chan'[q] \in {None, "free", q}
      BY <1>4, Zenon DEF VirtioInv, Types, Woken
    <2> QED
      BY <1>4, <2>1, <2>2, <2>3, <2>4, Zenon DEF VirtioInv, Types
  <1>9. ASSUME NEW q \in Submitted'
        PROVE  /\ q \in Submitted /\ q # p /\ q \in Proc
               /\ idx'[q] = idx[q] /\ Mid(q)' = Mid(q) /\ Last(q)' = Last(q)
               /\ {idx[q], Mid(q), Last(q)} \subseteq Desc \ chain
    <2>1. q \in Submitted /\ q # p /\ q \in Proc /\ idx'[q] = idx[q]
      BY <1>5, <1>7, Zenon DEF Submitted
    <2>2. {idx[q], Mid(q), Last(q)} \subseteq Desc \ chain
      <3>1. {idx[q], Mid(q), Last(q)} \cap {idx[p], Mid(p), Last(p)} = {}
        BY <1>1, <2>1, Zenon DEF VirtioInv, ChainInv
      <3>2. idx[q] \in Desc /\ Mid(q) \in Desc /\ Last(q) \in Desc
        BY <2>1, Zenon DEF VirtioInv, ChainInv
      <3> QED
        BY <3>1, <3>2, Zenon DEF chain
    <2>3. Mid(q)' = Mid(q)
      BY <1>6, <2>1, <2>2 DEF Mid
    <2>4. Last(q)' = Last(q)
      BY <1>6, <2>1, <2>2, <2>3 DEF Mid, Last
    <2> QED
      BY <2>1, <2>2, <2>3, <2>4, Zenon
  <1>10. ChainInv'
    <2>1. ASSUME NEW q \in Submitted'
          PROVE  /\ idx'[q] \in Desc \ free' /\ Mid(q)' \in Desc \ free' /\ Last(q)' \in Desc \ free'
                 /\ next'[Last(q)'] = None
                 /\ idx'[q] # Mid(q)' /\ idx'[q] # Last(q)' /\ Mid(q)' # Last(q)'
                 /\ addr'[Mid(q)'] = q /\ info'[idx'[q]] = q
                 /\ optype'[idx'[q]] = write'[q] /\ sector'[idx'[q]] = blockno'[q]
      <3>1. /\ idx[q] \in Desc \ free /\ Mid(q) \in Desc \ free /\ Last(q) \in Desc \ free
            /\ next[Last(q)] = None
            /\ idx[q] # Mid(q) /\ idx[q] # Last(q) /\ Mid(q) # Last(q)
            /\ addr[Mid(q)] = q /\ info[idx[q]] = q
            /\ optype[idx[q]] = write[q] /\ sector[idx[q]] = blockno[q]
        BY <1>9, Zenon DEF VirtioInv, ChainInv
      <3>2. idx[q] \in Desc \ chain /\ Mid(q) \in Desc \ chain /\ Last(q) \in Desc \ chain
        BY <1>9, Zenon
      <3> QED
        BY <1>4, <1>5, <1>6, <1>9, <3>1, <3>2
    <2>2. ASSUME NEW q \in Submitted', NEW r \in Submitted', q # r
          PROVE  {idx'[q], Mid(q)', Last(q)'} \cap {idx'[r], Mid(r)', Last(r)'} = {}
      BY <1>9, <2>2 DEF VirtioInv, ChainInv
    <2>3. ASSUME NEW d \in Desc \ free'
          PROVE  \E q \in Submitted' : d \in {idx'[q], Mid(q)', Last(q)'}
      <3>1. d \notin free /\ d \notin chain
        BY <1>4, Zenon
      <3>2. PICK q \in Submitted : d \in {idx[q], Mid(q), Last(q)}
        BY <3>1, Zenon DEF VirtioInv, ChainInv
      <3>3. q \in Submitted'
        BY <1>7, <3>1, <3>2, Zenon DEF chain
      <3> QED
        BY <1>9, <3>2, <3>3, Zenon
    <2> QED
      BY <2>1, <2>2, <2>3, Zenon DEF ChainInv
  <1>11. Pending' = Pending
    <2>1. \A q \in Submitted : bdisk[q] = 1 => q \in Submitted' /\ idx'[q] = idx[q]
      BY <1>1, <1>7, <1>9
    <2>2. \A q \in Submitted' : q \in Submitted /\ idx'[q] = idx[q]
      BY <1>9, Zenon
    <2> QED
      BY <1>4, <2>1, <2>2, Zenon DEF Pending
  <1>12. RequestInv'
    BY <1>4, <1>9, <1>11 DEF VirtioInv, RequestInv
  <1>13. Ahead' = Ahead
    BY <1>1, <1>5, <1>7, Zenon DEF Ahead
  <1>14. AvailInv' /\ UsedInv'
    BY <1>4, <1>13, Zenon DEF VirtioInv, AvailInv, UsedInv
  <1>15. LockInv'
    BY <1>1, <1>4, <1>5, <1>7, VirtioAssumption, Zenon DEF VirtioInv, LockInv
  <1>16. SleepInv'
    <2>1. \A q \in Proc : chan'[q] # "free" /\ (chan'[q] = q => chan[q] = q)
      BY <1>4, VirtioAssumption, Zenon DEF Woken
    <2> QED
      BY <1>4, <2>1, Zenon DEF VirtioInv, SleepInv, CompletionNoticed, NobodyOversleeps
  <1> QED
    BY <1>8, <1>10, <1>12, <1>14, <1>15, <1>16, Zenon DEF VirtioInv

\* What the handler does with an entry of the used ring: it is of a request
\* of b, which the device has done and which is not yet marked so.
Answered(b) ==
  /\ usedring[used_idx % NUM] = idx[b] /\ bdisk[b] = 1
  /\ status[idx[b]] = 0 /\ info[idx[b]] = b
  /\ UsedInv'
  /\ used_idx % NUM \in Desc /\ used_idx' \in Nat
  /\ usedring' = [usedring EXCEPT ![used_idx % NUM] = None]
  /\ bdisk' = [bdisk EXCEPT ![b] = 0] /\ chan' = Woken(b)
  /\ UNCHANGED <<lock, looking>>

\* The handler marks the request of one entry done and wakes its caller.
LEMMA EntryKeeps ==
  ASSUME VirtioInv, IntrEntry, NEW b \in Submitted, Answered(b) PROVE VirtioInv'
  <1>1. /\ usedring[used_idx % NUM] = idx[b] /\ bdisk[b] = 1
        /\ status[idx[b]] = 0 /\ info[idx[b]] = b
        /\ UsedInv'
        /\ used_idx % NUM \in Desc /\ used_idx' \in Nat
        /\ usedring' = [usedring EXCEPT ![used_idx % NUM] = None]
        /\ bdisk' = [bdisk EXCEPT ![b] = 0] /\ chan' = Woken(b)
        /\ UNCHANGED <<lock, looking>>
    BY Zenon DEF Answered
  <1>2. /\ looking = 1 /\ b \in Proc
        /\ UNCHANGED <<disk, seen, inflight, isr, addr, next, availring, availidx, optype, sector,
                       usedidx, status, free, info, data, write, blockno, pc, idx>>
    BY Zenon DEF IntrEntry, device, queue, Submitted
  <1>3. \A q \in Proc : bdisk'[q] = IF q = b THEN 0 ELSE bdisk[q]
    BY <1>1, <1>2, Zenon DEF VirtioInv, Types
  <1>4. \A c \in Desc : usedring'[c] = IF c = used_idx % NUM THEN None ELSE usedring[c]
    BY <1>1, Zenon DEF VirtioInv, Types
  <1>5. /\ DOMAIN chan' = Proc
        /\ \A q \in Proc : chan'[q] = IF chan[q] = b THEN None ELSE chan[q]
    BY <1>1, Zenon DEF Woken
  <1>6. Types'
    <2>1. bdisk' \in [Proc -> {0, 1}] /\ usedring' \in [Desc -> Desc \cup {None}]
      BY <1>1, Zenon DEF VirtioInv, Types
    <2> QED
      BY <1>1, <1>2, <1>5, <2>1, Zenon DEF VirtioInv, Types
  <1>7. Submitted' = Submitted /\ Ahead' = Ahead
    BY <1>2, Zenon DEF Submitted, Ahead
  <1>8. \A q : Mid(q)' = Mid(q) /\ Last(q)' = Last(q)
    BY <1>2, Zenon DEF Mid, Last
  <1>9. ChainInv'
    BY <1>2, <1>7, <1>8, Zenon DEF VirtioInv, ChainInv
  <1>10. Pending' = Pending \ {idx[b]}
    <2>1. \A q \in Submitted : idx[q] = idx[b] => q = b
      BY Owner, Zenon DEF VirtioInv
    <2>2. \A q \in Submitted : q \in Proc
      BY Zenon DEF Submitted
    <2> QED
      BY <1>2, <1>3, <1>7, <2>1, <2>2 DEF Pending
  <1>11. RequestInv'
    <2>1. \A c \in Desc : availring[c] # None => availring[c] # idx[b]
      BY <1>1 DEF VirtioInv, RequestInv
    <2>2. \A h \in inflight : h # idx[b]
      BY <1>1 DEF VirtioInv, RequestInv
    <2>3. /\ \A c \in Desc : availring'[c] # None =>
               availring'[c] \in Pending' /\ status'[availring'[c]] = 255 /\ availring'[c] \notin inflight'
          /\ \A c, d \in Desc : availring'[c] # None /\ availring'[c] = availring'[d] => c = d
          /\ \A h \in inflight' : h \in Pending' /\ status'[h] = 255
      BY <1>2, <1>10, <2>1, <2>2 DEF VirtioInv, RequestInv
    <2>4. /\ \A c \in Desc : usedring'[c] # None => usedring'[c] \in Pending' /\ status'[usedring'[c]] = 0
          /\ \A c, d \in Desc : usedring'[c] # None /\ usedring'[c] = usedring'[d] => c = d
      BY <1>1, <1>2, <1>4, <1>10 DEF VirtioInv, RequestInv
    <2>5. \A q \in Submitted' : bdisk'[q] = 0 => status'[idx'[q]] = 0
      BY <1>1, <1>2, <1>3, <1>7 DEF VirtioInv, RequestInv, Submitted
    <2> QED
      BY <2>3, <2>4, <2>5, Zenon DEF RequestInv
  <1>12. AvailInv' /\ LockInv'
    BY <1>1, <1>2, <1>7, Zenon DEF VirtioInv, AvailInv, LockInv
  <1>13. SleepInv'
    BY <1>1, <1>2, <1>3, <1>5, VirtioAssumption
       DEF VirtioInv, SleepInv, CompletionNoticed, NobodyOversleeps
  <1> QED
    BY <1>1, <1>6, <1>9, <1>11, <1>12, <1>13, Zenon DEF VirtioInv

\* The entry of the used ring that the handler looks at is of a request that
\* the device has done and whose caller still waits: no panic.
LEMMA EntryIs ==
  ASSUME VirtioInv, Facts, IntrEntry
  PROVE  \E b \in Submitted : Answered(b)
  <1>1. PICK s, u \in Nat : /\ used_idx = s % WORD /\ usedidx = u % WORD
                            /\ Entries(usedring, s, u)
    BY Zenon DEF VirtioInv, UsedInv
  <1>2. s # u
    BY <1>1, Zenon DEF IntrEntry
  <1>3. used_idx % NUM = s % NUM /\ s % NUM \in Desc /\ Inc(used_idx) = (s + 1) % WORD
        /\ (s + 1) % WORD \in Nat
    BY <1>1 DEF Facts, Counts
  <1>4. usedring \in [Desc -> Desc \cup {None}]
    BY Zenon DEF VirtioInv, Types
  <1>5. /\ usedring[s % NUM] \in Desc
        /\ Entries([usedring EXCEPT ![s % NUM] = None], s + 1, u)
    BY <1>1, <1>2, <1>4, Zenon DEF Facts, Pops
  <1>6. usedring[s % NUM] # None
    BY <1>5, VirtioAssumption, Zenon DEF Desc
  <1>7. usedring[s % NUM] \in Pending /\ status[usedring[s % NUM]] = 0
    BY <1>3, <1>6, Zenon DEF VirtioInv, RequestInv
  <1>8. PICK b \in Submitted : usedring[s % NUM] = idx[b] /\ bdisk[b] = 1
    BY <1>7, Zenon DEF Pending
  <1>9. info[idx[b]] = b
    BY Zenon DEF VirtioInv, ChainInv
  <1>10. /\ bdisk' = [bdisk EXCEPT ![b] = 0] /\ chan' = Woken(b)
         /\ used_idx' = Inc(used_idx)
         /\ usedring' = [usedring EXCEPT ![used_idx % NUM] = None]
         /\ UNCHANGED <<lock, looking, usedidx>>
    BY <1>3, <1>7, <1>8, <1>9, Zenon DEF IntrEntry, Complete
  <1>11. UsedInv'
    <2>1. Entries(usedring', s + 1, u) /\ used_idx' = (s + 1) % WORD /\ s + 1 \in Nat
      <3>1. usedring' = [usedring EXCEPT ![s % NUM] = None]
        BY <1>3, <1>10, Zenon
      <3>2. Entries(usedring', s + 1, u)
        BY <1>5, <3>1, Zenon
      <3>3. used_idx' = (s + 1) % WORD
        BY <1>3, <1>10, Zenon
      <3> QED
        BY <3>2, <3>3
    <2> QED
      BY <1>1, <1>10, <2>1, Zenon DEF UsedInv
  <1> QED
    BY <1>3, <1>7, <1>8, <1>9, <1>10, <1>11, Zenon DEF Answered

\* The step of the handler on one entry of the used ring.
LEMMA IntrEntryInv == ASSUME VirtioInv, Facts, IntrEntry PROVE VirtioInv'
  BY EntryIs, EntryKeeps, Zenon

\* The device takes over the request whose turn it is.
LEMMA FetchKeeps ==
  ASSUME VirtioInv, DeviceFetch, NEW cell \in Desc, seen % NUM = cell, availring[cell] \in Desc,
         Inc(seen) \in Nat, AvailInv'
  PROVE  VirtioInv'
  <1>1. availring \in [Desc -> Desc \cup {None}] /\ None \notin Desc
    BY VirtioAssumption, Zenon DEF Desc, VirtioInv, Types
  <1> DEFINE h == availring[cell]
  <1>6. h \in Desc /\ h # None /\ h \in Pending /\ status[h] = 255 /\ h \notin inflight
    BY <1>1 DEF VirtioInv, RequestInv
  <1>7. /\ inflight' = inflight \cup {h}
        /\ availring' = [availring EXCEPT ![cell] = None]
        /\ seen' = Inc(seen)
        /\ UNCHANGED <<looking, disk, isr, addr, next, availidx, optype, sector, usedring, usedidx,
                       status, free, used_idx, info, lock, data, bdisk, write, blockno, pc, idx, chan>>
    BY Zenon DEF DeviceFetch, usedq, driver, buffer
  <1>8. Types'
    <2>1. inflight' \subseteq Desc /\ availring' \in [Desc -> Desc \cup {None}] /\ seen' \in Nat
      BY <1>6, <1>7 DEF VirtioInv, Types
    <2> QED
      BY <1>7, <2>1, Zenon DEF VirtioInv, Types
  <1>9. Submitted' = Submitted /\ Ahead' = Ahead
    BY <1>7, Zenon DEF Submitted, Ahead
  <1>10. \A q : Mid(q)' = Mid(q) /\ Last(q)' = Last(q)
    BY <1>7, Zenon DEF Mid, Last
  <1>11. ChainInv'
    BY <1>7, <1>9, <1>10, Zenon DEF VirtioInv, ChainInv
  <1>12. Pending' = Pending
    BY <1>7, <1>9, Zenon DEF Pending
  <1>13. \A c \in Desc : availring'[c] = IF c = cell THEN None ELSE availring[c]
    BY <1>1, <1>7, Zenon
  <1>14. RequestInv'
    <2>1. \A c \in Desc \ {cell} : availring[c] # None => availring[c] # h
      BY <1>6 DEF VirtioInv, RequestInv
    <2> HIDE DEF h
    <2>2. /\ \A c \in Desc : availring'[c] # None =>
               availring'[c] \in Pending' /\ status'[availring'[c]] = 255 /\ availring'[c] \notin inflight'
          /\ \A c, d \in Desc : availring'[c] # None /\ availring'[c] = availring'[d] => c = d
      BY <1>7, <1>12, <1>13, <2>1 DEF VirtioInv, RequestInv
    <2>3. \A g \in inflight' : g \in Pending' /\ status'[g] = 255
      BY <1>6, <1>7, <1>12 DEF VirtioInv, RequestInv
    <2>4. /\ \A c \in Desc : usedring'[c] # None => usedring'[c] \in Pending' /\ status'[usedring'[c]] = 0
          /\ \A c, d \in Desc : usedring'[c] # None /\ usedring'[c] = usedring'[d] => c = d
          /\ \A q \in Submitted' : bdisk'[q] = 0 => status'[idx'[q]] = 0
      <3>1. UNCHANGED <<usedring, status, bdisk, idx>>
        BY <1>7, Zenon
      <3> QED
        BY <1>9, <1>12, <3>1 DEF VirtioInv, RequestInv
    <2> QED
      BY <2>2, <2>3, <2>4, Zenon DEF RequestInv
  <1>16. UsedInv' /\ LockInv' /\ SleepInv'
    BY <1>7, Zenon DEF VirtioInv, UsedInv, LockInv, SleepInv, CompletionNoticed, NobodyOversleeps
  <1> QED
    BY <1>8, <1>11, <1>14, <1>16, Zenon DEF VirtioInv

\* The avail ring without the request that the device takes.
LEMMA DeviceFetchInv == ASSUME VirtioInv, Facts, DeviceFetch PROVE VirtioInv'
  <1>1. PICK s, u \in Nat : /\ seen = s % WORD /\ availidx = u % WORD /\ s <= u
                            /\ Entries(availring, s, u + Ahead)
    BY Zenon DEF VirtioInv, AvailInv
  <1>2. s # u /\ u + Ahead \in Nat /\ s # u + Ahead
    BY <1>1 DEF DeviceFetch, Ahead
  <1>3. /\ seen % NUM = s % NUM /\ s % NUM \in Desc /\ Inc(seen) = (s + 1) % WORD
        /\ (s + 1) % WORD \in Nat /\ s + 1 \in Nat
    BY <1>1 DEF Facts, Counts
  <1>4. availring \in [Desc -> Desc \cup {None}]
    BY Zenon DEF VirtioInv, Types
  <1>5. /\ availring[s % NUM] \in Desc
        /\ Entries([availring EXCEPT ![s % NUM] = None], s + 1, u + Ahead)
    BY <1>1, <1>2, <1>4, Zenon DEF Facts, Pops
  <1>6. /\ availring' = [availring EXCEPT ![s % NUM] = None]
        /\ seen' = (s + 1) % WORD /\ UNCHANGED <<availidx, pc>>
    BY <1>3, Zenon DEF DeviceFetch, usedq, driver
  <1>7. AvailInv'
    <2>1. Ahead' = Ahead
      BY <1>6, Zenon DEF Ahead
    <2>2. Entries(availring', s + 1, u + Ahead') /\ s + 1 <= u
      BY <1>1, <1>2, <1>5, <1>6, <2>1
    <2> QED
      BY <1>1, <1>3, <1>6, <2>2, Zenon DEF AvailInv
  <1> QED
    BY <1>3, <1>5, <1>7, FetchKeeps, Zenon

\* The used ring has room: what it holds and the request that comes next are
\* first descriptors, and there are fewer of those than cells.
LEMMA UsedRoom ==
  ASSUME VirtioInv, Facts, NEW h \in inflight, NEW s \in Nat, NEW u \in Nat, Entries(usedring, s, u)
  PROVE  u + 1 < s + NUM
  <1>1. h \in Pending /\ status[h] = 255
    BY Zenon DEF VirtioInv, RequestInv
  <1>2. PICK p \in Submitted : idx[p] = h /\ bdisk[p] = 1
    BY <1>1 DEF Pending
  <1>3. h \in Desc /\ Mid(p) \in Desc /\ Last(p) \in Desc /\ h # Mid(p) /\ h # Last(p) /\ Mid(p) # Last(p)
    BY <1>2, Zenon DEF VirtioInv, ChainInv
  <1> DEFINE T == Desc \ {h, Mid(p), Last(p)}
  <1>4. T \in SUBSET Desc /\ Cardinality(T) = NUM - 3
    <2>1. {h, Mid(p), Last(p)} \in SUBSET Desc /\ Cardinality({h, Mid(p), Last(p)}) = 3
      BY <1>3, Zenon DEF Facts, Counting
    <2>2. Cardinality(T) = NUM - Cardinality({h, Mid(p), Last(p)})
      BY <2>1, Zenon DEF Facts, Counting
    <2> QED
      BY <2>1, <2>2, Zenon
  <1>7. ASSUME NEW c \in Desc, usedring[c] # None PROVE usedring[c] \in T
    <2>1. usedring[c] \in Pending /\ status[usedring[c]] = 0
      BY <1>7, Zenon DEF VirtioInv, RequestInv
    <2>2. PICK q \in Submitted : idx[q] = usedring[c]
      BY <2>1, Zenon DEF Pending
    <2>3. q # p /\ idx[q] \in Desc
      <3>1. idx[q] \in Desc
        BY Zenon DEF VirtioInv, ChainInv
      <3> QED
        BY <1>1, <1>2, <2>1, <2>2, <3>1
    <2>4. idx[q] # h /\ idx[q] # Mid(p) /\ idx[q] # Last(p)
      <3>1. {idx[p], Mid(p), Last(p)} \cap {idx[q], Mid(q), Last(q)} = {}
        BY <2>3, Zenon DEF VirtioInv, ChainInv
      <3> QED
        BY <1>2, <3>1, Zenon
    <2> QED
      BY <2>2, <2>3, <2>4, Zenon
  <1> HIDE DEF T
  <1>8. usedring \in [Desc -> Desc \cup {None}]
    BY Zenon DEF VirtioInv, Types
  <1>9. \A c, d \in Desc : usedring[c] # None /\ usedring[c] = usedring[d] => c = d
    BY Zenon DEF VirtioInv, RequestInv
  <1>10. u - s <= Cardinality(T)
    BY <1>4, <1>7, <1>8, <1>9, Zenon DEF Facts, Fits
  <1> QED
    BY <1>4, <1>10, VirtioAssumption

\* The device reports a request done.
LEMMA CompleteKeeps ==
  ASSUME VirtioInv, NEW h \in inflight, DeviceComplete(h), NEW cell \in Desc,
         usedidx % NUM = cell, usedring[cell] = None, Inc(usedidx) \in Nat, UsedInv'
  PROVE  VirtioInv'
  <1>4. usedring \in [Desc -> Desc \cup {None}] /\ h \in Desc
    BY Zenon DEF VirtioInv, Types
  <1>6. /\ status' = [status EXCEPT ![h] = 0]
        /\ usedring' = [usedring EXCEPT ![cell] = h]
        /\ usedidx' = Inc(usedidx)
        /\ inflight' = inflight \ {h} /\ isr' = 1
        /\ UNCHANGED <<looking, seen, addr, next, availring, availidx, optype, sector,
                       free, used_idx, info, lock, bdisk, write, blockno, pc, idx, chan>>
    BY Zenon DEF DeviceComplete, queue, driver
  <1>7. DOMAIN data' = Proc
    BY Zenon DEF DeviceComplete, VirtioInv, Types
  <1>8. Types'
    <2>1. /\ inflight' \subseteq Desc /\ usedring' \in [Desc -> Desc \cup {None}] /\ usedidx' \in Nat
          /\ status' \in [Desc -> {0, 255}]
      BY <1>4, <1>6, Zenon DEF VirtioInv, Types
    <2> QED
      BY <1>6, <1>7, <2>1, Zenon DEF VirtioInv, Types
  <1>9. Submitted' = Submitted /\ Ahead' = Ahead
    BY <1>6, Zenon DEF Submitted, Ahead
  <1>10. \A q : Mid(q)' = Mid(q) /\ Last(q)' = Last(q)
    BY <1>6, Zenon DEF Mid, Last
  <1>11. ChainInv'
    BY <1>6, <1>9, <1>10, Zenon DEF VirtioInv, ChainInv
  <1>12. Pending' = Pending
    BY <1>6, <1>9, Zenon DEF Pending
  <1>13. /\ \A c \in Desc : usedring'[c] = IF c = cell THEN h ELSE usedring[c]
         /\ \A d \in Desc : status'[d] = IF d = h THEN 0 ELSE status[d]
    BY <1>4, <1>6, Zenon DEF VirtioInv, Types
  <1>14. h \in Pending /\ status[h] = 255
    BY Zenon DEF VirtioInv, RequestInv
  <1>15. RequestInv'
    <2>1. \A c \in Desc : availring[c] # None => availring[c] \in Desc /\ availring[c] # h
      BY DEF VirtioInv, RequestInv, Types
    <2>2. /\ \A c \in Desc : availring'[c] # None =>
               availring'[c] \in Pending' /\ status'[availring'[c]] = 255 /\ availring'[c] \notin inflight'
          /\ \A c, d \in Desc : availring'[c] # None /\ availring'[c] = availring'[d] => c = d
      <3>1. /\ \A c \in Desc : availring[c] # None =>
                 availring[c] \in Pending /\ status[availring[c]] = 255 /\ availring[c] \notin inflight
            /\ \A c, d \in Desc : availring[c] # None /\ availring[c] = availring[d] => c = d
        BY Zenon DEF VirtioInv, RequestInv
      <3>2. availring' = availring /\ inflight' = inflight \ {h}
        BY <1>6, Zenon
      <3> QED
        BY <1>12, <1>13, <2>1, <3>1, <3>2
    <2>3. \A g \in inflight' : g \in Pending' /\ status'[g] = 255
      BY <1>6, <1>12, <1>13 DEF VirtioInv, RequestInv, Types
    <2>4. \A c \in Desc : usedring[c] # None => usedring[c] \in Desc /\ usedring[c] # h
      BY <1>14 DEF VirtioInv, RequestInv, Types
    <2>5. /\ \A c \in Desc : usedring'[c] # None => usedring'[c] \in Pending' /\ status'[usedring'[c]] = 0
          /\ \A c, d \in Desc : usedring'[c] # None /\ usedring'[c] = usedring'[d] => c = d
      <3>1. /\ \A c \in Desc : usedring[c] # None => usedring[c] \in Pending /\ status[usedring[c]] = 0
            /\ \A c, d \in Desc : usedring[c] # None /\ usedring[c] = usedring[d] => c = d
        BY Zenon DEF VirtioInv, RequestInv
      <3> QED
        BY <1>4, <1>12, <1>13, <1>14, <2>4, <3>1
    <2>6. \A q \in Submitted' : bdisk'[q] = 0 => status'[idx'[q]] = 0
      <3>1. \A q \in Submitted : idx[q] \in Desc /\ (bdisk[q] = 0 => status[idx[q]] = 0)
        BY Zenon DEF VirtioInv, ChainInv, RequestInv
      <3>2. UNCHANGED <<bdisk, idx>>
        BY <1>6, Zenon
      <3> QED
        BY <1>9, <1>13, <3>1, <3>2, Zenon
    <2> QED
      BY <2>2, <2>3, <2>5, <2>6, Zenon DEF RequestInv
  <1>17. AvailInv' /\ LockInv' /\ SleepInv'
    BY <1>6, <1>9, Zenon DEF VirtioInv, AvailInv, LockInv, SleepInv, CompletionNoticed, NobodyOversleeps
  <1> QED
    BY <1>8, <1>11, <1>15, <1>17, Zenon DEF VirtioInv

\* The used ring with the request that the device has done.
LEMMA DeviceCompleteInv ==
  ASSUME VirtioInv, Facts, NEW h \in inflight, DeviceComplete(h) PROVE VirtioInv'
  <1>1. PICK s, u \in Nat : /\ used_idx = s % WORD /\ usedidx = u % WORD
                            /\ Entries(usedring, s, u)
    BY Zenon DEF VirtioInv, UsedInv
  <1>2. u + 1 < s + NUM
    BY <1>1, UsedRoom, Zenon
  <1>3. /\ usedidx % NUM = u % NUM /\ u % NUM \in Desc /\ Inc(usedidx) = (u + 1) % WORD
        /\ (u + 1) % WORD \in Nat /\ u + 1 \in Nat
    BY <1>1 DEF Facts, Counts
  <1>4. usedring \in [Desc -> Desc \cup {None}] /\ h \in Desc
    BY Zenon DEF VirtioInv, Types
  <1>5. /\ usedring[u % NUM] = None
        /\ Entries([usedring EXCEPT ![u % NUM] = h], s, u + 1)
    BY <1>1, <1>2, <1>4, Zenon DEF Facts, Pushes
  <1>6. /\ usedring' = [usedring EXCEPT ![u % NUM] = h]
        /\ usedidx' = (u + 1) % WORD /\ used_idx' = used_idx
    BY <1>3, Zenon DEF DeviceComplete, driver
  <1>7. UsedInv'
    <2>1. Entries(usedring', s, u + 1)
      BY <1>5, <1>6, Zenon
    <2> QED
      BY <1>1, <1>3, <1>6, <2>1, Zenon DEF UsedInv
  <1> QED
    BY <1>3, <1>5, <1>7, CompleteKeeps, Zenon

\* Every step of a caller, the handler and the device keeps the invariant.
LEMMA NextInv == ASSUME Facts, VirtioInv, [Next]_vars PROVE VirtioInv'
  <1>1. ASSUME NEW p \in Proc, Caller(p) \/ Kill(p) PROVE VirtioInv'
    BY <1>1, AllocFailsInv, FormatInv, PublishInv, WaitInv, FinishInv, WakeInv, Zenon DEF Caller
  <1>2. CASE Handler
    BY <1>2, HandlerInv, IntrEntryInv, Zenon DEF Handler
  <1>3. CASE Device
    BY <1>3, DeviceFetchInv, DeviceCompleteInv, Zenon DEF Device
  <1>4. CASE UNCHANGED vars
    <2>1. UNCHANGED <<requests, looking, isr, pc, write, blockno, data, lock, chan>>
      BY <1>4, Zenon DEF vars, requests, device, queue, usedq, driver, buffer
    <2>2. Types' /\ LockInv' /\ SleepInv'
      BY <2>1, Zenon DEF VirtioInv, Types, LockInv, SleepInv, CompletionNoticed, NobodyOversleeps, requests
    <2>3. Submitted' = Submitted /\ Ahead' = Ahead
      BY <2>1, Zenon DEF Submitted, Ahead
    <2>4. ChainInv' /\ RequestInv' /\ AvailInv' /\ UsedInv'
      BY <2>1, <2>3, QuietStep, Zenon
    <2> QED
      BY <2>2, <2>4, Zenon DEF VirtioInv
  <1> QED
    BY <1>1, <1>2, <1>3, <1>4, RwInv, Zenon DEF Next

\* The chains of the requests and the free descriptors partition the ring.
LEMMA Accounted == ASSUME VirtioInv, Facts PROVE DescriptorsAccounted
  <1>0. ChainInv /\ free \subseteq Desc
    BY Zenon DEF VirtioInv, Types
  <1>1. \A p \in Submitted : Chain(idx[p]) = {idx[p], Mid(p), Last(p)}
    BY <1>0, ChainIs, Zenon
  <1>2. free \cup UNION {Chain(idx[p]) : p \in Submitted} = Desc
    <2>1. \A d \in Desc \ free : \E p \in Submitted : d \in Chain(idx[p])
      <3> TAKE d \in Desc \ free
      <3>1. PICK p \in Submitted : d \in {idx[p], Mid(p), Last(p)}
        BY <1>0, Zenon DEF ChainInv
      <3> QED
        BY <1>1, <3>1, Zenon
    <2>2. \A p \in Submitted : Chain(idx[p]) \subseteq Desc
      <3> TAKE p \in Submitted
      <3>1. idx[p] \in Desc /\ Mid(p) \in Desc /\ Last(p) \in Desc
        BY <1>0, Zenon DEF ChainInv
      <3> QED
        BY <1>1, <3>1, Zenon
    <2> QED
      BY <1>0, <2>1, <2>2, Zenon
  <1>3. ASSUME NEW p \in Submitted
        PROVE  Chain(idx[p]) \cap free = {} /\ Cardinality(Chain(idx[p])) = 3
    <2>1. /\ idx[p] \in Desc \ free /\ Mid(p) \in Desc \ free /\ Last(p) \in Desc \ free
          /\ idx[p] # Mid(p) /\ idx[p] # Last(p) /\ Mid(p) # Last(p)
      BY <1>0, Zenon DEF ChainInv
    <2>2. Cardinality({idx[p], Mid(p), Last(p)}) = 3
      BY <2>1, Zenon DEF Facts, Counting
    <2> QED
      BY <1>1, <2>1, <2>2, Zenon
  <1>4. ASSUME NEW p \in Submitted, NEW q \in Submitted, p # q
        PROVE  Chain(idx[p]) \cap Chain(idx[q]) = {}
    <2>1. {idx[p], Mid(p), Last(p)} \cap {idx[q], Mid(q), Last(q)} = {}
      BY <1>0, <1>4, Zenon DEF ChainInv
    <2> QED
      BY <1>1, <2>1, Zenon
  <1> QED
    BY <1>2, <1>3, <1>4, Zenon DEF DescriptorsAccounted

(***************************************************************************)
(* Refinement: each transfer happens once, between call and return.        *)
(***************************************************************************)
\* What a caller's stage says of its request.
LEMMA StageIs ==
  ASSUME NEW p \in Proc
  PROVE  Stage[p] = IF pc[p] = "out" THEN "idle"
                    ELSE IF p \in Submitted /\ status[idx[p]] = 0 THEN "done" ELSE "called"
  BY Zenon DEF Stage

\* A step that leaves the buffers, the disk and every stage alone stutters.
LEMMA Stutter ==
  ASSUME UNCHANGED <<disk, data, write, blockno>>,
         \A q \in Proc : /\ pc'[q] = "out" <=> pc[q] = "out"
                         /\ (q \in Submitted' /\ status'[idx'[q]] = 0) <=>
                            (q \in Submitted /\ status[idx[q]] = 0)
  PROVE  UNCHANGED Abstract!vars
  <1>1. Stage' = Stage
    BY Zenon DEF Stage
  <1> QED
    BY <1>1, Zenon DEF Abstract!vars

\* The call.
LEMMA RwRefines ==
  ASSUME VirtioInv, NEW p \in Proc, NEW w \in 0 .. 1, NEW b \in Block, NEW v \in Val \cup {None},
         Rw(p, w, b, v)
  PROVE  Abstract!Call(p)
  <1>1. /\ pc[p] = "out" /\ write' = [write EXCEPT ![p] = w]
        /\ blockno' = [blockno EXCEPT ![p] = b] /\ data' = [data EXCEPT ![p] = v]
        /\ w = 1 <=> v # None
        /\ pc' = [pc EXCEPT ![p] = "alloc"]
        /\ UNCHANGED <<disk, status, idx>>
    BY Zenon DEF Rw, Goto, device, usedq
  <1>2. Stage[p] = "idle"
    BY <1>1, StageIs, Zenon
  <1>3. Stage' = [Stage EXCEPT ![p] = "called"]
    <2>1. \A q \in Proc : pc'[q] = IF q = p THEN "alloc" ELSE pc[q]
      BY <1>1, Zenon DEF VirtioInv, Types
    <2>2. Submitted' = Submitted /\ p \notin Submitted
      BY <1>1, <2>1 DEF Submitted
    <2>3. \A q \in Proc : Stage'[q] = IF q = p THEN "called" ELSE Stage[q]
      BY <1>1, <2>1, <2>2 DEF Stage
    <2>4. Stage' = [q \in Proc |-> Stage'[q]] /\ Stage = [q \in Proc |-> Stage[q]]
      BY Zenon DEF Stage
    <2> QED
      BY <2>3, <2>4, Zenon
  <1>4. \/ /\ write' = [write EXCEPT ![p] = 1]
           /\ \E x \in Val : data' = [data EXCEPT ![p] = x]
        \/ /\ write' = [write EXCEPT ![p] = 0]
           /\ data' = [data EXCEPT ![p] = None]
    <2>1. CASE w = 1
      BY <1>1, <2>1, Zenon
    <2>2. CASE w = 0
      BY <1>1, <2>2, Zenon
    <2> QED
      BY <2>1, <2>2
  <1> QED
    BY <1>1, <1>2, <1>3, <1>4, Zenon DEF Abstract!Call

\* The return: the request of a caller that leaves is done.
LEMMA FinishRefines == ASSUME VirtioInv, NEW p \in Proc, Finish(p) PROVE Abstract!Return(p)
  <1>1. /\ pc[p] = "wait" /\ bdisk[p] = 0 /\ p \in Submitted
        /\ write' = [write EXCEPT ![p] = 0] /\ blockno' = [blockno EXCEPT ![p] = None]
        /\ idx' = [idx EXCEPT ![p] = None] /\ pc' = [pc EXCEPT ![p] = "out"]
        /\ UNCHANGED <<disk, data, status>>
    BY Zenon DEF Finish, Finished, Goto, Submitted, device, usedq
  <1>2. Stage[p] = "done"
    BY <1>1, StageIs, Zenon DEF VirtioInv, RequestInv
  <1>3. Stage' = [Stage EXCEPT ![p] = "idle"]
    <2>1. \A q \in Proc : /\ pc'[q] = IF q = p THEN "out" ELSE pc[q]
                          /\ idx'[q] = IF q = p THEN None ELSE idx[q]
      BY <1>1, Zenon DEF VirtioInv, Types
    <2>2. Submitted' = Submitted \ {p}
      BY <1>1, <2>1 DEF Submitted
    <2> QED
      BY <1>1, <2>1, <2>2, Zenon DEF Stage
  <1> QED
    BY <1>1, <1>2, <1>3, Zenon DEF Abstract!Return

\* The transfer: the device finds in the chain what the caller asked for.
LEMMA CompleteRefines ==
  ASSUME VirtioInv, NEW h \in inflight, DeviceComplete(h)
  PROVE  \E p \in Proc : Abstract!Transfer(p)
  <1>1. h \in Pending /\ status[h] = 255 /\ h \in Desc
    BY DEF VirtioInv, RequestInv, Types
  <1>2. PICK p \in Submitted : idx[p] = h /\ bdisk[p] = 1
    BY <1>1 DEF Pending
  <1>3. p \in Proc /\ pc[p] # "out"
    BY Zenon DEF Submitted
  <1>4. addr[next[h]] = p /\ optype[h] = write[p] /\ sector[h] = blockno[p]
    BY <1>2, Zenon DEF VirtioInv, ChainInv, Mid
  <1>5. /\ IF write[p] = 1
             THEN disk' = [disk EXCEPT ![blockno[p]] = data[p]] /\ UNCHANGED data
             ELSE data' = [data EXCEPT ![p] = disk[blockno[p]]] /\ UNCHANGED disk
        /\ status' = [status EXCEPT ![h] = 0]
        /\ UNCHANGED <<write, blockno, pc, idx>>
    BY <1>4, Zenon DEF DeviceComplete
  <1>6. Stage[p] = "called"
    BY <1>1, <1>2, <1>3, StageIs
  <1>7. Stage' = [Stage EXCEPT ![p] = "done"]
    <2>1. Submitted' = Submitted
      BY <1>5, Zenon DEF Submitted
    <2>2. \A q \in Submitted : idx[q] \in Desc /\ (idx[q] = h => q = p)
      BY <1>2, Owner, Zenon DEF VirtioInv, ChainInv
    <2>3. \A d \in Desc : status'[d] = IF d = h THEN 0 ELSE status[d]
      BY <1>5, Zenon DEF VirtioInv, Types
    <2>4. \A q \in Proc : Stage'[q] = IF q = p THEN "done" ELSE Stage[q]
      BY <1>1, <1>2, <1>3, <1>5, <2>1, <2>2, <2>3 DEF Stage
    <2>5. Stage' = [q \in Proc |-> Stage'[q]] /\ Stage = [q \in Proc |-> Stage[q]]
      BY Zenon DEF Stage
    <2> QED
      BY <2>4, <2>5, Zenon
  <1>8. Abstract!Transfer(p)
    BY <1>5, <1>6, <1>7, Zenon DEF Abstract!Transfer
  <1> QED
    BY <1>3, <1>8, Zenon

\* The request is not done before the device has seen it.
LEMMA FormatRefines ==
  ASSUME VirtioInv, NEW p \in Proc, Format(p), Facts PROVE UNCHANGED Abstract!vars
  <1>1. PICK i0, i1, i2 \in free : Formatted(p, i0, i1, i2)
    BY FormatEffect, Zenon
  <1>2. Submitted' = Submitted \cup {p} /\ p \notin Submitted
    BY <1>1, FormatChains, Zenon
  <1>3. i0 \in Desc /\ \A q \in Submitted : idx[q] \in Desc \ free
    BY Zenon DEF VirtioInv, Types, ChainInv
  <1>4. /\ \A q \in Submitted : idx'[q] = idx[q] /\ status'[idx[q]] = status[idx[q]]
        /\ idx'[p] = i0 /\ status'[i0] = 255
    BY <1>1, <1>2, <1>3 DEF Formatted, Submitted
  <1>5. /\ \A q \in Proc : pc'[q] = "out" <=> pc[q] = "out"
        /\ UNCHANGED <<disk, data, write, blockno>>
    BY <1>1, Zenon DEF Formatted
  <1>6. \A q \in Proc : (q \in Submitted' /\ status'[idx'[q]] = 0) <=>
                        (q \in Submitted /\ status[idx[q]] = 0)
    BY <1>2, <1>4
  <1> QED
    BY <1>5, <1>6, Stutter, Zenon

\* Every step of the driver and the device is a step of the block device.
LEMMA StepRefines ==
  ASSUME VirtioInv, [Next]_vars, Facts
  PROVE  [Abstract!Next]_(Abstract!vars)
  <1>1. ASSUME NEW p \in Proc, NEW w \in 0 .. 1, NEW b \in Block, NEW v \in Val \cup {None},
               Rw(p, w, b, v)
        PROVE  Abstract!Next
    BY <1>1, RwRefines, Zenon DEF Abstract!Next
  <1>2. ASSUME NEW p \in Proc, Finish(p) PROVE Abstract!Next
    BY <1>2, FinishRefines, Zenon DEF Abstract!Next
  <1>3. ASSUME NEW h \in inflight, DeviceComplete(h) PROVE Abstract!Next
    BY <1>3, CompleteRefines, Zenon DEF Abstract!Next
  <1>4. ASSUME UNCHANGED <<disk, data, write, blockno, pc, status, idx>>
        PROVE  UNCHANGED Abstract!vars
    <2>1. Submitted' = Submitted
      BY <1>4, Zenon DEF Submitted
    <2> QED
      BY <1>4, <2>1, Stutter, Zenon
  <1>5. ASSUME NEW p \in Proc, AllocFails(p) \/ Wait(p) \/ Reacquire(p) \/ Kill(p)
        PROVE  UNCHANGED Abstract!vars
    BY <1>4, <1>5, Zenon DEF AllocFails, Wait, Reacquire, Kill, device, usedq, buffer
  <1>6. CASE Handler
    BY <1>4, <1>6, Zenon DEF Handler, IntrAck, IntrEntry, IntrLast, IntrReturn, device, usedq, buffer
  <1>7. CASE DeviceFetch \/ UNCHANGED vars
    BY <1>4, <1>7, Zenon DEF DeviceFetch, vars, device, usedq, buffer
  <1>8. ASSUME NEW p \in Proc, Publish(p) PROVE UNCHANGED Abstract!vars
    <2>1. /\ \A q \in Proc : pc'[q] = IF q = p THEN "wait" ELSE pc[q]
          /\ pc[p] = "publish" /\ UNCHANGED <<disk, data, write, blockno, status, idx>>
      BY <1>8, Zenon DEF Publish, Goto, VirtioInv, Types, device, usedq, buffer
    <2>2. Submitted' = Submitted
      BY <2>1, Zenon DEF Submitted
    <2> QED
      BY <2>1, <2>2, Stutter, Zenon
  <1>9. ASSUME NEW p \in Proc, Format(p) PROVE UNCHANGED Abstract!vars
    BY <1>9, FormatRefines, Zenon
  <1> QED
    BY <1>1, <1>2, <1>3, <1>5, <1>6, <1>7, <1>8, <1>9, Zenon DEF Next, Caller, Device

(***************************************************************************)
(* The facts about indices, rings and sets of descriptors.                 *)
(***************************************************************************)
INSTANCE Rings

\* The ring is at least three long.
LEMMA Sizes == NUM \in Nat \ {0} /\ NUM >= 3 /\ WORD \in Nat \ {0} /\ WORD % NUM = 0 /\ None \notin Desc
  BY VirtioAssumption DEF Desc

\* There are NUM descriptors.
LEMMA DescFinite == IsFiniteSet(Desc) /\ Cardinality(Desc) = NUM
  BY Sizes, FS_Interval DEF Desc

\* Indices count as Counts says.
LEMMA CountsHold == Counts
  <1> SUFFICES ASSUME NEW x \in Nat
               PROVE  /\ x % NUM \in Desc /\ x % WORD \in Nat
                      /\ (x % WORD) % NUM = x % NUM
                      /\ Inc(x % WORD) = (x + 1) % WORD
    BY Zenon DEF Counts
  <1>1. x % NUM \in Desc /\ x % WORD \in Nat
    BY Sizes DEF Desc
  <1>2. (x % WORD) % NUM = x % NUM
    BY Sizes, VirtioAssumption, ModMod, Zenon
  <1>3. Inc(x % WORD) = (x + 1) % WORD
    BY Sizes, NextMod, Zenon DEF Inc
  <1> QED
    BY <1>1, <1>2, <1>3, Zenon

\* The rings of the disk are rings.
LEMMA RingFacts == Pushes /\ Pops /\ Fits
  <1>1. Desc = 0 .. NUM - 1
    BY Zenon DEF Desc
  <1>2. \A ring, s, u : Entries(ring, s, u) <=> Window(NUM, None, ring, s, u)
    BY <1>1, Zenon DEF Entries, Window
  <1>3. Pushes
    <2> SUFFICES ASSUME NEW ring \in [Desc -> Desc \cup {None}], NEW v \in Desc,
                        NEW s \in Nat, NEW u \in Nat, Entries(ring, s, u), u + 1 < s + NUM
                 PROVE  /\ ring[u % NUM] = None
                        /\ Entries([ring EXCEPT ![u % NUM] = v], s, u + 1)
      BY Zenon DEF Pushes
    <2>1. ring \in [0 .. NUM - 1 -> Desc \cup {None}] /\ Window(NUM, None, ring, s, u)
      BY <1>1, <1>2, Zenon
    <2>2. /\ ring[u % NUM] = None
          /\ Window(NUM, None, [ring EXCEPT ![u % NUM] = v], s, u + 1)
      BY <2>1, Sizes, WindowPush, Zenon
    <2> QED
      BY <1>2, <2>2, Zenon
  <1>4. Pops
    <2> SUFFICES ASSUME NEW ring \in [Desc -> Desc \cup {None}],
                        NEW s \in Nat, NEW u \in Nat, Entries(ring, s, u), s # u
                 PROVE  /\ ring[s % NUM] \in Desc
                        /\ Entries([ring EXCEPT ![s % NUM] = None], s + 1, u)
      BY Zenon DEF Pops
    <2>1. ring \in [0 .. NUM - 1 -> Desc \cup {None}] /\ Window(NUM, None, ring, s, u)
      BY <1>1, <1>2, Zenon
    <2>2. /\ ring[s % NUM] \in Desc
          /\ Window(NUM, None, [ring EXCEPT ![s % NUM] = None], s + 1, u)
      BY <2>1, Sizes, WindowPop, Zenon
    <2> QED
      BY <1>2, <2>2, Zenon
  <1>5. Fits
    <2> SUFFICES ASSUME NEW ring \in [Desc -> Desc \cup {None}], NEW s \in Nat, NEW u \in Nat,
                        NEW S \in SUBSET Desc, Entries(ring, s, u),
                        \A c \in Desc : ring[c] # None => ring[c] \in S,
                        \A c, d \in Desc : ring[c] # None /\ ring[c] = ring[d] => c = d
                 PROVE  u - s <= Cardinality(S)
      BY Zenon DEF Fits
    <2>1. IsFiniteSet(S)
      BY DescFinite, FS_Subset, Zenon
    <2>2. ring \in [0 .. NUM - 1 -> Desc \cup {None}] /\ Window(NUM, None, ring, s, u)
      BY <1>1, <1>2, Zenon
    <2>3. Distinct(NUM, None, ring, S)
      BY <1>1, Zenon DEF Distinct
    <2>4. NUM \in Nat \ {0} /\ None \notin Desc
      BY Sizes, Zenon
    <2>5. u - s <= Cardinality(S) /\ Cardinality(S) \in Nat
      BY <2>1, <2>2, <2>3, <2>4, WindowBound, Zenon
    <2> QED
      BY <2>5, Zenon
  <1> QED
    BY <1>3, <1>4, <1>5, Zenon

\* Cardinalities of sets of descriptors.
LEMMA CountingHolds == Counting
  <1>1. \A S \in SUBSET Desc : IsFiniteSet(S) /\ Cardinality(S) \in Nat
    BY DescFinite, FS_Subset, FS_CardinalityType, Zenon
  <1>2. ASSUME NEW S \in SUBSET Desc PROVE Cardinality(Desc \ S) = NUM - Cardinality(S)
    <2>1. Desc \cap S = S
      BY Zenon
    <2>2. Cardinality(Desc \ S) = Cardinality(Desc) - Cardinality(Desc \cap S)
      BY DescFinite, FS_Difference, Zenon
    <2> QED
      BY <2>1, <2>2, DescFinite, Zenon
  <1>3. ASSUME NEW S \in SUBSET Desc, NEW R \in SUBSET Desc, S \subseteq R
        PROVE  Cardinality(S) <= Cardinality(R)
    BY <1>1, <1>3, FS_Subset, Zenon
  <1>4. ASSUME NEW a \in Desc, NEW b \in Desc, NEW c \in Desc, a # b, a # c, b # c
        PROVE  Cardinality({a, b, c}) = 3
    <2>1. IsFiniteSet({a}) /\ Cardinality({a}) = 1
      BY FS_Singleton, Zenon
    <2>2. IsFiniteSet({a} \cup {b}) /\ Cardinality({a} \cup {b}) = 2
      BY <1>4, <2>1, FS_AddElement
    <2>3. Cardinality(({a} \cup {b}) \cup {c}) = 3
      BY <1>4, <2>2, FS_AddElement
    <2>4. ({a} \cup {b}) \cup {c} = {a, b, c}
      BY Zenon
    <2> QED
      BY <2>3, <2>4, Zenon
  <1> QED
    BY <1>1, <1>2, <1>3, <1>4, Zenon DEF Counting

\* The smallest of a set of numbers exists.
LEMMA LowestIn == ASSUME NEW S \in SUBSET Nat, S # {} PROVE Lowest(S) \in S
  <1>1. PICK t \in S : \A u \in S : ~(<<u, t>> \in OpToRel(<, Nat))
    BY NatLessThanWellFounded, WFMin, Zenon
  <1>2. \A u \in S : ~(u < t)
    BY <1>1, Zenon DEF OpToRel
  <1>3. \A u \in S : t <= u
    BY <1>2
  <1> QED
    BY <1>3, Zenon DEF Lowest

\* alloc3_desc finds three different descriptors among three or more.
LEMMA ThreeLowest ==
  ASSUME NEW S \in SUBSET Desc, Cardinality(S) >= 3
  PROVE  ThreeOf(S)
  <1> DEFINE i0 == Lowest(S)
             i1 == Lowest(S \ {i0})
             i2 == Lowest(S \ {i0, i1})
  <1>1. Desc \subseteq Nat /\ IsFiniteSet(Desc)
    BY DescFinite DEF Desc
  <1>2. S \subseteq Nat /\ IsFiniteSet(S) /\ Cardinality(S) \in Nat
    BY <1>1, FS_Subset, FS_CardinalityType, Zenon
  <1>3. S # {}
    BY <1>2, FS_EmptySet
  <1>4. i0 \in S
    BY <1>2, <1>3, LowestIn, Zenon
  <1> HIDE DEF i0
  <1> DEFINE A == S \ {i0}
  <1>5. A \subseteq Nat /\ IsFiniteSet(A) /\ Cardinality(A) = Cardinality(S) - 1
    BY <1>2, <1>4, FS_RemoveElement, Zenon
  <1>6. A # {}
    <2> HIDE DEF A
    <2> QED
      BY <1>2, <1>5, FS_EmptySet
  <1>7. i1 \in A
    BY <1>5, <1>6, LowestIn, Zenon
  <1> HIDE DEF i1
  <1> DEFINE B == A \ {i1}
  <1>8. B \subseteq Nat /\ IsFiniteSet(B) /\ Cardinality(B) = Cardinality(A) - 1
    <2> HIDE DEF A
    <2> QED
      BY <1>5, <1>7, FS_RemoveElement, Zenon
  <1>9. B # {}
    <2> HIDE DEF A, B
    <2> QED
      BY <1>2, <1>5, <1>8, FS_EmptySet
  <1>10. B = S \ {i0, i1}
    BY Zenon
  <1>11. i2 \in B
    <2>1. Lowest(B) \in B
      BY <1>8, <1>9, LowestIn, Zenon
    <2> QED
      BY <2>1, <1>10, Zenon
  <1>12. /\ i0 \in S /\ i1 \in S /\ i2 \in S
         /\ i0 # i1 /\ i0 # i2 /\ i1 # i2
    BY <1>4, <1>7, <1>11, Zenon
  <1> QED
    BY <1>12, Zenon DEF ThreeOf, i0, i1

\* The facts hold.
LEMMA FactsHold == Facts
  <1>1. Enough
    BY ThreeLowest, Zenon DEF Enough
  <1> QED
    BY <1>1, CountsHold, RingFacts, CountingHolds, Zenon DEF Facts

(***************************************************************************)
(* The invariant holds, and what follows from it.                          *)
(***************************************************************************)
\* The inductive invariant holds in every reachable state.
THEOREM VirtioInvHolds == Spec => []VirtioInv
  <1>1. VirtioInv /\ [Next]_vars => VirtioInv'
    BY FactsHold, NextInv, Zenon
  <1> QED
    BY <1>1, InitInv, PTL DEF Spec

\* Every descriptor is free or in the chain of exactly one request.
THEOREM NoDescriptorLost == Spec => []DescriptorsAccounted
  <1>1. VirtioInv => DescriptorsAccounted
    BY FactsHold, Accounted, Zenon
  <1> QED
    BY <1>1, VirtioInvHolds, PTL

\* While the used ring has entries the interrupt is pending or being handled.
THEOREM CompletionsAreNoticed == Spec => []CompletionNoticed
  BY VirtioInvHolds, PTL DEF VirtioInv, SleepInv

\* Nobody sleeps for a request that is done or for descriptors that are free.
THEOREM SleepersHaveReason == Spec => []NobodyOversleeps
  BY VirtioInvHolds, PTL DEF VirtioInv, SleepInv

\* Neither free_desc nor virtio_disk_intr ever panics: no descriptor is freed
\* twice, and every used-ring entry is of a request the device has done.
THEOREM DriverNeverPanics == Spec => [](lock # Panic)
  <1>1. VirtioInv => lock # Panic
    BY VirtioAssumption, Zenon DEF VirtioInv, Types
  <1> QED
    BY <1>1, VirtioInvHolds, PTL

\* virtio_disk_rw transfers the caller's block, and nobody else's, once and
\* before it returns, whatever order the device completes the requests in.
THEOREM VirtioRefinesBlockDevice == Spec => RefinesBlockDevice
  <1>1. Init => Abstract!Init
    BY Zenon DEF Init, Abstract!Init, Stage
  <1>2. VirtioInv /\ [Next]_vars => [Abstract!Next]_(Abstract!vars)
    BY FactsHold, StepRefines, Zenon
  <1> QED
    BY <1>1, <1>2, VirtioInvHolds, PTL DEF Spec, RefinesBlockDevice, Abstract!Spec

=============================================================================
