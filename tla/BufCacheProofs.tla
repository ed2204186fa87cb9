--------------------------- MODULE BufCacheProofs ---------------------------
(***************************************************************************)
(* Proofs about kernel/bio.c for any number of processes, blocks and       *)
(* buffers.                                                                *)
(***************************************************************************)
EXTENDS BufCache, FiniteSetTheorems, WellFoundedInduction, TLAPS

\* What a process may rely on at each of its steps.
UseInv ==
  \A p \in Proc :
    /\ pc[p] \in Referring => buf[p] \in Buf /\ blockno[buf[p]] # Nobody
    /\ pc[p] \in Holding => locked[buf[p]] = p
    /\ pc[p] \in {"use", "bpin", "bunpin"} => valid[buf[p]] = 1
    /\ pc[p] = "bunpin" => buf[p] \in pinned /\ data[buf[p]] = disk[blockno[buf[p]]]

LockInv == \A k \in Buf : locked[k] # Nobody => pc[locked[k]] \in Holding /\ buf[locked[k]] = k

\* A valid copy that differs from the disk is pinned, or about to be.
CopyInv ==
  \A k \in Buf :
    /\ k \in pinned => valid[k] = 1
    /\ valid[k] = 1 => blockno[k] # Nobody
    /\ valid[k] = 1 /\ k \notin pinned /\ (\A p \in Proc : pc[p] = "bpin" => buf[p] # k)
         => data[k] = disk[blockno[k]]

\* The list keeps every buffer exactly once.
LruComplete == \A k \in Buf : \E m \in Buf : lru[m] = k

BufInv ==
  /\ TypeOK /\ OneBufPerBlock /\ RefcntExact /\ LruComplete
  /\ UseInv /\ LockInv /\ CopyInv

(***************************************************************************)
(* Facts about the list and the reference counts.                          *)
(***************************************************************************)

\* A set of positions of the list has a last one.
LEMMA LastPosition ==
  ASSUME NEW S \in SUBSET Buf, S # {}
  PROVE  \E m \in S : \A l \in m + 1 .. NBUF : l \notin S
<1> DEFINE T == {NBUF - m : m \in S}
<1>1. T \subseteq Nat /\ T # {}
  BY BufAssumption DEF Buf
<1>2. PICK t \in T : \A u \in T : ~(<<u, t>> \in OpToRel(<, Nat))
  BY <1>1, NatLessThanWellFounded, WFMin, Zenon
<1>3. \A u \in T : ~(u < t)
  BY <1>1, <1>2, Zenon DEF OpToRel
<1>4. PICK m \in S : t = NBUF - m
  BY Zenon
<1>5. ASSUME NEW l \in m + 1 .. NBUF, l \in S
      PROVE  FALSE
  <2>1. NBUF - l \in T
    BY <1>5, Zenon
  <2>2. NBUF - l < NBUF - m
    BY BufAssumption DEF Buf
  <2> QED BY <1>3, <1>4, <2>1, <2>2
<1> QED BY <1>5

\* bget's second loop finds an unused buffer if there is one.
LEMMA VictimUnused ==
  ASSUME LruComplete, Unused # {}
  PROVE  Victim \in Unused
<1> DEFINE S == {m \in Buf : lru[m] \in Unused}
<1>1. S \in SUBSET Buf /\ S # {}
  BY Zenon DEF LruComplete, Unused
<1>2. PICK m \in S : \A l \in m + 1 .. NBUF : l \notin S
  BY <1>1, LastPosition, Zenon
<1>3. \A l \in m + 1 .. NBUF : l \in Buf
  BY BufAssumption DEF Buf
<1>4. m \in 1 .. NBUF /\ lru[m] \in Unused /\ \A l \in m + 1 .. NBUF : lru[l] \notin Unused
  BY <1>2, <1>3, Zenon DEF Buf
<1> QED BY <1>4 DEF Victim

LEMMA UsersFinite == \A k : IsFiniteSet(Users(k)) /\ Cardinality(Users(k)) \in Nat
<1> TAKE k
<1>1. Users(k) \in SUBSET Proc
  BY Zenon DEF Users
<1>2. IsFiniteSet(Users(k))
  BY <1>1, FS_Subset, BufAssumption, Zenon
<1> QED BY <1>2, FS_CardinalityType

\* A buffer with refcnt 0 has no user and is not pinned.
LEMMA UnusedIsFree ==
  ASSUME RefcntExact, NEW k \in Unused
  PROVE  Users(k) = {} /\ k \notin pinned
<1>1. refcnt[k] = 0 /\ k \in Buf
  BY Zenon DEF Unused
<1>2. Cardinality(Users(k)) = 0 /\ k \notin pinned
  BY <1>1, UsersFinite DEF RefcntExact
<1> QED BY <1>2, UsersFinite, FS_EmptySet

\* A buffer in use, or pinned, has a positive count.
LEMMA UsedIsCounted ==
  ASSUME RefcntExact, NEW k \in Buf, Users(k) # {} \/ k \in pinned
  PROVE  refcnt[k] \in Nat \ {0}
<1>1. Cardinality(Users(k)) \in Nat /\ (Users(k) # {} => Cardinality(Users(k)) # 0)
  BY UsersFinite, FS_EmptySet, Zenon
<1> QED BY <1>1 DEF RefcntExact

(***************************************************************************)
(* Every step preserves the invariant.                                     *)
(***************************************************************************)

LEMMA BufRange == Buf \subseteq 0 .. NBUF /\ 0 \in 0 .. NBUF
  BY BufAssumption DEF Buf

\* The initial state: no buffer has a block.
LEMMA InitInv == Init => BufInv
<1> SUFFICES ASSUME Init PROVE BufInv
  BY Zenon
<1> USE BufAssumption DEF Init
<1>1. TypeOK
  BY DEF TypeOK, Buf, Referring, Holding
<1>2. \A k \in Buf : Users(k) = {}
  BY Zenon DEF Users, Referring, Holding
<1>3. RefcntExact
  BY <1>2, FS_EmptySet DEF RefcntExact
<1>4. LruComplete
  <2>1. ASSUME NEW k \in Buf
        PROVE  NBUF + 1 - k \in Buf /\ lru[NBUF + 1 - k] = k
    BY DEF Buf
  <2> QED BY <2>1 DEF LruComplete
<1>5. UseInv /\ LockInv /\ CopyInv /\ OneBufPerBlock
  BY DEF UseInv, LockInv, CopyInv, OneBufPerBlock, Referring, Holding
<1> QED BY <1>1, <1>3, <1>4, <1>5 DEF BufInv

\* bget finds the block: one more user.
LEMMA HitStep ==
  ASSUME BufInv, NEW p \in Proc, NEW k \in Buf, blockno[k] # Nobody, Hit(p, k), pc[p] = "out", UNCHANGED <<disk, data, locked, lru, pinned, chan>>
  PROVE  BufInv'
<1> USE BufAssumption DEF BufInv, Hit, Goto
<1>u. Users(k)' = Users(k) \cup {p} /\ p \notin Users(k)
  BY DEF Users, Referring, Holding, TypeOK
<1>v. \A l \in Buf \ {k} : Users(l)' = Users(l)
  BY Zenon DEF Users, Referring, Holding, TypeOK
<1>w. Cardinality(Users(k)') = Cardinality(Users(k)) + 1
  BY <1>u, UsersFinite, FS_AddElement, Zenon
<1>1. TypeOK'
  BY BufRange DEF TypeOK, Referring, Holding
<1>2. OneBufPerBlock'
  BY Zenon DEF OneBufPerBlock
<1>3. RefcntExact'
  <2>1. refcnt'[k] = refcnt[k] + 1 /\ \A l \in Buf \ {k} : refcnt'[l] = refcnt[l]
    BY Zenon DEF TypeOK
  <2> QED BY <1>v, <1>w, <2>1, UsersFinite DEF RefcntExact
<1>4. LruComplete'
  BY Zenon DEF LruComplete
<1>5. UseInv'
  BY DEF UseInv, TypeOK, Referring, Holding
<1>6. LockInv'
  BY DEF LockInv, UseInv, TypeOK, Referring, Holding
<1>7. CopyInv'
  BY Zenon DEF CopyInv, UseInv, TypeOK, Referring, Holding
<1> QED BY <1>1, <1>2, <1>3, <1>4, <1>5, <1>6, <1>7

\* bget recycles an unused buffer for a block that has none.
LEMMA RecycleStep ==
  ASSUME BufInv, NEW p \in Proc, NEW b \in Block, NEW k \in Unused, Cached(b) = {}, Recycle(p, k, b), pc[p] = "out", UNCHANGED <<disk, data, locked, lru, pinned, chan>>
  PROVE  BufInv'
<1> USE BufAssumption DEF BufInv, Recycle, Goto
<1>k. k \in Buf /\ Users(k) = {} /\ k \notin pinned
  BY UnusedIsFree, Zenon DEF Unused
<1>q. \A q \in Proc : pc[q] \in Referring => buf[q] # k
  BY <1>k, Zenon DEF Users
<1>u. Users(k)' = {p}
  BY <1>k, <1>q DEF Users, Referring, Holding, TypeOK
<1>v. \A l \in Buf \ {k} : Users(l)' = Users(l)
  BY Zenon DEF Users, Referring, Holding, TypeOK
<1>1. TypeOK'
  BY BufRange, <1>k DEF TypeOK, Referring, Holding
<1>2. OneBufPerBlock'
  BY <1>k, Zenon DEF OneBufPerBlock, Cached, TypeOK
<1>3. RefcntExact'
  <2>1. refcnt'[k] = 1 /\ \A l \in Buf \ {k} : refcnt'[l] = refcnt[l]
    BY <1>k, Zenon DEF TypeOK
  <2>2. Cardinality(Users(k)') = 1
    BY <1>u, FS_Singleton, Zenon
  <2> QED BY <1>k, <1>v, <2>1, <2>2 DEF RefcntExact
<1>4. LruComplete'
  BY Zenon DEF LruComplete
<1>5. UseInv'
  BY <1>k, <1>q DEF UseInv, TypeOK, Referring, Holding
<1>6. LockInv'
  BY <1>k, <1>q DEF LockInv, UseInv, TypeOK, Referring, Holding
<1>7. CopyInv'
  BY <1>k, <1>q DEF CopyInv, UseInv, TypeOK, Referring, Holding
<1> QED BY <1>1, <1>2, <1>3, <1>4, <1>5, <1>6, <1>7

\* bget finds no buffer.
LEMMA PanicStep ==
  ASSUME BufInv, NEW p \in Proc, pc[p] = "out", Goto(p, "panic"), UNCHANGED <<disk, bufs, locked, lru, pinned, buf, chan>>
  PROVE  BufInv'
<1> USE BufAssumption DEF BufInv, bufs, Goto
<1>u. \A k : Users(k)' = Users(k)
  BY Zenon DEF Users, Referring, Holding, TypeOK
<1>1. TypeOK'
  BY BufRange, Zenon DEF TypeOK, Referring, Holding
<1>2. OneBufPerBlock'
  BY Zenon DEF OneBufPerBlock
<1>3. RefcntExact'
  BY <1>u, Zenon DEF RefcntExact
<1>4. LruComplete'
  BY Zenon DEF LruComplete
<1>5. UseInv'
  BY DEF UseInv, TypeOK, Referring, Holding
<1>6. LockInv'
  BY DEF LockInv, UseInv, TypeOK, Referring, Holding
<1>7. CopyInv'
  BY DEF CopyInv, UseInv, TypeOK, Referring, Holding
<1> QED BY <1>1, <1>2, <1>3, <1>4, <1>5, <1>6, <1>7

\* bget.
LEMMA BGetStep ==
  ASSUME BufInv, NEW p \in Proc, NEW b \in Block, BGet(p, b)
  PROVE  BufInv'
<1>1. ASSUME NEW k \in Cached(b), Hit(p, k) PROVE BufInv'
  <2>1. k \in Buf /\ blockno[k] # Nobody
    BY BufAssumption, Zenon DEF Cached
  <2> QED BY <1>1, <2>1, HitStep DEF BGet
<1>2. ASSUME Cached(b) = {}, Unused # {}, Recycle(p, Victim, b) PROVE BufInv'
  BY <1>2, VictimUnused, RecycleStep, Zenon DEF BGet, BufInv
<1>3. ASSUME Goto(p, "panic"), UNCHANGED <<blockno, valid, refcnt, buf>> PROVE BufInv'
  BY <1>3, PanicStep, Zenon DEF BGet, bufs
<1> QED BY <1>1, <1>2, <1>3 DEF BGet

\* acquiresleep.
LEMMA AcquireSleepStep ==
  ASSUME BufInv, NEW p \in Proc, AcquireSleep(p)
  PROVE  BufInv'
<1> USE BufAssumption DEF BufInv, AcquireSleep, bufs, Goto
<1>k. buf[p] \in Buf
  BY Zenon DEF UseInv, Referring, Holding
<1>u. \A k : Users(k)' = Users(k)
  BY Zenon DEF Users, Referring, Holding, TypeOK
<1>1. TypeOK'
  BY BufRange, <1>k DEF TypeOK, Referring, Holding
<1>2. OneBufPerBlock'
  BY Zenon DEF OneBufPerBlock
<1>3. RefcntExact'
  BY <1>u, Zenon DEF RefcntExact
<1>4. LruComplete'
  BY Zenon DEF LruComplete
<1>5. UseInv'
  BY <1>k DEF UseInv, TypeOK, Referring, Holding
<1>6. LockInv'
  BY <1>k DEF LockInv, UseInv, TypeOK, Referring, Holding
<1>7. CopyInv'
  BY <1>k DEF CopyInv, UseInv, TypeOK, Referring, Holding
<1> QED BY <1>1, <1>2, <1>3, <1>4, <1>5, <1>6, <1>7

\* bread.
LEMMA BReadStep ==
  ASSUME BufInv, NEW p \in Proc, BRead(p)
  PROVE  BufInv'
<1> USE BufAssumption DEF BufInv, BRead, Goto
<1>k. buf[p] \in Buf
  BY Zenon DEF UseInv, Referring, Holding
<1>u. \A k : Users(k)' = Users(k)
  BY Zenon DEF Users, Referring, Holding, TypeOK
<1>1. TypeOK'
  <2>1. disk[blockno[buf[p]]] \in Val
    BY <1>k DEF TypeOK, UseInv, Referring, Holding
  <2> QED BY <1>k, <2>1 DEF TypeOK, Referring, Holding
<1>2. OneBufPerBlock'
  BY Zenon DEF OneBufPerBlock
<1>3. RefcntExact'
  BY <1>u, Zenon DEF RefcntExact
<1>4. LruComplete'
  BY Zenon DEF LruComplete
<1>5. UseInv'
  BY <1>k DEF UseInv, TypeOK, Referring, Holding
<1>6. LockInv'
  BY <1>k DEF LockInv, UseInv, TypeOK, Referring, Holding
<1>7. CopyInv'
  BY <1>k DEF CopyInv, UseInv, TypeOK, Referring, Holding
<1> QED BY <1>1, <1>2, <1>3, <1>4, <1>5, <1>6, <1>7

\* A caller changes its buffer.
LEMMA ChangeStep ==
  ASSUME BufInv, NEW p \in Proc, NEW v \in Val, Change(p, v)
  PROVE  BufInv'
<1> USE BufAssumption DEF BufInv, Change, Goto
<1>k. buf[p] \in Buf
  BY Zenon DEF UseInv, Referring, Holding
<1>u. \A k : Users(k)' = Users(k)
  BY Zenon DEF Users, Referring, Holding, TypeOK
<1>1. TypeOK'
  BY BufRange, <1>k, Zenon DEF TypeOK, Referring, Holding
<1>2. OneBufPerBlock'
  BY Zenon DEF OneBufPerBlock
<1>3. RefcntExact'
  BY <1>u, Zenon DEF RefcntExact
<1>4. LruComplete'
  BY Zenon DEF LruComplete
<1>5. UseInv'
  BY <1>k DEF UseInv, TypeOK, Referring, Holding
<1>6. LockInv'
  BY <1>k DEF LockInv, UseInv, TypeOK, Referring, Holding
<1>7. CopyInv'
  BY <1>k DEF CopyInv, UseInv, TypeOK, Referring, Holding
<1> QED BY <1>1, <1>2, <1>3, <1>4, <1>5, <1>6, <1>7

\* log_write pins.
LEMMA BPinStep ==
  ASSUME BufInv, NEW p \in Proc, BPin(p)
  PROVE  BufInv'
<1> USE BufAssumption DEF BufInv, BPin, Goto
<1>k. buf[p] \in Buf
  BY Zenon DEF UseInv, Referring, Holding
<1>u. \A k : Users(k)' = Users(k)
  BY Zenon DEF Users, Referring, Holding, TypeOK
<1>1. TypeOK'
  <2>1. refcnt' \in [Buf -> Nat] /\ pinned' \subseteq Buf
    BY <1>k DEF TypeOK
  <2> QED BY <2>1 DEF TypeOK, Referring, Holding
<1>2. OneBufPerBlock'
  BY Zenon DEF OneBufPerBlock
<1>3. RefcntExact'
  <2>1. \A l \in Buf : refcnt'[l] = IF l = buf[p] /\ l \notin pinned THEN refcnt[l] + 1 ELSE refcnt[l]
    BY <1>k, Zenon DEF TypeOK
  <2> QED BY <1>u, <1>k, <2>1, UsersFinite DEF RefcntExact, UseInv
<1>4. LruComplete'
  BY Zenon DEF LruComplete
<1>5. UseInv'
  BY <1>k DEF UseInv, TypeOK, Referring, Holding
<1>6. LockInv'
  BY <1>k DEF LockInv, UseInv, TypeOK, Referring, Holding
<1>7. CopyInv'
  BY <1>k DEF CopyInv, UseInv, TypeOK, Referring, Holding
<1> QED BY <1>1, <1>2, <1>3, <1>4, <1>5, <1>6, <1>7

\* bwrite.
LEMMA BWriteStep ==
  ASSUME BufInv, NEW p \in Proc, BWrite(p)
  PROVE  BufInv'
<1> USE BufAssumption DEF BufInv, BWrite, bufs, Goto
<1>k. buf[p] \in Buf
  BY Zenon DEF UseInv, Referring, Holding
<1>u. \A k : Users(k)' = Users(k)
  BY Zenon DEF Users, Referring, Holding, TypeOK
<1>1. TypeOK'
  BY BufRange, <1>k, Zenon DEF TypeOK, Referring, Holding
<1>2. OneBufPerBlock'
  BY Zenon DEF OneBufPerBlock
<1>3. RefcntExact'
  BY <1>u, Zenon DEF RefcntExact
<1>4. LruComplete'
  BY Zenon DEF LruComplete
<1>5. UseInv'
  <2>1. blockno[buf[p]] \in Block /\ disk'[blockno[buf[p]]] = data[buf[p]]
    BY <1>k DEF TypeOK, UseInv, Referring, Holding
  <2>2. \A l \in Buf : l # buf[p] /\ blockno[l] # Nobody => disk'[blockno[l]] = disk[blockno[l]]
    BY <1>k, <2>1, Zenon DEF TypeOK, OneBufPerBlock
  <2> QED BY <1>k, <2>1, <2>2 DEF UseInv, TypeOK, Referring, Holding
<1>6. LockInv'
  BY <1>k DEF LockInv, UseInv, TypeOK, Referring, Holding
<1>7. CopyInv'
  <2>1. blockno[buf[p]] \in Block /\ disk'[blockno[buf[p]]] = data[buf[p]]
    BY <1>k DEF TypeOK, UseInv, Referring, Holding
  <2>2. \A l \in Buf : l # buf[p] /\ blockno[l] # Nobody => disk'[blockno[l]] = disk[blockno[l]]
    BY <1>k, <2>1, Zenon DEF TypeOK, OneBufPerBlock
  <2> QED BY <1>k, <2>1, <2>2 DEF CopyInv, TypeOK
<1> QED BY <1>1, <1>2, <1>3, <1>4, <1>5, <1>6, <1>7

\* bunpin.
LEMMA BUnpinStep ==
  ASSUME BufInv, NEW p \in Proc, BUnpin(p)
  PROVE  BufInv'
<1> USE BufAssumption DEF BufInv, BUnpin, Goto
<1>k. buf[p] \in Buf
  BY Zenon DEF UseInv, Referring, Holding
<1>n. refcnt[buf[p]] \in Nat \ {0}
  BY <1>k, UsedIsCounted, Zenon DEF UseInv, Users, Referring, Holding
<1>u. \A k : Users(k)' = Users(k)
  BY Zenon DEF Users, Referring, Holding, TypeOK
<1>1. TypeOK'
  <2>1. refcnt' \in [Buf -> Nat] /\ pinned' \subseteq Buf
    BY <1>k, <1>n DEF TypeOK
  <2> QED BY <2>1 DEF TypeOK, Referring, Holding
<1>2. OneBufPerBlock'
  BY Zenon DEF OneBufPerBlock
<1>3. RefcntExact'
  <2>1. \A l \in Buf : refcnt'[l] = IF l = buf[p] THEN refcnt[l] - 1 ELSE refcnt[l]
    BY <1>k, Zenon DEF TypeOK
  <2> QED BY <1>u, <1>k, <2>1, UsersFinite DEF RefcntExact, UseInv
<1>4. LruComplete'
  BY Zenon DEF LruComplete
<1>5. UseInv'
  BY <1>k DEF UseInv, TypeOK, Referring, Holding
<1>6. LockInv'
  BY <1>k DEF LockInv, UseInv, TypeOK, Referring, Holding
<1>7. CopyInv'
  BY <1>k DEF CopyInv, UseInv, TypeOK, Referring, Holding
<1> QED BY <1>1, <1>2, <1>3, <1>4, <1>5, <1>6, <1>7

\* brelse gives up the sleep lock.
LEMMA BRelseStep ==
  ASSUME BufInv, NEW p \in Proc, BRelse(p)
  PROVE  BufInv'
<1> USE BufAssumption DEF BufInv, BRelse, ReleaseSleep, bufs, Goto
<1>k. buf[p] \in Buf
  BY Zenon DEF UseInv, Referring, Holding
<1>u. \A k : Users(k)' = Users(k)
  BY Zenon DEF Users, Referring, Holding, TypeOK
<1>1. TypeOK'
  BY BufRange, <1>k, Zenon DEF TypeOK, Referring, Holding
<1>2. OneBufPerBlock'
  BY Zenon DEF OneBufPerBlock
<1>3. RefcntExact'
  BY <1>u, Zenon DEF RefcntExact
<1>4. LruComplete'
  BY Zenon DEF LruComplete
<1>5. UseInv'
  BY <1>k DEF UseInv, TypeOK, Referring, Holding
<1>6. LockInv'
  BY <1>k DEF LockInv, UseInv, TypeOK, Referring, Holding
<1>7. CopyInv'
  BY <1>k DEF CopyInv, UseInv, TypeOK, Referring, Holding
<1> QED BY <1>1, <1>2, <1>3, <1>4, <1>5, <1>6, <1>7

\* Moving a buffer to the front loses none.
LEMMA FrontComplete ==
  ASSUME lru \in [Buf -> Buf], LruComplete, NEW k \in Buf
  PROVE  /\ MoveToFront(k) \in [Buf -> Buf]
         /\ \A l \in Buf : \E m \in Buf : MoveToFront(k)[m] = l
<1> DEFINE at == CHOOSE m \in Buf : lru[m] = k
<1>1. at \in Buf /\ lru[at] = k
  BY Zenon DEF LruComplete
<1> HIDE DEF at
<1>2. MoveToFront(k) = [m \in Buf |-> IF m = 1 THEN k ELSE IF m <= at THEN lru[m - 1] ELSE lru[m]]
  BY Zenon DEF MoveToFront, at
<1>3. MoveToFront(k) \in [Buf -> Buf]
  <2>1. \A m \in Buf : m # 1 => m - 1 \in Buf
    BY BufAssumption DEF Buf
  <2> QED BY <1>2, <2>1
<1>4. ASSUME NEW l \in Buf
      PROVE  \E m \in Buf : MoveToFront(k)[m] = l
  <2>1. PICK m \in Buf : lru[m] = l
    BY Zenon DEF LruComplete
  <2>2. CASE m = at
    <3>1. 1 \in Buf /\ MoveToFront(k)[1] = k
      BY <1>2, BufAssumption DEF Buf
    <3> QED BY <1>1, <2>1, <2>2, <3>1
  <2>3. CASE m < at
    <3>1. m + 1 \in Buf /\ m + 1 # 1 /\ m + 1 <= at /\ (m + 1) - 1 = m
      BY <1>1, <2>3, BufAssumption DEF Buf
    <3>2. MoveToFront(k)[m + 1] = lru[m]
      BY <1>2, <3>1, Zenon
    <3> QED BY <2>1, <3>1, <3>2
  <2>4. CASE m > at
    <3>1. m # 1 /\ ~(m <= at)
      BY <1>1, <2>4, BufAssumption DEF Buf
    <3> QED BY <1>2, <2>1, <3>1
  <2> QED BY <1>1, <2>2, <2>3, <2>4, BufAssumption DEF Buf
<1> QED BY <1>3, <1>4

\* brelse drops its reference.
LEMMA UnrefStep ==
  ASSUME BufInv, NEW p \in Proc, Unref(p)
  PROVE  BufInv'
<1> USE BufAssumption DEF BufInv, Unref, Goto
<1>k. buf[p] \in Buf
  BY Zenon DEF UseInv, Referring, Holding
<1>n. refcnt[buf[p]] \in Nat \ {0}
  BY <1>k, UsedIsCounted, Zenon DEF UseInv, Users, Referring, Holding
<1>a. PICK k \in Buf : k = buf[p]
  BY <1>k, Zenon
<1>u. Users(k)' = Users(k) \ {p} /\ p \in Users(k)
  BY <1>a, Zenon DEF Users, Referring, Holding, TypeOK
<1>v. \A l \in Buf \ {k} : Users(l)' = Users(l)
  BY <1>a, Zenon DEF Users, Referring, Holding, TypeOK
<1>w. Cardinality(Users(k)') = Cardinality(Users(k)) - 1
  BY <1>u, UsersFinite, FS_RemoveElement
<1>l. MoveToFront(buf[p]) \in [Buf -> Buf] /\ \A l \in Buf : \E m \in Buf : MoveToFront(buf[p])[m] = l
  BY <1>k, FrontComplete, Zenon DEF TypeOK
<1>1. TypeOK'
  BY BufRange, <1>k, <1>n, <1>l DEF TypeOK, Referring, Holding
<1>2. OneBufPerBlock'
  BY Zenon DEF OneBufPerBlock
<1>3. RefcntExact'
  <2>1. refcnt'[k] = refcnt[k] - 1 /\ \A l \in Buf \ {k} : refcnt'[l] = refcnt[l]
    BY <1>a, Zenon DEF TypeOK
  <2> QED BY <1>v, <1>w, <2>1, UsersFinite DEF RefcntExact
<1>4. LruComplete'
  BY <1>l, Zenon DEF LruComplete
<1>5. UseInv'
  BY <1>k DEF UseInv, TypeOK, Referring, Holding
<1>6. LockInv'
  BY <1>k DEF LockInv, UseInv, TypeOK, Referring, Holding
<1>7. CopyInv'
  BY <1>k, Zenon DEF CopyInv, UseInv, TypeOK, Referring, Holding
<1> QED BY <1>1, <1>2, <1>3, <1>4, <1>5, <1>6, <1>7

\* kill.
LEMMA KillStep ==
  ASSUME BufInv, NEW p \in Proc, Kill(p)
  PROVE  BufInv'
<1> USE DEF BufInv, Kill, bufs
<1>1. TypeOK'
  BY BufRange, Zenon DEF TypeOK
<1>2. RefcntExact' /\ OneBufPerBlock' /\ LruComplete'
  BY Zenon DEF RefcntExact, OneBufPerBlock, LruComplete, Users
<1>3. UseInv' /\ LockInv' /\ CopyInv'
  BY DEF UseInv, LockInv, CopyInv
<1> QED BY <1>1, <1>2, <1>3

\* Every step of the specification.
LEMMA NextInv == BufInv /\ [Next]_vars => BufInv'
<1> SUFFICES ASSUME BufInv, [Next]_vars PROVE BufInv'
  BY Zenon
<1>1. CASE UNCHANGED vars
  BY <1>1 DEF BufInv, vars, bufs, TypeOK, OneBufPerBlock, RefcntExact, LruComplete, UseInv, LockInv, CopyInv, Users
<1>2. ASSUME NEW p \in Proc, Inside(p) PROVE BufInv'
  BY <1>2, AcquireSleepStep, BReadStep, BPinStep, BUnpinStep, BRelseStep, UnrefStep, Zenon DEF Inside
<1>3. ASSUME NEW p \in Proc, BWrite(p) \/ Kill(p) PROVE BufInv'
  BY <1>3, BWriteStep, KillStep, Zenon
<1>4. ASSUME NEW p \in Proc, NEW b \in Block, BGet(p, b) PROVE BufInv'
  BY <1>4, BGetStep, Zenon
<1>5. ASSUME NEW p \in Proc, NEW v \in Val, Change(p, v) PROVE BufInv'
  BY <1>5, ChangeStep, Zenon
<1> QED BY <1>1, <1>2, <1>3, <1>4, <1>5 DEF Next

\* The invariant of the buffer cache.
THEOREM InvariantHolds == Spec => []BufInv
<1> QED BY InitInv, NextInv, PTL DEF Spec

\* Every variable keeps its type.
THEOREM TypeCorrect == Spec => []TypeOK
<1>1. BufInv => TypeOK
  BY Zenon DEF BufInv
<1> QED BY <1>1, InvariantHolds, PTL

\* A block never has two buffers: bget's lookup and its recycling are one
\* critical section.
THEOREM BlocksCachedOnce == Spec => []OneBufPerBlock
<1>1. BufInv => OneBufPerBlock
  BY Zenon DEF BufInv
<1> QED BY <1>1, InvariantHolds, PTL

\* refcnt is the number of users plus the log's pin, through every bget,
\* brelse, bpin and bunpin.
THEOREM ReferencesCounted == Spec => []RefcntExact
<1>1. BufInv => RefcntExact
  BY Zenon DEF BufInv
<1> QED BY <1>1, InvariantHolds, PTL

(***************************************************************************)
(* The refinement of BlockStore.  The contents of a block are those of its *)
(* valid buffer or, without one, of the disk; a recycled buffer is         *)
(* coherent with the disk by CopyInv.                                      *)
(***************************************************************************)

\* The contents of a block that is cached, and of one that is not.
LEMMA ContentCached ==
  ASSUME OneBufPerBlock, NEW k \in Buf, blockno[k] \in Block, valid[k] = 1, blockno[k] # Nobody
  PROVE  Content[blockno[k]] = data[k]
BY DEF Content, Cached, OneBufPerBlock

LEMMA ContentOnDisk ==
  ASSUME NEW b \in Block, \A k \in Buf : blockno[k] = b => valid[k] # 1
  PROVE  Content[b] = disk[b]
BY DEF Content, Cached

\* In every state of the invariant the contents are determined by one rule.
ContentOK ==
  /\ Content \in [Block -> Val]
  /\ \A k \in Buf : valid[k] = 1 => Content[blockno[k]] = data[k]
  /\ \A b \in Block : (\A k \in Buf : blockno[k] = b => valid[k] # 1) => Content[b] = disk[b]

LEMMA ContentRule == BufInv => ContentOK
<1> SUFFICES ASSUME BufInv PROVE ContentOK
  BY Zenon
<1> USE DEF BufInv
<1>1. \A k \in Buf : valid[k] = 1 => blockno[k] \in Block /\ blockno[k] # Nobody
  BY BufAssumption DEF CopyInv, TypeOK
<1>2. \A k \in Buf : valid[k] = 1 => Content[blockno[k]] = data[k]
  BY <1>1, ContentCached, Zenon
<1>3. \A b \in Block : (\A k \in Buf : blockno[k] = b => valid[k] # 1) => Content[b] = disk[b]
  BY ContentOnDisk, Zenon
<1>4. ASSUME NEW b \in Block PROVE Content[b] \in Val
  <2>1. CASE \E k \in Buf : blockno[k] = b /\ valid[k] = 1
    BY <1>2, <2>1, Zenon DEF TypeOK
  <2>2. CASE \A k \in Buf : blockno[k] = b => valid[k] # 1
    BY <1>3, <2>2, Zenon DEF TypeOK
  <2> QED BY <2>1, <2>2
<1>5. Content \in [Block -> Val]
  BY <1>4, Zenon DEF Content
<1> QED BY <1>2, <1>3, <1>5 DEF ContentOK

\* The same after a step.
LEMMA ContentRuleNext == BufInv' => ContentOK'
BY ContentRule, PTL

\* A step that changes no valid copy, and the disk only where there is a valid
\* copy, changes no contents.
LEMMA ContentSame ==
  ASSUME BufInv, BufInv',
         \A k \in Buf : valid[k] = 1 \/ valid'[k] = 1 =>
            /\ blockno'[k] = blockno[k] /\ valid[k] = 1 /\ valid'[k] = 1 /\ data'[k] = data[k],
         \A b \in Block : (\A k \in Buf : blockno[k] = b => valid[k] # 1) => disk'[b] = disk[b]
  PROVE  Content' = Content
<1>1. ASSUME NEW b \in Block PROVE Content'[b] = Content[b]
  <2>1. CASE \E k \in Buf : blockno[k] = b /\ valid[k] = 1
    BY <2>1, ContentRule, ContentRuleNext DEF ContentOK
  <2>2. CASE \A k \in Buf : blockno[k] = b => valid[k] # 1
    <3>1. \A k \in Buf : blockno'[k] = b => valid'[k] # 1
      BY <2>2, Zenon
    <3> QED BY <2>2, <3>1, ContentRule, ContentRuleNext DEF ContentOK
  <2> QED BY <2>1, <2>2
<1> QED BY <1>1, ContentRule, ContentRuleNext DEF ContentOK

LEMMA UserSame ==
  ASSUME \A q \in Proc : /\ pc'[q] \in Holding <=> pc[q] \in Holding
                         /\ pc[q] \in Holding => blockno'[buf'[q]] = blockno[buf[q]]
  PROVE  User' = User
BY DEF User

LEMMA UserDomain ==
  User = [b \in Block |-> User[b]] /\ User' = [b \in Block |-> User'[b]]
BY DEF User

\* A buffer's block has exactly the buffer's holder as its user.
LEMMA UserIsHolder ==
  ASSUME BufInv, NEW p \in Proc, pc[p] \in Holding
  PROVE  blockno[buf[p]] \in Block /\ User[blockno[buf[p]]] = {p}
<1>1. buf[p] \in Buf /\ blockno[buf[p]] # Nobody /\ locked[buf[p]] = p
  BY Zenon DEF BufInv, UseInv, Referring
<1>2. blockno[buf[p]] \in Block
  BY <1>1, Zenon DEF BufInv, TypeOK
<1>3. ASSUME NEW q \in Proc, pc[q] \in Holding, blockno[buf[q]] = blockno[buf[p]]
      PROVE  q = p
  <2>1. buf[q] \in Buf /\ locked[buf[q]] = q
    BY <1>3, Zenon DEF BufInv, UseInv, Referring
  <2>2. buf[q] = buf[p]
    BY <1>1, <1>3, <2>1, Zenon DEF BufInv, OneBufPerBlock
  <2> QED BY <1>1, <2>1, <2>2
<1> QED BY <1>2, <1>3 DEF User

\* An initial state is one of the store.
LEMMA InitRefines == Init => Abstract!Init
<1> SUFFICES ASSUME Init PROVE Abstract!Init
  BY Zenon
<1>1. Content \in [Block -> Val]
  BY InitInv, ContentRule, Zenon DEF ContentOK
<1>2. User = [b \in Block |-> {}]
  BY Zenon DEF Init, User, Holding
<1> QED BY <1>1, <1>2 DEF Abstract!Init

\* bget changes nothing: the block a recycled buffer held is on the disk.
LEMMA BGetRefines ==
  ASSUME BufInv, BufInv', NEW p \in Proc, NEW b \in Block, BGet(p, b)
  PROVE  UNCHANGED <<Content, User>>
<1> USE DEF BGet
<1>1. ASSUME NEW k \in Cached(b), Hit(p, k) PROVE UNCHANGED <<Content, User>>
  <2>1. Content' = Content
    BY <1>1, ContentSame, Zenon DEF Hit
  <2>2. User' = User
    BY <1>1, UserSame DEF Hit, Goto, Holding, BufInv, TypeOK
  <2> QED BY <2>1, <2>2
<1>2. ASSUME Goto(p, "panic"), UNCHANGED <<blockno, valid, refcnt, buf>>
      PROVE  UNCHANGED <<Content, User>>
  <2>1. Content' = Content
    BY <1>2, ContentSame, Zenon
  <2>2. User' = User
    BY <1>2, UserSame, Zenon DEF Goto, Holding, BufInv, TypeOK
  <2> QED BY <2>1, <2>2
<1>3. ASSUME Cached(b) = {}, Unused # {}, Recycle(p, Victim, b)
      PROVE  UNCHANGED <<Content, User>>
  <2> DEFINE k == Victim
  <2>1. k \in Buf /\ Users(k) = {} /\ k \notin pinned
    BY <1>3, VictimUnused, UnusedIsFree, Zenon DEF BufInv, Unused
  <2> HIDE DEF k
  <2>2. /\ blockno' = [blockno EXCEPT ![k] = b]
        /\ valid' = [valid EXCEPT ![k] = 0]
        /\ buf' = [buf EXCEPT ![p] = k]
        /\ pc' = [pc EXCEPT ![p] = "acquiresleep"]
        /\ UNCHANGED <<disk, data>> /\ pc[p] = "out"
    BY <1>3, Zenon DEF Recycle, Goto, k
  <2>3. \A q \in Proc : pc[q] \in Referring => buf[q] # k
    BY <2>1, Zenon DEF Users
  <2>4. User' = User
    BY <2>1, <2>2, <2>3, UserSame DEF Holding, Referring, BufInv, TypeOK
  <2>5. valid[k] = 1 => data[k] = disk[blockno[k]]
    BY <2>1, <2>3, Zenon DEF BufInv, CopyInv, Referring, Holding
  <2>6. \A l \in Buf : /\ l # k => blockno'[l] = blockno[l] /\ valid'[l] = valid[l]
                       /\ valid'[k] = 0
    BY <2>1, <2>2, Zenon DEF BufInv, TypeOK
  <2>7. ASSUME NEW c \in Block PROVE Content'[c] = Content[c]
    <3>1. CASE \E l \in Buf \ {k} : blockno[l] = c /\ valid[l] = 1
      <4>1. PICK l \in Buf \ {k} : blockno[l] = c /\ valid[l] = 1
        BY <3>1, Zenon
      <4>2. blockno'[l] = c /\ valid'[l] = 1 /\ data'[l] = data[l]
        BY <2>2, <2>6, <4>1, Zenon
      <4>3. Content[c] = data[l] /\ Content'[c] = data'[l]
        BY <4>1, <4>2, ContentRule, ContentRuleNext, Zenon DEF ContentOK
      <4> QED BY <4>2, <4>3
    <3>2. CASE \A l \in Buf \ {k} : ~(blockno[l] = c /\ valid[l] = 1)
      <4>1. Content'[c] = disk[c]
        <5>1. \A l \in Buf : blockno'[l] = c => valid'[l] # 1
          BY <2>1, <2>6, <3>2
        <5>2. Content'[c] = disk'[c]
          BY <5>1, ContentRuleNext, Zenon DEF ContentOK
        <5> QED BY <2>2, <5>2
      <4>2. CASE blockno[k] = c /\ valid[k] = 1
        BY <2>1, <2>5, <4>1, <4>2, ContentRule, Zenon DEF ContentOK
      <4>3. CASE ~(blockno[k] = c /\ valid[k] = 1)
        BY <3>2, <4>1, <4>3, ContentRule, Zenon DEF ContentOK
      <4> QED BY <4>2, <4>3
    <3> QED BY <3>1, <3>2
  <2>8. Content' = Content
    BY <2>7, ContentRule, ContentRuleNext DEF ContentOK
  <2> QED BY <2>4, <2>8
<1> QED BY <1>1, <1>2, <1>3

\* acquiresleep is Get when the lock is free.
LEMMA AcquireSleepRefines ==
  ASSUME BufInv, BufInv', NEW p \in Proc, AcquireSleep(p)
  PROVE  UNCHANGED <<Content, User>> \/ \E b \in Block : Abstract!Get(p, b)
<1> USE DEF AcquireSleep, bufs
<1>1. Content' = Content
  BY ContentSame, Zenon
<1>2. CASE locked[buf[p]] # Nobody
  BY <1>1, <1>2, UserSame, Zenon
<1>3. CASE locked[buf[p]] = Nobody
  <2>1. buf[p] \in Buf /\ blockno[buf[p]] # Nobody
    BY Zenon DEF BufInv, UseInv, Referring
  <2> DEFINE b == blockno[buf[p]]
  <2>2. b \in Block
    BY <2>1, Zenon DEF BufInv, TypeOK
  <2>3. \A q \in Proc : pc[q] \in Holding => blockno[buf[q]] # b
    <3> SUFFICES ASSUME NEW q \in Proc, pc[q] \in Holding, blockno[buf[q]] = b PROVE FALSE
      BY Zenon
    <3>1. buf[q] \in Buf /\ locked[buf[q]] = q
      BY Zenon DEF BufInv, UseInv, Referring
    <3>2. buf[q] = buf[p]
      BY <2>1, <3>1, Zenon DEF BufInv, OneBufPerBlock
    <3> QED BY <1>3, <3>1, <3>2, BufAssumption
  <2>4. pc' = [pc EXCEPT ![p] = "bread"] /\ UNCHANGED <<buf, blockno>> /\ pc[p] \notin Holding
    BY <1>3, Zenon DEF Goto, Holding
  <2>5. User[b] = {}
    BY <2>2, <2>3, Zenon DEF User
  <2>6. User' = [User EXCEPT ![b] = {p}]
    <3>1. \A c \in Block : User'[c] = IF c = b THEN {p} ELSE User[c]
      BY <2>2, <2>3, <2>4 DEF User, BufInv, TypeOK, Holding
    <3> QED BY <3>1, UserDomain
  <2> QED BY <1>1, <2>2, <2>5, <2>6 DEF Abstract!Get
<1> QED BY <1>2, <1>3

\* bread fills the buffer with what the contents were already.
LEMMA BReadRefines ==
  ASSUME BufInv, BufInv', NEW p \in Proc, BRead(p)
  PROVE  UNCHANGED <<Content, User>>
<1> USE DEF BRead
<1>1. User' = User
  BY UserSame, Zenon DEF Goto, Holding, BufInv, TypeOK
<1>2. CASE valid[buf[p]] = 1
  BY <1>1, <1>2, ContentSame, Zenon
<1>3. CASE valid[buf[p]] # 1
  <2>1. PICK k \in Buf : k = buf[p] /\ blockno[k] # Nobody
    BY Zenon DEF BufInv, UseInv, Referring, Holding
  <2>2. /\ data' = [data EXCEPT ![k] = disk[blockno[k]]] /\ valid' = [valid EXCEPT ![k] = 1]
        /\ UNCHANGED <<disk, blockno>>
    BY <1>3, <2>1, Zenon
  <2>3. \A l \in Buf : /\ l # k => data'[l] = data[l] /\ valid'[l] = valid[l]
                       /\ valid'[k] = 1 /\ data'[k] = disk[blockno[k]]
    BY <2>1, <2>2, Zenon DEF BufInv, TypeOK
  <2>4. ASSUME NEW c \in Block PROVE Content'[c] = Content[c]
    <3>1. CASE c = blockno[k]
      <4>1. Content'[c] = disk[c]
        <5>1. valid'[k] = 1 /\ blockno'[k] = c /\ data'[k] = disk[c]
          BY <2>1, <2>2, <2>3, <3>1, Zenon
        <5>2. Content'[c] = data'[k]
          BY <5>1, ContentRuleNext, Zenon DEF ContentOK
        <5> QED BY <5>1, <5>2
      <4>2. \A l \in Buf : blockno[l] = c => valid[l] # 1
        BY <1>3, <2>1, <3>1, Zenon DEF BufInv, OneBufPerBlock
      <4> QED BY <4>1, <4>2, ContentRule DEF ContentOK
    <3>2. CASE c # blockno[k] /\ \E l \in Buf : blockno[l] = c /\ valid[l] = 1
      <4>1. PICK l \in Buf : blockno[l] = c /\ valid[l] = 1
        BY <3>2, Zenon
      <4>2. blockno'[l] = c /\ valid'[l] = 1 /\ data'[l] = data[l]
        BY <2>2, <2>3, <3>2, <4>1, Zenon
      <4>3. Content[c] = data[l] /\ Content'[c] = data'[l]
        BY <4>1, <4>2, ContentRule, ContentRuleNext DEF ContentOK
      <4> QED BY <4>2, <4>3
    <3>3. CASE c # blockno[k] /\ \A l \in Buf : blockno[l] = c => valid[l] # 1
      <4>1. \A l \in Buf : blockno'[l] = c => valid'[l] # 1
        BY <2>2, <2>3, <3>3, Zenon
      <4>2. Content[c] = disk[c] /\ Content'[c] = disk'[c]
        BY <3>3, <4>1, ContentRule, ContentRuleNext, Zenon DEF ContentOK
      <4> QED BY <2>2, <4>2
    <3> QED BY <3>1, <3>2, <3>3
  <2> QED BY <1>1, <2>4, ContentRule, ContentRuleNext DEF ContentOK
<1> QED BY <1>2, <1>3

\* A caller's change is a change of its block.
LEMMA ChangeRefines ==
  ASSUME BufInv, BufInv', NEW p \in Proc, NEW v \in Val, Change(p, v)
  PROVE  \E b \in Block : Abstract!Change(p, b)
<1> USE DEF Change
<1>1. User' = User
  BY UserSame, Zenon DEF Goto, Holding, BufInv, TypeOK
<1>2. PICK k \in Buf : k = buf[p] /\ blockno[k] # Nobody /\ valid[k] = 1
  BY Zenon DEF BufInv, UseInv, Referring, Holding
<1> DEFINE b == blockno[k]
<1>3. b \in Block /\ User[b] = {p}
  BY <1>2, UserIsHolder, Zenon DEF Holding
<1>4. /\ \A l \in Buf : l # k => data'[l] = data[l]
      /\ data'[k] = v /\ UNCHANGED <<disk, blockno, valid>>
  BY <1>2, Zenon DEF BufInv, TypeOK
<1>5. ASSUME NEW c \in Block PROVE Content'[c] = IF c = b THEN v ELSE Content[c]
  <2>1. CASE c = b
    BY <1>2, <1>4, <2>1, ContentRuleNext DEF ContentOK
  <2>2. CASE c # b /\ \E l \in Buf : blockno[l] = c /\ valid[l] = 1
    <3>1. PICK l \in Buf : blockno[l] = c /\ valid[l] = 1
      BY <2>2, Zenon
    <3>2. blockno'[l] = c /\ valid'[l] = 1 /\ data'[l] = data[l]
      BY <1>4, <2>2, <3>1, Zenon
    <3>3. Content[c] = data[l] /\ Content'[c] = data'[l]
      BY <3>1, <3>2, ContentRule, ContentRuleNext DEF ContentOK
    <3> QED BY <2>2, <3>2, <3>3
  <2>3. CASE c # b /\ \A l \in Buf : blockno[l] = c => valid[l] # 1
    BY <1>4, <2>3, ContentRule, ContentRuleNext DEF ContentOK
  <2> QED BY <2>1, <2>2, <2>3
<1>6. Content' = [Content EXCEPT ![b] = v]
  BY <1>3, <1>5, ContentRule, ContentRuleNext DEF ContentOK
<1> QED BY <1>1, <1>3, <1>6 DEF Abstract!Change

\* bwrite writes what the contents are already.
LEMMA BWriteRefines ==
  ASSUME BufInv, BufInv', NEW p \in Proc, BWrite(p)
  PROVE  UNCHANGED <<Content, User>>
<1> USE DEF BWrite, bufs
<1>1. User' = User
  BY UserSame, Zenon DEF Goto, Holding, BufInv, TypeOK
<1>2. buf[p] \in Buf /\ valid[buf[p]] = 1 /\ blockno[buf[p]] # Nobody
  BY Zenon DEF BufInv, UseInv, Referring, Holding
<1>3. \A b \in Block : (\A k \in Buf : blockno[k] = b => valid[k] # 1) => disk'[b] = disk[b]
  BY <1>2, Zenon DEF BufInv, TypeOK
<1>4. Content' = Content
  BY <1>3, ContentSame, Zenon
<1> QED BY <1>1, <1>4

\* brelse is Put: the change is there for the next user.
LEMMA BRelseRefines ==
  ASSUME BufInv, BufInv', NEW p \in Proc, BRelse(p)
  PROVE  \E b \in Block : Abstract!Put(p, b)
<1> USE DEF BRelse, bufs
<1>1. Content' = Content
  BY ContentSame, Zenon
<1> DEFINE b == blockno[buf[p]]
<1>2. b \in Block /\ User[b] = {p}
  BY UserIsHolder, Zenon DEF Holding
<1>3. pc' = [pc EXCEPT ![p] = "brelse"] /\ UNCHANGED <<buf, blockno>>
  BY Zenon DEF Goto
<1>4. \A c \in Block : User'[c] = IF c = b THEN {} ELSE User[c]
  <2>1. \A q \in Proc : pc'[q] \in Holding <=> pc[q] \in Holding /\ q # p
    BY <1>3, Zenon DEF BufInv, TypeOK, Holding
  <2>2. \A c \in Block : User'[c] = User[c] \ {p}
    BY <1>3, <2>1, Zenon DEF User
  <2>3. \A c \in Block : c # b => p \notin User[c]
    BY Zenon DEF User
  <2> SUFFICES ASSUME NEW c \in Block PROVE User'[c] = IF c = b THEN {} ELSE User[c]
    BY Zenon
  <2>4. CASE c = b
    BY <1>2, <2>2, <2>4, Zenon
  <2>5. CASE c # b
    BY <2>2, <2>3, <2>5, Zenon
  <2> QED BY <2>4, <2>5
<1>5. User' = [User EXCEPT ![b] = {}]
  BY <1>4, UserDomain, Zenon
<1> QED BY <1>1, <1>2, <1>5 DEF Abstract!Put

\* bpin, bunpin and the end of brelse only count.
LEMMA CountRefines ==
  ASSUME BufInv, BufInv', NEW p \in Proc, BPin(p) \/ BUnpin(p) \/ Unref(p)
  PROVE  UNCHANGED <<Content, User>>
<1>1. Content' = Content
  BY ContentSame, Zenon DEF BPin, BUnpin, Unref
<1>2. User' = User
  <2>1. CASE BPin(p)
    BY <2>1, UserSame, Zenon DEF BPin, Goto, Holding, BufInv, TypeOK
  <2>2. CASE BUnpin(p)
    BY <2>2, UserSame, Zenon DEF BUnpin, Goto, Holding, BufInv, TypeOK
  <2>3. CASE Unref(p)
    BY <2>3, UserSame, Zenon DEF Unref, Goto, Holding, BufInv, TypeOK
  <2> QED BY <2>1, <2>2, <2>3
<1> QED BY <1>1, <1>2

LEMMA StepRefines ==
  BufInv /\ BufInv' /\ [Next]_vars => [Abstract!Next]_<<Content, User>>
<1> SUFFICES ASSUME BufInv, BufInv', [Next]_vars PROVE Abstract!Next \/ UNCHANGED <<Content, User>>
  BY Zenon
<1>1. CASE UNCHANGED vars
  BY <1>1, Zenon DEF vars, bufs, Content, User, Cached
<1>2. ASSUME NEW p \in Proc, Inside(p) PROVE Abstract!Next \/ UNCHANGED <<Content, User>>
  BY <1>2, AcquireSleepRefines, BReadRefines, BRelseRefines, CountRefines, Zenon DEF Inside, Abstract!Next
<1>3. ASSUME NEW p \in Proc, BWrite(p) PROVE UNCHANGED <<Content, User>>
  BY <1>3, BWriteRefines, Zenon
<1>6. ASSUME NEW p \in Proc, Kill(p) PROVE UNCHANGED <<Content, User>>
  BY <1>6, Zenon DEF Kill, bufs, Content, User, Cached
<1>4. ASSUME NEW p \in Proc, NEW b \in Block, BGet(p, b) PROVE UNCHANGED <<Content, User>>
  BY <1>4, BGetRefines, Zenon
<1>5. ASSUME NEW p \in Proc, NEW v \in Val, Change(p, v) PROVE Abstract!Next
  BY <1>5, ChangeRefines, Zenon DEF Abstract!Next
<1> QED BY <1>1, <1>2, <1>3, <1>4, <1>5, <1>6 DEF Next

\* The buffer cache implements a store of blocks with exclusive use, for any
\* number of buffers, blocks and processes.
THEOREM CacheRefinesBlockStore == Spec => RefinesBlockStore
<1> QED BY InitRefines, StepRefines, InvariantHolds, PTL DEF Spec, RefinesBlockStore, Abstract!Spec, Abstract!vars
=============================================================================
