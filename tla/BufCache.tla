------------------------------ MODULE BufCache ------------------------------
(***************************************************************************)
(* kernel/bio.c, the buffer cache, with the sleep locks of                 *)
(* kernel/sleeplock.c that protect its buffers.                            *)
(*                                                                         *)
(* A critical section of bcache.lock, or of a sleep lock's spinlock, is a  *)
(* step, and so is a transfer of the disk.  A process uses one buffer at a *)
(* time and keeps the discipline of the callers in fs.c and log.c: a       *)
(* buffer it has changed is pinned (log_write) before it is released, and  *)
(* unpinned once it has been written home (install_trans).                 *)
(***************************************************************************)
EXTENDS Naturals, FiniteSets

CONSTANTS Proc, Block, Val,
          NBUF,      \* number of buffers
          Nobody     \* no process, no block

ASSUME BufAssumption ==
  NBUF \in Nat \ {0} /\ IsFiniteSet(Proc) /\ Nobody \notin Proc /\ Nobody \notin Block

Buf == 1 .. NBUF

VARIABLES
  disk,                                 \* contents of the blocks
  blockno, valid, refcnt, data,         \* struct buf
  locked,                               \* b->lock: the process that holds it
  lru,                                  \* the list of buffers, most recently used first
  pinned,                               \* buffers the log has pinned
  pc, buf, chan                         \* where each process is, its b, the buffer it sleeps on

bufs == <<blockno, valid, refcnt, data>>
vars == <<disk, bufs, locked, lru, pinned, pc, buf, chan>>

Init ==
  /\ disk \in [Block -> Val]
  /\ blockno = [k \in Buf |-> Nobody]
  /\ valid = [k \in Buf |-> 0]
  /\ refcnt = [k \in Buf |-> 0]
  /\ data \in [Buf -> Val]
  /\ locked = [k \in Buf |-> Nobody]
  /\ lru = [k \in Buf |-> NBUF + 1 - k]
  /\ pinned = {}
  /\ pc = [p \in Proc |-> "out"]
  /\ buf = [p \in Proc |-> 0]
  /\ chan = [p \in Proc |-> 0]

Goto(p, l) == pc' = [pc EXCEPT ![p] = l]

(***************************************************************************)
(* bget                                                                    *)
(***************************************************************************)
Cached(b) == {k \in Buf : blockno[k] = b}
Unused == {k \in Buf : refcnt[k] = 0}

\* The last buffer of the list that is not in use.
Victim == lru[CHOOSE m \in 1 .. NBUF : lru[m] \in Unused /\ \A l \in m + 1 .. NBUF : lru[l] \notin Unused]

Hit(p, k) ==
  /\ refcnt' = [refcnt EXCEPT ![k] = @ + 1]
  /\ buf' = [buf EXCEPT ![p] = k]
  /\ Goto(p, "acquiresleep")
  /\ UNCHANGED <<blockno, valid>>

\* Mutant: the old contents count as valid.
RecycleStale(p, k, b) ==
  /\ blockno' = [blockno EXCEPT ![k] = b]
  /\ refcnt' = [refcnt EXCEPT ![k] = 1]
  /\ buf' = [buf EXCEPT ![p] = k]
  /\ Goto(p, "acquiresleep")
  /\ UNCHANGED valid

Recycle(p, k, b) ==
  /\ blockno' = [blockno EXCEPT ![k] = b]
  /\ valid' = [valid EXCEPT ![k] = 0]
  /\ refcnt' = [refcnt EXCEPT ![k] = 1]
  /\ buf' = [buf EXCEPT ![p] = k]
  /\ Goto(p, "acquiresleep")

\* panic() never returns: bcache.lock stays locked.
Panicked == \E p \in Proc : pc[p] = "panic"

\* bget up to acquiresleep.
BGet(p, b) ==
  /\ pc[p] = "out" /\ ~Panicked
  /\ \/ \E k \in Cached(b) : Hit(p, k)
     \/ Cached(b) = {} /\ Unused # {} /\ Recycle(p, Victim, b)
     \/ /\ Cached(b) = {} /\ Unused = {}
        /\ Goto(p, "panic")
        /\ UNCHANGED <<blockno, valid, refcnt, buf>>
  /\ UNCHANGED <<disk, data, locked, lru, pinned, chan>>

(***************************************************************************)
(* acquiresleep and releasesleep                                           *)
(***************************************************************************)
AcquireSleep(p) ==
  /\ pc[p] = "acquiresleep" /\ chan[p] = 0
  /\ IF locked[buf[p]] # Nobody
       THEN chan' = [chan EXCEPT ![p] = buf[p]] /\ UNCHANGED <<locked, pc>>
       ELSE /\ locked' = [locked EXCEPT ![buf[p]] = p]
            /\ Goto(p, "bread")
            /\ UNCHANGED chan
  /\ UNCHANGED <<disk, bufs, lru, pinned, buf>>

\* Mutant: nobody is woken.
ReleaseSleepSilent(k) == locked' = [locked EXCEPT ![k] = Nobody] /\ UNCHANGED chan

ReleaseSleep(k) ==
  /\ locked' = [locked EXCEPT ![k] = Nobody]
  /\ chan' = [q \in Proc |-> IF chan[q] = k THEN 0 ELSE chan[q]]

(***************************************************************************)
(* bread, bwrite, bpin, bunpin, brelse                                     *)
(***************************************************************************)
BRead(p) ==
  LET k == buf[p] IN
  /\ pc[p] = "bread"
  /\ IF valid[k] = 1
       THEN UNCHANGED <<valid, data>>
       ELSE /\ data' = [data EXCEPT ![k] = disk[blockno[k]]]
            /\ valid' = [valid EXCEPT ![k] = 1]
  /\ Goto(p, "use")
  /\ UNCHANGED <<disk, blockno, refcnt, locked, lru, pinned, buf, chan>>

\* The caller changes the buffer, and then logs it.
Change(p, v) ==
  /\ pc[p] = "use"
  /\ data' = [data EXCEPT ![buf[p]] = v]
  /\ Goto(p, "bpin")
  /\ UNCHANGED <<disk, blockno, valid, refcnt, locked, lru, pinned, buf, chan>>

\* log_write pins a block when it is not in the log already.
BPin(p) ==
  LET k == buf[p] IN
  /\ pc[p] = "bpin" /\ ~Panicked
  /\ refcnt' = IF k \in pinned THEN refcnt ELSE [refcnt EXCEPT ![k] = @ + 1]
  /\ pinned' = pinned \cup {k}
  /\ Goto(p, "use")
  /\ UNCHANGED <<disk, blockno, valid, data, locked, lru, buf, chan>>

\* install_trans writes a logged block home, and then unpins it.
BWrite(p) ==
  LET k == buf[p] IN
  /\ pc[p] = "use" /\ k \in pinned
  /\ disk' = [disk EXCEPT ![blockno[k]] = data[k]]
  /\ Goto(p, "bunpin")
  /\ UNCHANGED <<bufs, locked, lru, pinned, buf, chan>>

BUnpin(p) ==
  LET k == buf[p] IN
  /\ pc[p] = "bunpin" /\ ~Panicked
  /\ refcnt' = [refcnt EXCEPT ![k] = @ - 1]
  /\ pinned' = pinned \ {k}
  /\ Goto(p, "use")
  /\ UNCHANGED <<disk, blockno, valid, data, locked, lru, buf, chan>>

BRelse(p) ==
  /\ pc[p] = "use"
  /\ ReleaseSleep(buf[p])
  /\ Goto(p, "brelse")
  /\ UNCHANGED <<disk, bufs, lru, pinned, buf>>

\* The list with k moved to its front.
MoveToFront(k) ==
  LET at == CHOOSE m \in Buf : lru[m] = k
  IN  [m \in Buf |-> IF m = 1 THEN k ELSE IF m <= at THEN lru[m - 1] ELSE lru[m]]

\* The second half of brelse, under bcache.lock.
Unref(p) ==
  LET k == buf[p] IN
  /\ pc[p] = "brelse" /\ ~Panicked
  /\ refcnt' = [refcnt EXCEPT ![k] = @ - 1]
  /\ lru' = IF refcnt[k] = 1 THEN MoveToFront(k) ELSE lru
  /\ buf' = [buf EXCEPT ![p] = 0]
  /\ Goto(p, "out")
  /\ UNCHANGED <<disk, blockno, valid, data, locked, pinned, chan>>

\* kill() wakes a sleeper, which looks at the lock again.
Kill(p) ==
  /\ chan[p] # 0
  /\ chan' = [chan EXCEPT ![p] = 0]
  /\ UNCHANGED <<disk, bufs, locked, lru, pinned, pc, buf>>

Inside(p) == AcquireSleep(p) \/ BRead(p) \/ BPin(p) \/ BUnpin(p) \/ BRelse(p) \/ Unref(p)

Next == \/ \E p \in Proc : \/ Inside(p) \/ BWrite(p) \/ Kill(p)
                           \/ \E b \in Block : BGet(p, b)
                           \/ \E v \in Val : Change(p, v)
        \/ Panicked /\ UNCHANGED vars

Spec == Init /\ [][Next]_vars

(***************************************************************************)
(* Properties.                                                             *)
(***************************************************************************)
Holding == {"bread", "use", "bpin", "bunpin"}
Referring == {"acquiresleep", "brelse"} \cup Holding

\* The processes between bget and the end of brelse with buffer k.
Users(k) == {p \in Proc : pc[p] \in Referring /\ buf[p] = k}

TypeOK ==
  /\ disk \in [Block -> Val]
  /\ blockno \in [Buf -> Block \cup {Nobody}]
  /\ valid \in [Buf -> 0 .. 1]
  /\ refcnt \in [Buf -> Nat]
  /\ data \in [Buf -> Val]
  /\ locked \in [Buf -> Proc \cup {Nobody}]
  /\ lru \in [Buf -> Buf]
  /\ pinned \subseteq Buf
  /\ pc \in [Proc -> {"out", "panic"} \cup Referring]
  /\ buf \in [Proc -> 0 .. NBUF]
  /\ chan \in [Proc -> 0 .. NBUF]

\* A block has at most one buffer, however bget's lookups interleave.
OneBufPerBlock == \A k, l \in Buf : blockno[k] = blockno[l] /\ blockno[k] # Nobody => k = l

\* refcnt counts exactly the processes between bget and brelse and the log's
\* pin: a buffer in use is never recycled and an unused one never leaks.
RefcntExact ==
  \A k \in Buf : refcnt[k] = Cardinality(Users(k)) + (IF k \in pinned THEN 1 ELSE 0)

\* What a process finds in a block it got: the cached copy if there is one.
Content == [b \in Block |->
             IF \E k \in Cached(b) : valid[k] = 1
               THEN data[CHOOSE k \in Cached(b) : valid[k] = 1]
               ELSE disk[b]]

User == [b \in Block |-> {p \in Proc : pc[p] \in Holding /\ blockno[buf[p]] = b}]

\* The cache is a store of blocks with exclusive use: no change is lost when
\* buffers are recycled, none is seen by a process that does not hold the
\* buffer, and nobody gets another block's contents.
Abstract == INSTANCE BlockStore WITH content <- Content, user <- User

RefinesBlockStore == Abstract!Spec

(***************************************************************************)
(* Liveness: every process inside the cache is scheduled, and the callers  *)
(* release the buffers they get.                                           *)
(***************************************************************************)
FairSpec == Spec /\ \A p \in Proc : WF_vars(Inside(p)) /\ SF_vars(BRelse(p))

\* No wakeup is lost: whoever sleeps in acquiresleep is woken, unless bget has
\* panicked and the holder hangs on bcache.lock.
SleepersWoken == \A p \in Proc : chan[p] # 0 ~> chan[p] = 0 \/ Panicked
=============================================================================
