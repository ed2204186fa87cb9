-------------------------------- MODULE Log --------------------------------
(***************************************************************************)
(* The write-ahead log of kernel/log.c.  Processes bracket their block     *)
(* writes with begin_op and end_op; the last end_op of a group commits it: *)
(* copy the modified cache blocks to the log area, write the header (the   *)
(* commit point), install the blocks at their home locations, erase the    *)
(* header.  Every disk write is a step of its own and the machine may      *)
(* crash between any two, or in the middle of one; recovery runs the same  *)
(* install and may itself crash.                                           *)
(*                                                                         *)
(* A critical section of log.lock is one action, and so is bread / modify  *)
(* / log_write / brelse of one block, which holds the buffer's lock.       *)
(***************************************************************************)
EXTENDS Integers, Sequences, FiniteSets

CONSTANTS Proc,         \* processes that make file-system calls
          Block,        \* home blocks
          Val,          \* block contents
          MAXOPBLOCKS,  \* blocks one operation may write
          LOGSIZE,      \* entries of struct logheader
          NLOG          \* log.size = sb.nlog: log blocks on disk, header included

ASSUME LogAssumption ==
  /\ IsFiniteSet(Proc)
  /\ MAXOPBLOCKS \in Nat \ {0}
  /\ LOGSIZE \in Nat /\ MAXOPBLOCKS <= LOGSIZE
  /\ NLOG \in Nat /\ 2 <= NLOG

VARIABLES
  home,         \* disk: contents of the home blocks
  logblk,       \* disk: contents of the log's data blocks
  head,         \* disk: block numbers in the header block
  cache,        \* buffer cache: what bread of a block returns
  pinned,       \* blocks whose buffer log_write has pinned
  lh,           \* log.lh: block numbers logged so far
  outstanding,  \* log.outstanding
  committing,   \* log.committing
  tail,         \* loop index of write_log and install_trans
  pc,           \* where each process is in begin_op .. end_op
  wrote,        \* blocks the current operation of a process has logged
  mode          \* step of recover_from_log, then "up"; "panic" once log_write
                \* or end_op spins in panic() holding log.lock

disk == <<home, logblk, head>>
vars == <<home, logblk, head, cache, pinned, lh, outstanding, committing,
          tail, pc, wrote, mode>>

Blocks(h) == {h[i] : i \in DOMAIN h}

\* The most data blocks log_write lets into a transaction.
Capacity == IF NLOG - 1 < LOGSIZE THEN NLOG - 1 ELSE LOGSIZE

Committing == {"write_log", "write_head", "install", "erase", "done"}

Init ==
  /\ home \in [Block -> Val]
  /\ logblk \in [1 .. Capacity -> Val]
  /\ head = <<>>
  /\ cache = home
  /\ pinned = {}
  /\ lh = <<>>
  /\ outstanding = 0
  /\ committing = 0
  /\ tail = 1
  /\ pc = [p \in Proc |-> "out"]
  /\ wrote = [p \in Proc |-> {}]
  /\ mode = "read_head"

(***************************************************************************)
(* Operations.  wakeup(&log) makes every sleeper of begin_op retry.        *)
(***************************************************************************)
\* Mutant: the wakeup is forgotten.
WakeNobody(f) == f

WakeAll(f) == [q \in Proc |-> IF f[q] = "asleep" THEN "retry" ELSE f[q]]

\* Mutants: begin_op forgets the space check, or the commit check.
MustWaitNoSpace == committing = 1

MustWaitNoCommit == Len(lh) + (outstanding + 1) * MAXOPBLOCKS > LOGSIZE

MustWait == \/ committing = 1
            \/ Len(lh) + (outstanding + 1) * MAXOPBLOCKS > LOGSIZE

BeginOpSleep(p) ==
  /\ mode = "up"
  /\ pc[p] \in {"out", "retry"}
  /\ MustWait
  /\ pc' = [pc EXCEPT ![p] = "asleep"]
  /\ UNCHANGED <<disk, cache, pinned, lh, outstanding, committing, tail,
                 wrote, mode>>

BeginOp(p) ==
  /\ mode = "up"
  /\ pc[p] \in {"out", "retry"}
  /\ ~MustWait
  /\ outstanding' = outstanding + 1
  /\ pc' = [pc EXCEPT ![p] = "op"]
  /\ wrote' = [wrote EXCEPT ![p] = {}]
  /\ UNCHANGED <<disk, cache, pinned, lh, committing, tail, mode>>

\* kill() makes a sleeper runnable; begin_op does not look at p->killed.
KillSleeper(p) ==
  /\ pc[p] = "asleep"
  /\ pc' = [pc EXCEPT ![p] = "retry"]
  /\ UNCHANGED <<disk, cache, pinned, lh, outstanding, committing, tail,
                 wrote, mode>>

\* The operation stays within the MAXOPBLOCKS blocks it reserved.
MayWrite(p, b) ==
  /\ mode = "up"
  /\ pc[p] = "op"
  /\ b \in wrote[p] \/ Cardinality(wrote[p]) < MAXOPBLOCKS

TooBig == Len(lh) >= LOGSIZE \/ Len(lh) >= NLOG - 1

LogWrite(p, b, v) ==
  /\ MayWrite(p, b)
  /\ ~TooBig
  /\ outstanding >= 1
  /\ cache' = [cache EXCEPT ![b] = v]
  /\ lh' = IF b \in Blocks(lh) THEN lh ELSE Append(lh, b)
  /\ pinned' = IF b \in Blocks(lh) THEN pinned ELSE pinned \cup {b}
  /\ wrote' = [wrote EXCEPT ![p] = @ \cup {b}]
  /\ UNCHANGED <<disk, outstanding, committing, tail, pc, mode>>

\* Both panics of log_write; the process spins in panic() holding log.lock.
LogWritePanic(p, b) ==
  /\ MayWrite(p, b)
  /\ TooBig \/ outstanding < 1
  /\ mode' = "panic"
  /\ UNCHANGED <<disk, cache, pinned, lh, outstanding, committing, tail, pc,
                 wrote>>

EndOp(p) ==
  /\ mode = "up"
  /\ pc[p] = "op"
  /\ outstanding' = outstanding - 1
  /\ \/ /\ committing = 1
        /\ mode' = "panic"
        /\ UNCHANGED <<committing, tail, pc>>
     \/ /\ committing = 0 /\ outstanding = 1
        /\ committing' = 1
        /\ tail' = 1
        /\ pc' = [pc EXCEPT ![p] = IF lh = <<>> THEN "done" ELSE "write_log"]
        /\ UNCHANGED mode
     \/ /\ committing = 0 /\ outstanding # 1
        /\ pc' = WakeAll([pc EXCEPT ![p] = "out"])
        /\ UNCHANGED <<committing, tail, mode>>
  /\ UNCHANGED <<disk, cache, pinned, lh, wrote>>

(***************************************************************************)
(* commit(), one step per disk write.                                      *)
(***************************************************************************)
WriteLog(p) ==
  /\ mode = "up"
  /\ pc[p] = "write_log"
  /\ logblk' = [logblk EXCEPT ![tail] = cache[lh[tail]]]
  /\ IF tail = Len(lh)
       THEN pc' = [pc EXCEPT ![p] = "write_head"] /\ UNCHANGED tail
       ELSE tail' = tail + 1 /\ UNCHANGED pc
  /\ UNCHANGED <<home, head, cache, pinned, lh, outstanding, committing,
                 wrote, mode>>

WriteHead(p) ==
  /\ mode = "up"
  /\ pc[p] = "write_head"
  /\ head' = lh
  /\ tail' = 1
  /\ pc' = [pc EXCEPT ![p] = "install"]
  /\ UNCHANGED <<home, logblk, cache, pinned, lh, outstanding, committing,
                 wrote, mode>>

\* Mutant: install_trans without the bwrite.
InstallNoWrite == UNCHANGED <<home, cache>>

\* One iteration of install_trans: the log block goes to the home buffer
\* and from there to disk.
InstallBlock ==
  /\ home' = [home EXCEPT ![lh[tail]] = logblk[tail]]
  /\ cache' = [cache EXCEPT ![lh[tail]] = logblk[tail]]

InstallTrans(p) ==
  /\ mode = "up"
  /\ pc[p] = "install"
  /\ InstallBlock
  /\ pinned' = pinned \ {lh[tail]}
  /\ IF tail = Len(lh)
       THEN pc' = [pc EXCEPT ![p] = "erase"] /\ UNCHANGED tail
       ELSE tail' = tail + 1 /\ UNCHANGED pc
  /\ UNCHANGED <<logblk, head, lh, outstanding, committing, wrote, mode>>

EraseHead(p) ==
  /\ mode = "up"
  /\ pc[p] = "erase"
  /\ lh' = <<>>
  /\ head' = <<>>
  /\ pc' = [pc EXCEPT ![p] = "done"]
  /\ UNCHANGED <<home, logblk, cache, pinned, outstanding, committing, tail,
                 wrote, mode>>

EndCommit(p) ==
  /\ mode = "up"
  /\ pc[p] = "done"
  /\ committing' = 0
  /\ pc' = WakeAll([pc EXCEPT ![p] = "out"])
  /\ UNCHANGED <<disk, cache, pinned, lh, outstanding, tail, wrote, mode>>

(***************************************************************************)
(* The buffer cache may drop an unpinned block; the next bread rereads it. *)
(***************************************************************************)
Evict(b) ==
  /\ mode \in {"up", "panic"}
  /\ b \notin pinned
  /\ cache' = [cache EXCEPT ![b] = home[b]]
  /\ UNCHANGED <<disk, pinned, lh, outstanding, committing, tail, pc, wrote, mode>>

(***************************************************************************)
(* Crash and recovery.  A crash during a write of a data block may leave   *)
(* that block with any contents; the header fits one sector and is atomic. *)
(***************************************************************************)
TornHome == mode = "install" \/ (mode = "up" /\ \E p \in Proc : pc[p] = "install")

TornLog == mode = "up" /\ \E p \in Proc : pc[p] = "write_log"

Crash ==
  /\ home' \in IF TornHome THEN {[home EXCEPT ![lh[tail]] = v] : v \in Val} ELSE {home}
  /\ logblk' \in IF TornLog THEN {[logblk EXCEPT ![tail] = v] : v \in Val} ELSE {logblk}
  /\ UNCHANGED head
  /\ cache' = home'
  /\ pinned' = {}
  /\ lh' = <<>>
  /\ outstanding' = 0
  /\ committing' = 0
  /\ tail' = 1
  /\ pc' = [p \in Proc |-> "out"]
  /\ wrote' = [p \in Proc |-> {}]
  /\ mode' = "read_head"

\* Mutant: recovery erases the header without installing.
ReadHeadNoInstall ==
  /\ mode = "read_head"
  /\ lh' = head
  /\ mode' = "erase"
  /\ UNCHANGED <<disk, cache, pinned, outstanding, committing, tail, pc, wrote>>

ReadHead ==
  /\ mode = "read_head"
  /\ lh' = head
  /\ mode' = IF head = <<>> THEN "erase" ELSE "install"
  /\ UNCHANGED <<disk, cache, pinned, outstanding, committing, tail, pc,
                 wrote>>

RecoverInstall ==
  /\ mode = "install"
  /\ InstallBlock
  /\ IF tail = Len(lh)
       THEN mode' = "erase" /\ UNCHANGED tail
       ELSE tail' = tail + 1 /\ UNCHANGED mode
  /\ UNCHANGED <<logblk, head, pinned, lh, outstanding, committing, pc,
                 wrote>>

RecoverErase ==
  /\ mode = "erase"
  /\ lh' = <<>>
  /\ head' = <<>>
  /\ mode' = "up"
  /\ UNCHANGED <<home, logblk, cache, pinned, outstanding, committing, tail,
                 pc, wrote>>

Step(p) == \/ BeginOpSleep(p) \/ BeginOp(p)
           \/ \E b \in Block, v \in Val : LogWrite(p, b, v)
           \/ \E b \in Block : LogWritePanic(p, b)
           \/ EndOp(p) \/ WriteLog(p) \/ WriteHead(p) \/ InstallTrans(p)
           \/ EraseHead(p) \/ EndCommit(p) \/ KillSleeper(p)

Recover == ReadHead \/ RecoverInstall \/ RecoverErase

Work == \/ \E p \in Proc : Step(p)
        \/ \E b \in Block : Evict(b)
        \/ Recover

Next == Work \/ Crash

Spec == Init /\ [][Next]_vars

(***************************************************************************)
(* Properties.                                                             *)
(***************************************************************************)
\* What recovery from the present disk would produce: the home blocks,
\* overlaid with the log's copies of the blocks the header names.
Recovered ==
  [b \in Block |-> IF b \in Blocks(head)
                     THEN logblk[CHOOSE i \in DOMAIN head : head[i] = b]
                     ELSE home[b]]

InOp == {p \in Proc : pc[p] = "op"}

\* Every variable keeps its type; a transaction never outgrows the header or
\* the log area.
TypeOK ==
  /\ home \in [Block -> Val]
  /\ logblk \in [1 .. Capacity -> Val]
  /\ head \in Seq(Block) /\ Len(head) <= Capacity
  /\ cache \in [Block -> Val]
  /\ pinned \subseteq Block
  /\ lh \in Seq(Block) /\ Len(lh) <= Capacity
  /\ outstanding \in Nat
  /\ committing \in {0, 1}
  /\ tail \in 1 .. Capacity
  /\ pc \in [Proc -> {"out", "asleep", "retry", "op"} \cup Committing]
  /\ wrote \in [Proc -> SUBSET Block]
  /\ mode \in {"read_head", "install", "erase", "up", "panic"}

\* log.c:13 "only commits when there are no FS system calls active": while
\* one process is in commit(), no process is between begin_op and end_op and
\* no second one is in commit().
CommitAlone ==
  \A p \in Proc : pc[p] \in Committing =>
    \A q \in Proc \ {p} : pc[q] \notin Committing \cup {"op"}

\* begin_op's reservation works: the blocks already logged and those the
\* active operations may still log fit struct logheader, however the
\* operations interleave and absorb one another's blocks.
SpaceReserved ==
  LET stillFree == {t \in InOp \X (1 .. MAXOPBLOCKS) : t[2] > Cardinality(wrote[t[1]])}
  IN  Len(lh) + Cardinality(stillFree) <= LOGSIZE

\* A process asleep in begin_op has somebody left to wake it: an operation
\* whose end_op is to come, or a commit in progress.
SleeperHasWaker ==
  (\E p \in Proc : pc[p] = "asleep") => committing = 1 \/ outstanding > 0

\* When the committing end_op is about to return, the group is on disk at its
\* home locations and the header is erased; nothing is left to lose.
DurableOnReturn ==
  (\E p \in Proc : pc[p] = "done") => head = <<>> /\ home = cache /\ pinned = {}

\* The log implements the disk whose contents change by whole groups only,
\* through any number of crashes, torn writes and interrupted recoveries.
Abstract == INSTANCE AtomicDisk WITH
              stable <- Recovered,
              view   <- IF mode \in {"up", "panic"} THEN cache ELSE Recovered,
              active <- InOp

RefinesAtomicDisk == Abstract!Spec

(***************************************************************************)
(* Liveness.  Fair: each process is scheduled again and again, an operation *)
(* that has begun ends, recovery runs; crashes may come at any time.       *)
(***************************************************************************)
Progress(p) == EndOp(p) \/ WriteLog(p) \/ WriteHead(p) \/ InstallTrans(p)
               \/ EraseHead(p) \/ EndCommit(p)

FairSpec == /\ Spec
            /\ \A p \in Proc : WF_vars(Progress(p))
            /\ WF_vars(Recover)

\* A process that goes to sleep in begin_op is woken again, unless the
\* system has panicked.
SleeperWoken == \A p \in Proc : pc[p] = "asleep" ~> pc[p] # "asleep" \/ mode = "panic"
=============================================================================
