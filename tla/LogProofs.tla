----------------------------- MODULE LogProofs -----------------------------
(***************************************************************************)
(* Proofs about kernel/log.c: the properties of module Log that hold for   *)
(* any number of processes, blocks and log entries.                        *)
(***************************************************************************)
EXTENDS Log, FiniteSetTheorems, TLAPS

Distinct(h) == \A i, j \in DOMAIN h : h[i] = h[j] => i = j

\* The log's copies of the first k - 1 blocks of a header h agree with m.
CopiedUpTo(k, h, m) == \A i \in DOMAIN h : i < k => logblk[i] = m[h[i]]

AllCopied(h, m) == \A i \in DOMAIN h : logblk[i] = m[h[i]]

\* Counting and turn-taking: outstanding counts the operations, committing
\* marks the one process in commit().
CountInv ==
  /\ outstanding = Cardinality(InOp)
  /\ committing = 1 <=> \E p \in Proc : pc[p] \in Committing
  /\ CommitAlone
  /\ mode \notin {"up", "panic"} => \A p \in Proc : pc[p] = "out"
  /\ mode = "up" /\ committing = 0 /\ outstanding = 0 => lh = <<>>

\* What cache, log area, header and home blocks hold in each phase.
BootInv ==
  /\ cache = home /\ pinned = {}
  /\ mode = "read_head" => tail = 1
  /\ mode # "read_head" => lh = head
  /\ mode = "install" => tail \in DOMAIN lh /\ CopiedUpTo(tail, lh, home)
  /\ mode = "erase" => AllCopied(lh, home)

UpInv ==
  /\ \A b \in Block : b \notin pinned => cache[b] = home[b]
  /\ pinned \subseteq Blocks(lh)
  /\ (\A p \in Proc : pc[p] \notin {"install", "erase"}) =>
       head = <<>> /\ pinned = Blocks(lh)
  /\ \A p \in Proc :
       /\ pc[p] = "write_log" => tail \in DOMAIN lh /\ CopiedUpTo(tail, lh, cache)
       /\ pc[p] = "write_head" => lh # <<>> /\ AllCopied(lh, cache)
       /\ pc[p] = "install" => /\ head = lh /\ tail \in DOMAIN lh
                               /\ AllCopied(lh, cache)
                               /\ pinned = {lh[i] : i \in tail .. Len(lh)}
       /\ pc[p] = "erase" => head = lh /\ pinned = {} /\ AllCopied(lh, cache)
       /\ pc[p] = "done" => lh = <<>>

LogInv ==
  /\ TypeOK
  /\ Distinct(lh) /\ Distinct(head)
  /\ CountInv
  /\ IF mode \in {"up", "panic"} THEN UpInv ELSE BootInv

(***************************************************************************)
(* Facts about the constants and the helpers.                              *)
(***************************************************************************)
\* The log area holds at least one data block and no more than LOGSIZE.
LEMMA CapacityType == Capacity \in Nat /\ Capacity >= 1 /\ Capacity <= LOGSIZE
  BY LogAssumption DEF Capacity

\* The processes inside an operation are finitely many.
LEMMA InOpFinite == IsFiniteSet(InOp) /\ Cardinality(InOp) \in Nat
  <1>1. IsFiniteSet(InOp)
    BY LogAssumption, FS_Subset, Zenon DEF InOp
  <1> QED
    BY <1>1, FS_CardinalityType, Zenon

\* A set counted as one that contains p is {p}.
LEMMA OneElement ==
  ASSUME NEW S, IsFiniteSet(S), NEW p \in S, Cardinality(S) = 1
  PROVE  S = {p}
  <1>1. IsFiniteSet(S \ {p}) /\ Cardinality(S \ {p}) = 0
    BY FS_RemoveElement
  <1>2. S \ {p} = {}
    BY <1>1, FS_EmptySet, Zenon
  <1> QED
    BY <1>2, Zenon

\* Logging a new block keeps the block numbers of the header distinct.
LEMMA AppendDistinct ==
  ASSUME NEW h \in Seq(Block), Distinct(h), NEW b \in Block, b \notin Blocks(h)
  PROVE  /\ Distinct(Append(h, b))
         /\ Blocks(Append(h, b)) = Blocks(h) \cup {b}
  <1> DEFINE g == Append(h, b)
  <1>1. /\ g \in Seq(Block) /\ Len(g) = Len(h) + 1
        /\ DOMAIN h = 1 .. Len(h) /\ DOMAIN g = 1 .. Len(g)
        /\ \A i \in 1 .. Len(h) : g[i] = h[i]
        /\ g[Len(g)] = b
    OBVIOUS
  <1> HIDE DEF g
  <1>2. \A i \in DOMAIN g : i = Len(g) \/ i \in DOMAIN h
    BY <1>1
  <1>3. Distinct(g)
    BY <1>1, <1>2, Zenon DEF Distinct, Blocks
  <1>4. Blocks(g) = Blocks(h) \cup {b}
    BY <1>1, <1>2 DEF Blocks
  <1> QED
    BY <1>3, <1>4, Zenon DEF g

(***************************************************************************)
(* LogInv is inductive.                                                    *)
(***************************************************************************)
\* LogInv holds when the machine is first switched on.
LEMMA InitInv == Init => LogInv
  <1> SUFFICES ASSUME Init PROVE LogInv
    BY Zenon
  <1>1. TypeOK
    <2>1. <<>> \in Seq(Block) /\ Len(<<>>) <= Capacity
      BY CapacityType
    <2> QED
      BY <2>1, CapacityType DEF Init, TypeOK
  <1>2. InOp = {}
    BY Zenon DEF Init, InOp
  <1>3. CountInv
    BY <1>2, FS_EmptySet DEF Init, CountInv, CommitAlone, Committing
  <1> QED
    BY <1>1, <1>3 DEF Init, LogInv, BootInv, Distinct

\* begin_op starting an operation keeps the invariant.
LEMMA BeginOpInv == ASSUME LogInv, NEW p \in Proc, BeginOp(p) PROVE LogInv'
  <1> USE DEF LogInv
  <1>1. TypeOK'
    BY DEF TypeOK, BeginOp, disk
  <1>2. InOp' = InOp \cup {p} /\ p \notin InOp
    BY Zenon DEF BeginOp, InOp, TypeOK
  <1>3. outstanding' = Cardinality(InOp')
    BY <1>2, InOpFinite, FS_AddElement, Zenon DEF BeginOp, CountInv
  <1>4. CountInv'
    BY <1>3, InOpFinite DEF BeginOp, CountInv, CommitAlone, Committing, MustWait, TypeOK
  <1>5. UpInv'
    BY DEF BeginOp, disk, UpInv, CopiedUpTo, AllCopied, Blocks, TypeOK
  <1> QED
    BY <1>1, <1>4, <1>5, Zenon DEF BeginOp, disk, Distinct

\* Neither does begin_op going to sleep, or kill() waking the sleeper, break it.
LEMMA SleepInv ==
  ASSUME LogInv, NEW p \in Proc, BeginOpSleep(p) \/ KillSleeper(p) PROVE LogInv'
  <1> USE DEF LogInv
  <1>1. /\ UNCHANGED <<home, logblk, head, cache, pinned, lh, outstanding,
                       committing, tail, wrote, mode>>
        /\ pc[p] \in {"out", "retry", "asleep"}
        /\ mode \in {"up", "panic"}
        /\ \E l \in {"asleep", "retry"} : pc' = [pc EXCEPT ![p] = l]
    BY Zenon DEF BeginOpSleep, KillSleeper, disk, CountInv, TypeOK
  <1>2. TypeOK'
    BY <1>1, Zenon DEF TypeOK
  <1>3. InOp' = InOp
    BY <1>1, Zenon DEF InOp, TypeOK
  <1>4. CountInv'
    BY <1>1, <1>3 DEF CountInv, CommitAlone, Committing, TypeOK
  <1>5. UpInv'
    BY <1>1 DEF UpInv, CopiedUpTo, AllCopied, Blocks, TypeOK
  <1> QED
    BY <1>1, <1>2, <1>4, <1>5, Zenon DEF Distinct

\* log_write keeps the invariant: no commit runs, so header and log area are
\* at rest, and the block it modifies is pinned.
LEMMA LogWriteInv ==
  ASSUME LogInv, NEW p \in Proc, NEW b \in Block, NEW v \in Val, LogWrite(p, b, v)
  PROVE  LogInv'
  <1> USE DEF LogInv
  <1>1. /\ mode = "up" /\ pc[p] = "op" /\ Len(lh) < Capacity
        /\ UNCHANGED <<home, logblk, head, outstanding, committing, tail, pc, mode>>
    BY LogAssumption DEF LogWrite, MayWrite, TooBig, disk, Capacity, TypeOK
  <1>2. \A q \in Proc : pc[q] \notin Committing
    BY <1>1, Zenon DEF CountInv, CommitAlone, Committing
  <1>3. /\ lh' \in Seq(Block) /\ Len(lh') <= Capacity /\ Distinct(lh')
        /\ Blocks(lh') = Blocks(lh) \cup {b}
    <2>1. CASE b \in Blocks(lh)
      BY <2>1, Zenon DEF LogWrite, TypeOK
    <2>2. CASE b \notin Blocks(lh)
      BY <2>2, <1>1, AppendDistinct, CapacityType DEF LogWrite, TypeOK
    <2> QED
      BY <2>1, <2>2, Zenon
  <1>4. TypeOK'
    BY <1>1, <1>3, Zenon DEF LogWrite, TypeOK
  <1>5. InOp' = InOp
    BY <1>1, Zenon DEF InOp
  <1>6. CountInv'
    <2>1. outstanding # 0
      BY DEF LogWrite
    <2> QED
      BY <1>1, <1>5, <2>1, Zenon DEF CountInv, CommitAlone
  <1>7. pinned = Blocks(lh) /\ head = <<>>
    BY <1>1, <1>2, Zenon DEF UpInv, Committing
  <1>8. pinned' = Blocks(lh')
    BY <1>3, <1>7, Zenon DEF LogWrite
  <1>9. \A c \in Block : c \notin pinned' => cache'[c] = home'[c]
    BY <1>1, <1>3, <1>7, <1>8, Zenon DEF LogWrite, UpInv, TypeOK
  <1>10. UpInv'
    BY <1>1, <1>2, <1>7, <1>8, <1>9, Zenon DEF UpInv, Committing
  <1> QED
    BY <1>1, <1>3, <1>4, <1>6, <1>10, Zenon DEF Distinct

\* A panicking log_write changes nothing but mode.
LEMMA LogWritePanicInv ==
  ASSUME LogInv, NEW p \in Proc, NEW b \in Block, LogWritePanic(p, b)
  PROVE  LogInv'
  <1> USE DEF LogInv
  <1>1. /\ mode = "up" /\ mode' = "panic"
        /\ UNCHANGED <<home, logblk, head, cache, pinned, lh, outstanding,
                       committing, tail, pc, wrote>>
    BY Zenon DEF LogWritePanic, MayWrite, disk
  <1>2. TypeOK'
    BY <1>1, Zenon DEF TypeOK
  <1>3. CountInv'
    BY <1>1, Zenon DEF CountInv, CommitAlone, InOp
  <1>4. UpInv'
    BY <1>1 DEF UpInv, CopiedUpTo, AllCopied, Blocks
  <1> QED
    BY <1>1, <1>2, <1>3, <1>4, Zenon DEF Distinct

\* end_op keeps the invariant: it never finds a commit in progress, and the
\* process that starts the commit is alone.
LEMMA EndOpInv == ASSUME LogInv, NEW p \in Proc, EndOp(p) PROVE LogInv'
  <1> USE DEF LogInv
  <1>1. /\ mode = "up" /\ pc[p] = "op" /\ committing = 0
        /\ outstanding' = outstanding - 1
        /\ UNCHANGED <<home, logblk, head, cache, pinned, lh, wrote, mode>>
    BY Zenon DEF EndOp, CountInv, CommitAlone, disk, Committing, TypeOK
  <1>2. \A q \in Proc : pc[q] \notin Committing
    BY <1>1, Zenon DEF CountInv, CommitAlone, Committing
  <1>3. head = <<>> /\ pinned = Blocks(lh)
    BY <1>1, <1>2, Zenon DEF UpInv, Committing
  <1>4. p \in InOp
    BY <1>1, Zenon DEF InOp
  <1>5. /\ IsFiniteSet(InOp \ {p}) /\ Cardinality(InOp \ {p}) = outstanding - 1
        /\ outstanding - 1 \in Nat
    <2>1. IsFiniteSet(InOp \ {p}) /\ Cardinality(InOp \ {p}) = Cardinality(InOp) - 1
      BY <1>4, InOpFinite, FS_RemoveElement, Zenon
    <2>2. Cardinality(InOp \ {p}) \in Nat
      BY <2>1, FS_CardinalityType, Zenon
    <2> QED
      BY <2>1, <2>2, Zenon DEF CountInv
  <1>6. CASE outstanding = 1
    <2>1. /\ committing' = 1 /\ tail' = 1
          /\ pc' = [pc EXCEPT ![p] = IF lh = <<>> THEN "done" ELSE "write_log"]
      BY <1>1, <1>6, Zenon DEF EndOp
    <2>2. TypeOK'
      BY <1>1, <1>5, <2>1, CapacityType DEF TypeOK, Committing
    <2>3. InOp = {p}
      BY <1>4, <1>6, OneElement, InOpFinite, Zenon DEF CountInv
    <2>4. InOp' = InOp \ {p}
      BY <2>1, Zenon DEF InOp, TypeOK
    <2>5. \A q \in Proc \ {p} : pc'[q] \notin Committing \cup {"op"}
      BY <1>2, <2>1, <2>3, Zenon DEF InOp, TypeOK
    <2>6. pc'[p] \in {"done", "write_log"}
      BY <2>1, Zenon DEF TypeOK
    <2>7. CountInv'
      BY <1>1, <1>5, <1>6, <2>1, <2>4, <2>5, <2>6, Zenon DEF CountInv, CommitAlone, Committing
    <2>8. UpInv'
      BY <1>1, <1>3, <2>1, <2>5, <2>6 DEF UpInv, CopiedUpTo, Blocks, TypeOK, Committing
    <2> QED
      BY <1>1, <2>2, <2>7, <2>8, Zenon DEF Distinct
  <1>7. CASE outstanding # 1
    <2> DEFINE f == [pc EXCEPT ![p] = "out"]
    <2>1. /\ pc' = WakeAll(f)
          /\ UNCHANGED <<committing, tail>>
      BY <1>1, <1>7, Zenon DEF EndOp
    <2>2. /\ f \in [Proc -> {"out", "asleep", "retry", "op"} \cup Committing]
          /\ f[p] = "out"
          /\ \A q \in Proc \ {p} : f[q] = pc[q]
      BY Zenon DEF TypeOK, Committing
    <2> HIDE DEF f
    <2>3. /\ pc' \in [Proc -> {"out", "asleep", "retry", "op"} \cup Committing]
          /\ pc'[p] = "out"
          /\ \A q \in Proc \ {p} : /\ pc'[q] = "op" <=> pc[q] = "op"
                                   /\ pc'[q] \notin Committing
      BY <1>2, <2>1, <2>2, Zenon DEF WakeAll, TypeOK, Committing
    <2>4. TypeOK'
      BY <1>1, <1>5, <2>1, <2>3, Zenon DEF TypeOK
    <2>5. InOp' = InOp \ {p}
      BY <2>3, Zenon DEF InOp
    <2>6. outstanding' # 0
      BY <1>1, <1>5, <1>7
    <2>7. CountInv'
      BY <1>1, <1>2, <1>5, <2>1, <2>3, <2>5, <2>6, Zenon DEF CountInv, CommitAlone, Committing
    <2>8. \A q \in Proc : pc'[q] \notin Committing
      BY <2>3, Zenon DEF Committing
    <2>9. UpInv'
      BY <1>1, <1>3, <2>8, Zenon DEF UpInv, Blocks, Committing
    <2> QED
      BY <1>1, <2>4, <2>7, <2>9, Zenon DEF Distinct
  <1> QED
    BY <1>6, <1>7, Zenon

\* A process in commit() is alone there and meets no operation.
LEMMA CommitterAlone ==
  ASSUME LogInv, NEW p \in Proc, pc[p] \in Committing, mode = "up"
  PROVE  /\ committing = 1 /\ outstanding = 0 /\ InOp = {}
         /\ \A q \in Proc \ {p} : pc[q] \in {"out", "asleep", "retry"}
  <1>1. \A q \in Proc \ {p} : pc[q] \in {"out", "asleep", "retry"}
    BY Zenon DEF LogInv, CountInv, CommitAlone, TypeOK
  <1>2. InOp = {}
    BY <1>1, Zenon DEF InOp, Committing
  <1> QED
    BY <1>1, <1>2, FS_EmptySet, Zenon DEF LogInv, CountInv

\* A step of commit() that only moves its own pc keeps the counts.
LEMMA CommitCount ==
  ASSUME LogInv, NEW p \in Proc, pc[p] \in Committing, mode = "up", TypeOK',
         NEW l \in Committing, pc' = [pc EXCEPT ![p] = l],
         UNCHANGED <<outstanding, committing, mode>>
  PROVE  CountInv' /\ \A q \in Proc \ {p} : pc'[q] \in {"out", "asleep", "retry"}
  <1>1. \A q \in Proc \ {p} : pc'[q] \in {"out", "asleep", "retry"}
    BY CommitterAlone, Zenon DEF LogInv, TypeOK
  <1>2. pc'[p] = l
    BY Zenon DEF LogInv, TypeOK
  <1>3. InOp' = {} /\ InOp = {}
    BY <1>1, <1>2, CommitterAlone, Zenon DEF InOp, Committing
  <1> QED
    BY <1>1, <1>2, <1>3, CommitterAlone DEF LogInv, CountInv, CommitAlone, Committing

\* write_log copies one more block; the header is not yet written.
LEMMA WriteLogInv == ASSUME LogInv, NEW p \in Proc, WriteLog(p) PROVE LogInv'
  <1> USE DEF LogInv
  <1>1. /\ mode = "up" /\ pc[p] = "write_log" /\ tail \in DOMAIN lh
        /\ CopiedUpTo(tail, lh, cache) /\ head = <<>> /\ pinned = Blocks(lh)
        /\ DOMAIN lh = 1 .. Len(lh) /\ Len(lh) <= Capacity /\ Len(lh) \in Nat
        /\ UNCHANGED <<home, head, cache, pinned, lh, outstanding, committing, wrote, mode>>
    <2>1. pc[p] \in Committing /\ mode = "up"
      BY Zenon DEF WriteLog, Committing
    <2>2. \A q \in Proc : pc[q] \notin {"install", "erase"}
      BY <2>1, CommitterAlone, Zenon DEF WriteLog
    <2> QED
      BY <2>1, <2>2 DEF WriteLog, UpInv, TypeOK
  <1>2. logblk' \in [1 .. Capacity -> Val] /\ \A i \in DOMAIN lh : i <= tail => logblk'[i] = cache[lh[i]]
    <2>1. tail \in 1 .. Capacity /\ cache[lh[tail]] \in Val
      BY <1>1, CapacityType DEF TypeOK
    <2>2. logblk' = [logblk EXCEPT ![tail] = cache[lh[tail]]]
      BY Zenon DEF WriteLog
    <2>3. logblk' \in [1 .. Capacity -> Val]
      BY <2>1, <2>2, Zenon DEF TypeOK
    <2>4. ASSUME NEW i \in DOMAIN lh, i <= tail PROVE logblk'[i] = cache[lh[i]]
      <3>1. i \in 1 .. Capacity /\ (i = tail \/ i < tail)
        BY <1>1, <2>1, <2>4, CapacityType
      <3> QED
        BY <1>1, <2>1, <2>2, <3>1, <2>4, Zenon DEF CopiedUpTo, TypeOK
    <2> QED
      BY <2>3, <2>4, Zenon
  <1>3. PICK l \in {"write_log", "write_head"} :
          /\ pc' = [pc EXCEPT ![p] = l]
          /\ l = "write_log" => tail # Len(lh) /\ tail' = tail + 1
          /\ l = "write_head" => tail = Len(lh) /\ tail' = tail
    BY <1>1, Zenon DEF WriteLog, TypeOK
  <1>4. TypeOK'
    <2>1. tail' \in 1 .. Capacity
      <3>1. tail \in 1 .. Len(lh) /\ (tail' = tail \/ (tail # Len(lh) /\ tail' = tail + 1))
        BY <1>1, <1>3, Zenon
      <3> QED
        BY <1>1, <3>1, CapacityType
    <2>2. pc' \in [Proc -> {"out", "asleep", "retry", "op"} \cup Committing]
      BY <1>3, Zenon DEF TypeOK, Committing
    <2> QED
      BY <1>1, <1>2, <2>1, <2>2, Zenon DEF TypeOK
  <1>5. CountInv' /\ \A q \in Proc \ {p} : pc'[q] \in {"out", "asleep", "retry"}
    BY <1>1, <1>3, <1>4, CommitCount, Zenon DEF Committing
  <1>6. pc'[p] = l
    BY <1>3, Zenon DEF TypeOK
  <1>7. UpInv'
    <2>1. l = "write_log" => (tail \in DOMAIN lh /\ CopiedUpTo(tail, lh, cache))'
      BY <1>1, <1>2, <1>3 DEF CopiedUpTo
    <2>2. l = "write_head" => (lh # <<>> /\ AllCopied(lh, cache))'
      BY <1>1, <1>2, <1>3 DEF AllCopied
    <2> QED
      BY <1>1, <1>3, <1>5, <1>6, <2>1, <2>2, Zenon DEF UpInv, Blocks
  <1> QED
    BY <1>1, <1>4, <1>5, <1>7, Zenon DEF Distinct

\* The commit point: the header names blocks whose copies are all in the log.
LEMMA WriteHeadInv == ASSUME LogInv, NEW p \in Proc, WriteHead(p) PROVE LogInv'
  <1> USE DEF LogInv
  <1>1. /\ mode = "up" /\ pc[p] = "write_head" /\ lh # <<>>
        /\ AllCopied(lh, cache) /\ pinned = Blocks(lh)
        /\ head' = lh /\ tail' = 1 /\ pc' = [pc EXCEPT ![p] = "install"]
        /\ UNCHANGED <<home, logblk, cache, pinned, lh, outstanding, committing, wrote, mode>>
    <2>1. pc[p] \in Committing /\ mode = "up"
      BY Zenon DEF WriteHead, Committing
    <2>2. \A q \in Proc : pc[q] \notin {"install", "erase"}
      BY <2>1, CommitterAlone, Zenon DEF WriteHead
    <2> QED
      BY <2>1, <2>2, Zenon DEF WriteHead, UpInv, TypeOK
  <1>2. TypeOK'
    BY <1>1, CapacityType DEF TypeOK, Committing
  <1>3. CountInv' /\ \A q \in Proc \ {p} : pc'[q] \in {"out", "asleep", "retry"}
    BY <1>1, <1>2, CommitCount, Zenon DEF Committing
  <1>4. pc'[p] = "install"
    BY <1>1, Zenon DEF TypeOK
  <1>5. tail' \in DOMAIN lh' /\ pinned' = {lh'[i] : i \in tail' .. Len(lh')}
    BY <1>1 DEF Blocks, TypeOK
  <1>6. UpInv'
    BY <1>1, <1>3, <1>4, <1>5, Zenon DEF UpInv, AllCopied, Blocks
  <1> QED
    BY <1>1, <1>2, <1>3, <1>6, Zenon DEF Distinct

\* install_trans writes what the cache holds already, so the cache does not
\* change, and unpins the block it has installed.
LEMMA InstallTransInv == ASSUME LogInv, NEW p \in Proc, InstallTrans(p) PROVE LogInv'
  <1> USE DEF LogInv
  <1>1. /\ mode = "up" /\ pc[p] = "install" /\ head = lh /\ tail \in DOMAIN lh
        /\ AllCopied(lh, cache) /\ pinned = {lh[i] : i \in tail .. Len(lh)}
        /\ DOMAIN lh = 1 .. Len(lh) /\ Len(lh) <= Capacity /\ Len(lh) \in Nat
        /\ lh[tail] \in Block
        /\ UNCHANGED <<logblk, head, lh, outstanding, committing, wrote, mode>>
    BY DEF InstallTrans, UpInv, TypeOK
  <1>2. cache' = cache
    BY <1>1, Zenon DEF InstallTrans, InstallBlock, AllCopied, TypeOK
  <1>3. home' \in [Block -> Val]
    BY <1>1, CapacityType, Zenon DEF InstallTrans, InstallBlock, TypeOK
  <1>4. PICK l \in {"install", "erase"} :
          /\ pc' = [pc EXCEPT ![p] = l]
          /\ l = "install" => tail # Len(lh) /\ tail' = tail + 1
          /\ l = "erase" => tail = Len(lh) /\ tail' = tail
    BY <1>1, Zenon DEF InstallTrans, TypeOK
  <1>5. TypeOK'
    <2>1. tail' \in 1 .. Capacity
      <3>1. tail \in 1 .. Len(lh) /\ (tail' = tail \/ (tail # Len(lh) /\ tail' = tail + 1))
        BY <1>1, <1>4, Zenon
      <3> QED
        BY <1>1, <3>1, CapacityType
    <2>2. pc' \in [Proc -> {"out", "asleep", "retry", "op"} \cup Committing]
      BY <1>4, Zenon DEF TypeOK, Committing
    <2>3. pinned' \subseteq Block
      BY Zenon DEF InstallTrans, TypeOK
    <2> QED
      BY <1>1, <1>2, <1>3, <2>1, <2>2, <2>3, Zenon DEF TypeOK
  <1>6. CountInv' /\ \A q \in Proc \ {p} : pc'[q] \in {"out", "asleep", "retry"}
    BY <1>1, <1>4, <1>5, CommitCount, Zenon DEF Committing
  <1>7. pc'[p] = l
    BY <1>4, Zenon DEF TypeOK
  <1>8. pinned' = {lh[i] : i \in (tail + 1) .. Len(lh)}
    <2>1. pinned' = pinned \ {lh[tail]}
      BY Zenon DEF InstallTrans
    <2>2. \A i \in tail .. Len(lh) : i \in DOMAIN lh /\ (lh[i] = lh[tail] <=> i = tail)
      BY <1>1 DEF Distinct
    <2>3. \A i \in Int : i \in tail .. Len(lh) /\ i # tail <=> i \in (tail + 1) .. Len(lh)
      BY <1>1
    <2> QED
      BY <1>1, <2>1, <2>2, <2>3
  <1>9. \A b \in Block : b \notin pinned' => cache'[b] = home'[b]
    BY <1>1, <1>2, Zenon DEF InstallTrans, InstallBlock, AllCopied, UpInv, TypeOK
  <1>10. UpInv'
    <2>1. l = "install" => (tail \in DOMAIN lh)' /\ pinned' = {lh'[i] : i \in tail' .. Len(lh')}
      BY <1>1, <1>4, <1>8
    <2>2. l = "erase" => pinned' = {}
      BY <1>1, <1>4, <1>8
    <2>3. pinned' \subseteq Blocks(lh')
      BY <1>1, <1>8 DEF Blocks, TypeOK
    <2>4. AllCopied(lh, cache)'
      BY <1>1, <1>2, Zenon DEF AllCopied
    <2> QED
      BY <1>1, <1>2, <1>4, <1>6, <1>7, <1>9, <2>1, <2>2, <2>3, <2>4, Zenon DEF UpInv, AllCopied
  <1> QED
    BY <1>1, <1>5, <1>6, <1>10, Zenon DEF Distinct

\* Erasing the header: every block it named is at home by now.
LEMMA EraseHeadInv == ASSUME LogInv, NEW p \in Proc, EraseHead(p) PROVE LogInv'
  <1> USE DEF LogInv
  <1>1. /\ mode = "up" /\ pc[p] = "erase" /\ pinned = {}
        /\ lh' = <<>> /\ head' = <<>> /\ pc' = [pc EXCEPT ![p] = "done"]
        /\ UNCHANGED <<home, logblk, cache, pinned, outstanding, committing, tail, wrote, mode>>
    BY Zenon DEF EraseHead, UpInv
  <1>2. <<>> \in Seq(Block) /\ Len(<<>>) <= Capacity /\ Blocks(<<>>) = {} /\ Distinct(<<>>)
    BY CapacityType DEF Blocks, Distinct
  <1>3. TypeOK'
    BY <1>1, <1>2, Zenon DEF TypeOK, Committing
  <1>4. CountInv' /\ \A q \in Proc \ {p} : pc'[q] \in {"out", "asleep", "retry"}
    BY <1>1, <1>3, CommitCount, Zenon DEF Committing
  <1>5. pc'[p] = "done"
    BY <1>1, Zenon DEF TypeOK
  <1>6. UpInv'
    BY <1>1, <1>2, <1>4, <1>5, Zenon DEF UpInv
  <1> QED
    BY <1>1, <1>2, <1>3, <1>4, <1>6, Zenon

\* The end of end_op opens the log to new operations.
LEMMA EndCommitInv == ASSUME LogInv, NEW p \in Proc, EndCommit(p) PROVE LogInv'
  <1> USE DEF LogInv
  <1> DEFINE f == [pc EXCEPT ![p] = "out"]
  <1>1. /\ mode = "up" /\ pc[p] = "done" /\ lh = <<>>
        /\ committing' = 0 /\ pc' = WakeAll(f)
        /\ UNCHANGED <<home, logblk, head, cache, pinned, lh, outstanding, tail, wrote, mode>>
    BY Zenon DEF EndCommit, UpInv, disk
  <1>2. \A q \in Proc \ {p} : pc[q] \in {"out", "asleep", "retry"}
    BY <1>1, CommitterAlone, Zenon DEF Committing
  <1>3. InOp = {} /\ outstanding = 0
    BY <1>1, CommitterAlone, Zenon DEF Committing
  <1>4. \A q \in Proc : f[q] \in {"out", "asleep", "retry"}
    BY <1>2, Zenon DEF TypeOK
  <1> HIDE DEF f
  <1>5. pc' \in [Proc -> {"out", "retry"}]
    BY <1>1, <1>4, Zenon DEF WakeAll
  <1>6. TypeOK'
    BY <1>1, <1>5, Zenon DEF TypeOK
  <1>7. InOp' = {}
    BY <1>5, Zenon DEF InOp
  <1>8. CountInv'
    BY <1>1, <1>3, <1>5, <1>7, FS_EmptySet DEF CountInv, CommitAlone, Committing
  <1>9. head = <<>> /\ pinned = Blocks(lh)
    BY <1>1, <1>2, Zenon DEF UpInv
  <1>10. UpInv'
    <2>1. \A q \in Proc : pc'[q] \in {"out", "retry"}
      BY <1>5, Zenon
    <2>2. /\ \A b \in Block : b \notin pinned => cache[b] = home[b]
          /\ pinned \subseteq Blocks(lh)
      BY <1>1, Zenon DEF UpInv
    <2>3. Blocks(lh)' = Blocks(lh)
      BY <1>1, Zenon DEF Blocks
    <2> QED
      BY <1>1, <1>9, <2>1, <2>2, <2>3, Zenon DEF UpInv
  <1> QED
    BY <1>1, <1>6, <1>8, <1>10, Zenon DEF Distinct

\* Dropping an unpinned buffer loses nothing: it equals its home block.
LEMMA EvictInv == ASSUME LogInv, NEW b \in Block, Evict(b) PROVE LogInv'
  <1> USE DEF LogInv
  <1>1. /\ cache' = cache
        /\ UNCHANGED <<home, logblk, head, pinned, lh, outstanding, committing,
                       tail, pc, wrote, mode>>
    BY Zenon DEF Evict, disk, UpInv, TypeOK
  <1>2. mode \in {"up", "panic"}
    BY Zenon DEF Evict
  <1>3. TypeOK'
    BY <1>1, Zenon DEF TypeOK
  <1>4. CountInv'
    BY <1>1, Zenon DEF CountInv, CommitAlone, InOp
  <1>5. UpInv'
    BY <1>1, <1>2 DEF UpInv, CopiedUpTo, AllCopied, Blocks
  <1> QED
    BY <1>1, <1>2, <1>3, <1>4, <1>5, Zenon DEF Distinct

\* A crash leaves the disk, but for the block being written, and nothing else.
LEMMA CrashInv == ASSUME LogInv, Crash PROVE LogInv'
  <1> USE DEF LogInv
  <1>1. home' \in [Block -> Val]
    BY Zenon DEF Crash, TypeOK
  <1>2. logblk' \in [1 .. Capacity -> Val]
    BY Zenon DEF Crash, TypeOK
  <1>3. <<>> \in Seq(Block) /\ Len(<<>>) <= Capacity /\ Distinct(<<>>)
    BY CapacityType DEF Distinct
  <1>4. TypeOK'
    BY <1>1, <1>2, <1>3, CapacityType DEF Crash, TypeOK
  <1>5. InOp' = {}
    BY Zenon DEF Crash, InOp
  <1>6. CountInv'
    BY <1>5, FS_EmptySet DEF Crash, CountInv, CommitAlone, Committing
  <1> QED
    BY <1>3, <1>4, <1>6, Zenon DEF Crash, BootInv, Distinct

\* Recovery keeps the invariant, step by step.
LEMMA RecoverInv == ASSUME LogInv, Recover PROVE LogInv'
  <1> USE DEF LogInv
  <1>1. CASE ReadHead
    <2>1. TypeOK'
      BY <1>1, Zenon DEF ReadHead, TypeOK, disk
    <2>2. CountInv'
      BY <1>1, Zenon DEF ReadHead, CountInv, CommitAlone, InOp
    <2>3. BootInv'
      BY <1>1 DEF ReadHead, BootInv, CopiedUpTo, AllCopied, TypeOK, disk
    <2> QED
      BY <1>1, <2>1, <2>2, <2>3, Zenon DEF ReadHead, Distinct, disk
  <1>2. CASE RecoverInstall
    <2>1. /\ mode = "install" /\ lh = head /\ tail \in DOMAIN lh
          /\ CopiedUpTo(tail, lh, home) /\ cache = home /\ pinned = {}
          /\ DOMAIN lh = 1 .. Len(lh) /\ Len(lh) <= Capacity /\ Len(lh) \in Nat
          /\ lh[tail] \in Block /\ tail \in 1 .. Capacity
          /\ UNCHANGED <<logblk, head, pinned, lh, outstanding, committing, pc, wrote>>
      BY <1>2 DEF RecoverInstall, BootInv, TypeOK
    <2>2. /\ home' \in [Block -> Val] /\ cache' = home'
          /\ \A i \in DOMAIN lh : i <= tail => home'[lh[i]] = logblk[i]
      <3>1. home' \in [Block -> Val] /\ cache' = home'
        BY <1>2, <2>1, Zenon DEF RecoverInstall, InstallBlock, TypeOK
      <3>2. ASSUME NEW i \in DOMAIN lh, i <= tail PROVE home'[lh[i]] = logblk[i]
        <4>1. lh[i] \in Block /\ (i = tail \/ (i < tail /\ lh[i] # lh[tail]))
          BY <2>1, <3>2 DEF Distinct, TypeOK
        <4> QED
          BY <1>2, <2>1, <4>1, Zenon DEF RecoverInstall, InstallBlock, CopiedUpTo, TypeOK
      <3> QED
        BY <3>1, <3>2, Zenon
    <2>3. \/ mode' = "erase" /\ tail' = tail /\ tail = Len(lh)
          \/ mode' = "install" /\ tail' = tail + 1 /\ tail # Len(lh)
      BY <1>2, <2>1, Zenon DEF RecoverInstall
    <2>4. tail' \in 1 .. Capacity
      BY <2>1, <2>3, CapacityType
    <2>5. TypeOK'
      BY <2>1, <2>2, <2>3, <2>4, Zenon DEF TypeOK
    <2>6. CountInv'
      BY <2>1, <2>3, Zenon DEF CountInv, CommitAlone, InOp
    <2>7. BootInv'
      BY <2>1, <2>2, <2>3 DEF BootInv, CopiedUpTo, AllCopied
    <2> QED
      BY <2>1, <2>3, <2>5, <2>6, <2>7, Zenon DEF Distinct
  <1>3. CASE RecoverErase
    <2>1. <<>> \in Seq(Block) /\ Len(<<>>) <= Capacity /\ Blocks(<<>>) = {} /\ Distinct(<<>>)
      BY CapacityType DEF Blocks, Distinct
    <2>2. TypeOK'
      BY <1>3, <2>1, Zenon DEF RecoverErase, TypeOK
    <2>3. CountInv'
      BY <1>3, Zenon DEF RecoverErase, CountInv, CommitAlone, InOp
    <2>4. UpInv'
      BY <1>3, <2>1, Zenon DEF RecoverErase, BootInv, UpInv, CountInv, TypeOK
    <2> QED
      BY <1>3, <2>1, <2>2, <2>3, <2>4, Zenon DEF RecoverErase
  <1> QED
    BY <1>1, <1>2, <1>3, Zenon DEF Recover

\* Every step of the system keeps the invariant.
LEMMA NextInv == LogInv /\ [Next]_vars => LogInv'
  <1> SUFFICES ASSUME LogInv, [Next]_vars PROVE LogInv'
    BY Zenon
  <1>1. ASSUME NEW p \in Proc, Step(p) PROVE LogInv'
    BY <1>1, BeginOpInv, SleepInv, LogWriteInv, LogWritePanicInv, EndOpInv, WriteLogInv,
       WriteHeadInv, InstallTransInv, EraseHeadInv, EndCommitInv, Zenon DEF Step
  <1>2. CASE UNCHANGED vars
    <2> USE <1>2 DEF vars, LogInv
    <2>1. TypeOK' /\ Distinct(lh)' /\ Distinct(head)'
      BY Zenon DEF TypeOK, Distinct
    <2>2. CountInv'
      BY Zenon DEF CountInv, CommitAlone, InOp
    <2>3. UpInv' <=> UpInv
      BY DEF UpInv, CopiedUpTo, AllCopied, Blocks
    <2>4. BootInv' <=> BootInv
      BY Zenon DEF BootInv, CopiedUpTo, AllCopied
    <2> QED
      BY <2>1, <2>2, <2>3, <2>4, Zenon
  <1> QED
    BY <1>1, <1>2, EvictInv, RecoverInv, CrashInv, Zenon DEF Next, Work

\* The inductive invariant holds in every reachable state.
THEOREM InvariantHolds == Spec => []LogInv
  BY InitInv, NextInv, PTL DEF Spec

\* Types hold for any number of processes, blocks and log entries; in
\* particular no transaction outgrows struct logheader or the log area.
THEOREM TypeCorrect == Spec => []TypeOK
  BY InvariantHolds, PTL DEF LogInv

\* A commit never overlaps an operation or another commit.
THEOREM CommitsAlone == Spec => []CommitAlone
  BY InvariantHolds, PTL DEF LogInv, CountInv

\* When end_op returns from its commit, everything logged is at home on disk.
THEOREM ReturnsDurable == Spec => []DurableOnReturn
  <1>1. LogInv => DurableOnReturn
    <2> SUFFICES ASSUME LogInv, NEW p \in Proc, pc[p] = "done"
                 PROVE  head = <<>> /\ home = cache /\ pinned = {}
      BY Zenon DEF DurableOnReturn
    <2>1. mode \in {"up", "panic"}
      BY Zenon DEF LogInv, CountInv
    <2>2. \A q \in Proc : pc[q] \notin {"install", "erase"}
      BY Zenon DEF LogInv, CountInv, CommitAlone, Committing
    <2>3. head = <<>> /\ pinned = Blocks(lh) /\ lh = <<>>
      BY <2>1, <2>2, Zenon DEF LogInv, UpInv
    <2>4. pinned = {}
      BY <2>3 DEF Blocks
    <2>5. \A b \in Block : home[b] = cache[b]
      BY <2>1, <2>4, Zenon DEF LogInv, UpInv
    <2> QED
      BY <2>3, <2>4, <2>5 DEF LogInv, TypeOK
  <1> QED
    BY <1>1, InvariantHolds, PTL

\* A process asleep in begin_op is never forgotten: the sleep is entered only
\* while an operation or a commit is under way, and the last end_op wakes all.
THEOREM SleepersHaveWakers == Spec => []SleeperHasWaker
  <1>1. Init => SleeperHasWaker
    BY Zenon DEF Init, SleeperHasWaker
  <1>2. LogInv /\ SleeperHasWaker /\ [Next]_vars => SleeperHasWaker'
    <2> SUFFICES ASSUME LogInv, SleeperHasWaker, [Next]_vars PROVE SleeperHasWaker'
      BY Zenon
    <2> USE DEF SleeperHasWaker
    <2>1. ASSUME NEW p \in Proc, BeginOpSleep(p) PROVE SleeperHasWaker'
      <3>1. CASE committing = 1
        BY <2>1, <3>1, Zenon DEF BeginOpSleep
      <3>2. CASE committing # 1
        <4>1. committing = 0 /\ outstanding \in Nat
          BY <3>2, Zenon DEF LogInv, TypeOK
        <4>2. CASE outstanding = 0
          <5>1. Len(lh) = 0
            BY <2>1, <4>1, <4>2, Zenon DEF BeginOpSleep, LogInv, CountInv
          <5>2. (outstanding + 1) * MAXOPBLOCKS = MAXOPBLOCKS
            BY <4>2, LogAssumption
          <5> QED
            BY <2>1, <3>2, <5>1, <5>2, LogAssumption DEF BeginOpSleep, MustWait
        <4> QED
          BY <2>1, <4>1, <4>2 DEF BeginOpSleep
      <3> QED
        BY <3>1, <3>2, Zenon
    <2>2. ASSUME NEW p \in Proc, BeginOp(p) PROVE SleeperHasWaker'
      BY <2>2 DEF BeginOp, LogInv, TypeOK
    <2>3. ASSUME NEW p \in Proc, KillSleeper(p) PROVE SleeperHasWaker'
      BY <2>3, Zenon DEF KillSleeper, LogInv, TypeOK
    <2>4. ASSUME NEW p \in Proc, EndOp(p) PROVE SleeperHasWaker'
      <3>1. outstanding \in Nat /\ outstanding > 0
        <4>1. p \in InOp
          BY <2>4, Zenon DEF EndOp, InOp
        <4> QED
          BY <4>1, InOpFinite, FS_EmptySet DEF LogInv, CountInv
      <3> QED
        BY <2>4, <3>1 DEF EndOp, LogInv, CountInv
    <2>5. ASSUME NEW p \in Proc, EndCommit(p) PROVE SleeperHasWaker'
      BY <2>5, Zenon DEF EndCommit, WakeAll, LogInv, TypeOK
    <2>6. ASSUME NEW p \in Proc, NEW b \in Block, NEW v \in Val,
                 LogWrite(p, b, v) \/ LogWritePanic(p, b)
          PROVE  SleeperHasWaker'
      BY <2>6, Zenon DEF LogWrite, LogWritePanic
    <2>7. ASSUME NEW p \in Proc,
                 WriteLog(p) \/ WriteHead(p) \/ InstallTrans(p) \/ EraseHead(p)
          PROVE  SleeperHasWaker'
      <3>1. committing = 1 /\ committing' = committing
        BY <2>7, Zenon DEF WriteLog, WriteHead, InstallTrans, EraseHead, LogInv, CountInv, Committing
      <3> QED
        BY <3>1, Zenon
    <2>8. CASE Recover \/ UNCHANGED vars
      BY <2>8, Zenon DEF Recover, ReadHead, RecoverInstall, RecoverErase, vars
    <2>9. ASSUME NEW b \in Block, Evict(b) PROVE SleeperHasWaker'
      BY <2>9, Zenon DEF Evict
    <2>10. CASE Crash
      BY <2>10, Zenon DEF Crash
    <2>11. ASSUME NEW p \in Proc, Step(p) PROVE SleeperHasWaker'
      <3>1. ASSUME NEW b \in Block, LogWritePanic(p, b) PROVE SleeperHasWaker'
        BY <3>1, Zenon DEF LogWritePanic
      <3> QED
        BY <2>11, <3>1, <2>1, <2>2, <2>3, <2>4, <2>5, <2>6, <2>7, Zenon DEF Step
    <2> QED
      BY <2>8, <2>9, <2>10, <2>11, Zenon DEF Next, Work
  <1> QED
    BY <1>1, <1>2, InvariantHolds, PTL DEF Spec

(***************************************************************************)
(* begin_op's reservation.                                                 *)
(***************************************************************************)
\* The blocks the active operations may still log, one pair for each.
StillFree == {t \in InOp \X (1 .. MAXOPBLOCKS) : t[2] > Cardinality(wrote[t[1]])}

\* What an active operation wrote is in the log, so writing it again is absorbed.
SpaceInv ==
  /\ Len(lh) + Cardinality(StillFree) <= LOGSIZE
  /\ \A p \in Proc : IsFiniteSet(wrote[p])
  /\ \A p \in InOp : wrote[p] \subseteq Blocks(lh)

\* Pairs of one of finitely many processes and one of its MAXOPBLOCKS blocks.
LEMMA PairsBound ==
  ASSUME NEW I, IsFiniteSet(I), NEW T \in SUBSET (I \X (1 .. MAXOPBLOCKS))
  PROVE  /\ IsFiniteSet(T)
         /\ Cardinality(T) \in Nat
         /\ Cardinality(T) <= Cardinality(I) * MAXOPBLOCKS
  <1> DEFINE N == 1 .. MAXOPBLOCKS
  <1>1. IsFiniteSet(N) /\ Cardinality(N) = MAXOPBLOCKS
    BY FS_Interval, LogAssumption
  <1>2. T \in SUBSET (I \X N)
    BY Zenon
  <1> HIDE DEF N
  <1>3. IsFiniteSet(I \X N) /\ Cardinality(I \X N) = Cardinality(I) * MAXOPBLOCKS
    BY <1>1, FS_Product, Zenon
  <1> QED
    BY <1>2, <1>3, FS_Subset, FS_CardinalityType

\* The active operations may write no more than MAXOPBLOCKS blocks each.
LEMMA StillFreeBound ==
  /\ IsFiniteSet(StillFree)
  /\ Cardinality(StillFree) \in Nat
  /\ Cardinality(StillFree) <= Cardinality(InOp) * MAXOPBLOCKS
  <1>1. StillFree \in SUBSET (InOp \X (1 .. MAXOPBLOCKS))
    BY Zenon DEF StillFree
  <1> QED
    BY <1>1, InOpFinite, PairsBound, Zenon

\* No operation is active outside normal running or during a commit.
LEMMA Idle ==
  ASSUME LogInv, mode \notin {"up", "panic"} \/ \E p \in Proc : pc[p] \in Committing
  PROVE  InOp = {}
  BY Zenon DEF LogInv, CountInv, CommitAlone, Committing, InOp

\* With no operation active the reservation is that the log fits its header.
LEMMA IdleSpace ==
  ASSUME TypeOK, InOp = {}, \A p \in Proc : IsFiniteSet(wrote[p])
  PROVE  SpaceInv
  <1>1. StillFree = {}
    BY Zenon DEF StillFree
  <1>2. Len(lh) <= LOGSIZE /\ Len(lh) \in Nat
    BY CapacityType, LogAssumption DEF TypeOK
  <1> QED
    BY <1>1, <1>2, FS_EmptySet DEF SpaceInv

\* A step that leaves the operations and the log alone keeps the reservation.
LEMMA SpaceQuiet ==
  ASSUME SpaceInv, UNCHANGED <<lh, wrote>>, InOp' = InOp
  PROVE  SpaceInv'
  <1>1. StillFree' = StillFree
    BY Zenon DEF StillFree
  <1> QED
    BY <1>1, Zenon DEF SpaceInv, Blocks

\* begin_op reserves: it admits an operation only when all that is logged and
\* MAXOPBLOCKS blocks for each operation, this one included, fit the header.
LEMMA BeginOpSpace == ASSUME LogInv, SpaceInv, NEW p \in Proc, BeginOp(p) PROVE SpaceInv'
  <1>1. LogInv'
    BY BeginOpInv, Zenon
  <1>2. Cardinality(InOp') = outstanding + 1 /\ Cardinality(InOp') \in Nat
    BY <1>1, InOpFinite, Zenon DEF BeginOp, LogInv, CountInv, TypeOK
  <1>3. /\ Cardinality(StillFree') \in Nat
        /\ Cardinality(StillFree') <= Cardinality(InOp') * MAXOPBLOCKS
    <2>1. IsFiniteSet(InOp')
      BY LogAssumption, FS_Subset, Zenon DEF InOp
    <2>2. StillFree' \in SUBSET (InOp' \X (1 .. MAXOPBLOCKS))
      BY Zenon DEF StillFree
    <2> QED
      BY <2>1, <2>2, PairsBound, Zenon
  <1>4. Len(lh) + (outstanding + 1) * MAXOPBLOCKS <= LOGSIZE /\ lh' = lh
    <2>1. (outstanding + 1) * MAXOPBLOCKS \in Int /\ Len(lh) \in Nat
      BY LogAssumption DEF LogInv, TypeOK
    <2> QED
      BY <2>1, LogAssumption DEF BeginOp, MustWait
  <1>5. Len(lh') + Cardinality(StillFree') <= LOGSIZE
    <2>1. (outstanding + 1) * MAXOPBLOCKS \in Int /\ Len(lh) \in Nat
      BY LogAssumption DEF LogInv, TypeOK
    <2> QED
      BY <1>2, <1>3, <1>4, <2>1, LogAssumption
  <1>6. \A q \in Proc : wrote'[q] = IF q = p THEN {} ELSE wrote[q]
    BY Zenon DEF BeginOp, LogInv, TypeOK
  <1>7. InOp' \subseteq InOp \cup {p}
    BY Zenon DEF BeginOp, InOp, LogInv, TypeOK
  <1>8. /\ \A q \in Proc : IsFiniteSet(wrote'[q])
        /\ \A q \in InOp' : wrote'[q] \subseteq Blocks(lh')
    BY <1>4, <1>6, <1>7, FS_EmptySet DEF SpaceInv, InOp, Blocks
  <1> QED
    BY <1>5, <1>8, Zenon DEF SpaceInv

\* log_write spends: a block that is new to the log is new to the operation,
\* and uses one of the blocks it may still write.
LEMMA LogWriteSpace ==
  ASSUME LogInv, SpaceInv, NEW p \in Proc, NEW b \in Block, NEW v \in Val, LogWrite(p, b, v)
  PROVE  SpaceInv'
  <1>1. /\ pc[p] = "op" /\ p \in InOp
        /\ b \in wrote[p] \/ Cardinality(wrote[p]) < MAXOPBLOCKS
        /\ lh' = IF b \in Blocks(lh) THEN lh ELSE Append(lh, b)
        /\ \A q \in Proc : wrote'[q] = IF q = p THEN wrote[p] \cup {b} ELSE wrote[q]
    BY Zenon DEF LogWrite, MayWrite, InOp, LogInv, TypeOK
  <1>2. InOp' = InOp
    BY Zenon DEF LogWrite, InOp
  <1>3. Blocks(lh') = Blocks(lh) \cup {b}
    <2>1. CASE b \in Blocks(lh)
      BY <2>1, <1>1, Zenon
    <2>2. CASE b \notin Blocks(lh)
      BY <2>2, <1>1, AppendDistinct, Zenon DEF LogInv, TypeOK
    <2> QED
      BY <2>1, <2>2, Zenon
  <1>4. \A q \in Proc : IsFiniteSet(wrote'[q])
    BY <1>1, FS_AddElement DEF SpaceInv
  <1>5. \A q \in InOp' : wrote'[q] \subseteq Blocks(lh')
    BY <1>1, <1>2, <1>3, Zenon DEF SpaceInv, InOp
  <1>6. CASE b \in wrote[p]
    <2>1. \A q \in Proc : wrote'[q] = wrote[q]
      BY <1>1, <1>6, Zenon
    <2>2. StillFree' = StillFree
      BY <1>2, <2>1, Zenon DEF StillFree, InOp
    <2>3. lh' = lh
      BY <1>1, <1>6, Zenon DEF SpaceInv
    <2> QED
      BY <1>4, <1>5, <2>2, <2>3, Zenon DEF SpaceInv
  <1>7. CASE b \notin wrote[p]
    <2> DEFINE c == Cardinality(wrote[p])
    <2>1. c \in Nat /\ c < MAXOPBLOCKS /\ Cardinality(wrote'[p]) = c + 1
      BY <1>1, <1>7, FS_AddElement, FS_CardinalityType DEF SpaceInv
    <2>2. <<p, c + 1>> \in StillFree
      <3>1. c + 1 \in 1 .. MAXOPBLOCKS /\ c + 1 > c
        BY <2>1, LogAssumption
      <3> QED
        BY <1>1, <3>1, Zenon DEF StillFree
    <2> HIDE DEF c
    <2>3. StillFree' \subseteq StillFree \ {<<p, c + 1>>}
      <3> SUFFICES ASSUME NEW t \in StillFree' PROVE t \in StillFree /\ t # <<p, c + 1>>
        BY Zenon
      <3>1. /\ t \in InOp \X (1 .. MAXOPBLOCKS)
            /\ t[2] > Cardinality(wrote'[t[1]]) /\ t[1] \in Proc
        BY <1>2, Zenon DEF StillFree, InOp
      <3>2. CASE t[1] = p
        BY <3>1, <3>2, <2>1 DEF StillFree, c
      <3>3. CASE t[1] # p
        BY <3>1, <3>3, <1>1 DEF StillFree
      <3> QED
        BY <3>2, <3>3, Zenon
    <2>4. /\ IsFiniteSet(StillFree \ {<<p, c + 1>>})
          /\ Cardinality(StillFree \ {<<p, c + 1>>}) = Cardinality(StillFree) - 1
      BY <2>2, StillFreeBound, FS_RemoveElement, Zenon
    <2>5. /\ Cardinality(StillFree') \in Nat
          /\ Cardinality(StillFree') <= Cardinality(StillFree) - 1
      BY <2>3, <2>4, FS_Subset, FS_CardinalityType
    <2>6. Len(lh') \in Nat /\ Len(lh') <= Len(lh) + 1 /\ Len(lh) \in Nat
      BY <1>1 DEF LogInv, TypeOK
    <2>7. Len(lh') + Cardinality(StillFree') <= LOGSIZE
      BY <2>5, <2>6, StillFreeBound, LogAssumption DEF SpaceInv
    <2> QED
      BY <1>4, <1>5, <2>7, Zenon DEF SpaceInv
  <1> QED
    BY <1>6, <1>7, Zenon

\* end_op gives back what its operation did not use.
LEMMA EndOpSpace == ASSUME LogInv, SpaceInv, NEW p \in Proc, EndOp(p) PROVE SpaceInv'
  <1>1. InOp' \subseteq InOp /\ UNCHANGED <<lh, wrote>>
    BY Zenon DEF EndOp, WakeAll, InOp, LogInv, TypeOK
  <1>2. StillFree' \subseteq StillFree
    BY <1>1, Zenon DEF StillFree
  <1>3. /\ Cardinality(StillFree') \in Nat
        /\ Cardinality(StillFree') <= Cardinality(StillFree)
    BY <1>2, StillFreeBound, FS_Subset, FS_CardinalityType, Zenon
  <1>4. Len(lh) \in Nat
    BY DEF LogInv, TypeOK
  <1> QED
    BY <1>1, <1>3, <1>4, StillFreeBound, LogAssumption DEF SpaceInv, Blocks

\* A group of operations never outgrows struct logheader: what is logged and
\* what the active operations may still log always fit, however they
\* interleave and absorb one another's blocks.
THEOREM SpaceIsReserved == Spec => []SpaceReserved
  <1>1. Init => SpaceInv
    <2> SUFFICES ASSUME Init PROVE SpaceInv
      BY Zenon
    <2>1. TypeOK
      BY InitInv, Zenon DEF LogInv
    <2> QED
      BY <2>1, IdleSpace, FS_EmptySet, Zenon DEF Init, InOp
  <1>2. LogInv /\ LogInv' /\ SpaceInv /\ [Next]_vars => SpaceInv'
    <2> SUFFICES ASSUME LogInv, LogInv', SpaceInv, [Next]_vars PROVE SpaceInv'
      BY Zenon
    <2>1. ASSUME NEW p \in Proc, BeginOpSleep(p) \/ KillSleeper(p) PROVE SpaceInv'
      <3>1. UNCHANGED <<lh, wrote>> /\ InOp' = InOp
        BY <2>1, Zenon DEF BeginOpSleep, KillSleeper, InOp, LogInv, TypeOK
      <3> QED
        BY <3>1, SpaceQuiet, Zenon
    <2>2. ASSUME NEW p \in Proc, NEW b \in Block, LogWritePanic(p, b) PROVE SpaceInv'
      BY <2>2, SpaceQuiet, Zenon DEF LogWritePanic, InOp
    <2>3. ASSUME InOp' = {}, wrote' = wrote \/ \A q \in Proc : wrote'[q] = {} PROVE SpaceInv'
      <3>1. \A q \in Proc : IsFiniteSet(wrote'[q])
        BY <2>3, FS_EmptySet, Zenon DEF SpaceInv
      <3>2. StillFree' = {}
        BY <2>3, Zenon DEF StillFree
      <3>3. Len(lh') <= LOGSIZE /\ Len(lh') \in Nat
        BY CapacityType, LogAssumption DEF LogInv, TypeOK
      <3> QED
        BY <2>3, <3>1, <3>2, <3>3, FS_EmptySet DEF SpaceInv
    <2>4. ASSUME NEW p \in Proc, WriteLog(p) \/ WriteHead(p) \/ InstallTrans(p)
                                 \/ EraseHead(p) \/ EndCommit(p)
          PROVE  SpaceInv'
      <3>1. InOp = {}
        BY <2>4, Idle, Zenon DEF WriteLog, WriteHead, InstallTrans, EraseHead, EndCommit, Committing
      <3>2. InOp' = {} /\ wrote' = wrote
        BY <2>4, <3>1, Zenon DEF WriteLog, WriteHead, InstallTrans, EraseHead, EndCommit, WakeAll,
                          InOp, LogInv, TypeOK
      <3> QED
        BY <3>2, <2>3, Zenon
    <2>5. CASE Recover
      <3>1. InOp = {}
        BY <2>5, Idle, Zenon DEF Recover, ReadHead, RecoverInstall, RecoverErase
      <3>2. InOp' = {} /\ wrote' = wrote
        BY <2>5, <3>1, Zenon DEF Recover, ReadHead, RecoverInstall, RecoverErase, InOp
      <3> QED
        BY <3>2, <2>3, Zenon
    <2>6. CASE Crash
      <3>1. InOp' = {} /\ \A q \in Proc : wrote'[q] = {}
        BY <2>6, Zenon DEF Crash, InOp
      <3> QED
        BY <3>1, <2>3, Zenon
    <2>7. ASSUME NEW b \in Block, Evict(b) PROVE SpaceInv'
      BY <2>7, SpaceQuiet, Zenon DEF Evict, InOp
    <2>8. CASE UNCHANGED vars
      BY <2>8, SpaceQuiet, Zenon DEF vars, InOp
    <2>9. ASSUME NEW p \in Proc, Step(p) PROVE SpaceInv'
      BY <2>9, <2>1, <2>2, <2>4, BeginOpSpace, LogWriteSpace, EndOpSpace, Zenon DEF Step
    <2> QED
      BY <2>5, <2>6, <2>7, <2>8, <2>9, Zenon DEF Next, Work
  <1>3. SpaceInv => SpaceReserved
    BY Zenon DEF SpaceInv, SpaceReserved, StillFree
  <1> QED
    BY <1>1, <1>2, <1>3, InvariantHolds, PTL DEF Spec

(***************************************************************************)
(* Refinement: the disk seen through recovery changes by whole groups.     *)
(***************************************************************************)
View == IF mode \in {"up", "panic"} THEN cache ELSE Recovered

RecoveredSpec ==
  /\ Recovered \in [Block -> Val]
  /\ \A i \in DOMAIN head : Recovered[head[i]] = logblk[i]
  /\ \A b \in Block : b \notin Blocks(head) => Recovered[b] = home[b]

\* Recovered, without the CHOOSE.
LEMMA RecoveredFacts == TypeOK /\ Distinct(head) => RecoveredSpec
  <1> SUFFICES ASSUME TypeOK, Distinct(head) PROVE RecoveredSpec
    BY Zenon
  <1>1. DOMAIN head = 1 .. Len(head) /\ Len(head) \in Nat /\ Len(head) <= Capacity
    BY DEF TypeOK
  <1>2. ASSUME NEW i \in DOMAIN head
        PROVE  Recovered[head[i]] = logblk[i] /\ logblk[i] \in Val
    <2>1. head[i] \in Block /\ head[i] \in Blocks(head) /\ i \in 1 .. Capacity
      BY <1>1, CapacityType DEF TypeOK, Blocks
    <2>2. (CHOOSE j \in DOMAIN head : head[j] = head[i]) = i
      BY Zenon DEF Distinct
    <2> QED
      BY <2>1, <2>2, Zenon DEF Recovered, TypeOK
  <1>3. ASSUME NEW b \in Block, b \notin Blocks(head) PROVE Recovered[b] = home[b] /\ home[b] \in Val
    BY <1>3, Zenon DEF Recovered, TypeOK
  <1>4. \A b \in Block : Recovered[b] \in Val
    BY <1>2, <1>3, Zenon DEF Blocks
  <1>5. Recovered = [b \in Block |-> Recovered[b]]
    BY DEF Recovered
  <1> QED
    BY <1>2, <1>3, <1>4, <1>5, Zenon DEF RecoveredSpec

\* The disk of a state without a header in place recovers to its home blocks.
LEMMA RecoveredNoHead == TypeOK /\ head = <<>> => Recovered = home
  <1> SUFFICES ASSUME TypeOK, head = <<>> PROVE Recovered = home
    BY Zenon
  <1>1. Distinct(head) /\ Blocks(head) = {}
    BY DEF Distinct, Blocks
  <1> QED
    BY <1>1, RecoveredFacts DEF RecoveredSpec, TypeOK

\* Recovered depends on nothing but the disk.
LEMMA RecoveredSame ==
  ASSUME TypeOK, TypeOK', Distinct(head), head' = head,
         \A i \in DOMAIN head : logblk'[i] = logblk[i],
         \A b \in Block : b \notin Blocks(head) => home'[b] = home[b]
  PROVE  Recovered' = Recovered
  <1>1. Distinct(head)' /\ Blocks(head)' = Blocks(head)
    BY Zenon DEF Distinct, Blocks
  <1>2. RecoveredSpec /\ RecoveredSpec'
    BY <1>1, RecoveredFacts, PTL
  <1>3. ASSUME NEW b \in Block PROVE Recovered'[b] = Recovered[b]
    <2>1. CASE b \in Blocks(head)
      BY <2>1, <1>2 DEF RecoveredSpec, Blocks
    <2>2. CASE b \notin Blocks(head)
      BY <2>2, <1>1, <1>2, Zenon DEF RecoveredSpec
    <2> QED
      BY <2>1, <2>2, Zenon
  <1> QED
    BY <1>2, <1>3 DEF RecoveredSpec

\* The steps that leave the recovered disk, the view and the set of active
\* operations as they were.
LEMMA QuietStep ==
  ASSUME LogInv, LogInv', Recovered' = Recovered, View' = View, InOp' = InOp
  PROVE  [Abstract!Next]_(Abstract!vars)
  BY Zenon DEF View, Abstract!vars

\* Every step of the log is a step of the atomic disk, or changes nothing of it.
LEMMA StepRefines ==
  ASSUME LogInv, LogInv', [Next]_vars
  PROVE  [Abstract!Next]_(Abstract!vars)
  <1> USE DEF LogInv
  <1>1. ASSUME NEW p \in Proc, BeginOp(p) PROVE Abstract!Begin(p)
    <2>1. Recovered' = Recovered
      BY <1>1, RecoveredSame, Zenon DEF BeginOp, disk
    <2> QED
      BY <1>1, <2>1 DEF BeginOp, disk, Abstract!Begin, InOp, TypeOK
  <1>2. ASSUME NEW p \in Proc, BeginOpSleep(p) \/ KillSleeper(p)
        PROVE  [Abstract!Next]_(Abstract!vars)
    <2>1. Recovered' = Recovered
      BY <1>2, RecoveredSame, Zenon DEF BeginOpSleep, KillSleeper, disk
    <2>2. View' = View
      BY <1>2, <2>1, Zenon DEF BeginOpSleep, KillSleeper, View
    <2>3. InOp' = InOp
      BY <1>2, Zenon DEF BeginOpSleep, KillSleeper, InOp, TypeOK
    <2> QED
      BY <2>1, <2>2, <2>3, QuietStep, Zenon
  <1>3. ASSUME NEW p \in Proc, NEW b \in Block, NEW v \in Val, LogWrite(p, b, v)
        PROVE  Abstract!Write(p, b, v)
    <2>1. Recovered' = Recovered
      BY <1>3, RecoveredSame, Zenon DEF LogWrite, disk
    <2> QED
      BY <1>3, <2>1, Zenon DEF LogWrite, MayWrite, Abstract!Write, InOp
  <1>4. ASSUME NEW p \in Proc, NEW b \in Block, LogWritePanic(p, b)
        PROVE  [Abstract!Next]_(Abstract!vars)
    <2>1. Recovered' = Recovered
      BY <1>4, RecoveredSame, Zenon DEF LogWritePanic, disk
    <2> QED
      BY <1>4, <2>1, QuietStep, Zenon DEF LogWritePanic, MayWrite, View, InOp
  <1>5. ASSUME NEW p \in Proc, EndOp(p) PROVE Abstract!End(p)
    <2>1. Recovered' = Recovered
      BY <1>5, RecoveredSame, Zenon DEF EndOp, disk
    <2>2. p \in InOp /\ InOp' = InOp \ {p}
      <3>1. pc[p] = "op" /\ committing = 0
        BY <1>5, Zenon DEF EndOp, CountInv, CommitAlone, Committing, TypeOK
      <3>2. pc \in [Proc -> {"out", "asleep", "retry", "op"} \cup Committing]
        BY Zenon DEF TypeOK
      <3>3. \A q \in Proc : pc'[q] = "op" <=> q # p /\ pc[q] = "op"
        BY <1>5, <3>1, <3>2 DEF EndOp, WakeAll
      <3> QED
        BY <3>1, <3>3, Zenon DEF InOp
    <2>3. cache' = cache /\ mode' = mode /\ mode = "up"
      BY <1>5, Zenon DEF EndOp, CountInv, CommitAlone, Committing
    <2> QED
      BY <2>1, <2>2, <2>3, Zenon DEF Abstract!End
  <1>6. ASSUME NEW p \in Proc, WriteLog(p) PROVE [Abstract!Next]_(Abstract!vars)
    <2>1. mode = "up" /\ pc[p] \in Committing /\ pc[p] = "write_log"
      BY <1>6, Zenon DEF WriteLog, Committing
    <2>2. head = <<>> /\ head' = <<>> /\ home' = home
      <3>1. \A q \in Proc : pc[q] \notin {"install", "erase"}
        BY <2>1, CommitterAlone, Zenon
      <3> QED
        BY <1>6, <2>1, <3>1, Zenon DEF WriteLog, UpInv
    <2>3. Recovered = home /\ (Recovered = home)'
      <3>1. (TypeOK /\ head = <<>>) /\ (TypeOK /\ head = <<>>)'
        BY <2>2, Zenon
      <3> QED
        BY <3>1, RecoveredNoHead, PTL
    <2>4. InOp' = InOp
      BY <1>6, Zenon DEF WriteLog, InOp, TypeOK
    <2> QED
      BY <1>6, <2>2, <2>3, <2>4, QuietStep, Zenon DEF WriteLog, View
  <1>7. ASSUME NEW p \in Proc, WriteHead(p) PROVE Abstract!Commit
    <2>1. /\ mode = "up" /\ pc[p] \in Committing /\ pc[p] = "write_head"
          /\ head' = lh /\ UNCHANGED <<home, logblk, cache, lh, mode>>
      BY <1>7, Zenon DEF WriteHead, Committing
    <2>2. InOp = {} /\ InOp' = {} /\ \A q \in Proc : pc[q] \notin {"install", "erase"}
      BY <1>7, <2>1, CommitterAlone, Zenon DEF WriteHead, InOp, TypeOK
    <2>3. pinned = Blocks(lh) /\ AllCopied(lh, cache)
      BY <2>1, <2>2, Zenon DEF UpInv
    <2>4. RecoveredSpec'
      BY RecoveredFacts, PTL
    <2>5. ASSUME NEW b \in Block PROVE Recovered'[b] = cache[b]
      <3>1. CASE b \in Blocks(lh)
        BY <3>1, <2>1, <2>3, <2>4 DEF RecoveredSpec, Blocks, AllCopied
      <3>2. CASE b \notin Blocks(lh)
        <4>1. home[b] = cache[b]
          BY <3>2, <2>1, <2>3, Zenon DEF UpInv
        <4> QED
          BY <3>2, <2>1, <2>4, <4>1, Zenon DEF RecoveredSpec, Blocks
      <3> QED
        BY <3>1, <3>2, Zenon
    <2>6. Recovered' = cache
      BY <2>4, <2>5 DEF RecoveredSpec, TypeOK
    <2> QED
      BY <2>1, <2>2, <2>6, Zenon DEF Abstract!Commit
  <1>8. ASSUME NEW p \in Proc, InstallTrans(p) PROVE [Abstract!Next]_(Abstract!vars)
    <2>1. /\ mode = "up" /\ pc[p] = "install" /\ head = lh /\ tail \in DOMAIN lh
          /\ AllCopied(lh, cache) /\ UNCHANGED <<logblk, head, lh, mode>>
      BY <1>8, Zenon DEF InstallTrans, UpInv
    <2>2. Recovered' = Recovered
      BY <1>8, <2>1, RecoveredSame, Zenon DEF InstallTrans, InstallBlock, Blocks, TypeOK
    <2>3. cache' = cache
      BY <1>8, <2>1, Zenon DEF InstallTrans, InstallBlock, AllCopied, TypeOK
    <2>4. InOp' = InOp
      BY <1>8, <2>1, Zenon DEF InstallTrans, InOp, TypeOK
    <2> QED
      BY <2>1, <2>2, <2>3, <2>4, QuietStep, Zenon DEF View
  <1>9. ASSUME NEW p \in Proc, EraseHead(p) PROVE [Abstract!Next]_(Abstract!vars)
    <2>1. /\ mode = "up" /\ pc[p] = "erase" /\ head = lh /\ pinned = {}
          /\ AllCopied(lh, cache) /\ UNCHANGED <<home, cache, mode>> /\ head' = <<>>
      BY <1>9, Zenon DEF EraseHead, UpInv
    <2>2. RecoveredSpec
      BY RecoveredFacts, Zenon
    <2>3. ASSUME NEW b \in Block PROVE Recovered[b] = home[b]
      <3>1. cache[b] = home[b]
        BY <2>1, Zenon DEF UpInv
      <3>2. CASE b \in Blocks(head)
        <4>1. PICK i \in DOMAIN head : head[i] = b
          BY <3>2, Zenon DEF Blocks
        <4>2. logblk[i] = cache[b]
          BY <2>1, <4>1, Zenon DEF AllCopied
        <4> QED
          BY <2>2, <3>1, <4>1, <4>2, Zenon DEF RecoveredSpec
      <3>3. CASE b \notin Blocks(head)
        BY <2>2, <3>3, Zenon DEF RecoveredSpec
      <3> QED
        BY <3>2, <3>3, Zenon
    <2>4. Recovered = home
      BY <2>2, <2>3 DEF RecoveredSpec, TypeOK
    <2>5. (Recovered = home)'
      <3>1. (TypeOK /\ head = <<>>)'
        BY <2>1, Zenon
      <3> QED
        BY <3>1, RecoveredNoHead, PTL
    <2>6. InOp' = InOp
      BY <1>9, <2>1, Zenon DEF EraseHead, InOp, TypeOK
    <2> QED
      BY <2>1, <2>4, <2>5, <2>6, QuietStep, Zenon DEF View
  <1>10. ASSUME NEW p \in Proc, EndCommit(p) PROVE [Abstract!Next]_(Abstract!vars)
    <2>1. Recovered' = Recovered
      BY <1>10, RecoveredSame, Zenon DEF EndCommit, disk
    <2>2. InOp' = InOp
      BY <1>10, Zenon DEF EndCommit, InOp, WakeAll, TypeOK
    <2> QED
      BY <1>10, <2>1, <2>2, QuietStep, Zenon DEF EndCommit, View
  <1>11. ASSUME NEW b \in Block, Evict(b) PROVE [Abstract!Next]_(Abstract!vars)
    <2>1. Recovered' = Recovered
      BY <1>11, RecoveredSame, Zenon DEF Evict, disk
    <2>2. cache' = cache /\ InOp' = InOp
      BY <1>11, ZenonT(60) DEF Evict, UpInv, TypeOK, InOp
    <2> QED
      BY <1>11, <2>1, <2>2, QuietStep, Zenon DEF Evict, View
  <1>12. CASE Crash
    <2>1. Recovered' = Recovered
      <3>1. head' = head
        BY <1>12, Zenon DEF Crash
      <3>2. \A i \in DOMAIN head : logblk'[i] = logblk[i]
        <4>1. CASE TornLog
          <5>1. PICK p \in Proc : mode = "up" /\ pc[p] = "write_log"
            BY <4>1, Zenon DEF TornLog
          <5>2. \A q \in Proc : pc[q] \notin {"install", "erase"}
            BY <5>1, CommitterAlone, Zenon DEF Committing
          <5>3. head = <<>>
            BY <5>1, <5>2, Zenon DEF UpInv
          <5> QED
            BY <5>3
        <4>2. CASE ~TornLog
          BY <1>12, <4>2, Zenon DEF Crash
        <4> QED
          BY <4>1, <4>2, Zenon
      <3>3. \A b \in Block : b \notin Blocks(head) => home'[b] = home[b]
        <4>1. CASE TornHome
          <5>1. tail \in DOMAIN lh /\ lh = head
            BY <4>1, Zenon DEF TornHome, UpInv, BootInv
          <5>2. lh[tail] \in Blocks(head)
            BY <5>1, Zenon DEF Blocks
          <5> QED
            BY <1>12, <4>1, <5>2, Zenon DEF Crash, TypeOK
        <4>2. CASE ~TornHome
          BY <1>12, <4>2, Zenon DEF Crash
        <4> QED
          BY <4>1, <4>2, Zenon
      <3> QED
        BY <3>1, <3>2, <3>3, RecoveredSame, Zenon
    <2>2. InOp' = {} /\ mode' = "read_head"
      BY <1>12, Zenon DEF Crash, InOp
    <2> QED
      BY <2>1, <2>2, Zenon DEF Abstract!Crash, Abstract!Next
  <1>13. CASE Recover
    <2>1. mode \in {"read_head", "install", "erase"} /\ InOp' = InOp
      BY <1>13, Zenon DEF Recover, ReadHead, RecoverInstall, RecoverErase, InOp
    <2>2. CASE ReadHead
      <3>1. Recovered' = Recovered
        BY <2>2, RecoveredSame, Zenon DEF ReadHead, disk
      <3> QED
        BY <2>1, <2>2, <3>1, QuietStep, Zenon DEF ReadHead, View
    <2>3. CASE RecoverInstall
      <3>1. lh = head /\ tail \in DOMAIN lh /\ UNCHANGED <<logblk, head>>
        BY <2>3, Zenon DEF RecoverInstall, BootInv
      <3>2. Recovered' = Recovered
        BY <2>3, <3>1, RecoveredSame, Zenon DEF RecoverInstall, InstallBlock, Blocks, TypeOK
      <3>3. mode' \in {"install", "erase"}
        BY <2>3, Zenon DEF RecoverInstall
      <3> QED
        BY <2>1, <3>2, <3>3, QuietStep, Zenon DEF View
    <2>4. CASE RecoverErase
      <3>1. /\ lh = head /\ AllCopied(lh, home) /\ cache = home /\ mode' = "up"
            /\ UNCHANGED <<home, cache>> /\ head' = <<>>
        BY <2>4, Zenon DEF RecoverErase, BootInv
      <3>2. RecoveredSpec
        BY RecoveredFacts, Zenon
      <3>3. \A b \in Block : Recovered[b] = home[b]
        BY <3>1, <3>2, SMTT(60) DEF RecoveredSpec, Blocks, AllCopied
      <3>4. Recovered = home
        BY <3>2, <3>3 DEF RecoveredSpec, TypeOK
      <3>5. (Recovered = home)'
        <4>1. (TypeOK /\ head = <<>>)'
          BY <3>1, Zenon
        <4> QED
          BY <4>1, RecoveredNoHead, PTL
      <3> QED
        BY <2>1, <3>1, <3>4, <3>5, QuietStep, Zenon DEF View
    <2> QED
      BY <1>13, <2>2, <2>3, <2>4, Zenon DEF Recover
  <1>14. CASE UNCHANGED vars
    <2>1. Recovered' = Recovered
      BY <1>14, RecoveredSame, Zenon DEF vars
    <2> QED
      BY <1>14, <2>1, QuietStep, Zenon DEF vars, View, InOp
  <1>15. ASSUME NEW p \in Proc, Step(p) PROVE [Abstract!Next]_(Abstract!vars)
    BY <1>15, <1>1, <1>2, <1>3, <1>4, <1>5, <1>6, <1>7, <1>8, <1>9, <1>10, Zenon
       DEF Step, Abstract!Next
  <1> QED
    BY <1>11, <1>12, <1>13, <1>14, <1>15, Zenon DEF Next, Work

\* The log implements the atomic disk: across any crashes and recoveries, the
\* disk contents change by whole groups of finished operations only.
THEOREM LogRefinesAtomicDisk == Spec => RefinesAtomicDisk
  <1>1. Init => Abstract!Init
    <2> SUFFICES ASSUME Init PROVE Abstract!Init
      BY Zenon
    <2>1. Recovered = home
      BY InitInv, RecoveredNoHead, Zenon DEF LogInv, Init
    <2>2. InOp = {} /\ home \in [Block -> Val] /\ mode = "read_head"
      BY Zenon DEF Init, InOp
    <2> QED
      BY <2>1, <2>2, Zenon DEF Abstract!Init
  <1>2. LogInv /\ LogInv' /\ [Next]_vars => [Abstract!Next]_(Abstract!vars)
    BY StepRefines, Zenon
  <1> QED
    BY <1>1, <1>2, InvariantHolds, PTL DEF Spec, RefinesAtomicDisk, Abstract!Spec
=============================================================================
