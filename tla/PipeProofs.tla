----------------------------- MODULE PipeProofs -----------------------------
(***************************************************************************)
(* Proofs about kernel/pipe.c for any number of processes, any ring size   *)
(* and any counter width.                                                  *)
(***************************************************************************)
EXTENDS Pipe, TLAPS

Writing == {"write", "write_checked"}
Reading == {"read", "read_checked", "copy"}

\* Who holds the lock, who sleeps where, and which descriptor let them in.
LockInv ==
  /\ lock # Nobody => pc[lock] \in Writing \cup Reading /\ chan[lock] = "none"
  /\ \A p \in Proc :
       /\ pc[p] \in {"write_checked", "read_checked", "copy"} => lock = p
       /\ chan[p] = "nread" => pc[p] = "read"
       /\ chan[p] = "nwrite" => pc[p] = "write"
       /\ pc[p] \in Writing => "w" \in fds[p]
       /\ pc[p] \in Reading => "r" \in fds[p]
       /\ pc[p] \in {"unborn", "dead"} => fds[p] = {}
       /\ pc[p] = "write_checked" => readopen = 1 /\ left[p] > 0
       /\ pc[p] = "read_checked" => Empty /\ writeopen = 1

\* An end is open exactly as long as somebody has it or is closing it.
OpenInv ==
  /\ writeopen = 1 <=> \E p \in Proc : "w" \in fds[p] \/ pc[p] = "close_w"
  /\ readopen = 1 <=> \E p \in Proc : "r" \in fds[p] \/ pc[p] = "close_r"
  /\ \A p, q \in Proc :
       /\ pc[p] = "close_w" => "w" \notin fds[q] /\ (pc[q] = "close_w" => q = p)
       /\ pc[p] = "close_r" => "r" \notin fds[q] /\ (pc[q] = "close_r" => q = p)
  /\ freed = 1 <=> readopen = 0 /\ writeopen = 0

\* Whoever sleeps has a reason to, or the lock's holder is about to wake it.
SleepInv ==
  \A p \in Proc :
    /\ chan[p] = "nwrite" =>
         readopen = 1 /\ (Full \/ (lock # Nobody /\ pc[lock] = "copy"))
    /\ chan[p] = "nread" =>
         /\ writeopen = 1
         /\ Empty \/ killed # {} \/ (lock # Nobody /\ pc[lock] \in Writing)

PipeInv == TypeOK /\ LockInv /\ OpenInv /\ SleepInv

\* A counter stays a word when it is incremented, and indexes the ring.
LEMMA CounterType ==
  ASSUME NEW c \in 0 .. WORD - 1
  PROVE  (c + 1) % WORD \in 0 .. WORD - 1 /\ c % PIPESIZE \in 0 .. PIPESIZE - 1
<1>1. WORD \in Nat \ {0} /\ PIPESIZE \in Nat \ {0} /\ c \in Nat
  BY PipeAssumption
<1> QED BY <1>1, SMT

\* pipealloc's pipe satisfies the invariant.
LEMMA InitInv == Init => PipeInv
<1> SUFFICES ASSUME Init PROVE PipeInv
  BY Zenon
<1>1. TypeOK
  BY PipeAssumption DEF Init, TypeOK, Inside
<1>2. LockInv /\ SleepInv
  BY <1>1, Zenon DEF Init, LockInv, SleepInv, Writing, Reading
<1>3. OpenInv
  BY <1>1, Zenon DEF Init, OpenInv
<1> QED BY <1>1, <1>2, <1>3 DEF PipeInv

\* Entering pipewrite.
LEMMA WriteCallInv ==
  ASSUME PipeInv, NEW p \in Proc, NEW k \in 0 .. MaxCount, WriteCall(p, k)
  PROVE  PipeInv'
<1> USE DEF WriteCall, pipe, Goto
<1>1. TypeOK' BY PipeAssumption DEF PipeInv, TypeOK, Inside
<1>2. LockInv' BY PipeAssumption DEF PipeInv, TypeOK, LockInv, Writing, Reading, Empty
<1>3. OpenInv' BY DEF PipeInv, TypeOK, OpenInv
<1>4. SleepInv' BY PipeAssumption DEF PipeInv, TypeOK, SleepInv, Full, Empty, Writing
<1> QED BY <1>1, <1>2, <1>3, <1>4 DEF PipeInv

\* The test of readopen and killed.
LEMMA WriteCheckInv ==
  ASSUME PipeInv, NEW p \in Proc, WriteCheck(p)
  PROVE  PipeInv'
<1> USE DEF WriteCheck, At, Return, pipe, Goto
<1>1. TypeOK' BY PipeAssumption, SMTT(60) DEF PipeInv, TypeOK, Inside
<1>2. LockInv' BY PipeAssumption DEF PipeInv, TypeOK, LockInv, Writing, Reading, Empty
<1>3. OpenInv' BY DEF PipeInv, TypeOK, OpenInv
<1>4. SleepInv'
  BY PipeAssumption DEF PipeInv, TypeOK, LockInv, OpenInv, SleepInv, Full, Empty, Writing, Reading
<1> QED BY <1>1, <1>2, <1>3, <1>4 DEF PipeInv

\* A writer goes to sleep on a full ring.
LEMMA WriteSleepInv ==
  ASSUME PipeInv, NEW p \in Proc, WriteSleep(p)
  PROVE  PipeInv'
<1> USE DEF WriteSleep, At, Wakeup, pipe, Goto
<1>1. TypeOK' BY PipeAssumption DEF PipeInv, TypeOK, Inside
<1>2. LockInv' BY PipeAssumption DEF PipeInv, TypeOK, LockInv, Writing, Reading, Empty
<1>3. OpenInv' BY DEF PipeInv, TypeOK, OpenInv
<1>4. SleepInv'
  BY PipeAssumption, Zenon DEF PipeInv, TypeOK, LockInv, SleepInv, Full, Empty, Writing
<1> QED BY <1>1, <1>2, <1>3, <1>4 DEF PipeInv

\* A writer stores a byte.
LEMMA WriteByteInv ==
  ASSUME PipeInv, NEW p \in Proc, NEW b \in Byte, WriteByte(p, b)
  PROVE  PipeInv'
<1> USE DEF WriteByte, At, Goto
<1>0. (nwrite + 1) % WORD \in 0 .. WORD - 1 /\ nwrite % PIPESIZE \in 0 .. PIPESIZE - 1
  BY CounterType, Zenon DEF PipeInv, TypeOK
<1>1. TypeOK' BY <1>0, PipeAssumption DEF PipeInv, LockInv, TypeOK, Inside
<1>2. LockInv' BY PipeAssumption DEF PipeInv, TypeOK, LockInv, Writing, Reading, Empty
<1>3. OpenInv' BY DEF PipeInv, TypeOK, OpenInv
<1>4. \A q \in Proc : chan[q] # "nwrite"
  BY PipeAssumption, Zenon DEF PipeInv, LockInv, SleepInv, Writing
<1>5. SleepInv'
  BY <1>4, PipeAssumption, Zenon DEF PipeInv, TypeOK, LockInv, SleepInv, Full, Empty, Writing
<1> QED BY <1>1, <1>2, <1>3, <1>5 DEF PipeInv

\* A writer leaves the loop and wakes the readers.
LEMMA WriteReturnInv ==
  ASSUME PipeInv, NEW p \in Proc, WriteReturn(p)
  PROVE  PipeInv'
<1> USE DEF WriteReturn, At, Return, Wakeup, pipe, Goto
<1>1. TypeOK' BY PipeAssumption DEF PipeInv, TypeOK, Inside
<1>2. LockInv' BY PipeAssumption DEF PipeInv, TypeOK, LockInv, Writing, Reading, Empty
<1>3. OpenInv' BY DEF PipeInv, TypeOK, OpenInv
<1>4. SleepInv'
  BY PipeAssumption, Zenon DEF PipeInv, TypeOK, LockInv, SleepInv, Full, Empty, Writing
<1> QED BY <1>1, <1>2, <1>3, <1>4 DEF PipeInv

\* Entering piperead.
LEMMA ReadCallInv ==
  ASSUME PipeInv, NEW p \in Proc, NEW k \in 0 .. MaxCount, ReadCall(p, k)
  PROVE  PipeInv'
<1> USE DEF ReadCall, pipe, Goto
<1>1. TypeOK' BY PipeAssumption DEF PipeInv, TypeOK, Inside
<1>2. LockInv' BY PipeAssumption DEF PipeInv, TypeOK, LockInv, Writing, Reading, Empty
<1>3. OpenInv' BY DEF PipeInv, TypeOK, OpenInv
<1>4. SleepInv' BY PipeAssumption DEF PipeInv, TypeOK, SleepInv, Full, Empty, Writing
<1> QED BY <1>1, <1>2, <1>3, <1>4 DEF PipeInv

\* The loop condition of piperead and the test of killed.
LEMMA ReadCheckInv ==
  ASSUME PipeInv, NEW p \in Proc, ReadCheck(p)
  PROVE  PipeInv'
<1> USE DEF ReadCheck, At, Return, pipe, Goto
<1>1. TypeOK' BY PipeAssumption, SMTT(60) DEF PipeInv, TypeOK, Inside
<1>2. LockInv' BY PipeAssumption DEF PipeInv, TypeOK, LockInv, Writing, Reading, Empty
<1>3. OpenInv' BY DEF PipeInv, TypeOK, OpenInv
<1>4. SleepInv'
  BY PipeAssumption, Zenon DEF PipeInv, TypeOK, LockInv, SleepInv, Full, Empty, Writing
<1> QED BY <1>1, <1>2, <1>3, <1>4 DEF PipeInv

\* A reader goes to sleep on an empty ring.
LEMMA ReadSleepInv ==
  ASSUME PipeInv, NEW p \in Proc, ReadSleep(p)
  PROVE  PipeInv'
<1> USE DEF ReadSleep, At, pipe, Goto
<1>1. TypeOK' BY PipeAssumption DEF PipeInv, TypeOK, Inside
<1>2. LockInv' BY PipeAssumption DEF PipeInv, TypeOK, LockInv, Writing, Reading, Empty
<1>3. OpenInv' BY DEF PipeInv, TypeOK, OpenInv
<1>4. SleepInv'
  BY PipeAssumption, Zenon DEF PipeInv, TypeOK, LockInv, SleepInv, Full, Empty, Writing
<1> QED BY <1>1, <1>2, <1>3, <1>4 DEF PipeInv

\* A reader takes a byte.
LEMMA ReadByteInv ==
  ASSUME PipeInv, NEW p \in Proc, ReadByte(p)
  PROVE  PipeInv'
<1> USE DEF ReadByte, At
<1>0. (nread + 1) % WORD \in 0 .. WORD - 1 /\ nread % PIPESIZE \in 0 .. PIPESIZE - 1
  BY CounterType, Zenon DEF PipeInv, TypeOK
<1>1. TypeOK' BY <1>0, PipeAssumption DEF PipeInv, TypeOK, Inside
<1>2. LockInv' BY PipeAssumption DEF PipeInv, TypeOK, LockInv, Writing, Reading, Empty
<1>3. OpenInv' BY DEF PipeInv, TypeOK, OpenInv
<1>4. killed # {} \/ \A q \in Proc : chan[q] # "nread"
  BY PipeAssumption, Zenon DEF PipeInv, TypeOK, SleepInv, Writing, Empty
<1>5. SleepInv'
  BY <1>4, PipeAssumption, Zenon DEF PipeInv, TypeOK, LockInv, SleepInv, Full, Empty, Writing
<1> QED BY <1>1, <1>2, <1>3, <1>5 DEF PipeInv

\* A reader's copyout faults after the byte left the ring.
LEMMA ReadFaultInv ==
  ASSUME PipeInv, NEW p \in Proc, ReadFault(p)
  PROVE  PipeInv'
<1> USE DEF ReadFault, At, Return, Wakeup, Goto
<1>0. (nread + 1) % WORD \in 0 .. WORD - 1
  BY CounterType, Zenon DEF PipeInv, TypeOK
<1>1. TypeOK' BY <1>0, PipeAssumption DEF PipeInv, TypeOK, Inside
<1>2. LockInv' BY PipeAssumption DEF PipeInv, TypeOK, LockInv, Writing, Reading, Empty
<1>3. OpenInv' BY DEF PipeInv, TypeOK, OpenInv
<1>4. killed # {} \/ \A q \in Proc : chan[q] # "nread"
  BY PipeAssumption, Zenon DEF PipeInv, TypeOK, SleepInv, Writing, Empty
<1>5. SleepInv'
  BY <1>4, PipeAssumption, Zenon DEF PipeInv, TypeOK, LockInv, SleepInv, Full, Empty, Writing
<1> QED BY <1>1, <1>2, <1>3, <1>5 DEF PipeInv

\* A reader leaves the loop and wakes the writers.
LEMMA ReadReturnInv ==
  ASSUME PipeInv, NEW p \in Proc, ReadReturn(p)
  PROVE  PipeInv'
<1> USE DEF ReadReturn, At, Return, Wakeup, pipe, Goto
<1>1. TypeOK' BY PipeAssumption DEF PipeInv, TypeOK, Inside
<1>2. LockInv' BY PipeAssumption DEF PipeInv, TypeOK, LockInv, Writing, Reading, Empty
<1>3. OpenInv' BY DEF PipeInv, TypeOK, OpenInv
<1>4. SleepInv'
  BY PipeAssumption, Zenon DEF PipeInv, TypeOK, LockInv, SleepInv, Full, Empty, Writing
<1> QED BY <1>1, <1>2, <1>3, <1>4 DEF PipeInv

\* A woken process takes the lock again.
LEMMA ReacquireInv ==
  ASSUME PipeInv, NEW p \in Proc, Reacquire(p)
  PROVE  PipeInv'
<1> USE DEF Reacquire, pipe
<1>1. TypeOK' BY PipeAssumption DEF PipeInv, TypeOK, Inside
<1>2. LockInv' BY PipeAssumption DEF PipeInv, TypeOK, LockInv, Writing, Reading, Empty
<1>3. OpenInv' BY DEF PipeInv, TypeOK, OpenInv
<1>4. SleepInv' BY PipeAssumption DEF PipeInv, TypeOK, SleepInv, Full, Empty, Writing
<1> QED BY <1>1, <1>2, <1>3, <1>4 DEF PipeInv

\* A descriptor is closed; the last one leads into pipeclose.
LEMMA CloseFdInv ==
  ASSUME PipeInv, NEW p \in Proc, NEW e \in {"r", "w"}, CloseFd(p, e)
  PROVE  PipeInv'
<1> USE DEF CloseFd, pipe, Goto
<1>1. TypeOK' BY PipeAssumption DEF PipeInv, TypeOK, Inside
<1>2. LockInv' BY PipeAssumption DEF PipeInv, TypeOK, LockInv, Writing, Reading, Empty
<1>3. ASSUME Holders(e) = {p} PROVE OpenInv'
  <2>1. \A q \in Proc : e \in fds[q] <=> q = p
    BY <1>3, Zenon DEF Holders
  <2> QED BY <1>3, <2>1 DEF PipeInv, TypeOK, OpenInv
<1>4. ASSUME Holders(e) # {p} PROVE OpenInv'
  <2>1. PICK q \in Proc : q # p /\ e \in fds[q]
    BY <1>4, Zenon DEF Holders
  <2> QED BY <1>4, <2>1 DEF PipeInv, TypeOK, OpenInv
<1>5. SleepInv' BY PipeAssumption DEF PipeInv, TypeOK, LockInv, SleepInv, Full, Empty, Writing, Reading
<1> QED BY <1>1, <1>2, <1>3, <1>4, <1>5 DEF PipeInv

\* pipeclose closes an end, wakes the other side and may free the page.
LEMMA PipeCloseInv ==
  ASSUME PipeInv, NEW p \in Proc, PipeClose(p)
  PROVE  PipeInv'
<1> USE DEF PipeClose, Wakeup, Goto
<1>0. freed = 0 /\ (pc[p] = "close_w" => writeopen = 1) /\ (pc[p] = "close_r" => readopen = 1)
  BY DEF PipeInv, TypeOK, OpenInv
<1>1. TypeOK' BY <1>0, PipeAssumption DEF PipeInv, TypeOK, Inside
<1>2. LockInv' BY PipeAssumption DEF PipeInv, TypeOK, LockInv, OpenInv, Writing, Reading, Empty
<1>3. OpenInv' BY <1>0 DEF PipeInv, TypeOK, OpenInv
<1>4. SleepInv' BY PipeAssumption DEF PipeInv, TypeOK, LockInv, SleepInv, Full, Empty, Writing
<1> QED BY <1>1, <1>2, <1>3, <1>4 DEF PipeInv

\* A process without descriptors exits.
LEMMA ExitInv ==
  ASSUME PipeInv, NEW p \in Proc, Exit(p)
  PROVE  PipeInv'
<1> USE DEF Exit, pipe, Goto
<1>1. TypeOK' BY PipeAssumption DEF PipeInv, TypeOK, Inside
<1>2. LockInv' BY PipeAssumption DEF PipeInv, TypeOK, LockInv, Writing, Reading, Empty
<1>3. OpenInv' BY DEF PipeInv, TypeOK, LockInv, OpenInv
<1>4. SleepInv' BY PipeAssumption DEF PipeInv, TypeOK, LockInv, SleepInv, Full, Empty, Writing, Reading
<1> QED BY <1>1, <1>2, <1>3, <1>4 DEF PipeInv

\* A process is killed, and woken if it sleeps.
LEMMA KillInv ==
  ASSUME PipeInv, NEW p \in Proc, Kill(p)
  PROVE  PipeInv'
<1> USE DEF Kill, pipe, Goto
<1>1. TypeOK' BY PipeAssumption DEF PipeInv, TypeOK, Inside
<1>2. LockInv' BY PipeAssumption DEF PipeInv, TypeOK, LockInv, Writing, Reading, Empty
<1>3. OpenInv' BY DEF PipeInv, TypeOK, LockInv, OpenInv
<1>4. SleepInv' BY PipeAssumption DEF PipeInv, TypeOK, LockInv, SleepInv, Full, Empty, Writing, Reading
<1> QED BY <1>1, <1>2, <1>3, <1>4 DEF PipeInv

\* A child inherits the descriptors.
LEMMA ForkInv ==
  ASSUME PipeInv, NEW p \in Proc, NEW q \in Proc, Fork(p, q)
  PROVE  PipeInv'
<1> USE DEF Fork, pipe, Goto
<1>1. TypeOK' BY PipeAssumption DEF PipeInv, TypeOK, Inside
<1>2. LockInv' BY PipeAssumption DEF PipeInv, TypeOK, LockInv, Writing, Reading, Empty
<1>3. OpenInv' BY DEF PipeInv, TypeOK, LockInv, OpenInv
<1>4. SleepInv' BY PipeAssumption DEF PipeInv, TypeOK, LockInv, SleepInv, Full, Empty, Writing, Reading
<1> QED BY <1>1, <1>2, <1>3, <1>4 DEF PipeInv

\* Nothing happens.
LEMMA StutterInv == PipeInv /\ UNCHANGED vars => PipeInv'
  BY DEF vars, PipeInv, TypeOK, LockInv, OpenInv, SleepInv, Full, Empty

\* Every step of every process preserves the invariant.
LEMMA NextInv == PipeInv /\ [Next]_vars => PipeInv'
<1> SUFFICES ASSUME PipeInv, [Next]_vars PROVE PipeInv'
  BY Zenon
<1>1. CASE \E p \in Proc : Syscall(p)
  BY <1>1, WriteCheckInv, WriteSleepInv, WriteByteInv, WriteReturnInv, ReadCheckInv,
     ReadSleepInv, ReadByteInv, ReadFaultInv, ReadReturnInv, Zenon DEF Syscall
<1>2. CASE \E p \in Proc : UserStep(p)
  BY <1>2, WriteCallInv, ReadCallInv, CloseFdInv, ForkInv, ExitInv, Zenon DEF UserStep
<1>3. CASE \E p \in Proc : Reacquire(p) \/ PipeClose(p) \/ Kill(p)
  BY <1>3, ReacquireInv, PipeCloseInv, KillInv, Zenon
<1>4. CASE UNCHANGED vars
  BY <1>4, StutterInv, Zenon
<1> QED BY <1>1, <1>2, <1>3, <1>4 DEF Next, Over

\* The invariant holds throughout.
THEOREM InvariantHolds == Spec => []PipeInv
  BY InitInv, NextInv, PTL DEF Spec

\* Type correctness: indices stay inside the ring, the page is freed once.
THEOREM TypeCorrect == Spec => []TypeOK
<1>1. PipeInv => TypeOK
  BY Zenon DEF PipeInv
<1> QED BY <1>1, InvariantHolds, PTL

\* After kfree(pi) no process is inside the pipe code or can enter it.
THEOREM NeverUsedAfterFree == Spec => []NoUseAfterFree
<1>1. PipeInv => NoUseAfterFree
  <2> SUFFICES ASSUME PipeInv, freed > 0 PROVE NoUseAfterFree
    BY Zenon DEF NoUseAfterFree
  <2>1. readopen = 0 /\ writeopen = 0
    BY DEF PipeInv, TypeOK, OpenInv
  <2>2. readopen # 1 /\ writeopen # 1
    BY <2>1
  <2>3. \A p \in Proc : pc[p] \notin {"close_r", "close_w"} /\ "r" \notin fds[p] /\ "w" \notin fds[p]
    BY <2>2, Zenon DEF PipeInv, OpenInv
  <2>4. \A p \in Proc : fds[p] = {} /\ pc[p] \notin Writing \cup Reading
    BY <2>3, ZenonT(60) DEF PipeInv, TypeOK, LockInv
  <2>5. lock = Nobody
    BY <2>4, Zenon DEF PipeInv, TypeOK, LockInv
  <2> QED BY <2>3, <2>4, <2>5 DEF NoUseAfterFree, Inside, Writing, Reading
<1> QED BY <1>1, InvariantHolds, PTL

\* A writer asleep while nobody holds the lock faces a full, readable pipe.
THEOREM WritersSleepOnFull == Spec => []WriterSleepsOnFull
<1>1. PipeInv => WriterSleepsOnFull
  BY Zenon DEF PipeInv, SleepInv, WriterSleepsOnFull
<1> QED BY <1>1, InvariantHolds, PTL

\* A reader asleep while nobody holds the lock faces a writable pipe, empty
\* unless a process was killed.
THEOREM ReadersSleepOnEmpty == Spec => []ReaderSleepsOnEmpty
<1>1. PipeInv => ReaderSleepsOnEmpty
  BY Zenon DEF PipeInv, SleepInv, ReaderSleepsOnEmpty
<1> QED BY <1>1, InvariantHolds, PTL

(***************************************************************************)
(* The ring as a queue.  The counters are words, but behind them are two   *)
(* numbers that only grow, r bytes read and w written, at most PIPESIZE    *)
(* apart: the queue is what lies between them.                             *)
(***************************************************************************)
Ring == INSTANCE Rings
Sequence == INSTANCE SequenceTheorems

\* The n bytes that follow the first s in the ring d.
Slice(d, s, n) == [k \in 1 .. n |-> d[(s + k - 1) % PIPESIZE]]

\* The words nr and nw stand for r and w.
Words(nr, nw, r, w) ==
  /\ nr = r % WORD /\ nw = w % WORD
  /\ r <= w /\ w <= r + PIPESIZE

CountInv == \E r, w \in Nat : Words(nread, nwrite, r, w)

\* A slice is a sequence of bytes.
LEMMA SliceSeq ==
  ASSUME NEW d \in [0 .. PIPESIZE - 1 -> Byte], NEW s \in Nat, NEW n \in Nat
  PROVE  /\ Slice(d, s, n) \in Seq(Byte)
         /\ Len(Slice(d, s, n)) = n
         /\ \A k \in 1 .. n : Slice(d, s, n)[k] = d[(s + k - 1) % PIPESIZE]
<1>1. ASSUME NEW k \in 1 .. n PROVE d[(s + k - 1) % PIPESIZE] \in Byte
  <2>1. s + k - 1 \in Nat /\ PIPESIZE \in Nat \ {0}
    BY PipeAssumption
  <2>2. (s + k - 1) % PIPESIZE \in 0 .. PIPESIZE - 1
    BY <2>1
  <2> QED BY <2>2, Zenon
<1>2. Slice(d, s, n) \in [1 .. n -> Byte]
  BY <1>1, Zenon DEF Slice
<1>3. Slice(d, s, n) \in Seq(Byte)
  BY <1>2
<1>4. DOMAIN Slice(d, s, n) = 1 .. n
  BY Zenon DEF Slice
<1>5. Len(Slice(d, s, n)) \in Nat /\ DOMAIN Slice(d, s, n) = 1 .. Len(Slice(d, s, n))
  BY <1>3, Sequence!LenProperties, Zenon
<1>6. Len(Slice(d, s, n)) = n
  BY <1>4, <1>5
<1>7. \A k \in 1 .. n : Slice(d, s, n)[k] = d[(s + k - 1) % PIPESIZE]
  BY Zenon DEF Slice
<1> QED BY <1>3, <1>6, <1>7, Zenon

\* The slice of no bytes.
LEMMA SliceEmpty ==
  ASSUME NEW d \in [0 .. PIPESIZE - 1 -> Byte], NEW s \in Nat, NEW n \in Nat
  PROVE  Slice(d, s, n) = <<>> <=> n = 0
<1> DEFINE q == Slice(d, s, n)
<1>1. q \in Seq(Byte) /\ Len(q) = n
  BY SliceSeq, Zenon
<1>2. <<>> \in Seq(Byte) /\ Len(<<>>) = 0
  BY Sequence!EmptySeq, Zenon
<1>3. q # <<>> => Len(q) \in Nat \ {0}
  BY <1>1, Sequence!EmptySeq, Zenon
<1> HIDE DEF q
<1>4. q = <<>> <=> n = 0
  BY <1>1, <1>2, <1>3, Zenon
<1> QED BY <1>4, Zenon DEF q

\* Storing a byte behind a slice that does not fill the ring appends it.
LEMMA SlicePut ==
  ASSUME NEW d \in [0 .. PIPESIZE - 1 -> Byte], NEW s \in Nat, NEW n \in Nat,
         n < PIPESIZE, NEW b \in Byte
  PROVE  Slice([d EXCEPT ![(s + n) % PIPESIZE] = b], s, n + 1) = Append(Slice(d, s, n), b)
<1> DEFINE c == (s + n) % PIPESIZE
           e == [d EXCEPT ![c] = b]
           q == Slice(d, s, n)
           t == Slice(e, s, n + 1)
<1>1. c \in 0 .. PIPESIZE - 1 /\ n + 1 \in Nat /\ PIPESIZE \in Nat \ {0}
  BY PipeAssumption
<1>2. e \in [0 .. PIPESIZE - 1 -> Byte]
  BY <1>1, Zenon
<1>e. e[c] = b /\ \A x \in 0 .. PIPESIZE - 1 : x # c => e[x] = d[x]
  BY <1>1, Zenon
<1>c. c = (s + n) % PIPESIZE
  BY Zenon
<1>3. q \in Seq(Byte) /\ Len(q) = n /\ \A k \in 1 .. n : q[k] = d[(s + k - 1) % PIPESIZE]
  BY SliceSeq, Zenon
<1> HIDE DEF c, e
<1>4. t \in Seq(Byte) /\ Len(t) = n + 1 /\ \A k \in 1 .. n + 1 : t[k] = e[(s + k - 1) % PIPESIZE]
  BY <1>1, <1>2, SliceSeq, Zenon
<1>5. ASSUME NEW k \in 1 .. n PROVE t[k] = q[k]
  <2>1. s + k - 1 \in Nat /\ s + n \in Nat /\ s + k - 1 < s + n /\ s + n < s + k - 1 + PIPESIZE
    BY PipeAssumption
  <2>2. (s + k - 1) % PIPESIZE # c
    BY <1>1, <1>c, <2>1, Ring!ModApart, Zenon
  <2>3. (s + k - 1) % PIPESIZE \in 0 .. PIPESIZE - 1
    BY <1>1, <2>1
  <2>4. k \in 1 .. n + 1
    OBVIOUS
  <2> QED BY <1>e, <1>3, <1>4, <2>2, <2>3, <2>4, Zenon
<1>6. t[n + 1] = b
  <2>1. n + 1 \in 1 .. n + 1 /\ s + (n + 1) - 1 = s + n
    OBVIOUS
  <2> QED BY <1>e, <1>c, <1>4, <2>1, Zenon
<1> HIDE DEF t, q
<1>7. Append(q, b) \in Seq(Byte) /\ Len(Append(q, b)) = n + 1
      /\ \A k \in 1 .. n + 1 : Append(q, b)[k] = IF k = n + 1 THEN b ELSE q[k]
  BY <1>3
<1>8. ASSUME NEW k \in 1 .. n + 1 PROVE t[k] = Append(q, b)[k]
  <2>1. k \in 1 .. n \/ k = n + 1
    OBVIOUS
  <2>2. n + 1 \notin 1 .. n
    OBVIOUS
  <2> QED BY <1>5, <1>6, <1>7, <2>1, <2>2, Zenon
<1>9. t = Append(q, b)
  BY <1>4, <1>7, <1>8, Sequence!SeqEqual, Zenon
<1> QED BY <1>9, Zenon DEF t, q, e, c

\* Counting one byte more as read takes the head off.
LEMMA SliceGet ==
  ASSUME NEW d \in [0 .. PIPESIZE - 1 -> Byte], NEW s \in Nat, NEW n \in Nat, n > 0
  PROVE  /\ Head(Slice(d, s, n)) = d[s % PIPESIZE]
         /\ Slice(d, s + 1, n - 1) = Tail(Slice(d, s, n))
<1> DEFINE q == Slice(d, s, n)
           t == Slice(d, s + 1, n - 1)
<1>1. n - 1 \in Nat /\ s + 1 \in Nat
  OBVIOUS
<1>2. q \in Seq(Byte) /\ Len(q) = n /\ \A k \in 1 .. n : q[k] = d[(s + k - 1) % PIPESIZE]
  BY SliceSeq, Zenon
<1>3. t \in Seq(Byte) /\ Len(t) = n - 1 /\ \A k \in 1 .. n - 1 : t[k] = d[(s + 1 + k - 1) % PIPESIZE]
  BY <1>1, SliceSeq, Zenon
<1>4. q # <<>>
  BY SliceEmpty
<1>5. q[1] = d[s % PIPESIZE]
  <2>1. 1 \in 1 .. n /\ s + 1 - 1 = s
    OBVIOUS
  <2> QED BY <1>2, <2>1, Zenon
<1>6. ASSUME NEW k \in 1 .. n - 1 PROVE t[k] = q[k + 1]
  <2>1. k + 1 \in 1 .. n /\ s + 1 + k - 1 = s + (k + 1) - 1
    OBVIOUS
  <2> QED BY <1>2, <1>3, <2>1, Zenon
<1> HIDE DEF q, t
<1>7. Head(q) = q[1]
  BY <1>2, <1>4
<1>8. Tail(q) \in Seq(Byte) /\ Len(Tail(q)) = Len(q) - 1
      /\ \A k \in 1 .. Len(Tail(q)) : Tail(q)[k] = q[k + 1]
  BY <1>2, <1>4, Sequence!HeadTailProperties, Zenon
<1>9. t = Tail(q)
  BY <1>2, <1>3, <1>6, <1>8, Sequence!SeqEqual, Zenon
<1> QED BY <1>5, <1>7, <1>9, Zenon DEF q, t

\* WORD is a multiple of PIPESIZE: a counter's word points to the counter's cell.
LEMMA SameCell ==
  ASSUME NEW x \in Nat, NEW j \in Nat
  PROVE  ((x % WORD) + j) % PIPESIZE = (x + j) % PIPESIZE
<1>1. WORD \in Nat \ {0} /\ WORD % PIPESIZE = 0
  BY PipeAssumption
<1>2. PIPESIZE \in Nat \ {0}
  BY PipeAssumption, Zenon
<1>3. \A m \in Nat \ {0} : m % PIPESIZE = 0 => ((x % m) + j) % PIPESIZE = (x + j) % PIPESIZE
  BY <1>2, Ring!AddMod, Zenon
<1> QED BY <1>1, <1>3, Zenon

\* The counters' difference as words is the number of bytes in the ring.
LEMMA WordDifference ==
  ASSUME NEW r \in Nat, NEW w \in Nat, r <= w, w <= r + PIPESIZE
  PROVE  ((w % WORD) - (r % WORD)) % WORD = w - r
<1> DEFINE a == r % WORD
           b == w % WORD
<1>1. WORD \in Nat \ {0} /\ PIPESIZE \in Nat /\ PIPESIZE < WORD
  BY PipeAssumption
<1>2. a \in 0 .. WORD - 1 /\ b \in 0 .. WORD - 1
  BY <1>1
<1>3. PICK i \in Nat : r = WORD * i + a
  BY <1>1, Ring!DivMod, Zenon
<1>4. PICK k \in Nat : w = WORD * k + b
  BY <1>1, Ring!DivMod, Zenon
<1> HIDE DEF a, b
<1>5. w - r = WORD * (k - i) + (b - a)
  <2>1. WORD * (k - i) = WORD * k - WORD * i /\ WORD * k \in Int /\ WORD * i \in Int
    BY <1>1
  <2> QED BY <1>2, <1>3, <1>4, <2>1
<1>6. w - r \in 0 .. WORD - 1
  BY <1>1
<1>7. k - i = 0 \/ k - i = 1
  <2>1. ASSUME k - i <= 0 - 1 PROVE FALSE
    <3>1. WORD * (k - i) <= WORD * (0 - 1)
      BY <1>1, <2>1
    <3>2. WORD * (k - i) \in Int /\ WORD * (0 - 1) = 0 - WORD
      BY <1>1
    <3> QED BY <1>1, <1>2, <1>5, <1>6, <3>1, <3>2
  <2>2. ASSUME k - i >= 2 PROVE FALSE
    <3>1. WORD * (k - i) >= WORD * 2
      BY <1>1, <2>2
    <3>2. WORD * (k - i) \in Int
      BY <1>1
    <3> QED BY <1>1, <1>2, <1>5, <1>6, <3>1, <3>2
  <2>3. k - i \in Int
    OBVIOUS
  <2> QED BY <2>1, <2>2, <2>3
<1>8. CASE k - i = 0
  <2>1. b - a = w - r
    BY <1>1, <1>2, <1>5, <1>8
  <2>2. (WORD * 0 + (w - r)) % WORD = w - r
    BY <1>1, <1>6, Ring!ModUnique, Zenon
  <2>3. WORD * 0 + (w - r) = w - r
    BY <1>1
  <2> QED BY <2>1, <2>2, <2>3, Zenon DEF a, b
<1>9. CASE k - i = 1
  <2>1. b - a = (w - r) - WORD
    BY <1>1, <1>2, <1>5, <1>9
  <2>2. ((w - r) - WORD) % WORD = w - r
    BY <1>1, <1>6
  <2> QED BY <2>1, <2>2, Zenon DEF a, b
<1> QED BY <1>7, <1>8, <1>9, Zenon

\* What the words delimit in the ring d is the slice from r to w.
LEMMA QueueSlice ==
  ASSUME NEW d, NEW nr, NEW nw, NEW r \in Nat, NEW w \in Nat, Words(nr, nw, r, w)
  PROVE  /\ w - r \in 0 .. PIPESIZE
         /\ [k \in 1 .. (nw - nr) % WORD |-> d[(nr + k - 1) % PIPESIZE]]
              = Slice(d, r, w - r)
<1>0. r <= w /\ w <= r + PIPESIZE /\ nr = r % WORD /\ nw = w % WORD
  BY Zenon DEF Words
<1>1. (nw - nr) % WORD = w - r
  BY <1>0, WordDifference, Zenon
<1>2. ASSUME NEW k \in 1 .. w - r
      PROVE  (nr + k - 1) % PIPESIZE = (r + k - 1) % PIPESIZE
  <2>1. nr + k - 1 = (r % WORD) + (k - 1) /\ r + k - 1 = r + (k - 1) /\ k - 1 \in Nat
    <3>1. nr \in Nat /\ k \in Nat /\ k >= 1
      BY <1>0, PipeAssumption
    <3> QED BY <1>0, <3>1
  <2>2. ((r % WORD) + (k - 1)) % PIPESIZE = (r + (k - 1)) % PIPESIZE
    BY <2>1, SameCell, Zenon
  <2> QED BY <2>1, <2>2, Zenon
<1>3. [k \in 1 .. w - r |-> d[(nr + k - 1) % PIPESIZE]]
        = [k \in 1 .. w - r |-> d[(r + k - 1) % PIPESIZE]]
  BY <1>2, Zenon
<1>4. w - r \in 0 .. PIPESIZE
  BY <1>0, PipeAssumption
<1> QED BY <1>1, <1>3, <1>4, Zenon DEF Slice

(***************************************************************************)
(* The refinement of ByteQueue.                                            *)
(***************************************************************************)
\* What the queue is before and after a step.
LEMMA QueueNow ==
  ASSUME NEW r \in Nat, NEW w \in Nat
  PROVE  /\ Words(nread, nwrite, r, w) => Queue = Slice(data, r, w - r)
         /\ Words(nread', nwrite', r, w) => Queue' = Slice(data', r, w - r)
<1>1. Words(nread, nwrite, r, w) => Queue = Slice(data, r, w - r)
  BY QueueSlice, Zenon DEF Queue, Count
<1>2. Words(nread', nwrite', r, w) => Queue' = Slice(data', r, w - r)
  BY QueueSlice, Zenon DEF Queue, Count
<1> QED BY <1>1, <1>2, Zenon

\* A step that leaves the ring, the counters, the ends, the page and the last
\* byte delivered alone does nothing to the queue.
Quiet == UNCHANGED <<data, nread, nwrite, readopen, writeopen, freed, out>>

LEMMA QuietStep ==
  ASSUME CountInv, Quiet
  PROVE  CountInv' /\ UNCHANGED Abstract!vars
<1>1. CountInv'
  BY Zenon DEF CountInv, Quiet
<1>2. Queue' = Queue
  BY Zenon DEF Queue, Count, Quiet
<1> QED BY <1>1, <1>2, Zenon DEF Quiet, Abstract!vars

\* A writer's byte is put into a queue that has room.
LEMMA PutStep ==
  ASSUME PipeInv, CountInv, NEW p \in Proc, NEW b \in Byte, WriteByte(p, b)
  PROVE  CountInv' /\ Abstract!Put(b)
<1>0. WORD \in Nat \ {0} /\ PIPESIZE \in Nat \ {0} /\ WORD % PIPESIZE = 0 /\ PIPESIZE < WORD
  BY PipeAssumption
<1>1. PICK r \in Nat, w \in Nat : Words(nread, nwrite, r, w)
  BY Zenon DEF CountInv
<1>2. nread = r % WORD /\ nwrite = w % WORD /\ r <= w /\ w <= r + PIPESIZE
  BY <1>1, Zenon DEF Words
<1>3. ~Full /\ data' = [data EXCEPT ![nwrite % PIPESIZE] = b] /\ nwrite' = (nwrite + 1) % WORD
      /\ UNCHANGED <<nread, readopen, writeopen, freed, out>> /\ pc[p] = "write_checked"
  BY Zenon DEF WriteByte, At
<1>4. data \in [0 .. PIPESIZE - 1 -> Byte] /\ readopen = 1 /\ writeopen = 1 /\ freed = 0
  <2>1. "w" \in fds[p] /\ readopen = 1
    BY <1>3, Zenon DEF PipeInv, LockInv, Writing
  <2>2. writeopen = 1
    BY <2>1, Zenon DEF PipeInv, OpenInv
  <2>3. freed \in 0 .. 1 /\ (freed = 1 => writeopen = 0)
    BY Zenon DEF PipeInv, TypeOK, OpenInv
  <2>4. freed = 0
    BY <2>2, <2>3
  <2>5. data \in [0 .. PIPESIZE - 1 -> Byte]
    BY Zenon DEF PipeInv, TypeOK
  <2> QED BY <2>1, <2>2, <2>4, <2>5, Zenon
<1>5. w < r + PIPESIZE
  <2>1. WORD % WORD = 0
    BY <1>0
  <2>2. ((r % WORD) + PIPESIZE) % WORD = (r + PIPESIZE) % WORD
    BY <1>0, <2>1, Ring!AddMod, Zenon
  <2>3. w # r + PIPESIZE
    BY <1>2, <1>3, <2>2, Zenon DEF Full
  <2> QED BY <1>0, <1>2, <2>3
<1>6. Words(nread', nwrite', r, w + 1) /\ w + 1 \in Nat
  <2>1. nwrite' = (w + 1) % WORD
    BY <1>0, <1>2, <1>3, Ring!NextMod, Zenon
  <2>2. r <= w + 1 /\ w + 1 <= r + PIPESIZE /\ w + 1 \in Nat
    BY <1>0, <1>2, <1>5
  <2> QED BY <1>2, <1>3, <2>1, <2>2, Zenon DEF Words
<1>7. CountInv'
  BY <1>6, Zenon DEF CountInv
<1>8. Queue = Slice(data, r, w - r) /\ Queue' = Slice(data', r, (w + 1) - r)
  BY <1>1, <1>6, QueueNow, Zenon
<1>9. nwrite % PIPESIZE = w % PIPESIZE
  BY <1>0, <1>2, Ring!ModMod, Zenon
<1>10. w - r \in Nat /\ w - r < PIPESIZE /\ r + (w - r) = w /\ (w + 1) - r = (w - r) + 1
  BY <1>0, <1>2, <1>5
<1>11. Slice([data EXCEPT ![(r + (w - r)) % PIPESIZE] = b], r, (w - r) + 1)
         = Append(Slice(data, r, w - r), b)
  BY <1>4, <1>10, SlicePut, Zenon
<1>12. Queue' = Append(Queue, b)
  BY <1>3, <1>8, <1>9, <1>10, <1>11, Zenon
<1>13. Len(Queue) < PIPESIZE
  <2>1. Len(Queue) = w - r
    BY <1>4, <1>8, <1>10, SliceSeq, Zenon
  <2> QED BY <1>10, <2>1, Zenon
<1> QED BY <1>3, <1>4, <1>7, <1>12, <1>13, Zenon DEF Abstract!Put

\* A reader that counts a byte as read takes the head of the queue.
LEMMA TakeStep ==
  ASSUME PipeInv, CountInv, NEW p \in Proc, pc[p] = "copy", ~Empty,
         nread' = (nread + 1) % WORD,
         UNCHANGED <<data, nwrite, readopen, writeopen, freed>>
  PROVE  /\ CountInv'
         /\ readopen = 1 /\ freed = 0 /\ Queue # <<>>
         /\ Head(Queue) = data[nread % PIPESIZE]
         /\ Queue' = Tail(Queue)
<1>0. WORD \in Nat \ {0} /\ PIPESIZE \in Nat \ {0} /\ WORD % PIPESIZE = 0 /\ PIPESIZE < WORD
  BY PipeAssumption
<1>1. PICK r \in Nat, w \in Nat : Words(nread, nwrite, r, w)
  BY Zenon DEF CountInv
<1>2. nread = r % WORD /\ nwrite = w % WORD /\ r <= w /\ w <= r + PIPESIZE
  BY <1>1, Zenon DEF Words
<1>3. data \in [0 .. PIPESIZE - 1 -> Byte] /\ readopen = 1 /\ freed = 0
  <2>1. "r" \in fds[p]
    BY Zenon DEF PipeInv, LockInv, Reading
  <2>2. readopen = 1
    BY <2>1, Zenon DEF PipeInv, OpenInv
  <2>3. freed \in 0 .. 1 /\ (freed = 1 => readopen = 0)
    BY Zenon DEF PipeInv, TypeOK, OpenInv
  <2>4. freed = 0
    BY <2>2, <2>3
  <2>5. data \in [0 .. PIPESIZE - 1 -> Byte]
    BY Zenon DEF PipeInv, TypeOK
  <2> QED BY <2>2, <2>4, <2>5, Zenon
<1>4. r < w
  <2>1. r # w
    BY <1>2, Zenon DEF Empty
  <2> QED BY <1>2, <2>1
<1>5. Words(nread', nwrite', r + 1, w) /\ r + 1 \in Nat
  <2>1. nread' = (r + 1) % WORD
    BY <1>0, <1>2, Ring!NextMod, Zenon
  <2>2. r + 1 <= w /\ w <= (r + 1) + PIPESIZE /\ r + 1 \in Nat
    BY <1>0, <1>2, <1>4
  <2> QED BY <1>2, <2>1, <2>2, Zenon DEF Words
<1>6. CountInv'
  BY <1>5, Zenon DEF CountInv
<1>7. Queue = Slice(data, r, w - r) /\ Queue' = Slice(data', r + 1, w - (r + 1))
  BY <1>1, <1>5, QueueNow, Zenon
<1>8. nread % PIPESIZE = r % PIPESIZE
  BY <1>0, <1>2, Ring!ModMod, Zenon
<1>9. w - r \in Nat /\ w - r > 0 /\ w - r # 0 /\ w - (r + 1) = (w - r) - 1
  BY <1>4
<1>10. /\ Head(Slice(data, r, w - r)) = data[r % PIPESIZE]
       /\ Slice(data, r + 1, (w - r) - 1) = Tail(Slice(data, r, w - r))
  BY <1>3, <1>9, SliceGet, Zenon
<1>11. Slice(data, r, w - r) # <<>>
  BY <1>3, <1>9, SliceEmpty, Zenon
<1>12. Head(Queue) = data[r % PIPESIZE] /\ Queue' = Tail(Queue) /\ Queue # <<>>
  BY <1>7, <1>9, <1>10, <1>11, Zenon
<1> QED BY <1>3, <1>6, <1>8, <1>12, Zenon

\* Closing an end; the second close empties the queue.
LEMMA CloseStep ==
  ASSUME PipeInv, CountInv, NEW p \in Proc, PipeClose(p)
  PROVE  CountInv' /\ Abstract!Close
<1>1. UNCHANGED <<data, nread, nwrite, out>>
  BY Zenon DEF PipeClose
<1>2. CountInv' /\ Queue' = Queue
  BY <1>1, Zenon DEF CountInv, Queue, Count
<1>3. \/ writeopen = 1 /\ writeopen' = 0 /\ UNCHANGED readopen
      \/ readopen = 1 /\ readopen' = 0 /\ UNCHANGED writeopen
  <2>1. CASE pc[p] = "close_w"
    BY <2>1, Zenon DEF PipeClose, PipeInv, OpenInv
  <2>2. CASE pc[p] = "close_r"
    <3>1. readopen = 1
      BY <2>2, Zenon DEF PipeInv, OpenInv
    <3>2. pc[p] # "close_w"
      BY <2>2, Zenon
    <3> QED BY <3>1, <3>2, Zenon DEF PipeClose
  <2> QED BY <2>1, <2>2, Zenon DEF PipeClose
<1>4. freed = 0
  <2>1. freed \in 0 .. 1 /\ (freed = 1 => readopen = 0 /\ writeopen = 0)
    BY Zenon DEF PipeInv, TypeOK, OpenInv
  <2> QED BY <1>3, <2>1
<1>5. freed' = IF readopen' = 0 /\ writeopen' = 0 THEN 1 ELSE 0
  BY <1>4 DEF PipeClose
<1>6. (IF freed' = 0 THEN Queue' ELSE <<>>) = IF readopen' = 0 /\ writeopen' = 0 THEN <<>> ELSE Queue
  BY <1>2, <1>5
<1> QED BY <1>1, <1>2, <1>3, <1>4, <1>6, Zenon DEF Abstract!Close

\* The new pipe is an empty queue.
LEMMA InitQueue == Init => CountInv /\ Abstract!Init
<1> SUFFICES ASSUME Init PROVE CountInv /\ Abstract!Init
  BY Zenon
<1>1. data \in [0 .. PIPESIZE - 1 -> Byte] /\ nread = 0 /\ nwrite = 0 /\ readopen = 1
      /\ writeopen = 1 /\ freed = 0 /\ out \in Byte
  BY Zenon DEF Init
<1>2. 0 % WORD = 0 /\ 0 <= 0 /\ 0 <= 0 + PIPESIZE /\ 0 - 0 = 0 /\ 0 \in Nat
  BY PipeAssumption
<1>3. Words(nread, nwrite, 0, 0)
  BY <1>1, <1>2, Zenon DEF Words
<1>4. Queue = Slice(data, 0, 0 - 0)
  BY <1>2, <1>3, QueueNow, Zenon
<1>5. Slice(data, 0, 0) = <<>>
  BY <1>1, <1>2, SliceEmpty, Zenon
<1>6. Queue = <<>>
  BY <1>2, <1>4, <1>5, Zenon
<1> QED BY <1>1, <1>2, <1>3, <1>6, Zenon DEF CountInv, Abstract!Init

\* Every step of every process is a step of the queue or none.
LEMMA QueueStep == PipeInv /\ CountInv /\ [Next]_vars => CountInv' /\ [Abstract!Next]_(Abstract!vars)
<1> SUFFICES ASSUME PipeInv, CountInv, [Next]_vars
             PROVE  CountInv' /\ [Abstract!Next]_(Abstract!vars)
  BY Zenon
<1>1. ASSUME NEW p \in Proc, NEW b \in Byte, WriteByte(p, b)
      PROVE  CountInv' /\ Abstract!Next
  BY <1>1, PutStep, Zenon DEF Abstract!Next
<1>2. ASSUME NEW p \in Proc, ReadByte(p)
      PROVE  CountInv' /\ Abstract!Next
  <2>1. pc[p] = "copy" /\ ~Empty /\ nread' = (nread + 1) % WORD /\ out' = data[nread % PIPESIZE]
        /\ UNCHANGED <<data, nwrite, readopen, writeopen, freed>>
    BY <1>2, Zenon DEF ReadByte, At
  <2>2. CountInv' /\ readopen = 1 /\ freed = 0 /\ Queue # <<>>
        /\ Head(Queue) = data[nread % PIPESIZE] /\ Queue' = Tail(Queue)
    BY <2>1, TakeStep, Zenon
  <2>3. Abstract!Get
    BY <2>1, <2>2, Zenon DEF Abstract!Get
  <2> QED BY <2>2, <2>3, Zenon DEF Abstract!Next
<1>3. ASSUME NEW p \in Proc, ReadFault(p)
      PROVE  CountInv' /\ Abstract!Next
  <2>1. pc[p] = "copy" /\ ~Empty /\ nread' = (nread + 1) % WORD
        /\ UNCHANGED <<data, nwrite, readopen, writeopen, freed, out>>
    BY <1>3, Zenon DEF ReadFault, At
  <2>2. CountInv' /\ readopen = 1 /\ freed = 0 /\ Queue # <<>> /\ Queue' = Tail(Queue)
    BY <2>1, TakeStep, Zenon
  <2>3. Abstract!Lose
    BY <2>1, <2>2, Zenon DEF Abstract!Lose
  <2> QED BY <2>2, <2>3, Zenon DEF Abstract!Next
<1>4. ASSUME NEW p \in Proc, PipeClose(p)
      PROVE  CountInv' /\ Abstract!Next
  BY <1>4, CloseStep, Zenon DEF Abstract!Next
<1>5. ASSUME NEW p \in Proc,
             \/ WriteCheck(p) \/ WriteSleep(p) \/ WriteReturn(p)
             \/ ReadCheck(p) \/ ReadSleep(p) \/ ReadReturn(p) \/ Reacquire(p)
      PROVE  Quiet
  BY <1>5, Zenon DEF WriteCheck, WriteSleep, WriteReturn, ReadCheck, ReadSleep, ReadReturn,
     Reacquire, Quiet, pipe
<1>6. ASSUME NEW p \in Proc, UserStep(p) \/ Kill(p)
      PROVE  Quiet
  BY <1>6, Zenon DEF UserStep, WriteCall, ReadCall, CloseFd, Fork, Exit, Kill, Quiet, pipe
<1>7. ASSUME UNCHANGED vars PROVE Quiet
  BY <1>7, Zenon DEF vars, Quiet
<1>8. Quiet => CountInv' /\ UNCHANGED Abstract!vars
  BY QuietStep, Zenon
<1>9. \/ Quiet \/ \E p \in Proc : ReadByte(p) \/ ReadFault(p) \/ PipeClose(p)
      \/ \E p \in Proc, b \in Byte : WriteByte(p, b)
  BY <1>5, <1>6, <1>7, Zenon DEF Next, Over, Syscall
<1> QED BY <1>1, <1>2, <1>3, <1>4, <1>8, <1>9, Zenon

\* The pipe implements the byte queue: bytes are delivered once and in the
\* order they were written, however the ring and the counters wrap around and
\* readers, writers, closes and kills interleave.
THEOREM PipeRefinesByteQueue == Spec => RefinesByteQueue
<1>1. Init => CountInv /\ Abstract!Init
  BY InitQueue, Zenon
<1>2. PipeInv /\ CountInv /\ [Next]_vars => CountInv' /\ [Abstract!Next]_(Abstract!vars)
  BY QueueStep, Zenon
<1> QED BY <1>1, <1>2, InvariantHolds, PTL DEF Spec, RefinesByteQueue, Abstract!Spec
=============================================================================
