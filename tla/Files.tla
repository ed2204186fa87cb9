------------------------------- MODULE Files --------------------------------
(***************************************************************************)
(* kernel/file.c, the file descriptors of kernel/sysfile.c and the half of *)
(* kernel/fs.c that keeps file contents in blocks: the bitmap, bmap,       *)
(* itrunc, readi and writei, with crashes.                                 *)
(*                                                                         *)
(* A step is a critical section of ftable.lock, or one round of writei's   *)
(* loop under the inode's sleep lock.  Names are in module FileSys: a call *)
(* gets its inode by number.  The bytes in a pipe are in module Pipe: a    *)
(* pipe is its two open flags.  What the log makes durable, and when, is   *)
(* what module Log shows: everything logged, when the last call ends.  A   *)
(* block holds BSIZE bytes or, as an indirect block, BSIZE block numbers.  *)
(***************************************************************************)
EXTENDS Naturals, Sequences, FiniteSets, FiniteSetsExt

CONSTANTS Proc, Init1,  \* processes, and the one that runs first
          NOFILE,       \* descriptors of a process
          File,         \* entries of the file table, numbers
          Ino, Block,   \* inodes; data blocks, numbers from 1 on
          PipeId,
          NDIRECT, BSIZE,
          CHUNK,        \* what filewrite writes in one transaction
          Bufs,         \* what is written, sequences of bytes other than 0
          Mode,         \* the modes of open
          Scenario,     \* the system calls that are made, and a bound on them
          None

ASSUME FilesAssumption ==
  /\ Init1 \in Proc
  /\ NOFILE \in Nat \ {0} /\ BSIZE \in Nat \ {0} /\ NDIRECT \in Nat /\ CHUNK \in Nat \ {0}
  /\ Block \subseteq Nat \ {0} /\ File \subseteq Nat /\ Bufs \subseteq Seq(Nat \ {0})
  /\ None \notin File \cup Ino \cup Proc

VARIABLES
  used,      \* the bitmap: blocks in use
  data,      \* blocks, as the buffer cache holds them
  inode,     \* inodes: nlink (0 if free or unlinked), type, size, addrs
  text,      \* for each byte of a file, the values that reading it may return
  logged,    \* blocks of the open transaction
  committed, \* used, data, inode and text after a crash and recovery
  iref,      \* references to the inode in the inode table
  lock,      \* the holder of the inode's sleep lock
  ftable, ofile, pipe,
  st,        \* what each process does
  calls, scenario

disk == <<used, data, inode, text, logged>>
vars == <<used, data, inode, text, logged, committed, iref, lock, ftable, ofile, pipe, st, calls, scenario>>

FD == 0 .. NOFILE - 1
NINDIRECT == BSIZE
MAXFILE == NDIRECT + NINDIRECT
Zeroes == [k \in 0 .. BSIZE - 1 |-> 0]
EmptyInode == [type |-> "file", nlink |-> 1, size |-> 0, addrs |-> [k \in 0 .. NDIRECT |-> 0]]
FreeInode == [EmptyInode EXCEPT !.type = "free", !.nlink = 0]
FreeFile == [ref |-> 0, type |-> "none", readable |-> FALSE, writable |-> FALSE, ip |-> None, off |-> 0, pipe |-> None]
User == [pc |-> "user", fs |-> <<>>, ip |-> None, put |-> None, then |-> "user", f |-> None, buf |-> <<>>, i |-> 0, tot |-> 0, child |-> None]
Unused == [User EXCEPT !.pc = "unused"]

Init ==
  /\ used = {} /\ data = [b \in Block |-> Zeroes] /\ logged = {}
  /\ inode = [i \in Ino |-> EmptyInode] /\ text = [i \in Ino |-> <<>>]
  /\ committed = [used |-> used, data |-> data, inode |-> inode, text |-> text]
  /\ iref = [i \in Ino |-> 0] /\ lock = [i \in Ino |-> None]
  /\ ftable = [f \in File |-> FreeFile]
  /\ ofile = [p \in Proc |-> [d \in FD |-> None]]
  /\ pipe = [q \in PipeId |-> {}]
  /\ \E running \in {{Init1}, Proc} : st = [p \in Proc |-> IF p \in running THEN User ELSE Unused]
  /\ calls = 0 /\ scenario \in Scenario

\* Process p makes system call c.
Call(p, c) == st[p].pc = "user" /\ c \in scenario.calls /\ calls < scenario.max /\ calls' = calls + 1
Goto(p, pc) == st' = [st EXCEPT ![p].pc = pc]

-----------------------------------------------------------------------------
(* fs.c: blocks *)

\* The block that balloc finds, 0 if the disk is full.
Balloc(U) == IF U = Block THEN 0 ELSE Min(Block \ U)

\* bmap without allocation: the block that holds block bn of inode i, or 0.
Mapped(I, D, i, bn) ==
  IF bn < NDIRECT THEN I[i].addrs[bn]
  ELSE IF I[i].addrs[NDIRECT] = 0 THEN 0
  ELSE D[I[i].addrs[NDIRECT]][bn - NDIRECT]

\* bmap: the block, 0 if the disk is full, and what becomes of bitmap, blocks
\* and inode; an indirect block that was found is kept even if no other is.
Bmap(i, bn) ==
  LET direct == bn < NDIRECT
      old == Mapped(inode, data, i, bn)
      ind == IF direct \/ inode[i].addrs[NDIRECT] # 0 THEN inode[i].addrs[NDIRECT] ELSE Balloc(used)
      addr == IF old # 0 THEN old
              ELSE IF ~direct /\ ind = 0 THEN 0 ELSE Balloc(used \cup ({ind} \ {0}))
      new == {ind, addr} \ (used \cup {0})
      zeroed == [b \in Block |-> IF b \in new THEN Zeroes ELSE data[b]]
  IN  [addr |-> addr, used |-> used \cup new,
       logged |-> logged \cup new \cup IF direct \/ new = {} THEN {} ELSE {ind},
       data |-> IF direct \/ addr = 0 THEN zeroed ELSE [zeroed EXCEPT ![ind][bn - NDIRECT] = addr],
       addrs |-> [inode[i].addrs EXCEPT ![IF direct THEN bn ELSE NDIRECT] = IF direct THEN addr ELSE ind]]

\* The blocks of an inode: direct, indirect and those in the indirect block.
Blocks(I, D, i) ==
  ({I[i].addrs[k] : k \in 0 .. NDIRECT}
    \cup IF I[i].addrs[NDIRECT] = 0 THEN {} ELSE {D[I[i].addrs[NDIRECT]][k] : k \in 0 .. NINDIRECT - 1}) \ {0}

\* Mutant: the blocks named in the indirect block are not freed.
ITruncDirect(i, I) ==
  /\ used' = used \ {inode[i].addrs[k] : k \in 0 .. NDIRECT}
  /\ inode' = [inode EXCEPT ![i] = I]
  /\ text' = [text EXCEPT ![i] = <<>>]
  /\ UNCHANGED <<data, logged>>

\* itrunc: every block goes back to the bitmap; I is what the inode becomes.
ITrunc(i, I) ==
  /\ used' = used \ Blocks(inode, data, i)
  /\ inode' = [inode EXCEPT ![i] = I]
  /\ text' = [text EXCEPT ![i] = <<>>]
  /\ UNCHANGED <<data, logged>>

Truncated(i) == [inode[i] EXCEPT !.size = 0, !.addrs = EmptyInode.addrs]

\* iput: the last reference to an unlinked inode frees it and its content.
IPut(i) ==
  /\ iref' = [iref EXCEPT ![i] = @ - 1]
  /\ IF iref[i] = 1 /\ inode[i].nlink = 0 THEN ITrunc(i, FreeInode) ELSE UNCHANGED disk

\* end_op: the last call to end commits what was logged.
InOp(p) == st[p].pc \in {"open", "openfd", "openput", "block", "endop"}
EndOp(p) ==
  /\ st[p].pc = "endop"
  /\ IF \E q \in Proc \ {p} : InOp(q) THEN UNCHANGED <<logged, committed>>
     ELSE /\ committed' = [used |-> used, inode |-> inode, text |-> text,
                           data |-> [b \in Block |-> IF b \in logged THEN data[b] ELSE committed.data[b]]]
          /\ logged' = {}
  /\ st' = [st EXCEPT ![p] = IF @.then = "user" THEN User ELSE [st[p] EXCEPT !.pc = st[p].then]]
  /\ UNCHANGED <<used, data, inode, text, iref, lock, ftable, ofile, pipe, calls, scenario>>

\* The buffer of a block that is not in the log is used for another block.
Evict(b) ==
  /\ b \notin logged /\ data[b] # committed.data[b]
  /\ data' = [data EXCEPT ![b] = committed.data[b]]
  /\ UNCHANGED <<used, inode, text, logged, committed, iref, lock, ftable, ofile, pipe, st, calls, scenario>>

-----------------------------------------------------------------------------
(* file.c: the file table *)

\* filealloc and fdalloc take the first that is free.
FileAlloc == LET free == {f \in File : ftable[f].ref = 0} IN {f \in free : f = Min(free)}
FdAlloc(o) == LET free == {d \in FD : o[d] = None} IN {d \in free : d = Min(free)}

\* Mutant: the type of a closed file stays.
FileCloseStale(p, f, s) ==
  /\ ftable' = [ftable EXCEPT ![f] = IF @.ref > 1 THEN [@ EXCEPT !.ref = @ - 1] ELSE [@ EXCEPT !.ref = 0]]
  /\ IF ftable[f].ref = 1 /\ ftable[f].type = "inode"
     THEN st' = [st EXCEPT ![p] = [s EXCEPT !.pc = "put", !.put = ftable[f].ip, !.then = s.pc]] /\ UNCHANGED pipe
     ELSE /\ st' = [st EXCEPT ![p] = s]
          /\ pipe' = IF ftable[f].ref = 1 /\ ftable[f].type = "pipe"
                     THEN [pipe EXCEPT ![ftable[f].pipe] = @ \ {ftable[f].writable}] ELSE pipe

\* fileclose: the last reference closes the end of the pipe, or puts the inode
\* in a transaction of its own.  Process p goes on as s.
FileClose(p, f, s) ==
  /\ ftable' = [ftable EXCEPT ![f] = IF @.ref > 1 THEN [@ EXCEPT !.ref = @ - 1] ELSE FreeFile]
  /\ IF ftable[f].ref = 1 /\ ftable[f].type = "inode"
     THEN st' = [st EXCEPT ![p] = [s EXCEPT !.pc = "put", !.put = ftable[f].ip, !.then = s.pc]] /\ UNCHANGED pipe
     ELSE /\ st' = [st EXCEPT ![p] = s]
          /\ pipe' = IF ftable[f].ref = 1 /\ ftable[f].type = "pipe"
                     THEN [pipe EXCEPT ![ftable[f].pipe] = @ \ {ftable[f].writable}] ELSE pipe

Put(p) ==
  /\ st[p].pc = "put"
  /\ IPut(st[p].put)
  /\ st' = [st EXCEPT ![p].pc = "endop", ![p].put = None]
  /\ UNCHANGED <<committed, lock, ftable, ofile, pipe, calls, scenario>>

Close(p, d) ==
  /\ Call(p, "close") /\ ofile[p][d] # None
  /\ ofile' = [ofile EXCEPT ![p][d] = None]
  /\ FileClose(p, ofile[p][d], User)
  /\ UNCHANGED <<disk, committed, iref, lock, scenario>>

Dup(p, d) ==
  /\ Call(p, "dup") /\ ofile[p][d] # None
  /\ \E e \in FdAlloc(ofile[p]) : ofile' = [ofile EXCEPT ![p][e] = ofile[p][d]]
  /\ ftable' = [ftable EXCEPT ![ofile[p][d]].ref = @ + 1]
  /\ UNCHANGED <<disk, committed, iref, lock, pipe, st, scenario>>

-----------------------------------------------------------------------------
(* sys_open, from the inode on, and the last step of sys_unlink *)

\* namei or create has found the inode or made it.
OpenInode(p, i) ==
  /\ Call(p, "open")
  /\ \/ inode[i].nlink > 0 /\ UNCHANGED inode
     \/ inode[i].type = "free" /\ inode' = [inode EXCEPT ![i] = EmptyInode]
  /\ iref' = [iref EXCEPT ![i] = @ + 1]
  /\ st' = [st EXCEPT ![p] = [User EXCEPT !.pc = "open", !.ip = i]]
  /\ UNCHANGED <<used, data, text, logged, committed, lock, ftable, ofile, pipe, scenario>>

OpenFile(p) ==
  LET i == st[p].ip
  IN  /\ st[p].pc = "open" /\ lock[i] = None
      /\ lock' = [lock EXCEPT ![i] = p]
      /\ \/ \E f \in FileAlloc :
             /\ ftable' = [ftable EXCEPT ![f].ref = 1]
             /\ st' = [st EXCEPT ![p].pc = "openfd", ![p].fs = <<f>>]
         \/ FileAlloc = {} /\ Goto(p, "openput") /\ UNCHANGED ftable
      /\ UNCHANGED <<disk, committed, iref, ofile, pipe, calls, scenario>>

\* The file is set up and, with O_TRUNC, the inode truncated.
OpenFd(p, readable, writable, trunc) ==
  LET i == st[p].ip
      f == st[p].fs[1]
  IN  /\ st[p].pc = "openfd"
      /\ \E d \in FdAlloc(ofile[p]) : ofile' = [ofile EXCEPT ![p][d] = f]
      /\ ftable' = [ftable EXCEPT ![f].type = "inode", ![f].off = 0, ![f].ip = i,
                                  ![f].readable = readable, ![f].writable = writable]
      /\ IF trunc THEN ITrunc(i, Truncated(i)) ELSE UNCHANGED disk
      /\ lock' = [lock EXCEPT ![i] = None]
      /\ st' = [st EXCEPT ![p] = [User EXCEPT !.pc = "endop"]]
      /\ UNCHANGED <<committed, iref, pipe, calls, scenario>>

OpenNoFd(p) ==
  /\ st[p].pc = "openfd" /\ FdAlloc(ofile[p]) = {}
  /\ FileClose(p, st[p].fs[1], [st[p] EXCEPT !.pc = "openput", !.fs = <<>>])
  /\ UNCHANGED <<disk, committed, iref, lock, ofile, calls, scenario>>

\* iunlockput, when there was no file or no descriptor.
OpenPut(p) ==
  /\ st[p].pc = "openput"
  /\ lock' = [lock EXCEPT ![st[p].ip] = None]
  /\ IPut(st[p].ip)
  /\ st' = [st EXCEPT ![p] = [User EXCEPT !.pc = "endop"]]
  /\ UNCHANGED <<committed, ftable, ofile, pipe, calls, scenario>>

\* The last name goes; without references, the inode goes too.
Unlink(p, i) ==
  /\ Call(p, "unlink") /\ inode[i].nlink > 0 /\ lock[i] = None
  /\ IF iref[i] = 0 THEN ITrunc(i, FreeInode)
     ELSE inode' = [inode EXCEPT ![i].nlink = 0] /\ UNCHANGED <<used, data, text, logged>>
  /\ st' = [st EXCEPT ![p] = [User EXCEPT !.pc = "endop"]]
  /\ UNCHANGED <<committed, iref, lock, ftable, ofile, pipe, scenario>>

-----------------------------------------------------------------------------
(* read and write *)

\* fileread: the offset advances by what readi finds; a failing copyout moves
\* nothing.
Read(p, d, n) ==
  LET f == ofile[p][d]
      i == ftable[f].ip
  IN  /\ Call(p, "read") /\ f # None
      /\ ftable[f].type = "inode" /\ ftable[f].readable /\ lock[i] = None
      /\ ftable[f].off < inode[i].size
      /\ ftable' = [ftable EXCEPT ![f].off = Min({@ + n, inode[i].size})]
      /\ UNCHANGED <<disk, committed, iref, lock, ofile, pipe, st, scenario>>

Write(p, d, buf) ==
  LET f == ofile[p][d]
  IN  /\ Call(p, "write") /\ f # None
      /\ ftable[f].type = "inode" /\ ftable[f].writable
      /\ st' = [st EXCEPT ![p] = [User EXCEPT !.pc = "write", !.f = f, !.ip = ftable[f].ip, !.buf = buf]]
      /\ UNCHANGED <<disk, committed, iref, lock, ftable, ofile, pipe, scenario>>

\* What filewrite asks writei for: the rest of the buffer, or a chunk of it.
ChunkLen(s) == Min({CHUNK, Len(s.buf) - s.i})

\* filewrite's loop, up to the tests of writei.
WriteChunk(p) ==
  LET s == st[p]
      off == ftable[s.f].off
  IN  /\ s.pc = "write" /\ lock[s.ip] = None
      /\ IF off > inode[s.ip].size \/ off + ChunkLen(s) > MAXFILE * BSIZE
         THEN st' = [st EXCEPT ![p] = [User EXCEPT !.pc = "endop"]] /\ UNCHANGED lock
         ELSE Goto(p, "block") /\ lock' = [lock EXCEPT ![s.ip] = p]
      /\ UNCHANGED <<disk, committed, iref, ftable, ofile, pipe, calls, scenario>>

\* The values that reading may return, after k bytes of buf, from its byte from
\* on, went to offset off; sure says whether they all did.
Rewritten(t, buf, from, off, k, sure) ==
  [j \in 1 .. (IF sure /\ off + k > Len(t) THEN off + k ELSE Len(t)) |->
     IF j <= off \/ j > off + k THEN t[j]
     ELSE {buf[from + j - off]} \cup IF sure THEN {} ELSE t[j]]

\* Mutant: writei relies on balloc to log the block.
LogWriteNew(blocks, b) == blocks

LogWrite(blocks, b) == blocks \cup {b}

\* A round of writei's loop, in which copyin moves k bytes.  Less than all of
\* them, or no block, ends the loop; the bytes that were moved stay in the
\* buffer, though the block is not logged for them.  With the loop the chunk
\* ends: size, offset, lock.
WriteBlock(p, k) ==
  LET s == st[p]
      off == ftable[s.f].off + s.tot
      at == off % BSIZE
      m == Min({ChunkLen(s) - s.tot, BSIZE - at})
  IN  /\ s.pc = "block" /\ k <= m
      /\ \E b \in {Bmap(s.ip, off \div BSIZE)} :
         LET ok == b.addr # 0 /\ k = m
             tot == IF ok THEN s.tot + m ELSE s.tot
             done == ~ok \/ tot = ChunkLen(s)
             end == ftable[s.f].off + tot
             more == done /\ ok /\ s.i + tot < Len(s.buf)
         IN
         /\ b.addr = 0 => k = 0
         /\ used' = b.used
         /\ logged' = IF ok THEN LogWrite(b.logged, b.addr) ELSE b.logged
         /\ data' = IF b.addr = 0 THEN b.data
                    ELSE [b.data EXCEPT ![b.addr] = [j \in 0 .. BSIZE - 1 |->
                           IF j \in at .. at + k - 1
                           THEN s.buf[s.i + s.tot + 1 + j - at] ELSE @[j]]]
         /\ text' = [text EXCEPT ![s.ip] = Rewritten(@, s.buf, s.i + s.tot, off, k, ok)]
         /\ inode' = [inode EXCEPT ![s.ip].addrs = b.addrs,
                                   ![s.ip].size = IF done /\ end > @ THEN end ELSE @]
         /\ ftable' = IF done THEN [ftable EXCEPT ![s.f].off = end] ELSE ftable
         /\ lock' = IF done THEN [lock EXCEPT ![s.ip] = None] ELSE lock
         /\ st' = [st EXCEPT ![p] = IF more THEN [s EXCEPT !.pc = "endop", !.then = "write", !.i = @ + tot, !.tot = 0]
                                    ELSE IF done THEN [User EXCEPT !.pc = "endop"]
                                    ELSE [s EXCEPT !.tot = tot]]
      /\ UNCHANGED <<committed, iref, ofile, pipe, calls, scenario>>

-----------------------------------------------------------------------------
(* sys_pipe, fork and exit *)

\* pipealloc: a file for each end and a page; whatever is missing, the files
\* that were found are closed again.
PipeFile(p) ==
  /\ IF st[p].pc = "user" THEN Call(p, "pipe") ELSE st[p].pc = "pipe" /\ UNCHANGED calls
  /\ \/ \E f \in FileAlloc :
          /\ ftable' = [ftable EXCEPT ![f].ref = 1]
          /\ st' = [st EXCEPT ![p] = [User EXCEPT !.fs = Append(st[p].fs, f),
                                      !.pc = IF st[p].pc = "user" THEN "pipe" ELSE "pipepage"]]
     \/ FileAlloc = {} /\ Goto(p, "undo") /\ UNCHANGED ftable
  /\ UNCHANGED <<disk, committed, iref, lock, ofile, pipe, scenario>>

\* kalloc, which may fail; the pipe's ends are FALSE, for reading, and TRUE.
PipePage(p) ==
  LET fs == st[p].fs
      end(q, w) == [ref |-> 1, type |-> "pipe", readable |-> ~w, writable |-> w, ip |-> None, off |-> 0, pipe |-> q]
  IN  /\ st[p].pc = "pipepage"
      /\ \/ Goto(p, "undo") /\ UNCHANGED <<pipe, ftable>>
         \/ \E q \in PipeId :
              /\ pipe[q] = {} /\ pipe' = [pipe EXCEPT ![q] = {FALSE, TRUE}]
              /\ ftable' = [ftable EXCEPT ![fs[1]] = end(q, FALSE), ![fs[2]] = end(q, TRUE)]
              /\ Goto(p, "pipefds")
      /\ UNCHANGED <<disk, committed, iref, lock, ofile, calls, scenario>>

\* Two descriptors, and the copyouts, which may fail.
PipeFds(p) ==
  LET fs == st[p].fs
  IN  /\ st[p].pc = "pipefds"
      /\ \/ \E d \in FdAlloc(ofile[p]) : \E e \in FdAlloc([ofile[p] EXCEPT ![d] = fs[1]]) :
              /\ ofile' = [ofile EXCEPT ![p][d] = fs[1], ![p][e] = fs[2]]
              /\ st' = [st EXCEPT ![p] = User]
         \/ Goto(p, "undo") /\ UNCHANGED ofile
      /\ UNCHANGED <<disk, committed, iref, lock, ftable, pipe, calls, scenario>>

\* The descriptors are cleared and the files closed, one after the other.
PipeUndo(p) ==
  /\ st[p].pc = "undo"
  /\ IF st[p].fs = <<>> THEN st' = [st EXCEPT ![p] = User] /\ UNCHANGED <<ftable, pipe>>
     ELSE FileClose(p, st[p].fs[1], [st[p] EXCEPT !.fs = Tail(@)])
  /\ UNCHANGED <<disk, committed, iref, lock, ofile, calls, scenario>>

\* fork: the child, not yet running, gets the parent's files one by one.
Fork(p, c) ==
  /\ Call(p, "fork") /\ st[c].pc = "unused"
  /\ st' = [st EXCEPT ![p].pc = "fork", ![p].child = c, ![c].pc = "embryo"]
  /\ UNCHANGED <<disk, committed, iref, lock, ftable, ofile, pipe, scenario>>

ForkDup(p) ==
  LET c == st[p].child
      left == {d \in FD : ofile[p][d] # None /\ ofile[c][d] = None}
  IN  /\ st[p].pc = "fork"
      /\ IF left = {} THEN st' = [st EXCEPT ![p] = User, ![c] = User] /\ UNCHANGED <<ftable, ofile>>
         ELSE /\ ofile' = [ofile EXCEPT ![c][Min(left)] = ofile[p][Min(left)]]
              /\ ftable' = [ftable EXCEPT ![ofile[p][Min(left)]].ref = @ + 1]
              /\ UNCHANGED st
      /\ UNCHANGED <<disk, committed, iref, lock, pipe, calls, scenario>>

Exit(p) ==
  /\ p # Init1 /\ Call(p, "exit")
  /\ Goto(p, "exit")
  /\ UNCHANGED <<disk, committed, iref, lock, ftable, ofile, pipe, scenario>>

ExitClose(p) ==
  LET left == {d \in FD : ofile[p][d] # None}
  IN  /\ st[p].pc = "exit"
      /\ IF left = {} THEN st' = [st EXCEPT ![p] = Unused] /\ UNCHANGED <<ftable, ofile, pipe>>
         ELSE /\ ofile' = [ofile EXCEPT ![p][Min(left)] = None]
              /\ FileClose(p, ofile[p][Min(left)], [User EXCEPT !.pc = "exit"])
      /\ UNCHANGED <<disk, committed, iref, lock, calls, scenario>>

\* What is in memory is lost; the log brings the disk to its last commit.
Crash ==
  /\ "crash" \in scenario.calls
  /\ used' = committed.used /\ data' = committed.data /\ inode' = committed.inode /\ text' = committed.text
  /\ logged' = {}
  /\ iref' = [i \in Ino |-> 0] /\ lock' = [i \in Ino |-> None]
  /\ ftable' = [f \in File |-> FreeFile]
  /\ ofile' = [p \in Proc |-> [d \in FD |-> None]]
  /\ pipe' = [q \in PipeId |-> {}]
  /\ st' = [p \in Proc |-> IF p = Init1 THEN User ELSE Unused]
  /\ UNCHANGED <<committed, calls, scenario>>

Next ==
  \/ \E p \in Proc :
       \/ \E d \in FD : Close(p, d) \/ Dup(p, d) \/ (\E n \in 1 .. BSIZE : Read(p, d, n))
                       \/ (\E buf \in Bufs : Write(p, d, buf))
       \/ \E i \in Ino : OpenInode(p, i) \/ Unlink(p, i)
       \/ \E m \in Mode : OpenFd(p, m.readable, m.writable, m.trunc)
       \/ OpenFile(p) \/ OpenNoFd(p) \/ OpenPut(p) \/ Put(p) \/ EndOp(p)
       \/ WriteChunk(p) \/ (\E k \in 0 .. BSIZE : WriteBlock(p, k))
       \/ PipeFile(p) \/ PipePage(p) \/ PipeFds(p) \/ PipeUndo(p)
       \/ (\E c \in Proc : Fork(p, c)) \/ ForkDup(p) \/ Exit(p) \/ ExitClose(p)
  \/ \E b \in Block : Evict(b)
  \/ Crash

Spec == Init /\ [][Next]_vars

-----------------------------------------------------------------------------
Held(f) == Cardinality({<<p, d>> \in Proc \X FD : ofile[p][d] = f})
         + Cardinality({p \in Proc : \E k \in DOMAIN st[p].fs : st[p].fs[k] = f})

\* A file's count is the number of descriptors that refer to it, in all
\* processes, and of calls that hold it; an inode's is that of the open files
\* and of the calls that hold it; and a pipe end is open exactly as long as its
\* file is.  Failed opens and pipes, forks and exits leave no count behind.
RefsExact ==
  /\ \A f \in File : ftable[f].ref = Held(f) /\ (ftable[f].ref = 0 => ftable[f].type = "none")
  /\ \A i \in Ino : iref[i] = Cardinality({f \in File : ftable[f].type = "inode" /\ ftable[f].ip = i})
                           + Cardinality({p \in Proc : st[p].put = i})
                           + Cardinality({p \in Proc : st[p].pc \in {"open", "openfd", "openput"} /\ st[p].ip = i})
  /\ \A q \in PipeId, w \in BOOLEAN : w \in pipe[q] <=>
       \E f \in File : ftable[f].type = "pipe" /\ ftable[f].pipe = q /\ ftable[f].writable = w
  /\ \A p \in Proc : st[p].f # None => ftable[st[p].f].ref > 0

DiskStates == {[used |-> used, data |-> data, inode |-> inode, text |-> text], committed}

\* How often block b is named by an inode or an indirect block.
Named(D, b) ==
  Cardinality({<<i, k>> \in Ino \X (0 .. NDIRECT) : D.inode[i].addrs[k] = b})
  + Cardinality({<<i, k>> \in Ino \X (0 .. NINDIRECT - 1) :
                  D.inode[i].addrs[NDIRECT] # 0 /\ D.data[D.inode[i].addrs[NDIRECT]][k] = b})

\* Every block in use belongs to one place of one file and every other block to
\* none, also after failed writes, on a full disk and after a crash; and a file
\* has a block for each of its bytes, so that readi, which runs outside of
\* transactions, never makes bmap allocate one.
BlocksOwned ==
  \A D \in DiskStates :
    /\ \A b \in Block : Named(D, b) = IF b \in D.used THEN 1 ELSE 0
    /\ \A i \in Ino : \A j \in 0 .. MAXFILE * BSIZE - 1 :
         j < D.inode[i].size => Mapped(D.inode, D.data, i, j \div BSIZE) # 0

\* A file reads back as what was written to it, whatever happened to other
\* files and whoever used its blocks before, and so it does after a crash; only
\* bytes that a failed write was about to replace may have either value.
ContentsKept ==
  \A D \in DiskStates : \A i \in Ino :
    /\ Len(D.text[i]) >= D.inode[i].size
    /\ \A j \in 0 .. MAXFILE * BSIZE - 1 :
         j < D.inode[i].size => D.data[Mapped(D.inode, D.data, i, j \div BSIZE)][j % BSIZE] \in D.text[i][j + 1]
=============================================================================
